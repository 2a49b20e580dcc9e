-------------------------- MODULE InodeContentProofs --------------------------
(***************************************************************************)
(* What the in-core inodes hold, for any number of tasks and any size of   *)
(* the table and the file system: as long as no task has met one of the    *)
(* windows that variable hit records, no update of an inode is lost, and   *)
(* the inode bitmap has exactly the files that are in use.                 *)
(*                                                                         *)
(* TableOK relates the table to the bitmap, the disk and what the files    *)
(* should be; LockInv says whose lock each locked inode has; Mine(t) says  *)
(* what a task in the middle of iget, iput, new_inode, free_inode or       *)
(* sync_inodes relies on while it sleeps.  A step of one task keeps what   *)
(* the others rely on when it is Gentle.                                   *)
(***************************************************************************)
EXTENDS InodeTableProofs
(* One inode r of the table, at index i; RD are the inodes being read.      *)
Row(RD, IM, DK, EN, i, r) ==
    /\ r.num = 0 => ~r.dirt /\ ~r.lock
    /\ r.num # 0 =>
         /\ r.num \in IM
         /\ i \notin RD => r.nlinks = EN[r.num]
         /\ ~r.dirt => DK[r.num] = EN[r.num]
         /\ r.count = 0 => EN[r.num] > 0

(* No file has two copies in core.                                          *)
OneCopy(I) == \A i, j \in Table : I[i].num = I[j].num /\ i # j => I[i].num = 0

(* What is allocated and not in core is on disk as it should be, and has a  *)
(* name; what is not allocated has none.                                    *)
Absent(I, IM, DK, EN) ==
    \A n \in IM : (\A i \in Table : I[i].num # n) => DK[n] = EN[n] /\ EN[n] > 0
Unnamed(IM, EN) == \A n \in Nums \ IM : EN[n] = 0

TableOK(I, RD, IM, DK, EN) ==
    /\ \A i \in Table : Row(RD, IM, DK, EN, i, I[i])
    /\ OneCopy(I) /\ Absent(I, IM, DK, EN) /\ Unnamed(IM, EN)

OneRow(I, C, i) == \A j \in Table \ {i} : C[j] = I[j]
SameReaders(RD, R2, i) == \A j \in Table \ {i} : j \in R2 <=> j \in RD

(* An inode keeps its number.                                               *)
LEMMA RowTable ==
    ASSUME NEW I, NEW RD, NEW IM, NEW DK, NEW EN, TableOK(I, RD, IM, DK, EN),
           NEW i \in Table, NEW C, NEW R2, OneRow(I, C, i), SameReaders(RD, R2, i),
           C[i].num = I[i].num, Row(R2, IM, DK, EN, i, C[i])
    PROVE  TableOK(C, R2, IM, DK, EN)
<1>1. \A j \in Table : C[j].num = I[j].num
  BY Zenon DEF OneRow
<1>2. ASSUME NEW j \in Table PROVE Row(R2, IM, DK, EN, j, C[j])
  <2>1. CASE j = i
    BY <2>1, Zenon
  <2>2. CASE j # i
    BY <2>2, Zenon DEF OneRow, SameReaders, TableOK, Row
  <2>. QED BY <2>1, <2>2, Zenon
<1>3. OneCopy(C)
  BY <1>1, Zenon DEF TableOK, OneCopy
<1>4. Absent(C, IM, DK, EN)
  BY <1>1, Zenon DEF TableOK, Absent
<1>. QED BY <1>2, <1>3, <1>4, Zenon DEF TableOK

(* Only counts change, and a count of 0 is left to a file with a name.      *)
LEMMA CountTable ==
    ASSUME NEW I, NEW RD, NEW IM, NEW DK, NEW EN, TableOK(I, RD, IM, DK, EN), NEW C,
           \A j \in Table : /\ C[j].num = I[j].num /\ C[j].lock = I[j].lock
                            /\ C[j].dirt = I[j].dirt /\ C[j].nlinks = I[j].nlinks
                            /\ C[j].num # 0 /\ C[j].count = 0 => EN[C[j].num] > 0
    PROVE  TableOK(C, RD, IM, DK, EN)
<1>1. ASSUME NEW j \in Table PROVE Row(RD, IM, DK, EN, j, C[j])
  <2>1. Row(RD, IM, DK, EN, j, I[j])
    BY Zenon DEF TableOK
  <2>. QED BY <2>1, Zenon DEF Row
<1>2. OneCopy(C)
  BY ZenonT(60) DEF TableOK, OneCopy
<1>3. Absent(C, IM, DK, EN)
  BY Zenon DEF TableOK, Absent
<1>. QED BY <1>1, <1>2, <1>3, Zenon DEF TableOK

(* The end of write_inode.                                                  *)
LEMMA WriteTable ==
    ASSUME NEW I, NEW RD, NEW IM \in SUBSET Nums, NEW DK, DOMAIN DK = Nums, NEW EN,
           TableOK(I, RD, IM, DK, EN), NEW i \in Table, NEW C, OneRow(I, C, i),
           I[i].num # 0, i \notin RD,
           C[i].num = I[i].num, C[i].nlinks = I[i].nlinks, C[i].count = I[i].count
    PROVE  TableOK(C, RD, IM, [DK EXCEPT ![I[i].num] = I[i].nlinks], EN)
<1>. DEFINE n == I[i].num
            DL == [DK EXCEPT ![n] = I[i].nlinks]
<1>0. Row(RD, IM, DK, EN, i, I[i])
  BY Zenon DEF TableOK
<1>1. n \in IM /\ n \in Nums /\ I[i].nlinks = EN[n]
  BY <1>0, Zenon DEF Row
<1>2. DL[n] = EN[n] /\ \A m \in Nums \ {n} : DL[m] = DK[m]
  BY <1>1
<1>. HIDE DEF DL
<1>3. \A j \in Table : C[j].num = I[j].num
  BY Zenon DEF OneRow
<1>4. ASSUME NEW j \in Table PROVE Row(RD, IM, DL, EN, j, C[j])
  <2>1. CASE j = i
    BY <1>0, <1>1, <1>2, <2>1, Zenon DEF Row
  <2>2. CASE j # i
    <3>1. Row(RD, IM, DK, EN, j, I[j]) /\ C[j] = I[j]
      BY <2>2, Zenon DEF TableOK, OneRow
    <3>2. I[j].num # 0 => I[j].num # n
      BY <2>2, Zenon DEF TableOK, OneCopy
    <3>. QED BY <1>2, <3>1, <3>2, Zenon DEF Row
  <2>. QED BY <2>1, <2>2, Zenon
<1>5. OneCopy(C)
  BY <1>3, Zenon DEF TableOK, OneCopy
<1>6. Absent(C, IM, DL, EN)
  <2>. SUFFICES ASSUME NEW m \in IM, \A j \in Table : C[j].num # m PROVE DL[m] = EN[m] /\ EN[m] > 0
    BY Zenon DEF Absent
  <2>1. m # n /\ \A j \in Table : I[j].num # m
    BY <1>3, Zenon
  <2>. QED BY <1>2, <2>1, Zenon DEF TableOK, Absent
<1>7. TableOK(C, RD, IM, DL, EN)
  BY <1>4, <1>5, <1>6, Zenon DEF TableOK
<1>. QED BY <1>7, Zenon DEF DL

(* get_empty_inode: a clean inode that nobody refers to leaves the core.    *)
LEMMA ClaimTable ==
    ASSUME NEW I, NEW RD, NEW IM, NEW DK, NEW EN, TableOK(I, RD, IM, DK, EN),
           NEW i \in Table, NEW C, OneRow(I, C, i), I[i].count = 0, ~I[i].dirt,
           C[i].num = 0, ~C[i].dirt, ~C[i].lock
    PROVE  TableOK(C, RD, IM, DK, EN)
<1>0. Row(RD, IM, DK, EN, i, I[i])
  BY Zenon DEF TableOK
<1>1. ASSUME NEW j \in Table PROVE Row(RD, IM, DK, EN, j, C[j])
  <2>1. CASE j = i
    BY <2>1, Zenon DEF Row
  <2>2. CASE j # i
    BY <2>2, Zenon DEF TableOK, OneRow
  <2>. QED BY <2>1, <2>2, Zenon
<1>2. OneCopy(C)
  <2>. SUFFICES ASSUME NEW j \in Table, NEW k \in Table, C[j].num = C[k].num, j # k PROVE C[j].num = 0
    BY Zenon DEF OneCopy
  <2>1. CASE j # i /\ k # i
    BY <2>1, Zenon DEF TableOK, OneCopy, OneRow
  <2>. QED BY <2>1, Zenon
<1>3. Absent(C, IM, DK, EN)
  <2>. SUFFICES ASSUME NEW m \in IM, \A j \in Table : C[j].num # m PROVE DK[m] = EN[m] /\ EN[m] > 0
    BY Zenon DEF Absent
  <2>1. CASE I[i].num = m
    BY <1>0, <2>1, Zenon DEF Row
  <2>2. CASE I[i].num # m
    <3>1. \A j \in Table : I[j].num # m
      BY <2>2, Zenon DEF OneRow
    <3>. QED BY <3>1, Zenon DEF TableOK, Absent
  <2>. QED BY <2>1, <2>2, Zenon
<1>. QED BY <1>1, <1>2, <1>3, Zenon DEF TableOK

(* iget gives the claimed inode the number it has not found.                *)
LEMMA NameTable ==
    ASSUME NEW I, NEW RD, NEW IM \in SUBSET Nums, NEW DK, NEW EN, TableOK(I, RD, IM, DK, EN),
           NEW i \in Table, NEW C, NEW R2, OneRow(I, C, i), SameReaders(RD, R2, i), i \in R2,
           I[i].num = 0, C[i].num \in IM, C[i].num # 0, \A j \in Table : I[j].num # C[i].num,
           C[i].count # 0
    PROVE  TableOK(C, R2, IM, DK, EN)
<1>0. DK[C[i].num] = EN[C[i].num]
  BY Zenon DEF TableOK, Absent
<1>1. ASSUME NEW j \in Table PROVE Row(R2, IM, DK, EN, j, C[j])
  <2>1. CASE j = i
    BY <1>0, <2>1, Zenon DEF Row
  <2>2. CASE j # i
    BY <2>2, Zenon DEF OneRow, SameReaders, TableOK, Row
  <2>. QED BY <2>1, <2>2, Zenon
<1>2. OneCopy(C)
  <2>. SUFFICES ASSUME NEW j \in Table, NEW k \in Table, C[j].num = C[k].num, j # k PROVE C[j].num = 0
    BY Zenon DEF OneCopy
  <2>1. CASE j # i /\ k # i
    BY <2>1, Zenon DEF TableOK, OneCopy, OneRow
  <2>2. CASE j = i
    BY <2>2, Zenon DEF OneRow
  <2>3. CASE k = i
    BY <2>3, Zenon DEF OneRow
  <2>. QED BY <2>1, <2>2, <2>3, Zenon
<1>3. Absent(C, IM, DK, EN)
  <2>. SUFFICES ASSUME NEW m \in IM, \A j \in Table : C[j].num # m PROVE DK[m] = EN[m] /\ EN[m] > 0
    BY Zenon DEF Absent
  <2>1. m # 0
    BY Constants, Zenon
  <2>2. \A j \in Table : I[j].num # m
    BY <2>1, Zenon DEF OneRow
  <2>. QED BY <2>1, <2>2, Zenon DEF TableOK, Absent
<1>. QED BY <1>1, <1>2, <1>3, Zenon DEF TableOK

(* new_inode: a free number, and the claimed inode for it.                  *)
LEMMA NewTable ==
    ASSUME NEW I, NEW RD, NEW IM \in SUBSET Nums, NEW DK, NEW EN, DOMAIN EN = Nums,
           TableOK(I, RD, IM, DK, EN),
           NEW i \in Table, NEW C, OneRow(I, C, i), I[i].num = 0,
           C[i].num \in Nums \ IM, C[i].num # 0, C[i].nlinks = 1, C[i].dirt, C[i].count = 1
    PROVE  TableOK(C, RD, IM \union {C[i].num}, DK, [EN EXCEPT ![C[i].num] = 1])
<1>. DEFINE n == C[i].num
            E2 == [EN EXCEPT ![n] = 1]
            I2 == IM \union {n}
<1>1. E2[n] = 1 /\ \A m \in Nums \ {n} : E2[m] = EN[m]
  BY Zenon
<1>2. \A j \in Table : I[j].num # n
  BY Zenon DEF TableOK, Row
<1>. HIDE DEF E2
<1>3. ASSUME NEW j \in Table PROVE Row(RD, I2, DK, E2, j, C[j])
  <2>1. CASE j = i
    <3>1. C[j].count # 0
      BY <2>1
    <3>. QED BY <1>1, <2>1, <3>1, Zenon DEF Row
  <2>2. CASE j # i
    <3>1. Row(RD, IM, DK, EN, j, I[j]) /\ C[j] = I[j] /\ I[j].num # n
      BY <1>2, <2>2, Zenon DEF TableOK, OneRow
    <3>. QED BY <1>1, <3>1, Zenon DEF Row
  <2>. QED BY <2>1, <2>2, Zenon
<1>4. OneCopy(C)
  <2>. SUFFICES ASSUME NEW j \in Table, NEW k \in Table, C[j].num = C[k].num, j # k PROVE C[j].num = 0
    BY Zenon DEF OneCopy
  <2>1. CASE j # i /\ k # i
    BY <2>1, Zenon DEF TableOK, OneCopy, OneRow
  <2>2. CASE j = i
    BY <1>2, <2>2, Zenon DEF OneRow
  <2>3. CASE k = i
    BY <1>2, <2>3, Zenon DEF OneRow
  <2>. QED BY <2>1, <2>2, <2>3, Zenon
<1>5. Absent(C, I2, DK, E2)
  <2>. SUFFICES ASSUME NEW m \in I2, \A j \in Table : C[j].num # m PROVE DK[m] = E2[m] /\ E2[m] > 0
    BY Zenon DEF Absent
  <2>1. m # n /\ m \in IM /\ m \in Nums
    BY Zenon
  <2>2. m # 0
    BY <2>1, Constants DEF Nums
  <2>3. \A j \in Table : I[j].num # m
    BY <2>2, Zenon DEF OneRow
  <2>. QED BY <1>1, <2>1, <2>3, Zenon DEF TableOK, Absent
<1>6. Unnamed(I2, E2)
  BY <1>1, Zenon DEF TableOK, Unnamed
<1>7. TableOK(C, RD, I2, DK, E2)
  BY <1>3, <1>4, <1>5, <1>6, Zenon DEF TableOK
<1>. QED BY <1>7, Zenon DEF E2

(* sys_link and sys_unlink.                                                 *)
LEMMA LinkTable ==
    ASSUME NEW I, NEW RD, NEW IM \in SUBSET Nums, NEW DK, NEW EN, DOMAIN EN = Nums,
           TableOK(I, RD, IM, DK, EN),
           NEW i \in Table, NEW C, OneRow(I, C, i), I[i].num # 0, C[i].num = I[i].num,
           C[i].dirt, C[i].count # 0
    PROVE  TableOK(C, RD, IM, DK, [EN EXCEPT ![I[i].num] = C[i].nlinks])
<1>. DEFINE n == I[i].num
            E2 == [EN EXCEPT ![n] = C[i].nlinks]
<1>0. n \in IM /\ n \in Nums
  BY Zenon DEF TableOK, Row
<1>1. E2[n] = C[i].nlinks /\ \A m \in Nums \ {n} : E2[m] = EN[m]
  BY <1>0, Zenon
<1>. HIDE DEF E2
<1>2. \A j \in Table : C[j].num = I[j].num
  BY Zenon DEF OneRow
<1>3. ASSUME NEW j \in Table PROVE Row(RD, IM, DK, E2, j, C[j])
  <2>1. CASE j = i
    BY <1>0, <1>1, <2>1, Zenon DEF Row
  <2>2. CASE j # i
    <3>1. Row(RD, IM, DK, EN, j, I[j]) /\ C[j] = I[j] /\ (I[j].num # 0 => I[j].num # n)
      BY <2>2, Zenon DEF TableOK, OneRow, OneCopy
    <3>. QED BY <1>1, <3>1, ZenonT(60) DEF Row
  <2>. QED BY <2>1, <2>2, Zenon
<1>4. OneCopy(C)
  BY <1>2, ZenonT(60) DEF TableOK, OneCopy
<1>5. Absent(C, IM, DK, E2)
  <2>. SUFFICES ASSUME NEW m \in IM, \A j \in Table : C[j].num # m PROVE DK[m] = E2[m] /\ E2[m] > 0
    BY Zenon DEF Absent
  <2>1. m # n /\ \A j \in Table : I[j].num # m
    BY <1>2, Zenon
  <2>. QED BY <1>1, <2>1, Zenon DEF TableOK, Absent
<1>6. Unnamed(IM, E2)
  BY <1>0, <1>1, Zenon DEF TableOK, Unnamed
<1>7. TableOK(C, RD, IM, DK, E2)
  BY <1>3, <1>4, <1>5, <1>6, Zenon DEF TableOK
<1>. QED BY <1>7, Zenon DEF E2

(* free_inode: the number is free, and the inode reset.                     *)
LEMMA FreeTable ==
    ASSUME NEW I, NEW RD, NEW IM, NEW DK, NEW EN, TableOK(I, RD, IM, DK, EN),
           NEW i \in Table, NEW C, OneRow(I, C, i), EN[I[i].num] = 0,
           C[i].num = 0, ~C[i].dirt, ~C[i].lock, I[i].num # 0
    PROVE  TableOK(C, RD, IM \ {I[i].num}, DK, EN)
<1>. DEFINE n == I[i].num
            I2 == IM \ {n}
<1>1. ASSUME NEW j \in Table PROVE Row(RD, I2, DK, EN, j, C[j])
  <2>1. CASE j = i
    BY <2>1, Zenon DEF Row
  <2>2. CASE j # i
    <3>1. Row(RD, IM, DK, EN, j, I[j]) /\ C[j] = I[j] /\ (I[j].num # 0 => I[j].num # n)
      BY <2>2, Zenon DEF TableOK, OneRow, OneCopy
    <3>. QED BY <3>1, Zenon DEF Row
  <2>. QED BY <2>1, <2>2, Zenon
<1>2. OneCopy(C)
  <2>. SUFFICES ASSUME NEW j \in Table, NEW k \in Table, C[j].num = C[k].num, j # k PROVE C[j].num = 0
    BY Zenon DEF OneCopy
  <2>1. CASE j # i /\ k # i
    BY <2>1, Zenon DEF TableOK, OneCopy, OneRow
  <2>. QED BY <2>1, Zenon
<1>3. Absent(C, I2, DK, EN)
  <2>. SUFFICES ASSUME NEW m \in I2, \A j \in Table : C[j].num # m PROVE DK[m] = EN[m] /\ EN[m] > 0
    BY Zenon DEF Absent
  <2>1. m \in IM /\ \A j \in Table : I[j].num # m
    BY Zenon DEF OneRow
  <2>. QED BY <2>1, Zenon DEF TableOK, Absent
<1>4. Unnamed(I2, EN)
  BY Zenon DEF TableOK, Unnamed
<1>. QED BY <1>1, <1>2, <1>3, <1>4, Zenon DEF TableOK

-----------------------------------------------------------------------------
(* Who holds the lock of an inode; what a task knows of the inode it works  *)
(* on.                                                                      *)
Locking == {"emptyWrite", "iputWrite", "syncWrite", "read"}
Ending  == {"repeat", "iputWrite", "truncate"}

LockInv ==
    /\ \A i \in Table : inode[i].lock <=> \E t \in Tasks : pc[t] \in Locking /\ slot[t] = i
    /\ \A t, u \in Tasks : pc[t] \in Locking /\ pc[u] \in Locking /\ slot[t] = slot[u] => t = u

Readers == {i \in Table : \E t \in Tasks : pc[t] = "read" /\ slot[t] = i}

TableInv == TableOK(inode, Readers, imap, disk, entries)

Mine(t) ==
    /\ held[t] # None => inode[held[t]].num # 0
    /\ pc[t] \in Ending => inode[slot[t]].count = 1
    /\ pc[t] = "repeat" => current = t
    /\ pc[t] = "truncate" => inode[slot[t]].nlinks = 0
    /\ pc[t] = "read" =>
         /\ inode[slot[t]].num = nr[t] /\ ~inode[slot[t]].dirt
         /\ \A u \in Tasks : held[u] # slot[t] /\ (u # t => empty[u] # slot[t])

Good == LockInv /\ TableInv /\ \A t \in Tasks : Mine(t)

(* Task t's step leaves alone what task u relies on.                        *)
Gentle(t, u) ==
    /\ held[u] # None => inode'[held[u]].num # 0
    /\ pc[u] \in Ending => inode'[slot[u]].count = inode[slot[u]].count
    /\ pc[u] = "truncate" => inode'[slot[u]].nlinks = 0
    /\ pc[u] = "read" =>
         /\ inode'[slot[u]].num = inode[slot[u]].num /\ ~inode'[slot[u]].dirt
         /\ held'[t] # slot[u] /\ empty'[t] # slot[u]

LEMMA GentleStep ==
    ASSUME Good, NEW t \in Tasks, Runs(t), Others(t),
           NEW u \in Tasks \ {t}, Gentle(t, u)
    PROVE  Mine(u)'
<1>0. Mine(u) /\ pc'[u] = pc[u] /\ held'[u] = held[u] /\ slot'[u] = slot[u] /\ nr'[u] = nr[u]
      /\ \A v \in Tasks \ {t} : held'[v] = held[v] /\ empty'[v] = empty[v]
  BY Zenon DEF Good, Others
<1>1. pc[u] # "repeat"
  BY <1>0, NoneIsNothing, Zenon DEF Mine, Runs
<1>2. held'[u] # None => inode'[held'[u]].num # 0
  BY <1>0, Zenon DEF Gentle
<1>3. pc'[u] \in Ending => inode'[slot'[u]].count = 1
  BY <1>0, Zenon DEF Gentle, Mine
<1>4. pc'[u] # "repeat" /\ (pc'[u] = "truncate" => inode'[slot'[u]].nlinks = 0)
  BY <1>0, <1>1, Zenon DEF Gentle
<1>5. ASSUME pc[u] = "read"
      PROVE  /\ inode'[slot'[u]].num = nr'[u] /\ ~inode'[slot'[u]].dirt
             /\ \A v \in Tasks : held'[v] # slot'[u] /\ (v # u => empty'[v] # slot'[u])
  <2>1. inode'[slot'[u]].num = nr'[u] /\ ~inode'[slot'[u]].dirt
    BY <1>0, <1>5, Zenon DEF Gentle, Mine
  <2>2. ASSUME NEW v \in Tasks
        PROVE  held'[v] # slot'[u] /\ (v # u => empty'[v] # slot'[u])
    <3>1. CASE v = t
      BY <1>0, <1>5, <3>1, Zenon DEF Gentle
    <3>2. CASE v # t
      BY <1>0, <1>5, <3>2, Zenon DEF Mine
    <3>. QED BY <3>1, <3>2, Zenon
  <2>. QED BY <2>1, <2>2, Zenon
<1>. QED BY <1>0, <1>2, <1>3, <1>4, <1>5, Zenon DEF Mine

LEMMA GoodStep ==
    ASSUME Good, NEW t \in Tasks, Runs(t), Others(t), LockInv', Mine(t)',
           TableOK(inode', Readers', imap', disk', entries'),
           \A u \in Tasks \ {t} : Gentle(t, u)
    PROVE  Good'
<1>1. TableInv'
  BY Zenon DEF TableInv
<1>2. \A u \in Tasks : Mine(u)'
  BY GentleStep, Zenon
<1>. QED BY <1>1, <1>2, Zenon DEF Good

(* Only inode i changes, which no other task holds or reads.                *)
LEMMA Aside ==
    ASSUME IInv, Good, NEW t \in Tasks, NEW i \in Table, OneRow(inode, inode', i),
           held'[t] \in {None, held[t], i}, empty'[t] \in {None, empty[t], i},
           \A u \in Tasks \ {t} : held[u] # i /\ (pc[u] = "read" => slot[u] # i)
    PROVE  \A u \in Tasks \ {t} : Gentle(t, u)
<1>. SUFFICES ASSUME NEW u \in Tasks \ {t} PROVE Gentle(t, u)
  BY Zenon
<1>0. Mine(u) /\ Place(u) /\ held[u] \in Table \union {None}
  BY Zenon DEF Good, IInv, PlaceInv, TInv
<1>1. held[u] # None => held[u] \in Table /\ inode'[held[u]] = inode[held[u]]
  BY <1>0, Zenon DEF OneRow
<1>2. pc[u] \in Ending => held[u] = slot[u] /\ held[u] # None
  <2>1. pc[u] \in Ending => pc[u] \in Putting /\ pc[u] \notin {"user", "search", "iget", "new"}
    BY Zenon DEF Ending, Putting
  <2>. QED BY <1>0, <2>1, NoneIsNothing, Zenon DEF Place
<1>3. pc[u] = "truncate" => pc[u] \in Ending
  BY Zenon DEF Ending
<1>4. ASSUME pc[u] = "read"
      PROVE  /\ inode'[slot[u]] = inode[slot[u]]
             /\ held'[t] # slot[u] /\ empty'[t] # slot[u]
  <2>1. slot[u] \in Table \ {i}
    BY <1>0, <1>4, Zenon DEF Place
  <2>2. held[t] # slot[u] /\ empty[t] # slot[u]
    BY <1>0, <1>4, Zenon DEF Mine
  <2>. QED BY <2>1, <2>2, NoneIsNothing, Zenon DEF OneRow
<1>. QED BY <1>0, <1>1, <1>2, <1>3, <1>4, Zenon DEF Gentle, Mine

(* Nothing that a file is read or known by changes.                         *)
SameFiles ==
    \A k \in Table : /\ inode'[k].num = inode[k].num /\ inode'[k].nlinks = inode[k].nlinks
                     /\ inode'[k].dirt => inode[k].dirt

LEMMA Alike ==
    ASSUME IInv, Good, NEW t \in Tasks, NEW i, SameFiles,
           held'[t] \in {None, held[t], i}, empty'[t] \in {None, empty[t]},
           \A u \in Tasks \ {t} :
              /\ pc[u] \in Ending => inode'[slot[u]].count = inode[slot[u]].count
              /\ pc[u] = "read" => slot[u] # i
    PROVE  \A u \in Tasks \ {t} : Gentle(t, u)
<1>. SUFFICES ASSUME NEW u \in Tasks \ {t} PROVE Gentle(t, u)
  BY Zenon
<1>0. Mine(u) /\ Place(u) /\ held[u] \in Table \union {None}
  BY Zenon DEF Good, IInv, PlaceInv, TInv
<1>1. held[u] # None => inode'[held[u]].num # 0
  BY <1>0, Zenon DEF SameFiles, Mine
<1>2. pc[u] = "truncate" => inode'[slot[u]].nlinks = 0
  BY <1>0, Zenon DEF SameFiles, Mine, Place
<1>4. ASSUME pc[u] = "read"
      PROVE  /\ inode'[slot[u]].num = inode[slot[u]].num /\ ~inode'[slot[u]].dirt
             /\ held'[t] # slot[u] /\ empty'[t] # slot[u]
  <2>1. slot[u] \in Table
    BY <1>0, <1>4, Zenon DEF Place
  <2>2. held[t] # slot[u] /\ empty[t] # slot[u] /\ ~inode[slot[u]].dirt
    BY <1>0, <1>4, Zenon DEF Mine
  <2>3. held'[t] # slot[u] /\ empty'[t] # slot[u]
    BY <1>4, <2>1, <2>2, NoneIsNothing, Zenon
  <2>4. inode'[slot[u]].num = inode[slot[u]].num /\ ~inode'[slot[u]].dirt
    BY <2>1, <2>2, Zenon DEF SameFiles
  <2>. QED BY <2>3, <2>4, Zenon
<1>. QED BY <1>1, <1>2, <1>4, Zenon DEF Gentle

(* The locks stay, one is taken, or one is given back.                      *)
SameLocks(S) == \A k \in S : inode'[k].lock = inode[k].lock

LEMMA LockKeep ==
    ASSUME LockInv, NEW t \in Tasks, Others(t), pc[t] \notin Locking, pc'[t] \notin Locking,
           SameLocks(Table)
    PROVE  LockInv'
<1>1. \A u \in Tasks : /\ pc'[u] \in Locking <=> pc[u] \in Locking
                       /\ pc[u] \in Locking => slot'[u] = slot[u]
  BY Zenon DEF Others
<1>2. ASSUME NEW i \in Table
      PROVE  inode'[i].lock <=> \E u \in Tasks : pc'[u] \in Locking /\ slot'[u] = i
  <2>1. inode[i].lock <=> \E u \in Tasks : pc[u] \in Locking /\ slot[u] = i
    BY Zenon DEF LockInv
  <2>2. inode'[i].lock = inode[i].lock
    BY Zenon DEF SameLocks
  <2>. QED BY <1>1, <2>1, <2>2, Zenon
<1>3. ASSUME NEW u \in Tasks, NEW v \in Tasks,
             pc'[u] \in Locking, pc'[v] \in Locking, slot'[u] = slot'[v]
      PROVE  u = v
  BY <1>1, <1>3, Zenon DEF LockInv
<1>. QED BY <1>2, <1>3, Zenon DEF LockInv

LEMMA LockTake ==
    ASSUME LockInv, NEW t \in Tasks, Others(t), pc[t] \notin Locking, pc'[t] \in Locking,
           NEW i \in Table, slot'[t] = i, ~inode[i].lock, inode'[i].lock,
           SameLocks(Table \ {i})
    PROVE  LockInv'
<1>1. \A u \in Tasks \ {t} : pc'[u] = pc[u] /\ slot'[u] = slot[u]
  BY Zenon DEF Others
<1>0. \A u \in Tasks : pc[u] \in Locking => slot[u] # i
  BY Zenon DEF LockInv
<1>2. ASSUME NEW k \in Table
      PROVE  inode'[k].lock <=> \E u \in Tasks : pc'[u] \in Locking /\ slot'[u] = k
  <2>1. CASE k = i
    BY <2>1, Zenon
  <2>2. CASE k # i
    <3>1. inode[k].lock <=> \E u \in Tasks : pc[u] \in Locking /\ slot[u] = k
      BY Zenon DEF LockInv
    <3>2. inode'[k].lock = inode[k].lock
      BY <2>2, Zenon DEF SameLocks
    <3>. QED BY <1>1, <2>2, <3>1, <3>2, Zenon
  <2>. QED BY <2>1, <2>2, Zenon
<1>3. ASSUME NEW u \in Tasks, NEW v \in Tasks,
             pc'[u] \in Locking, pc'[v] \in Locking, slot'[u] = slot'[v]
      PROVE  u = v
  <2>1. CASE u # t /\ v # t
    <3>1. pc[u] \in Locking /\ pc[v] \in Locking /\ slot[u] = slot[v]
      BY <1>1, <1>3, <2>1, Zenon
    <3>. QED BY <3>1, Zenon DEF LockInv
  <2>2. CASE u = t \/ v = t
    BY <1>0, <1>1, <1>3, <2>2, Zenon
  <2>. QED BY <2>1, <2>2, Zenon
<1>. QED BY <1>2, <1>3, Zenon DEF LockInv

LEMMA LockDrop ==
    ASSUME LockInv, NEW t \in Tasks, Others(t), pc[t] \in Locking, pc'[t] \notin Locking,
           NEW i \in Table, slot[t] = i, ~inode'[i].lock, SameLocks(Table \ {i})
    PROVE  LockInv'
<1>1. \A u \in Tasks \ {t} : pc'[u] = pc[u] /\ slot'[u] = slot[u]
  BY Zenon DEF Others
<1>0. \A u \in Tasks \ {t} : pc[u] \in Locking => slot[u] # i
  BY Zenon DEF LockInv
<1>2. ASSUME NEW k \in Table
      PROVE  inode'[k].lock <=> \E u \in Tasks : pc'[u] \in Locking /\ slot'[u] = k
  <2>1. CASE k = i
    BY <1>0, <1>1, <2>1, Zenon
  <2>2. CASE k # i
    <3>1. inode[k].lock <=> \E u \in Tasks : pc[u] \in Locking /\ slot[u] = k
      BY Zenon DEF LockInv
    <3>2. inode'[k].lock = inode[k].lock
      BY <2>2, Zenon DEF SameLocks
    <3>. QED BY <1>1, <2>2, <3>1, <3>2, Zenon
  <2>. QED BY <2>1, <2>2, Zenon
<1>3. ASSUME NEW u \in Tasks, NEW v \in Tasks,
             pc'[u] \in Locking, pc'[v] \in Locking, slot'[u] = slot'[v]
      PROVE  u = v
  <2>1. u # t /\ v # t
    BY <1>3, Zenon
  <2>2. pc[u] \in Locking /\ pc[v] \in Locking /\ slot[u] = slot[v]
    BY <1>1, <1>3, <2>1, Zenon
  <2>. QED BY <2>2, Zenon DEF LockInv
<1>. QED BY <1>2, <1>3, Zenon DEF LockInv

(* The inodes being read.                                                   *)
LEMMA ReadersKeep ==
    ASSUME NEW t \in Tasks, Others(t), pc[t] # "read", pc'[t] # "read"
    PROVE  Readers' = Readers
<1>1. \A u \in Tasks : /\ pc'[u] = "read" <=> pc[u] = "read"
                       /\ pc[u] = "read" => slot'[u] = slot[u]
  BY Zenon DEF Others
<1>. QED BY <1>1, Zenon DEF Readers

LEMMA ReadersMove ==
    ASSUME NEW t \in Tasks, Others(t), NEW i \in Table,
           pc[t] = "read" => slot[t] = i, pc'[t] = "read" => slot'[t] = i
    PROVE  SameReaders(Readers, Readers', i)
<1>1. \A u \in Tasks \ {t} : pc'[u] = pc[u] /\ slot'[u] = slot[u]
  BY Zenon DEF Others
<1>2. ASSUME NEW j \in Table \ {i}
      PROVE  (\E u \in Tasks : pc'[u] = "read" /\ slot'[u] = j)
               <=> (\E u \in Tasks : pc[u] = "read" /\ slot[u] = j)
  BY <1>1, Zenon
<1>3. \A j \in Table : /\ j \in Readers <=> \E u \in Tasks : pc[u] = "read" /\ slot[u] = j
                       /\ j \in Readers' <=> \E u \in Tasks : pc'[u] = "read" /\ slot'[u] = j
  BY Zenon DEF Readers
<1>. QED BY <1>2, <1>3, Zenon DEF SameReaders

(* An inode that is not locked is not being read; one that nobody refers to *)
(* has the count 0; one with the count 1 has one user.                      *)
LEMMA Unread ==
    ASSUME LockInv, NEW i \in Table, ~inode[i].lock
    PROVE  i \notin Readers /\ \A u \in Tasks : pc[u] = "read" => slot[u] # i
<1>1. \A u \in Tasks : pc[u] = "read" => pc[u] \in Locking
  BY Zenon DEF Locking
<1>. QED BY <1>1, Zenon DEF LockInv, Readers

LEMMA Referred ==
    ASSUME IInv, NEW i \in Table
    PROVE  /\ inode[i].count \in Nat
           /\ inode[i].count = 0 <=> \A u \in Tasks : held[u] # i /\ empty[u] # i
<1>1. inode[i].count = Refs(held, i) + Refs(empty, i)
  BY Zenon DEF IInv, CountInv
<1>2. Refs(held, i) \in Nat /\ Refs(empty, i) \in Nat
  BY RefsType, Zenon
<1>3. inode[i].count \in Nat /\ (inode[i].count = 0 <=> Refs(held, i) = 0 /\ Refs(empty, i) = 0)
  BY <1>1, <1>2
<1>. QED BY <1>3, RefsNone, Zenon

LEMMA OneHolder ==
    ASSUME IInv, NEW i \in Table, inode[i].count = 1,
           NEW t \in Tasks, NEW u \in Tasks, held[t] = i, held[u] = i
    PROVE  t = u
<1>. SUFFICES ASSUME t # u PROVE FALSE
  BY Zenon
<1>. DEFINE S == {v \in Tasks : held[v] = i}
<1>1. inode[i].count = Refs(held, i) + Refs(empty, i)
  BY Zenon DEF IInv, CountInv
<1>2. Refs(held, i) \in Nat /\ Refs(empty, i) \in Nat /\ IsFiniteSet(S)
  BY RefsType, Zenon
<1>3. Refs(held, i) <= 1
  BY <1>1, <1>2
<1>4. IsFiniteSet(S \ {t}) /\ Cardinality(S \ {t}) = Cardinality(S) - 1
  BY <1>2, FS_RemoveElement, Zenon
<1>5. Cardinality(S \ {t}) \in Nat /\ Cardinality(S) = Refs(held, i)
  BY <1>4, FS_CardinalityType, Zenon DEF Refs
<1>. HIDE DEF S
<1>6. Cardinality(S \ {t}) = 0
  BY <1>2, <1>3, <1>4, <1>5
<1>7. S \ {t} = {}
  BY <1>4, <1>6, FS_EmptySet, Zenon
<1>. QED BY <1>7, Zenon DEF S

(* Updates of the table.                                                    *)
LEMMA RowIs ==
    ASSUME TInv, NEW i \in Table, NEW r, inode' = [inode EXCEPT ![i] = r]
    PROVE  inode'[i] = r /\ OneRow(inode, inode', i)
BY Zenon DEF TInv, OneRow

LEMMA LockRow ==
    ASSUME TInv, NEW i \in Table, inode' = [inode EXCEPT ![i].lock = TRUE]
    PROVE  /\ OneRow(inode, inode', i) /\ inode'[i].lock /\ inode'[i].dirt = inode[i].dirt
           /\ inode'[i].num = inode[i].num /\ inode'[i].count = inode[i].count
           /\ inode'[i].nlinks = inode[i].nlinks
<1>. DEFINE r == [inode[i] EXCEPT !.lock = TRUE]
<1>1. inode[i] \in Record
  BY Fields, Zenon
<1>2. inode' = [inode EXCEPT ![i] = r]
  BY Zenon DEF TInv
<1>3. r.lock /\ r.dirt = inode[i].dirt /\ r.num = inode[i].num /\ r.count = inode[i].count
      /\ r.nlinks = inode[i].nlinks
  BY <1>1, Zenon DEF Record
<1>. HIDE DEF r
<1>4. inode'[i] = r /\ OneRow(inode, inode', i)
  BY <1>2, RowIs, Zenon
<1>. QED BY <1>3, <1>4, Zenon

LEMMA UnlockRow ==
    ASSUME TInv, NEW i \in Table, inode' = [inode EXCEPT ![i].lock = FALSE, ![i].dirt = FALSE]
    PROVE  /\ OneRow(inode, inode', i) /\ ~inode'[i].lock /\ ~inode'[i].dirt
           /\ inode'[i].num = inode[i].num /\ inode'[i].count = inode[i].count
           /\ inode'[i].nlinks = inode[i].nlinks
<1>. DEFINE r == [inode[i] EXCEPT !.lock = FALSE, !.dirt = FALSE]
<1>1. inode[i] \in Record
  BY Fields, Zenon
<1>2. inode' = [inode EXCEPT ![i] = r]
  BY Zenon DEF TInv
<1>3. ~r.lock /\ ~r.dirt /\ r.num = inode[i].num /\ r.count = inode[i].count
      /\ r.nlinks = inode[i].nlinks
  BY <1>1, Zenon DEF Record
<1>. HIDE DEF r
<1>4. inode'[i] = r /\ OneRow(inode, inode', i)
  BY <1>2, RowIs, Zenon
<1>. QED BY <1>3, <1>4, Zenon

LEMMA NameRow ==
    ASSUME TInv, NEW i \in Table, NEW n, inode' = [inode EXCEPT ![i].num = n, ![i].lock = TRUE]
    PROVE  /\ OneRow(inode, inode', i) /\ inode'[i].lock /\ inode'[i].dirt = inode[i].dirt
           /\ inode'[i].num = n /\ inode'[i].count = inode[i].count
<1>. DEFINE r == [inode[i] EXCEPT !.num = n, !.lock = TRUE]
<1>1. inode[i] \in Record
  BY Fields, Zenon
<1>2. inode' = [inode EXCEPT ![i] = r]
  BY Zenon DEF TInv
<1>3. r.lock /\ r.dirt = inode[i].dirt /\ r.num = n /\ r.count = inode[i].count
  BY <1>1, Zenon DEF Record
<1>. HIDE DEF r
<1>4. inode'[i] = r /\ OneRow(inode, inode', i)
  BY <1>2, RowIs, Zenon
<1>. QED BY <1>3, <1>4, Zenon

LEMMA ReadRow ==
    ASSUME TInv, NEW i \in Table, NEW l, inode' = [inode EXCEPT ![i].nlinks = l, ![i].lock = FALSE]
    PROVE  /\ OneRow(inode, inode', i) /\ ~inode'[i].lock /\ inode'[i].dirt = inode[i].dirt
           /\ inode'[i].num = inode[i].num /\ inode'[i].count = inode[i].count
           /\ inode'[i].nlinks = l
<1>. DEFINE r == [inode[i] EXCEPT !.nlinks = l, !.lock = FALSE]
<1>1. inode[i] \in Record
  BY Fields, Zenon
<1>2. inode' = [inode EXCEPT ![i] = r]
  BY Zenon DEF TInv
<1>3. ~r.lock /\ r.dirt = inode[i].dirt /\ r.num = inode[i].num /\ r.count = inode[i].count
      /\ r.nlinks = l
  BY <1>1, Zenon DEF Record
<1>. HIDE DEF r
<1>4. inode'[i] = r /\ OneRow(inode, inode', i)
  BY <1>2, RowIs, Zenon
<1>. QED BY <1>3, <1>4, Zenon

LEMMA LinksRow ==
    ASSUME TInv, NEW i \in Table, NEW l, inode' = [inode EXCEPT ![i].nlinks = l, ![i].dirt = TRUE]
    PROVE  /\ OneRow(inode, inode', i) /\ inode'[i].lock = inode[i].lock /\ inode'[i].dirt
           /\ inode'[i].num = inode[i].num /\ inode'[i].count = inode[i].count
           /\ inode'[i].nlinks = l
<1>. DEFINE r == [inode[i] EXCEPT !.nlinks = l, !.dirt = TRUE]
<1>1. inode[i] \in Record
  BY Fields, Zenon
<1>2. inode' = [inode EXCEPT ![i] = r]
  BY Zenon DEF TInv
<1>3. r.lock = inode[i].lock /\ r.dirt /\ r.num = inode[i].num /\ r.count = inode[i].count
      /\ r.nlinks = l
  BY <1>1, Zenon DEF Record
<1>. HIDE DEF r
<1>4. inode'[i] = r /\ OneRow(inode, inode', i)
  BY <1>2, RowIs, Zenon
<1>. QED BY <1>3, <1>4, Zenon

(* Nothing but counts changes, if anything.                                 *)
OnlyCounts ==
    \A k \in Table : /\ inode'[k].num = inode[k].num /\ inode'[k].lock = inode[k].lock
                     /\ inode'[k].dirt = inode[k].dirt /\ inode'[k].nlinks = inode[k].nlinks

LEMMA CountRow ==
    ASSUME TInv, NEW i \in Table, inode' = [inode EXCEPT ![i].count = @ - 1]
    PROVE  /\ OnlyCounts /\ inode'[i].count = inode[i].count - 1
           /\ \A k \in Table \ {i} : inode'[k].count = inode[k].count
<1>. DEFINE r == [inode[i] EXCEPT !.count = inode[i].count - 1]
<1>1. inode[i] \in Record
  BY Fields, Zenon
<1>2. inode' = [inode EXCEPT ![i] = r]
  BY Zenon DEF TInv
<1>3. r.count = inode[i].count - 1 /\ r.num = inode[i].num /\ r.lock = inode[i].lock
      /\ r.dirt = inode[i].dirt /\ r.nlinks = inode[i].nlinks
  BY <1>1, Zenon DEF Record
<1>. HIDE DEF r
<1>4. inode'[i] = r /\ OneRow(inode, inode', i)
  BY <1>2, RowIs, Zenon
<1>. QED BY <1>3, <1>4, Zenon DEF OneRow, OnlyCounts

LEMMA CountRows ==
    ASSUME TInv, NEW i \in Table, NEW e \in Table, i # e,
           inode' = [inode EXCEPT ![i].count = @ + 1, ![e].count = @ - 1]
    PROVE  /\ OnlyCounts /\ inode'[i].count = inode[i].count + 1
           /\ \A k \in Table \ {i, e} : inode'[k].count = inode[k].count
<1>. DEFINE a == [inode[i] EXCEPT !.count = inode[i].count + 1]
            b == [inode[e] EXCEPT !.count = inode[e].count - 1]
<1>1. inode[i] \in Record /\ inode[e] \in Record
  BY Fields, Zenon
<1>2. inode' = [[inode EXCEPT ![i] = a] EXCEPT ![e] = b]
  BY Zenon DEF TInv
<1>3. /\ a.count = inode[i].count + 1 /\ a.num = inode[i].num /\ a.lock = inode[i].lock
      /\ a.dirt = inode[i].dirt /\ a.nlinks = inode[i].nlinks
      /\ b.num = inode[e].num /\ b.lock = inode[e].lock
      /\ b.dirt = inode[e].dirt /\ b.nlinks = inode[e].nlinks
  BY <1>1, Zenon DEF Record
<1>. HIDE DEF a, b
<1>4. inode'[i] = a /\ inode'[e] = b /\ \A k \in Table \ {i, e} : inode'[k] = inode[k]
  BY <1>2, Zenon DEF TInv
<1>. QED BY <1>3, <1>4, Zenon DEF OnlyCounts

-----------------------------------------------------------------------------
(* Steps that change no more than counts: not of a file that another task   *)
(* is at the end of, and to 0 only for a file with a name.                  *)
SparesEnds(t, i) ==
    \A u \in Tasks \ {t} :
        /\ pc[u] \in Ending => inode'[slot[u]].count = inode[slot[u]].count
        /\ pc[u] = "read" => slot[u] # i

KeepsNamed ==
    \A k \in Table : inode[k].num # 0 /\ inode'[k].count = 0 => entries[inode[k].num] > 0

LEMMA CountGood ==
    ASSUME IInv, Good, NEW t \in Tasks, Runs(t), Others(t), OnlyCounts,
           UNCHANGED <<imap, disk, entries>>,
           pc[t] \notin Locking, pc'[t] \notin Locking,
           NEW i \in Table \union {None}, held'[t] \in {None, held[t], i},
           empty'[t] \in {None, empty[t]}, SparesEnds(t, i), KeepsNamed, Mine(t)'
    PROVE  Good'
<1>1. LockInv'
  <2>1. SameLocks(Table)
    BY Zenon DEF SameLocks, OnlyCounts
  <2>. QED BY <2>1, LockKeep, Zenon DEF Good
<1>2. Readers' = Readers
  <2>1. pc[t] # "read" /\ pc'[t] # "read"
    BY Zenon DEF Locking
  <2>. QED BY <2>1, ReadersKeep, Zenon
<1>3. TableOK(inode', Readers', imap', disk', entries')
  <2>1. TableOK(inode, Readers, imap, disk, entries)
    BY Zenon DEF Good, TableInv
  <2>2. \A j \in Table : /\ inode'[j].num = inode[j].num /\ inode'[j].lock = inode[j].lock
                         /\ inode'[j].dirt = inode[j].dirt /\ inode'[j].nlinks = inode[j].nlinks
                         /\ inode'[j].num # 0 /\ inode'[j].count = 0 => entries[inode'[j].num] > 0
    BY Zenon DEF OnlyCounts, KeepsNamed
  <2>3. TableOK(inode', Readers, imap, disk, entries)
    BY <2>1, <2>2, CountTable, Zenon
  <2>. QED BY <1>2, <2>3, Zenon
<1>4. \A u \in Tasks \ {t} : Gentle(t, u)
  <2>1. SameFiles
    BY Zenon DEF SameFiles, OnlyCounts
  <2>. QED BY <2>1, Alike, Zenon DEF SparesEnds
<1>. QED BY <1>1, <1>3, <1>4, GoodStep, Zenon

LEMMA MoveGood ==
    ASSUME IInv, Good, NEW t \in Tasks, Runs(t), Others(t),
           UNCHANGED <<inode, imap, disk, entries>>,
           pc[t] \notin Locking, pc'[t] \notin Locking,
           held'[t] = held[t], empty'[t] \in {None, empty[t]}, Mine(t)'
    PROVE  Good'
<1>1. OnlyCounts
  BY Zenon DEF OnlyCounts
<1>2. SparesEnds(t, None)
  BY NoneIsNothing, Zenon DEF SparesEnds, IInv, PlaceInv, Place
<1>3. KeepsNamed
  BY Zenon DEF KeepsNamed, Good, TableInv, TableOK, Row
<1>. QED BY <1>1, <1>2, <1>3, CountGood, Zenon

(* Where a task is neither reading nor ending a file, only its open file    *)
(* matters to it.                                                           *)
LEMMA MineMoves ==
    ASSUME Good, NEW t \in Tasks, pc'[t] \notin Ending \union {"read"},
           held'[t] # None => held'[t] = held[t] /\ inode'[held[t]].num = inode[held[t]].num
    PROVE  Mine(t)'
<1>1. pc'[t] # "repeat" /\ pc'[t] # "truncate" /\ pc'[t] # "read" /\ pc'[t] \notin Ending
  BY Zenon DEF Ending
<1>2. held'[t] # None => inode'[held'[t]].num # 0
  BY Zenon DEF Good, Mine
<1>. QED BY <1>1, <1>2, Zenon DEF Mine

LEMMA BeginGood ==
    ASSUME IInv, Good, NEW t \in Tasks,
           \/ \E n \in Nums : Lookup(t, n)
           \/ Create(t) \/ iputCall(t) \/ syncCall(t)
    PROVE  Good'
<1>. USE DEF IInv
<1>0. Runs(t) /\ pc[t] = "user"
  BY Zenon DEF Lookup, Create, iputCall, syncCall
<1>1. /\ UNCHANGED <<inode, imap, disk, entries, empty, held>>
      /\ \E p \in {"search", "iput", "sync"} : pc' = [pc EXCEPT ![t] = p]
  BY Zenon DEF Lookup, Create, iputCall, syncCall, At, Sleep, file
<1>2. Others(t)
  <2>1. \A u \in Tasks \ {t} : slot'[u] = slot[u] /\ op'[u] = op[u] /\ nr'[u] = nr[u]
    BY Zenon DEF Lookup, Create, iputCall, syncCall, At, Sleep, TInv
  <2>2. \A u \in Tasks \ {t} : pc'[u] = pc[u]
    BY <1>1, Zenon DEF TInv
  <2>. QED BY <1>1, <2>1, <2>2, Zenon DEF Others
<1>3. pc'[t] \in {"search", "iput", "sync"}
  BY <1>1, Zenon DEF TInv
<1>4. pc[t] \notin Locking /\ pc'[t] \notin Locking /\ pc'[t] \notin Ending \union {"read"}
  BY <1>0, <1>3, Zenon DEF Locking, Ending
<1>5. Mine(t)'
  BY <1>1, <1>4, MineMoves, Zenon
<1>6. held'[t] = held[t] /\ empty'[t] = empty[t]
  BY <1>1, Zenon
<1>. QED BY <1>0, <1>1, <1>2, <1>4, <1>5, <1>6, MoveGood, Zenon

LEMMA SearchGood ==
    ASSUME IInv, Good, NEW t \in Tasks, search(t), UNCHANGED panic
    PROVE  Good'
<1>. USE DEF IInv
<1>0. Runs(t) /\ pc[t] = "search" /\ panic = ""
  BY Zenon DEF search, Runs
<1>1. /\ UNCHANGED <<inode, imap, disk, entries, op, empty, nr, held>>
      /\ pc' = [pc EXCEPT ![t] = "empty"]
      /\ \E i : slot' = [slot EXCEPT ![t] = i]
  BY <1>0, Zenon DEF search, At, Panic, file
<1>2. Others(t)
  BY <1>1, Zenon DEF Others, TInv
<1>3. pc'[t] = "empty"
  BY <1>1, Zenon DEF TInv
<1>4. pc[t] \notin Locking /\ pc'[t] \notin Locking /\ pc'[t] \notin Ending \union {"read"}
  BY <1>0, <1>3, Zenon DEF Locking, Ending
<1>5. Mine(t)'
  BY <1>1, <1>4, MineMoves, Zenon
<1>6. held'[t] = held[t] /\ empty'[t] = empty[t]
  BY <1>1, Zenon
<1>. QED BY <1>0, <1>1, <1>2, <1>4, <1>5, <1>6, MoveGood, Zenon

(* write_inode begins.                                                      *)
LEMMA WriteBeginsGood ==
    ASSUME IInv, Good, NEW t \in Tasks, NEW p, Runs(t), WriteBegins(t, p),
           slot[t] \in Table, ~inode[slot[t]].lock, inode[slot[t]].dirt,
           UNCHANGED <<imap, disk, entries, op, empty, nr, held>>,
           \/ pc[t] = "empty" /\ p = "emptyWrite"
           \/ pc[t] = "repeat" /\ p = "iputWrite"
           \/ pc[t] = "sync" /\ p = "syncWrite"
    PROVE  Good'
<1>. DEFINE i == slot[t]
<1>1. /\ inode' = [inode EXCEPT ![i].lock = TRUE]
      /\ pc' = [pc EXCEPT ![t] = p] /\ UNCHANGED slot
  BY Zenon DEF WriteBegins, Sleep
<1>2. /\ OneRow(inode, inode', i) /\ inode'[i].lock /\ inode'[i].dirt = inode[i].dirt
      /\ inode'[i].num = inode[i].num /\ inode'[i].count = inode[i].count
      /\ inode'[i].nlinks = inode[i].nlinks
  BY <1>1, LockRow, Zenon DEF IInv
<1>3. Others(t) /\ pc'[t] = p /\ slot'[t] = i
  BY <1>1, Zenon DEF Others, IInv, TInv
<1>4. /\ pc[t] \notin Locking /\ p \in Locking
      /\ pc[t] # "read" /\ p # "read" /\ p # "repeat" /\ p # "truncate"
      /\ p \in Ending => pc[t] \in Ending
  BY Zenon DEF Locking, Ending
<1>5. SameLocks(Table \ {i})
  BY <1>2, Zenon DEF OneRow, SameLocks
<1>6. LockInv'
  BY <1>2, <1>3, <1>4, <1>5, LockTake, Zenon DEF Good
<1>7. Readers' = Readers
  BY <1>3, <1>4, ReadersKeep, Zenon
<1>8. TableOK(inode', Readers', imap', disk', entries')
  <2>1. TableOK(inode, Readers, imap, disk, entries) /\ Row(Readers, imap, disk, entries, i, inode[i])
    BY Zenon DEF Good, TableInv, TableOK
  <2>2. Row(Readers, imap, disk, entries, i, inode'[i])
    BY <1>2, <2>1, Zenon DEF Row
  <2>3. SameReaders(Readers, Readers, i)
    BY Zenon DEF SameReaders
  <2>4. TableOK(inode', Readers, imap, disk, entries)
    BY <1>2, <2>1, <2>2, <2>3, RowTable, Zenon
  <2>. QED BY <1>7, <2>4, Zenon
<1>9. \A k \in Table : inode'[k].num = inode[k].num /\ inode'[k].nlinks = inode[k].nlinks
                       /\ inode'[k].dirt = inode[k].dirt /\ inode'[k].count = inode[k].count
  BY <1>2, Zenon DEF OneRow
<1>10. Mine(t)'
  <2>1. Mine(t) /\ held[t] \in Table \union {None}
    BY Zenon DEF Good, IInv, TInv
  <2>. QED BY <1>2, <1>3, <1>4, <1>9, <2>1, Zenon DEF Mine
<1>11. \A u \in Tasks \ {t} : Gentle(t, u)
  <2>1. SameFiles
    BY <1>9, Zenon DEF SameFiles
  <2>2. \A u \in Tasks : pc[u] \in Ending \union {"read"} => slot[u] \in Table
    BY Zenon DEF IInv, PlaceInv, Place, Ending
  <2>3. \A u \in Tasks \ {t} :
          /\ pc[u] \in Ending => inode'[slot[u]].count = inode[slot[u]].count
          /\ pc[u] = "read" => slot[u] # None
    BY <1>9, <2>2, NoneIsNothing, Zenon
  <2>4. held'[t] \in {None, held[t]} /\ empty'[t] \in {None, empty[t]}
    BY Zenon
  <2>. QED BY <2>1, <2>3, <2>4, Alike, ZenonT(60)
<1>. QED BY <1>3, <1>6, <1>8, <1>10, <1>11, GoodStep, Zenon

LEMMA OwnPlace == ASSUME NEW n \in Nums PROVE InBlock(n) = n
<1>1. s_ninodes \in Nat \ {0} /\ n \in 1..s_ninodes
  BY InodeTableAssumption DEF Nums
<1>2. n - 1 \in 0..s_ninodes - 1
  BY <1>1
<1>3. (n - 1) % s_ninodes = n - 1
  BY <1>1, <1>2
<1>. QED BY <1>1, <1>3 DEF InBlock

(* write_inode ends: the copy in core is on disk.                           *)
LEMMA WriteEndsGood ==
    ASSUME IInv, Good, NEW t \in Tasks, WriteEnds(t)
    PROVE  Good'
<1>. DEFINE i == slot[t]
<1>0. Runs(t) /\ pc[t] \in {"emptyWrite", "iputWrite", "syncWrite"} /\ i \in Table
  BY Zenon DEF WriteEnds, IInv, PlaceInv, Place
<1>. DEFINE p == CASE pc[t] = "emptyWrite" -> "empty"
                   [] pc[t] = "iputWrite"  -> "repeat"
                   [] pc[t] = "syncWrite"  -> "syncNext"
<1>1. /\ disk' = [disk EXCEPT ![InBlock(inode[i].num)] = inode[i].nlinks]
      /\ inode' = [inode EXCEPT ![i].lock = FALSE, ![i].dirt = FALSE]
      /\ pc' = [pc EXCEPT ![t] = p] /\ current' = t
      /\ UNCHANGED <<imap, entries, op, slot, empty, nr, held>>
  BY DEF WriteEnds, Written, IInv, TInv
<1>2. \/ pc[t] = "emptyWrite" /\ p = "empty"
      \/ pc[t] = "iputWrite" /\ p = "repeat"
      \/ pc[t] = "syncWrite" /\ p = "syncNext"
  BY <1>0
<1>. HIDE DEF p
<1>3. /\ OneRow(inode, inode', i) /\ ~inode'[i].lock /\ ~inode'[i].dirt
      /\ inode'[i].num = inode[i].num /\ inode'[i].count = inode[i].count
      /\ inode'[i].nlinks = inode[i].nlinks
  BY <1>0, <1>1, UnlockRow, Zenon DEF IInv
<1>4. Others(t) /\ pc'[t] = p /\ slot'[t] = i
  BY <1>1, Zenon DEF Others, IInv, TInv
<1>5. /\ pc[t] \in Locking /\ p \notin Locking
      /\ pc[t] # "read" /\ p # "read" /\ p # "truncate"
      /\ p \in Ending => pc[t] \in Ending
  BY <1>2, Zenon DEF Locking, Ending
<1>6. LockInv'
  <2>1. SameLocks(Table \ {i})
    BY <1>3, Zenon DEF OneRow, SameLocks
  <2>. QED BY <1>0, <1>3, <1>4, <1>5, <2>1, LockDrop, Zenon DEF Good
<1>7. Readers' = Readers
  BY <1>4, <1>5, ReadersKeep, Zenon
<1>8. TableOK(inode', Readers', imap', disk', entries')
  <2>1. TableOK(inode, Readers, imap, disk, entries) /\ Row(Readers, imap, disk, entries, i, inode[i])
    BY <1>0, Zenon DEF Good, TableInv, TableOK
  <2>2. inode[i].lock
    BY <1>0, <1>5, Zenon DEF Good, LockInv
  <2>3. inode[i].num # 0 /\ inode[i].num \in Nums /\ imap \in SUBSET Nums /\ DOMAIN disk = Nums
    BY <2>1, <2>2, Zenon DEF Row, IInv, TInv
  <2>4. i \notin Readers
    <3>1. \A u \in Tasks : pc[u] = "read" => pc[u] \in Locking
      BY Zenon DEF Locking
    <3>. QED BY <1>5, <3>1, Zenon DEF Readers, Good, LockInv
  <2>5. disk' = [disk EXCEPT ![inode[i].num] = inode[i].nlinks]
    BY <1>1, <2>3, OwnPlace, Zenon
  <2>. HIDE DEF i
  <2>6. TableOK(inode', Readers, imap, [disk EXCEPT ![inode[i].num] = inode[i].nlinks], entries)
    BY <1>0, <1>3, <2>1, <2>3, <2>4, WriteTable, Zenon
  <2>. QED BY <1>1, <1>7, <2>5, <2>6, Zenon
<1>9. \A k \in Table : inode'[k].num = inode[k].num /\ inode'[k].nlinks = inode[k].nlinks
                       /\ (inode'[k].dirt => inode[k].dirt) /\ inode'[k].count = inode[k].count
  BY <1>3, Zenon DEF OneRow
<1>10. Mine(t)'
  <2>1. Mine(t) /\ held[t] \in Table \union {None}
    BY Zenon DEF Good, IInv, TInv
  <2>. QED BY <1>1, <1>3, <1>4, <1>5, <1>9, <2>1, ZenonT(60) DEF Mine
<1>11. \A u \in Tasks \ {t} : Gentle(t, u)
  <2>1. SameFiles
    BY <1>9, Zenon DEF SameFiles
  <2>2. \A u \in Tasks : pc[u] \in Ending \union {"read"} => slot[u] \in Table
    BY Zenon DEF IInv, PlaceInv, Place, Ending
  <2>3. \A u \in Tasks \ {t} :
          /\ pc[u] \in Ending => inode'[slot[u]].count = inode[slot[u]].count
          /\ pc[u] = "read" => slot[u] # None
    BY <1>9, <2>2, NoneIsNothing, Zenon
  <2>4. held'[t] \in {None, held[t]} /\ empty'[t] \in {None, empty[t]}
    BY <1>1, Zenon
  <2>. QED BY <2>1, <2>3, <2>4, Alike, Zenon
<1>. QED BY <1>0, <1>4, <1>6, <1>8, <1>10, <1>11, GoodStep, Zenon

LEMMA SyncGood ==
    ASSUME IInv, Good, NEW t \in Tasks, sync_inodes(t) \/ syncNext(t)
    PROVE  Good'
<1>0. Runs(t) /\ pc[t] \in {"sync", "syncNext"} /\ slot[t] \in Table
  BY Zenon DEF sync_inodes, syncNext, IInv, PlaceInv, Place
<1>1. CASE sync_inodes(t) /\ inode[slot[t]].dirt
  <2>1. /\ WriteBegins(t, "syncWrite") /\ pc[t] = "sync" /\ ~inode[slot[t]].lock
        /\ UNCHANGED <<imap, disk, entries, op, empty, nr, held>>
    BY <1>1, Zenon DEF sync_inodes, file
  <2>. QED BY <1>0, <1>1, <2>1, WriteBeginsGood, Zenon
<1>2. CASE (sync_inodes(t) /\ ~inode[slot[t]].dirt) \/ syncNext(t)
  <2>1. /\ \E p \in {"user", "sync", "syncNext"} : pc' = [pc EXCEPT ![t] = p]
        /\ \E i : slot' = [slot EXCEPT ![t] = i]
        /\ UNCHANGED <<inode, imap, disk, entries>>
    BY <1>2, Zenon DEF sync_inodes, syncNext, At, Return, file
  <2>2. /\ held'[t] = held[t] /\ empty'[t] \in {None, empty[t]}
        /\ \A u \in Tasks \ {t} : UNCHANGED <<held[u], empty[u], op[u], nr[u]>>
    BY <1>2, ZenonT(60) DEF sync_inodes, syncNext, At, Return, IInv, TInv
  <2>3. Others(t) /\ pc'[t] \in {"user", "sync", "syncNext"}
    BY <2>1, <2>2, Zenon DEF Others, IInv, TInv
  <2>4. pc[t] \notin Locking /\ pc'[t] \notin Locking /\ pc'[t] \notin Ending \union {"read"}
    BY <1>0, <2>3, Zenon DEF Locking, Ending
  <2>5. Mine(t)'
    BY <2>1, <2>2, <2>4, MineMoves, Zenon
  <2>. QED BY <1>0, <2>1, <2>2, <2>3, <2>4, <2>5, MoveGood, Zenon
<1>. QED BY <1>1, <1>2, Zenon

(* get_empty_inode: what it claims is clean and not referred to.            *)
LEMMA GetEmptyGood ==
    ASSUME IInv, Good, NEW t \in Tasks, get_empty_inode(t)
    PROVE  Good'
<1>. DEFINE i == slot[t]
<1>0. Runs(t) /\ pc[t] = "empty" /\ i \in Table /\ ~inode[i].lock
      /\ held[t] = None /\ empty[t] = None /\ op[t] \in {"iget", "new"}
  BY Zenon DEF get_empty_inode, IInv, PlaceInv, Place, Claiming, Claimed
<1>u. UNCHANGED <<imap, disk, entries, op, nr, held>>
  BY Zenon DEF get_empty_inode, file
<1>1. CASE inode[i].dirt
  <2>1. WriteBegins(t, "emptyWrite") /\ UNCHANGED empty
    BY <1>1, Zenon DEF get_empty_inode
  <2>. QED BY <1>0, <1>u, <1>1, <2>1, WriteBeginsGood, Zenon
<1>2. CASE ~inode[i].dirt /\ inode[i].count = 0
  <2>1. /\ inode' = [inode EXCEPT ![i] = [Zeroed EXCEPT !.count = 1]]
        /\ empty' = [empty EXCEPT ![t] = i]
        /\ pc' = [pc EXCEPT ![t] = op[t]] /\ UNCHANGED slot
    BY <1>2, Zenon DEF get_empty_inode
  <2>. DEFINE z == [Zeroed EXCEPT !.count = 1]
  <2>2. z.num = 0 /\ ~z.lock /\ ~z.dirt
    BY Zenon DEF Zeroed
  <2>. HIDE DEF z
  <2>3. inode'[i] = z /\ OneRow(inode, inode', i)
    BY <1>0, <2>1, RowIs, Zenon DEF IInv, z
  <2>4. Others(t) /\ pc'[t] \in {"iget", "new"} /\ empty'[t] = i
    BY <1>0, <1>u, <2>1, Zenon DEF Others, IInv, TInv
  <2>5. pc[t] \notin Locking /\ pc'[t] \notin Locking /\ pc'[t] \notin Ending \union {"read"}
        /\ pc[t] # "read" /\ pc'[t] # "read"
    BY <1>0, <2>4, Zenon DEF Locking, Ending
  <2>6. LockInv'
    <3>1. inode[i].lock \in BOOLEAN /\ inode'[i].lock = FALSE
      BY <1>0, <2>2, <2>3, Fields, Zenon DEF IInv, Zeroed, z
    <3>2. SameLocks(Table)
      BY <1>0, <2>3, <3>1, Zenon DEF OneRow, SameLocks
    <3>. QED BY <2>4, <2>5, <3>2, LockKeep, Zenon DEF Good
  <2>7. Readers' = Readers
    BY <2>4, <2>5, ReadersKeep, Zenon
  <2>8. TableOK(inode', Readers', imap', disk', entries')
    <3>1. TableOK(inode, Readers, imap, disk, entries)
      BY Zenon DEF Good, TableInv
    <3>. HIDE DEF i
    <3>2. TableOK(inode', Readers, imap, disk, entries)
      BY <1>0, <1>2, <2>2, <2>3, <3>1, ClaimTable, Zenon
    <3>. QED BY <1>u, <2>7, <3>2, Zenon
  <2>9. Mine(t)'
    BY <1>0, <1>u, <2>5, MineMoves, Zenon
  <2>10. \A u \in Tasks \ {t} : Gentle(t, u)
    <3>1. \A u \in Tasks : held[u] # i
      BY <1>0, <1>2, Referred, Zenon
    <3>2. \A u \in Tasks : pc[u] = "read" => slot[u] # i
      BY <1>0, Unread, Zenon DEF Good
    <3>3. held'[t] = None
      BY <1>0, <1>u, Zenon
    <3>. QED BY <1>0, <2>3, <2>4, <3>1, <3>2, <3>3, Aside, Zenon
  <2>. QED BY <1>0, <2>4, <2>6, <2>8, <2>9, <2>10, GoodStep, Zenon
<1>3. CASE ~inode[i].dirt /\ inode[i].count # 0
  <2>1. /\ pc' = [pc EXCEPT ![t] = "search"] /\ slot' = [slot EXCEPT ![t] = i]
        /\ UNCHANGED <<inode, empty>>
    BY <1>3, Zenon DEF get_empty_inode, At
  <2>2. Others(t) /\ pc'[t] = "search"
    BY <1>u, <2>1, Zenon DEF Others, IInv, TInv
  <2>3. pc[t] \notin Locking /\ pc'[t] \notin Locking /\ pc'[t] \notin Ending \union {"read"}
    BY <1>0, <2>2, Zenon DEF Locking, Ending
  <2>4. Mine(t)'
    BY <1>0, <1>u, <2>3, MineMoves, Zenon
  <2>5. held'[t] = held[t] /\ empty'[t] = empty[t]
    BY <1>u, <2>1, Zenon
  <2>. QED BY <1>0, <1>u, <2>1, <2>2, <2>3, <2>4, <2>5, MoveGood, Zenon
<1>. QED BY <1>1, <1>2, <1>3, Zenon

(* A number that still has a name is allocated.                             *)
LEMMA Named ==
    ASSUME IInv, Good, NEW n \in Nums, entries[n] # 0
    PROVE  n \in imap
BY Zenon DEF Good, TableInv, TableOK, Unnamed

(* iget: the number is found, or given to the claimed inode, which is read. *)
LEMMA IgetGood ==
    ASSUME IInv, Good, NEW t \in Tasks, iget(t), hit' = {}
    PROVE  Good'
<1>. DEFINE e == empty[t]
            found == {k \in Table : inode[k].num = nr[t]}
<1>0. Runs(t) /\ pc[t] = "iget" /\ e \in Table /\ held[t] = None /\ nr[t] \in Nums
  BY Zenon DEF iget, IInv, PlaceInv, Place, Claimed
<1>u. UNCHANGED <<imap, disk, entries, op, empty, nr, held>>
  BY Zenon DEF iget, file
<1>n. entries[nr[t]] # 0
  BY Zenon DEF iget, NoteStale
<1>1. CASE found # {}
  <2>1. /\ pc' = [pc EXCEPT ![t] = "igetWait"] /\ UNCHANGED inode
        /\ \E i : slot' = [slot EXCEPT ![t] = i]
    BY <1>1, Zenon DEF iget, At
  <2>2. Others(t) /\ pc'[t] = "igetWait"
    BY <1>u, <2>1, Zenon DEF Others, IInv, TInv
  <2>3. pc[t] \notin Locking /\ pc'[t] \notin Locking /\ pc'[t] \notin Ending \union {"read"}
    BY <1>0, <2>2, Zenon DEF Locking, Ending
  <2>4. Mine(t)'
    BY <1>0, <1>u, <2>3, MineMoves, Zenon
  <2>5. held'[t] = held[t] /\ empty'[t] = empty[t]
    BY <1>u, Zenon
  <2>. QED BY <1>0, <1>u, <2>1, <2>2, <2>3, <2>4, <2>5, MoveGood, Zenon
<1>2. CASE found = {}
  <2>1. /\ inode' = [inode EXCEPT ![e].num = nr[t], ![e].lock = TRUE]
        /\ pc' = [pc EXCEPT ![t] = "read"] /\ slot' = [slot EXCEPT ![t] = e]
    BY <1>2, Zenon DEF iget
  <2>2. /\ OneRow(inode, inode', e) /\ inode'[e].lock /\ inode'[e].dirt = inode[e].dirt
        /\ inode'[e].num = nr[t] /\ inode'[e].count = inode[e].count
    BY <1>0, <2>1, NameRow, Zenon DEF IInv
  <2>3. Others(t) /\ pc'[t] = "read" /\ slot'[t] = e
    BY <1>u, <2>1, Zenon DEF Others, IInv, TInv
  <2>4. /\ inode[e].num = 0
        /\ \A u \in Tasks : held[u] # e /\ (u # t => empty[u] # e)
    <3>1. pc[t] \in Claimed
      BY <1>0, Zenon DEF Claimed
    <3>. QED BY <3>1, Zenon DEF IInv, FreshInv
  <2>5. TableOK(inode, Readers, imap, disk, entries) /\ ~inode[e].lock /\ ~inode[e].dirt
    BY <1>0, <2>4, Zenon DEF Good, TableInv, TableOK, Row
  <2>6. pc[t] \notin Locking /\ pc[t] # "read" /\ pc'[t] \in Locking
    BY <1>0, <2>3, Zenon DEF Locking
  <2>7. LockInv'
    <3>1. SameLocks(Table \ {e})
      BY <2>2, Zenon DEF OneRow, SameLocks
    <3>. QED BY <1>0, <2>2, <2>3, <2>5, <2>6, <3>1, LockTake, Zenon DEF Good
  <2>8. TableOK(inode', Readers', imap', disk', entries')
    <3>1. SameReaders(Readers, Readers', e) /\ e \in Readers'
      <4>1. SameReaders(Readers, Readers', e)
        BY <1>0, <2>3, <2>6, ReadersMove, Zenon
      <4>2. e \in Readers'
        BY <1>0, <2>3, Zenon DEF Readers
      <4>. QED BY <4>1, <4>2
    <3>2. nr[t] \in imap /\ nr[t] # 0 /\ imap \in SUBSET Nums
      BY <1>0, <1>n, Named, Constants, Zenon DEF IInv, TInv
    <3>3. \A j \in Table : inode[j].num # nr[t]
      BY <1>2, Zenon
    <3>4. inode'[e].count # 0
      BY <1>0, <2>2, Referred, Zenon
    <3>. HIDE DEF e
    <3>5. TableOK(inode', Readers', imap, disk, entries)
      <4>1. inode'[e].num \in imap /\ inode'[e].num # 0
            /\ \A j \in Table : inode[j].num # inode'[e].num
        BY <2>2, <3>2, <3>3, Zenon
      <4>. QED BY <1>0, <2>2, <2>4, <2>5, <3>1, <3>2, <3>4, <4>1, NameTable, Zenon
    <3>. QED BY <1>u, <3>5, Zenon
  <2>9. Mine(t)'
    <3>1. held'[t] = None /\ pc'[t] \notin Ending /\ pc'[t] # "repeat" /\ pc'[t] # "truncate"
      BY <1>0, <1>u, <2>3, Zenon DEF Ending
    <3>2. inode'[slot'[t]].num = nr'[t] /\ ~inode'[slot'[t]].dirt
      BY <1>u, <2>2, <2>3, <2>5, Zenon
    <3>3. \A u \in Tasks : held'[u] # slot'[t] /\ (u # t => empty'[u] # slot'[t])
      BY <1>u, <2>3, <2>4, Zenon
    <3>. QED BY <3>1, <3>2, <3>3, Zenon DEF Mine
  <2>10. \A u \in Tasks \ {t} : Gentle(t, u)
    <3>1. \A u \in Tasks : pc[u] = "read" => slot[u] # e
      BY <1>0, <2>5, Unread, Zenon DEF Good
    <3>2. held'[t] = None /\ empty'[t] = e
      BY <1>0, <1>u, Zenon
    <3>. QED BY <1>0, <2>2, <2>4, <3>1, <3>2, Aside, Zenon
  <2>. QED BY <1>0, <2>3, <2>7, <2>8, <2>9, <2>10, GoodStep, Zenon
<1>. QED BY <1>1, <1>2, Zenon

(* A task at the end of its file holds it.                                  *)
LEMMA EndsOwn ==
    ASSUME IInv, NEW u \in Tasks, pc[u] \in Ending
    PROVE  held[u] = slot[u] /\ slot[u] \in Table
<1>1. pc[u] \in Putting /\ pc[u] \notin {"user", "search", "iget", "new"}
  BY Zenon DEF Ending, Putting
<1>. QED BY <1>1, Zenon DEF IInv, PlaceInv, Place

(* The file that a task frees has no name: iget does not come for it.       *)
LEMMA NotEnding ==
    ASSUME IInv, Good, NEW t \in Tasks, Runs(t), NEW u \in Tasks \ {t}, pc[u] \in Ending,
           NEW i \in Table, slot[u] = i, ~inode[i].lock, entries[inode[i].num] # 0
    PROVE  FALSE
<1>0. Mine(u) /\ pc[u] \in {"repeat", "iputWrite", "truncate"}
  BY Zenon DEF Good, Ending
<1>1. pc[u] # "repeat"
  BY <1>0, NoneIsNothing, Zenon DEF Mine, Runs
<1>2. pc[u] # "iputWrite"
  BY Zenon DEF Good, LockInv, Locking
<1>3. pc[u] = "truncate" /\ inode[i].nlinks = 0
  BY <1>0, <1>1, <1>2, Zenon DEF Mine
<1>4. held[u] = i /\ inode[i].num # 0
  <2>1. held[u] = i
    BY EndsOwn, Zenon
  <2>. QED BY <1>0, <2>1, NoneIsNothing, Zenon DEF Mine
<1>5. i \notin Readers
  BY Unread, Zenon DEF Good
<1>6. inode[i].nlinks = entries[inode[i].num]
  BY <1>4, <1>5, Zenon DEF Good, TableInv, TableOK, Row
<1>. QED BY <1>3, <1>6, Zenon

(* iget counts the inode it has found.                                      *)
LEMMA FoundGood ==
    ASSUME IInv, Good, NEW t \in Tasks, igetFound(t), hit' = {}
    PROVE  Good'
<1>. DEFINE i == slot[t]
            e == empty[t]
<1>0. Runs(t) /\ pc[t] = "igetWait" /\ i \in Table /\ e \in Table /\ held[t] = None
      /\ nr[t] \in Nums /\ ~inode[i].lock
  BY Zenon DEF igetFound, IInv, PlaceInv, Place, Claimed
<1>u. UNCHANGED <<imap, disk, entries>>
  BY Zenon DEF igetFound, file
<1>n. entries[nr[t]] # 0
  BY Zenon DEF igetFound, NoteStale
<1>f. /\ inode[e].num = 0
      /\ \A u \in Tasks : held[u] # e /\ (u # t => empty[u] # e)
  <2>1. pc[t] \in Claimed
    BY <1>0, Zenon DEF Claimed
  <2>. QED BY <2>1, Zenon DEF IInv, FreshInv
<1>1. CASE inode[i].num = nr[t]
  <2>1. inode' = [inode EXCEPT ![i].count = @ + 1, ![e].count = @ - 1] /\ Return(t, i)
    BY <1>1, Zenon DEF igetFound
  <2>2. i # e /\ inode[i].num # 0
    BY <1>0, <1>1, <1>f, Constants, Zenon
  <2>3. /\ OnlyCounts /\ inode'[i].count = inode[i].count + 1
        /\ \A k \in Table \ {i, e} : inode'[k].count = inode[k].count
    BY <1>0, <2>1, <2>2, CountRows, Zenon DEF IInv
  <2>4. Others(t) /\ pc'[t] = "user" /\ held'[t] = i /\ empty'[t] = None
    BY <2>1, Zenon DEF Return, Others, IInv, TInv
  <2>5. pc[t] \notin Locking /\ pc'[t] \notin Locking
    BY <1>0, <2>4, Zenon DEF Locking
  <2>6. ASSUME NEW u \in Tasks \ {t}
        PROVE  /\ pc[u] \in Ending => inode'[slot[u]].count = inode[slot[u]].count
               /\ pc[u] = "read" => slot[u] # i
    <3>1. pc[u] = "read" => slot[u] # i
      BY <1>0, Unread, Zenon DEF Good
    <3>2. ASSUME pc[u] \in Ending PROVE inode'[slot[u]].count = inode[slot[u]].count
      <4>1. slot[u] \in Table /\ slot[u] # e
        BY <1>f, <3>2, EndsOwn, Zenon
      <4>2. slot[u] # i
        BY <1>0, <1>1, <1>n, <3>2, NotEnding, Zenon
      <4>. QED BY <2>3, <4>1, <4>2, Zenon
    <3>. QED BY <3>1, <3>2, Zenon
  <2>7. ASSUME NEW k \in Table, inode[k].num # 0, inode'[k].count = 0
        PROVE  entries[inode[k].num] > 0
    <3>1. k # e
      BY <1>f, <2>7, Zenon
    <3>2. k # i
      <4>1. inode[i].count \in Nat
        BY <1>0, Referred, Zenon
      <4>2. inode'[i].count # 0
        BY <2>3, <4>1
      <4>. QED BY <2>7, <4>2, Zenon
    <3>3. inode[k].count = 0
      BY <2>3, <2>7, <3>1, <3>2, Zenon
    <3>. QED BY <2>7, <3>3, Zenon DEF Good, TableInv, TableOK, Row
  <2>8. Mine(t)'
    <3>1. pc'[t] \notin Ending /\ pc'[t] # "repeat" /\ pc'[t] # "truncate" /\ pc'[t] # "read"
      BY <2>4, Zenon DEF Ending
    <3>2. inode'[held'[t]].num # 0
      BY <1>0, <2>2, <2>3, <2>4, Zenon DEF OnlyCounts
    <3>. QED BY <3>1, <3>2, Zenon DEF Mine
  <2>9. SparesEnds(t, i) /\ KeepsNamed
    BY <2>6, <2>7, Zenon DEF SparesEnds, KeepsNamed
  <2>10. held'[t] \in {None, held[t], i} /\ empty'[t] \in {None, empty[t]}
    BY <2>4, Zenon
  <2>11. Runs(t) /\ OnlyCounts /\ Others(t) /\ SparesEnds(t, i) /\ i \in Table \union {None}
    BY <1>0, <2>3, <2>4, <2>9, Zenon
  <2>. HIDE DEF i, e
  <2>. QED BY <1>u, <2>5, <2>8, <2>9, <2>10, <2>11, CountGood, Zenon
<1>2. CASE inode[i].num # nr[t]
  <2>1. /\ pc' = [pc EXCEPT ![t] = "iget"] /\ slot' = [slot EXCEPT ![t] = i]
        /\ UNCHANGED <<inode, op, empty, nr, held>>
    BY <1>2, Zenon DEF igetFound, At
  <2>2. Others(t) /\ pc'[t] = "iget"
    BY <2>1, Zenon DEF Others, IInv, TInv
  <2>3. pc[t] \notin Locking /\ pc'[t] \notin Locking /\ pc'[t] \notin Ending \union {"read"}
    BY <1>0, <2>2, Zenon DEF Locking, Ending
  <2>4. Mine(t)'
    BY <1>0, <2>1, <2>3, MineMoves, Zenon
  <2>5. held'[t] = held[t] /\ empty'[t] = empty[t]
    BY <2>1, Zenon
  <2>. QED BY <1>0, <1>u, <2>1, <2>2, <2>3, <2>4, <2>5, MoveGood, Zenon
<1>. QED BY <1>1, <1>2, Zenon

(* read_inode: the inode is as on disk.                                     *)
LEMMA ReadGood ==
    ASSUME IInv, Good, NEW t \in Tasks, read_inode(t)
    PROVE  Good'
<1>. DEFINE i == slot[t]
<1>0. Runs(t) /\ pc[t] = "read" /\ i \in Table /\ nr[t] \in Nums
  BY Zenon DEF read_inode, IInv, PlaceInv, Place
<1>1. /\ inode' = [inode EXCEPT ![i].nlinks = disk[nr[t]], ![i].lock = FALSE]
      /\ Return(t, i) /\ UNCHANGED <<imap, disk, entries>>
  BY Zenon DEF read_inode, file
<1>2. /\ OneRow(inode, inode', i) /\ ~inode'[i].lock /\ inode'[i].dirt = inode[i].dirt
      /\ inode'[i].num = inode[i].num /\ inode'[i].count = inode[i].count
      /\ inode'[i].nlinks = disk[nr[t]]
  BY <1>0, <1>1, ReadRow, Zenon DEF IInv
<1>3. Others(t) /\ pc'[t] = "user" /\ held'[t] = i /\ empty'[t] = None
  BY <1>1, Zenon DEF Return, Others, IInv, TInv
<1>4. /\ inode[i].num = nr[t] /\ ~inode[i].dirt
      /\ \A u \in Tasks : held[u] # i
  BY <1>0, Zenon DEF Good, Mine
<1>5. nr[t] # 0
  BY <1>0, Constants, Zenon
<1>6. LockInv'
  <2>1. SameLocks(Table \ {i})
    BY <1>2, Zenon DEF OneRow, SameLocks
  <2>2. pc[t] \in Locking /\ pc'[t] \notin Locking
    BY <1>0, <1>3, Zenon DEF Locking
  <2>. QED BY <1>0, <1>2, <1>3, <2>1, <2>2, LockDrop, Zenon DEF Good
<1>7. TableOK(inode', Readers', imap', disk', entries')
  <2>1. TableOK(inode, Readers, imap, disk, entries) /\ Row(Readers, imap, disk, entries, i, inode[i])
    BY <1>0, Zenon DEF Good, TableInv, TableOK
  <2>2. SameReaders(Readers, Readers', i)
    BY <1>0, <1>3, ReadersMove, Zenon
  <2>3. Row(Readers', imap, disk, entries, i, inode'[i])
    BY <1>2, <1>4, <1>5, <2>1, Zenon DEF Row
  <2>. HIDE DEF i
  <2>4. TableOK(inode', Readers', imap, disk, entries)
    BY <1>0, <1>2, <2>1, <2>2, <2>3, RowTable, Zenon
  <2>. QED BY <1>1, <2>4, Zenon
<1>8. Mine(t)'
  <2>1. pc'[t] \notin Ending /\ pc'[t] # "repeat" /\ pc'[t] # "truncate" /\ pc'[t] # "read"
    BY <1>3, Zenon DEF Ending
  <2>2. inode'[held'[t]].num # 0
    BY <1>2, <1>3, <1>4, <1>5, Zenon
  <2>. QED BY <2>1, <2>2, Zenon DEF Mine
<1>9. \A u \in Tasks \ {t} : Gentle(t, u)
  <2>1. \A u \in Tasks \ {t} : pc[u] = "read" => slot[u] # i
    <3>1. "read" \in Locking
      BY Zenon DEF Locking
    <3>. QED BY <1>0, <3>1, Zenon DEF Good, LockInv
  <2>. QED BY <1>0, <1>2, <1>3, <1>4, <2>1, Aside, Zenon
<1>. QED BY <1>0, <1>3, <1>6, <1>7, <1>8, <1>9, GoodStep, Zenon

(* new_inode: a number without a name gets one, and the claimed inode.      *)
LEMMA NewGood ==
    ASSUME IInv, Good, NEW t \in Tasks, new_inode(t)
    PROVE  Good'
<1>. DEFINE e == empty[t]
<1>0. Runs(t) /\ pc[t] = "new" /\ e \in Table /\ held[t] = None
  BY Zenon DEF new_inode, IInv, PlaceInv, Place, Claimed
<1>f. /\ inode[e].num = 0
      /\ \A u \in Tasks : held[u] # e /\ (u # t => empty[u] # e)
  <2>1. pc[t] \in Claimed
    BY <1>0, Zenon DEF Claimed
  <2>. QED BY <2>1, Zenon DEF IInv, FreshInv
<1>t. TableOK(inode, Readers, imap, disk, entries) /\ ~inode[e].lock
  BY <1>0, <1>f, Zenon DEF Good, TableInv, TableOK, Row
<1>1. CASE Nums \subseteq imap
  <2>1. /\ inode' = [inode EXCEPT ![e].count = @ - 1] /\ Return(t, None)
        /\ UNCHANGED <<disk, entries, imap>>
    BY <1>1, Zenon DEF new_inode, file
  <2>2. OnlyCounts /\ \A k \in Table \ {e} : inode'[k].count = inode[k].count
    BY <1>0, <2>1, CountRow, Zenon DEF IInv
  <2>3. Others(t) /\ pc'[t] = "user" /\ held'[t] = None /\ empty'[t] = None
    BY <2>1, Zenon DEF Return, Others, IInv, TInv
  <2>4. pc[t] \notin Locking /\ pc'[t] \notin Locking /\ pc'[t] \notin Ending \union {"read"}
    BY <1>0, <2>3, Zenon DEF Locking, Ending
  <2>5. SparesEnds(t, None)
    <3>1. \A u \in Tasks : pc[u] \in Ending => slot[u] \in Table \ {e}
      BY <1>f, EndsOwn, Zenon
    <3>2. \A u \in Tasks : pc[u] = "read" => slot[u] # None
      BY NoneIsNothing, Zenon DEF IInv, PlaceInv, Place
    <3>. QED BY <2>2, <3>1, <3>2, Zenon DEF SparesEnds
  <2>6. KeepsNamed
    <3>. SUFFICES ASSUME NEW k \in Table, inode[k].num # 0, inode'[k].count = 0
                  PROVE  entries[inode[k].num] > 0
      BY Zenon DEF KeepsNamed
    <3>1. inode[k].count = 0
      BY <1>f, <2>2, Zenon
    <3>. QED BY <1>t, <3>1, Zenon DEF TableOK, Row
  <2>7. Mine(t)'
    BY <2>3, <2>4, MineMoves, Zenon
  <2>. QED BY <1>0, <2>1, <2>2, <2>3, <2>4, <2>5, <2>6, <2>7, CountGood, Zenon
<1>2. CASE ~(Nums \subseteq imap)
  <2>. DEFINE j == Min(Nums \ imap)
              r == [num |-> j, count |-> 1, lock |-> FALSE, dirt |-> TRUE, nlinks |-> 1]
  <2>1. /\ imap' = imap \union {j} /\ inode' = [inode EXCEPT ![e] = r]
        /\ entries' = [entries EXCEPT ![j] = 1] /\ Return(t, e) /\ UNCHANGED disk
    BY <1>2, Zenon DEF new_inode
  <2>2. j \in Nums \ imap
    <3>1. Nums \ imap \in SUBSET Nat /\ Nums \ imap # {}
      BY <1>2, InodeTableAssumption DEF Nums
    <3>. QED BY <3>1, MinIn, Zenon
  <2>3. j # 0
    BY <2>2, Constants, Zenon
  <2>. HIDE DEF j
  <2>4. r.num = j /\ r.count = 1 /\ r.lock = FALSE /\ r.dirt /\ r.nlinks = 1
    BY Zenon
  <2>. HIDE DEF r
  <2>5. inode'[e] = r /\ OneRow(inode, inode', e)
    BY <1>0, <2>1, RowIs, Zenon DEF IInv
  <2>6. Others(t) /\ pc'[t] = "user" /\ held'[t] = e /\ empty'[t] = None
    BY <2>1, Zenon DEF Return, Others, IInv, TInv
  <2>7. pc[t] \notin Locking /\ pc'[t] \notin Locking /\ pc[t] # "read" /\ pc'[t] # "read"
        /\ pc'[t] \notin Ending /\ pc'[t] # "repeat" /\ pc'[t] # "truncate"
    BY <1>0, <2>6, Zenon DEF Locking, Ending
  <2>8. LockInv'
    <3>1. inode[e].lock = FALSE
      BY <1>0, <1>t, Fields, Zenon DEF IInv
    <3>2. SameLocks(Table)
      BY <2>4, <2>5, <3>1, Zenon DEF OneRow, SameLocks
    <3>. QED BY <2>6, <2>7, <3>2, LockKeep, Zenon DEF Good
  <2>9. TableOK(inode', Readers', imap', disk', entries')
    <3>1. Readers' = Readers
      BY <2>6, <2>7, ReadersKeep, Zenon
    <3>2. imap \in SUBSET Nums /\ DOMAIN entries = Nums
      BY Zenon DEF IInv, TInv
    <3>3. inode'[e].num = j /\ inode'[e].count = 1 /\ inode'[e].dirt /\ inode'[e].nlinks = 1
      BY <2>4, <2>5, Zenon
    <3>4. inode'[e].num \in Nums \ imap /\ inode'[e].num # 0
      BY <2>2, <2>3, <3>3, Zenon
    <3>. HIDE DEF e
    <3>5. TableOK(inode', Readers, imap \union {inode'[e].num}, disk,
                  [entries EXCEPT ![inode'[e].num] = 1])
      BY <1>0, <1>f, <1>t, <2>5, <3>2, <3>3, <3>4, NewTable, Zenon
    <3>. QED BY <2>1, <3>1, <3>3, <3>5, Zenon
  <2>10. Mine(t)'
    BY <2>3, <2>4, <2>5, <2>6, <2>7, Zenon DEF Mine
  <2>11. \A u \in Tasks \ {t} : Gentle(t, u)
    <3>1. \A u \in Tasks : pc[u] = "read" => slot[u] # e
      BY <1>0, <1>t, Unread, Zenon DEF Good
    <3>. QED BY <1>0, <1>f, <2>5, <2>6, <3>1, Aside, Zenon
  <2>. QED BY <1>0, <2>6, <2>8, <2>9, <2>10, <2>11, GoodStep, Zenon
<1>. QED BY <1>1, <1>2, Zenon

(* sys_link and sys_unlink change the names and i_nlinks alike.             *)
LEMMA LinkGood ==
    ASSUME IInv, Good, NEW t \in Tasks, NEW by \in {-1, 1}, link(t, by)
    PROVE  Good'
<1>. DEFINE i == held[t]
            n == inode[i].num
            x == inode[i].nlinks + by
<1>0. /\ Runs(t) /\ pc[t] = "user" /\ i \in Table
      /\ UNCHANGED <<imap, disk, pc, op, slot, empty, nr, held, current>>
  BY Zenon DEF link, IInv, TInv, task
<1>1. /\ entries[n] > 0 /\ entries' = [entries EXCEPT ![n] = @ + by]
      /\ inode' = [inode EXCEPT ![i].nlinks = Max({0, @ + by}), ![i].dirt = TRUE]
  BY Zenon DEF link
<1>2. n # 0
  BY <1>0, NoneIsNothing, Zenon DEF Good, Mine
<1>3. \A u \in Tasks : pc[u] = "read" => slot[u] # i
  BY Zenon DEF Good, Mine
<1>4. i \notin Readers
  BY <1>3, Zenon DEF Readers
<1>t. TableOK(inode, Readers, imap, disk, entries) /\ Row(Readers, imap, disk, entries, i, inode[i])
  BY <1>0, Zenon DEF Good, TableInv, TableOK
<1>5. inode[i].nlinks = entries[n] /\ n \in Nums /\ entries[n] \in 0..MaxLinks
  BY <1>0, <1>2, <1>4, <1>t, Zenon DEF Row, IInv, TInv
<1>6. Max({0, x}) = x
  <2>1. entries[n] \in Nat /\ x = entries[n] + by /\ MaxLinks \in Nat
    BY <1>5, InodeTableAssumption
  <2>. HIDE DEF x, n, i
  <2>2. x \in Int /\ x >= 0
    BY <1>1, <2>1
  <2>3. \E y \in {0, x} : \A z \in {0, x} : y >= z
    BY <2>2
  <2>4. Max({0, x}) \in {0, x} /\ Max({0, x}) >= x /\ Max({0, x}) >= 0
    BY <2>3, Zenon DEF Max
  <2>. QED BY <2>2, <2>4
<1>7. /\ OneRow(inode, inode', i) /\ inode'[i].lock = inode[i].lock /\ inode'[i].dirt
      /\ inode'[i].num = n /\ inode'[i].count = inode[i].count
      /\ inode'[i].nlinks = x
  <2>1. inode' = [inode EXCEPT ![i].nlinks = x, ![i].dirt = TRUE]
    BY <1>1, <1>6, Zenon
  <2>. HIDE DEF x
  <2>. QED BY <1>0, <2>1, LinksRow, Zenon DEF IInv
<1>8. entries' = [entries EXCEPT ![n] = inode'[i].nlinks]
  BY <1>1, <1>5, <1>7, Zenon
<1>9. Others(t) /\ pc'[t] = "user" /\ held'[t] = held[t] /\ empty'[t] = empty[t]
  BY <1>0, Zenon DEF Others
<1>10. pc[t] \notin Locking /\ pc'[t] \notin Locking /\ pc'[t] \notin Ending \union {"read"}
       /\ pc[t] # "read"
  BY <1>0, Zenon DEF Locking, Ending
<1>11. LockInv'
  <2>1. SameLocks(Table)
    BY <1>0, <1>7, Zenon DEF OneRow, SameLocks
  <2>. QED BY <1>9, <1>10, <2>1, LockKeep, Zenon DEF Good
<1>12. TableOK(inode', Readers', imap', disk', entries')
  <2>1. Readers' = Readers
    BY <1>9, <1>10, ReadersKeep, Zenon
  <2>2. imap \in SUBSET Nums /\ DOMAIN entries = Nums
    BY Zenon DEF IInv, TInv
  <2>3. inode'[i].count # 0
    BY <1>0, <1>7, Referred, Zenon
  <2>. HIDE DEF i, x
  <2>4. TableOK(inode', Readers, imap, disk, [entries EXCEPT ![inode[i].num] = inode'[i].nlinks])
    BY <1>0, <1>2, <1>7, <1>t, <2>2, <2>3, LinkTable, ZenonT(60)
  <2>. QED BY <1>0, <1>8, <2>1, <2>4, Zenon
<1>13. Mine(t)'
  BY <1>7, <1>9, <1>10, MineMoves, Zenon
<1>14. ASSUME NEW u \in Tasks \ {t} PROVE Gentle(t, u)
  <2>0. Mine(u) /\ Place(u) /\ held[u] \in Table \union {None}
    BY Zenon DEF Good, IInv, PlaceInv, TInv
  <2>1. \A k \in Table : inode'[k].num = inode[k].num /\ inode'[k].count = inode[k].count
    BY <1>7, Zenon DEF OneRow
  <2>2. held[u] # None => inode'[held[u]].num # 0
    BY <2>0, <2>1, Zenon DEF Mine
  <2>3. pc[u] \in Ending => inode'[slot[u]].count = inode[slot[u]].count
    BY <2>1, EndsOwn, Zenon
  <2>4. ASSUME pc[u] = "truncate" PROVE inode'[slot[u]].nlinks = 0
    <3>1. slot[u] \in Table /\ inode[slot[u]].nlinks = 0
      BY <2>0, <2>4, Zenon DEF Mine, Place
    <3>2. slot[u] # i
      <4>. SUFFICES ASSUME slot[u] = i PROVE FALSE
        BY Zenon
      <4>1. entries[n] = 0
        BY <1>5, <3>1, Zenon
      <4>. QED BY <1>1, <4>1
    <3>. QED BY <1>7, <3>1, <3>2, Zenon DEF OneRow
  <2>5. ASSUME pc[u] = "read"
        PROVE  /\ inode'[slot[u]].num = inode[slot[u]].num /\ ~inode'[slot[u]].dirt
               /\ held'[t] # slot[u] /\ empty'[t] # slot[u]
    <3>1. slot[u] \in Table \ {i}
      BY <1>3, <2>0, <2>5, Zenon DEF Place
    <3>2. inode'[slot[u]] = inode[slot[u]]
      BY <1>7, <3>1, Zenon DEF OneRow
    <3>. QED BY <1>9, <2>0, <2>5, <3>2, Zenon DEF Mine
  <2>. QED BY <2>2, <2>3, <2>4, <2>5, Zenon DEF Gentle
<1>. QED BY <1>0, <1>9, <1>11, <1>12, <1>13, <1>14, GoodStep, Zenon

(* One reference less to an inode that has more of them, or a name.         *)
LEMMA DropGood ==
    ASSUME IInv, Good, NEW t \in Tasks, Runs(t), pc[t] \in {"iput", "repeat"},
           NEW i \in Table, held[t] = i,
           inode' = [inode EXCEPT ![i].count = @ - 1], Return(t, None),
           UNCHANGED <<imap, disk, entries>>,
           inode[i].count # 1 \/ entries[inode[i].num] > 0
    PROVE  Good'
<1>1. /\ OnlyCounts /\ inode'[i].count = inode[i].count - 1
      /\ \A k \in Table \ {i} : inode'[k].count = inode[k].count
  BY CountRow, Zenon DEF IInv
<1>2. Others(t) /\ pc'[t] = "user" /\ held'[t] = None /\ empty'[t] = None
  BY Zenon DEF Return, Others, IInv, TInv
<1>3. pc[t] \notin Locking /\ pc'[t] \notin Locking /\ pc'[t] \notin Ending \union {"read"}
  BY <1>2, Zenon DEF Locking, Ending
<1>4. SparesEnds(t, None)
  <2>. SUFFICES ASSUME NEW u \in Tasks \ {t}
                PROVE  /\ pc[u] \in Ending => inode'[slot[u]].count = inode[slot[u]].count
                       /\ pc[u] = "read" => slot[u] # None
    BY Zenon DEF SparesEnds
  <2>1. pc[u] = "read" => slot[u] # None
    BY NoneIsNothing, Zenon DEF IInv, PlaceInv, Place
  <2>2. ASSUME pc[u] \in Ending PROVE slot[u] \in Table \ {i}
    <3>1. held[u] = slot[u] /\ slot[u] \in Table /\ inode[slot[u]].count = 1
      BY <2>2, EndsOwn, Zenon DEF Good, Mine
    <3>. QED BY <3>1, OneHolder, Zenon
  <2>. QED BY <1>1, <2>1, <2>2, Zenon
<1>5. KeepsNamed
  <2>. SUFFICES ASSUME NEW k \in Table, inode[k].num # 0, inode'[k].count = 0
                PROVE  entries[inode[k].num] > 0
    BY Zenon DEF KeepsNamed
  <2>1. CASE k = i
    <3>1. inode[i].count \in Nat
      BY Referred, Zenon
    <3>2. inode[i].count = 1
      BY <1>1, <2>1, <3>1
    <3>. QED BY <2>1, <3>2, Zenon
  <2>2. CASE k # i
    <3>1. inode[k].count = 0
      BY <1>1, <2>2, Zenon
    <3>. QED BY <3>1, Zenon DEF Good, TableInv, TableOK, Row
  <2>. QED BY <2>1, <2>2, Zenon
<1>6. Mine(t)'
  BY <1>2, <1>3, MineMoves, Zenon
<1>. QED BY <1>1, <1>2, <1>3, <1>4, <1>5, <1>6, CountGood, Zenon

(* iput goes on alone at `repeat', where nobody else can come to the inode. *)
LEMMA PutGood ==
    ASSUME IInv, Good, NEW t \in Tasks, iput_wait(t), UNCHANGED panic
    PROVE  Good'
<1>. DEFINE i == slot[t]
<1>0. Runs(t) /\ pc[t] = "iput" /\ ~inode[i].lock /\ i \in Table /\ held[t] = i /\ panic = ""
  BY Zenon DEF iput_wait, IInv, PlaceInv, Place, Putting, Runs
<1>1. inode[i].num # 0 /\ inode[i].count # 0 /\ inode[i].count \in Nat
  <2>1. inode[i].num # 0
    BY <1>0, NoneIsNothing, Zenon DEF Good, Mine
  <2>2. inode[i].count # 0 /\ inode[i].count \in Nat
    BY <1>0, Referred, Zenon
  <2>. QED BY <2>1, <2>2, Zenon
<1>u. UNCHANGED <<imap, disk, entries>>
  BY <1>1, Zenon DEF iput_wait, file
<1>2. CASE inode[i].count > 1
  <2>1. inode' = [inode EXCEPT ![i].count = @ - 1] /\ Return(t, None)
    BY <1>1, <1>2, Zenon DEF iput_wait
  <2>2. inode[i].count # 1
    BY <1>1, <1>2
  <2>. HIDE DEF i
  <2>. QED BY <1>0, <1>u, <2>1, <2>2, DropGood, Zenon
<1>3. CASE ~(inode[i].count > 1)
  <2>1. /\ pc' = [pc EXCEPT ![t] = "repeat"] /\ slot' = [slot EXCEPT ![t] = i]
        /\ current' = t /\ UNCHANGED <<inode, op, empty, nr, held>>
    BY <1>0, <1>1, <1>3, Zenon DEF iput_wait, At
  <2>2. Others(t) /\ pc'[t] = "repeat" /\ slot'[t] = i
    BY <2>1, Zenon DEF Others, IInv, TInv
  <2>3. pc[t] \notin Locking /\ pc'[t] \notin Locking
    BY <1>0, <2>2, Zenon DEF Locking
  <2>4. inode[i].count = 1
    BY <1>1, <1>3
  <2>5. Mine(t)'
    BY <1>0, <1>1, <2>1, <2>2, <2>4, Zenon DEF Mine
  <2>6. held'[t] = held[t] /\ empty'[t] = empty[t]
    BY <2>1, Zenon
  <2>. QED BY <1>0, <1>u, <2>1, <2>2, <2>3, <2>5, <2>6, MoveGood, Zenon
<1>. QED BY <1>2, <1>3, Zenon

LEMMA IputGood ==
    ASSUME IInv, Good, NEW t \in Tasks, iput(t)
    PROVE  Good'
<1>. DEFINE i == slot[t]
<1>0. Runs(t) /\ pc[t] = "repeat" /\ ~inode[i].lock /\ i \in Table /\ held[t] = i
  BY Zenon DEF iput, IInv, PlaceInv, Place, Putting
<1>1. inode[i].num # 0 /\ inode[i].count = 1
  BY <1>0, NoneIsNothing, Zenon DEF Good, Mine, Ending
<1>u. UNCHANGED <<imap, disk, entries>>
  BY Zenon DEF iput, file
<1>2. CASE inode[i].nlinks = 0
  <2>1. /\ pc' = [pc EXCEPT ![t] = "truncate"] /\ UNCHANGED <<inode, slot, op, empty, nr, held>>
    BY <1>2, Zenon DEF iput, Sleep
  <2>2. Others(t) /\ pc'[t] = "truncate" /\ slot'[t] = i
    BY <2>1, Zenon DEF Others, IInv, TInv
  <2>3. pc[t] \notin Locking /\ pc'[t] \notin Locking
    BY <1>0, <2>2, Zenon DEF Locking
  <2>4. Mine(t)'
    BY <1>0, <1>1, <1>2, <2>1, <2>2, Zenon DEF Mine
  <2>5. held'[t] = held[t] /\ empty'[t] = empty[t]
    BY <2>1, Zenon
  <2>. QED BY <1>0, <1>u, <2>1, <2>2, <2>3, <2>4, <2>5, MoveGood, Zenon
<1>3. CASE inode[i].nlinks # 0 /\ inode[i].dirt
  <2>1. WriteBegins(t, "iputWrite") /\ UNCHANGED <<op, empty, nr, held>>
    BY <1>3, Zenon DEF iput
  <2>. QED BY <1>0, <1>u, <1>3, <2>1, WriteBeginsGood, Zenon
<1>4. CASE inode[i].nlinks # 0 /\ ~inode[i].dirt
  <2>1. inode' = [inode EXCEPT ![i].count = @ - 1] /\ Return(t, None)
    BY <1>4, Zenon DEF iput
  <2>2. i \notin Readers
    BY <1>0, Unread, Zenon DEF Good
  <2>3. inode[i].nlinks = entries[inode[i].num]
    BY <1>0, <1>1, <2>2, Zenon DEF Good, TableInv, TableOK, Row
  <2>4. inode[i].nlinks \in 0..MaxLinks /\ MaxLinks \in Nat
    BY <1>0, Fields, InodeTableAssumption DEF IInv
  <2>. HIDE DEF i
  <2>5. entries[inode[i].num] > 0
    BY <1>4, <2>3, <2>4
  <2>. QED BY <1>0, <1>u, <2>1, <2>5, DropGood, Zenon
<1>. QED BY <1>2, <1>3, <1>4, Zenon

(* free_inode resets an inode that has no name and no other user.           *)
LEMMA FreeGood ==
    ASSUME IInv, Good, NEW t \in Tasks, free_inode(t), UNCHANGED panic, hit' = {}
    PROVE  Good'
<1>. DEFINE i == slot[t]
<1>0. Runs(t) /\ pc[t] = "truncate" /\ i \in Table /\ held[t] = i /\ panic = ""
  BY Zenon DEF free_inode, IInv, PlaceInv, Place, Putting, Runs
<1>1. /\ imap' = imap \ {inode[i].num} /\ inode' = [inode EXCEPT ![i] = Zeroed]
      /\ Return(t, None) /\ UNCHANGED <<disk, entries>> /\ ~inode[i].lock
  <2>1. /\ imap' = imap \ {inode[i].num} /\ inode' = [inode EXCEPT ![i] = Zeroed]
        /\ Return(t, None) /\ UNCHANGED <<disk, entries>>
        /\ hit' = IF inode[i].lock THEN hit \union {"locked"} ELSE hit
    BY <1>0, Zenon DEF free_inode, Panic
  <2>. QED BY <2>1, Zenon
<1>2. inode[i].num # 0 /\ inode[i].count = 1 /\ inode[i].nlinks = 0
  BY <1>0, NoneIsNothing, ZenonT(60) DEF Good, Mine, Ending
<1>3. inode'[i] = Zeroed /\ OneRow(inode, inode', i)
  BY <1>0, <1>1, RowIs, Zenon DEF IInv
<1>4. Zeroed.num = 0 /\ Zeroed.lock = FALSE /\ ~Zeroed.dirt
  BY Zenon DEF Zeroed
<1>5. Others(t) /\ pc'[t] = "user" /\ held'[t] = None /\ empty'[t] = None
  BY <1>1, Zenon DEF Return, Others, IInv, TInv
<1>6. pc[t] \notin Locking /\ pc'[t] \notin Locking /\ pc'[t] \notin Ending \union {"read"}
      /\ pc[t] # "read"
  BY <1>0, <1>5, Zenon DEF Locking, Ending
<1>7. LockInv'
  <2>1. inode[i].lock = FALSE
    BY <1>0, <1>1, Fields, Zenon DEF IInv
  <2>2. SameLocks(Table)
    BY <1>3, <1>4, <2>1, Zenon DEF OneRow, SameLocks
  <2>. QED BY <1>5, <1>6, <2>2, LockKeep, Zenon DEF Good
<1>8. i \notin Readers /\ \A u \in Tasks : pc[u] = "read" => slot[u] # i
  BY <1>0, <1>1, Unread, Zenon DEF Good
<1>9. TableOK(inode', Readers', imap', disk', entries')
  <2>1. TableOK(inode, Readers, imap, disk, entries) /\ Row(Readers, imap, disk, entries, i, inode[i])
    BY <1>0, Zenon DEF Good, TableInv, TableOK
  <2>2. entries[inode[i].num] = 0
    BY <1>2, <1>8, <2>1, Zenon DEF Row
  <2>3. Readers' = Readers
    BY <1>5, <1>6, ReadersKeep, Zenon
  <2>4. inode'[i].num = 0 /\ ~inode'[i].dirt /\ ~inode'[i].lock
    BY <1>3, <1>4, Zenon
  <2>. HIDE DEF i
  <2>5. TableOK(inode', Readers, imap \ {inode[i].num}, disk, entries)
    BY <1>0, <1>2, <1>3, <2>1, <2>2, <2>4, FreeTable, Zenon
  <2>. QED BY <1>1, <2>3, <2>5, Zenon
<1>10. Mine(t)'
  BY <1>5, <1>6, MineMoves, Zenon
<1>11. \A u \in Tasks \ {t} : Gentle(t, u)
  <2>1. \A u \in Tasks \ {t} : held[u] # i
    BY <1>0, <1>2, OneHolder, Zenon
  <2>. QED BY <1>0, <1>3, <1>5, <1>8, <2>1, Aside, Zenon
<1>. QED BY <1>0, <1>5, <1>7, <1>9, <1>10, <1>11, GoodStep, Zenon

-----------------------------------------------------------------------------
(* The content of the table, until a window is hit.                         *)
GInv == hit = {} => Good

LEMMA Init_Good == Init => Good
<1>. SUFFICES ASSUME Init PROVE Good
  BY Zenon
<1>1. /\ inode = [i \in Table |-> Zeroed] /\ imap \in SUBSET Nums
      /\ disk = [n \in Nums |-> IF n \in imap THEN 1 ELSE 0] /\ entries = disk
      /\ pc = [t \in Tasks |-> "user"] /\ held = [t \in Tasks |-> None]
  BY Zenon DEF Init
<1>2. Zeroed.num = 0 /\ ~Zeroed.lock /\ ~Zeroed.dirt
  BY Zenon DEF Zeroed
<1>3. \A t \in Tasks : pc[t] = "user"
  BY <1>1, Zenon
<1>4. \A i \in Table : inode[i].num = 0 /\ ~inode[i].lock /\ ~inode[i].dirt
  BY <1>1, <1>2, Zenon
<1>5. LockInv
  BY <1>3, <1>4, Zenon DEF LockInv, Locking
<1>6. \A t \in Tasks : Mine(t)
  BY <1>1, <1>3, Zenon DEF Mine, Ending
<1>7. \A n \in Nums : entries[n] = disk[n] /\ entries[n] = IF n \in imap THEN 1 ELSE 0
  BY <1>1, Zenon
<1>8. TableOK(inode, Readers, imap, disk, entries)
  <2>1. \A i \in Table : Row(Readers, imap, disk, entries, i, inode[i])
    BY <1>4, Zenon DEF Row
  <2>2. OneCopy(inode)
    BY <1>4, Zenon DEF OneCopy
  <2>3. \A n \in imap : disk[n] = entries[n] /\ entries[n] = 1
    BY <1>1, <1>7, Zenon
  <2>4. Absent(inode, imap, disk, entries)
    <3>1. 1 > 0
      OBVIOUS
    <3>. QED BY <2>3, <3>1, Zenon DEF Absent
  <2>5. Unnamed(imap, entries)
    BY <1>7, Zenon DEF Unnamed
  <2>. QED BY <2>1, <2>2, <2>4, <2>5, Zenon DEF TableOK
<1>. QED BY <1>5, <1>6, <1>8, Zenon DEF Good, TableInv

LEMMA StutterGood ==
    ASSUME Good, UNCHANGED <<inode, file, task>>
    PROVE  Good'
<1>1. UNCHANGED <<inode, disk, entries, imap, pc, slot, empty, nr, held, current>>
  BY Zenon DEF file, task
<1>2. LockInv'
  BY <1>1, Zenon DEF Good, LockInv
<1>3. Readers' = Readers
  BY <1>1, Zenon DEF Readers
<1>4. TableInv'
  BY <1>1, <1>3, Zenon DEF Good, TableInv
<1>5. ASSUME NEW t \in Tasks PROVE Mine(t)'
  <2>1. Mine(t)
    BY Zenon DEF Good
  <2>. QED BY <1>1, <2>1, Zenon DEF Mine
<1>. QED BY <1>2, <1>4, <1>5, Zenon DEF Good

(* What can happen, one line per handler.                                   *)
LEMMA Steps ==
    ASSUME Next
    PROVE  \E t \in Tasks :
             \/ (\E n \in Nums : Lookup(t, n)) \/ Create(t) \/ iputCall(t) \/ syncCall(t)
             \/ \E by \in {-1, 1} : link(t, by)
             \/ search(t) \/ get_empty_inode(t) \/ WriteEnds(t)
             \/ iget(t) \/ igetFound(t) \/ read_inode(t) \/ new_inode(t)
             \/ iput_wait(t) \/ iput(t) \/ free_inode(t)
             \/ sync_inodes(t) \/ syncNext(t)
BY Zenon DEF Next

LEMMA HitsStay ==
    ASSUME [Next]_vars
    PROVE  hit \subseteq hit'
<1>1. CASE UNCHANGED vars
  BY <1>1, Zenon DEF vars
<1>2. CASE Next
  <2>1. PICK t \in Tasks :
          \/ (\E n \in Nums : Lookup(t, n)) \/ Create(t) \/ iputCall(t) \/ syncCall(t)
          \/ \E by \in {-1, 1} : link(t, by)
          \/ search(t) \/ get_empty_inode(t) \/ WriteEnds(t)
          \/ iget(t) \/ igetFound(t) \/ read_inode(t) \/ new_inode(t)
          \/ iput_wait(t) \/ iput(t) \/ free_inode(t)
          \/ sync_inodes(t) \/ syncNext(t)
    BY <1>2, Steps, Zenon
  <2>2. CASE (\E n \in Nums : Lookup(t, n)) \/ Create(t) \/ iputCall(t) \/ syncCall(t)
    BY <2>2, Zenon DEF Lookup, Create, iputCall, syncCall
  <2>3. CASE (\E by \in {-1, 1} : link(t, by)) \/ get_empty_inode(t) \/ WriteEnds(t)
             \/ read_inode(t) \/ new_inode(t)
    BY <2>3, Zenon DEF link, get_empty_inode, WriteEnds, read_inode, new_inode
  <2>4. CASE search(t) \/ iput_wait(t) \/ iput(t) \/ sync_inodes(t) \/ syncNext(t)
    BY <2>4, Zenon DEF search, iput_wait, iput, sync_inodes, syncNext, Panic
  <2>5. CASE iget(t) \/ igetFound(t)
    BY <2>5, Zenon DEF iget, igetFound, NoteStale
  <2>6. CASE free_inode(t)
    BY <2>6, Zenon DEF free_inode, Panic
  <2>. QED BY <2>1, <2>2, <2>3, <2>4, <2>5, <2>6, Zenon
<1>. QED BY <1>1, <1>2, Zenon

LEMMA Next_Good ==
    ASSUME IInv, Good, [Next]_vars, hit' = {}
    PROVE  Good'
<1>1. CASE UNCHANGED vars
  BY <1>1, StutterGood, Zenon DEF vars
<1>2. CASE Next
  <2>1. PICK t \in Tasks :
          \/ (\E n \in Nums : Lookup(t, n)) \/ Create(t) \/ iputCall(t) \/ syncCall(t)
          \/ \E by \in {-1, 1} : link(t, by)
          \/ search(t) \/ get_empty_inode(t) \/ WriteEnds(t)
          \/ iget(t) \/ igetFound(t) \/ read_inode(t) \/ new_inode(t)
          \/ iput_wait(t) \/ iput(t) \/ free_inode(t)
          \/ sync_inodes(t) \/ syncNext(t)
    BY <1>2, Steps, Zenon
  <2>2. CASE (\E n \in Nums : Lookup(t, n)) \/ Create(t) \/ iputCall(t) \/ syncCall(t)
    BY <2>2, BeginGood, Zenon
  <2>3. CASE \E by \in {-1, 1} : link(t, by)
    BY <2>3, LinkGood, Zenon
  <2>4. CASE search(t)
    <3>1. CASE UNCHANGED panic
      BY <2>4, <3>1, SearchGood, Zenon
    <3>2. CASE ~(UNCHANGED panic)
      BY <2>4, <3>2, StutterGood, Zenon DEF search, Panic
    <3>. QED BY <3>1, <3>2, Zenon
  <2>5. CASE get_empty_inode(t)
    BY <2>5, GetEmptyGood, Zenon
  <2>6. CASE WriteEnds(t)
    BY <2>6, WriteEndsGood, Zenon
  <2>7. CASE iget(t)
    BY <2>7, IgetGood, Zenon
  <2>8. CASE igetFound(t)
    BY <2>8, FoundGood, Zenon
  <2>9. CASE read_inode(t)
    BY <2>9, ReadGood, Zenon
  <2>10. CASE new_inode(t)
    BY <2>10, NewGood, Zenon
  <2>11. CASE iput_wait(t)
    <3>1. CASE UNCHANGED panic
      BY <2>11, <3>1, PutGood, Zenon
    <3>2. CASE ~(UNCHANGED panic)
      BY <2>11, <3>2, StutterGood, Zenon DEF iput_wait, Panic
    <3>. QED BY <3>1, <3>2, Zenon
  <2>12. CASE iput(t)
    BY <2>12, IputGood, Zenon
  <2>13. CASE free_inode(t)
    <3>1. CASE UNCHANGED panic
      BY <2>13, <3>1, FreeGood, Zenon
    <3>2. CASE ~(UNCHANGED panic)
      BY <2>13, <3>2, StutterGood, Zenon DEF free_inode, Panic
    <3>. QED BY <3>1, <3>2, Zenon
  <2>14. CASE sync_inodes(t) \/ syncNext(t)
    BY <2>14, SyncGood, Zenon
  <2>. QED BY <2>1, <2>2, <2>3, <2>4, <2>5, <2>6, <2>7, <2>8, <2>9, <2>10, <2>11,
              <2>12, <2>13, <2>14, Zenon
<1>. QED BY <1>1, <1>2, Zenon

LEMMA AlwaysGInv == Spec => []GInv
<1>1. Init => GInv
  BY Init_Good, Zenon DEF GInv
<1>2. IInv /\ GInv /\ [Next]_vars => GInv'
  BY Next_Good, HitsStay, Zenon DEF GInv
<1>. QED BY <1>1, <1>2, AlwaysIInv, PTL DEF Spec

(* No change of an inode is lost while nobody hits one of the two windows:  *)
(* iget, iput, sync_inodes and get_empty_inode may write an inode at any    *)
(* time, it keeps one copy in core, and what is clean or not in core is on  *)
(* disk as its users left it.                                               *)
THEOREM UpdatesKept == Spec => []NoLostUpdate
<1>1. ASSUME GInv PROVE NoLostUpdate
  <2>. SUFFICES ASSUME hit = {}
                PROVE  /\ \A i, j \in Table : inode[i].num = inode[j].num /\ i # j => inode[i].num = 0
                       /\ \A i \in Table : inode[i].num # 0 =>
                            /\ (\A t \in Tasks : ~(pc[t] = "read" /\ slot[t] = i))
                                 => inode[i].nlinks = entries[inode[i].num]
                            /\ ~inode[i].dirt => disk[inode[i].num] = entries[inode[i].num]
                       /\ \A n \in imap : (\A i \in Table : inode[i].num # n) => disk[n] = entries[n]
    BY Zenon DEF NoLostUpdate
  <2>1. TableOK(inode, Readers, imap, disk, entries)
    BY <1>1, Zenon DEF GInv, Good, TableInv
  <2>2. \A i, j \in Table : inode[i].num = inode[j].num /\ i # j => inode[i].num = 0
    BY <2>1, Zenon DEF TableOK, OneCopy
  <2>3. ASSUME NEW i \in Table, inode[i].num # 0
        PROVE  /\ (\A t \in Tasks : ~(pc[t] = "read" /\ slot[t] = i))
                    => inode[i].nlinks = entries[inode[i].num]
               /\ ~inode[i].dirt => disk[inode[i].num] = entries[inode[i].num]
    <3>1. Row(Readers, imap, disk, entries, i, inode[i])
      BY <2>1, Zenon DEF TableOK
    <3>2. (\A t \in Tasks : ~(pc[t] = "read" /\ slot[t] = i)) => i \notin Readers
      BY Zenon DEF Readers
    <3>. QED BY <2>3, <3>1, <3>2, Zenon DEF Row
  <2>4. \A n \in imap : (\A i \in Table : inode[i].num # n) => disk[n] = entries[n]
    BY <2>1, Zenon DEF TableOK, Absent
  <2>. QED BY <2>2, <2>3, <2>4, Zenon
<1>. QED BY <1>1, AlwaysGInv, PTL

-----------------------------------------------------------------------------
LEMMA NoMore == ~(1 > 1) /\ ~(0 > 0)
OBVIOUS

(* The checks of iput and free_inode find what they should, whatever        *)
(* clear_bit tells and however small the table is.                          *)
LEMMA NoPanic ==
    ASSUME IInv, Good, [Next]_vars, panic \in Known
    PROVE  panic' \in Known
<1>1. CASE UNCHANGED vars
  BY <1>1, Zenon DEF vars
<1>2. ASSUME NEW t \in Tasks, search(t) PROVE panic' \in Known
  BY <1>2, Zenon DEF search, Panic, Known
<1>3. ASSUME NEW t \in Tasks, iput_wait(t) PROVE panic' \in Known
  <2>1. slot[t] \in Table /\ held[t] = slot[t]
    BY <1>3, Zenon DEF iput_wait, IInv, PlaceInv, Place, Putting
  <2>2. inode[slot[t]].count # 0
    BY <2>1, Referred, Zenon
  <2>. QED BY <1>3, <2>2, Zenon DEF iput_wait
<1>4. ASSUME NEW t \in Tasks, free_inode(t) PROVE panic' \in Known
  <2>. DEFINE i == slot[t]
  <2>1. i \in Table /\ held[t] = i /\ pc[t] = "truncate" /\ Mine(t)
    BY <1>4, Zenon DEF free_inode, IInv, PlaceInv, Place, Putting, Good
  <2>2. inode[i].count = 1 /\ inode[i].nlinks = 0 /\ inode[i].num # 0
    BY <2>1, NoneIsNothing, Zenon DEF Mine, Ending
  <2>4. ~(inode[i].count > 1) /\ ~(inode[i].nlinks > 0)
    BY <2>2, NoMore, Zenon
  <2>. QED BY <1>4, <2>4, Zenon DEF free_inode, Panic, Known
<1>5. CASE Next
  <2>1. PICK t \in Tasks :
          \/ (\E n \in Nums : Lookup(t, n)) \/ Create(t) \/ iputCall(t) \/ syncCall(t)
          \/ \E by \in {-1, 1} : link(t, by)
          \/ search(t) \/ get_empty_inode(t) \/ WriteEnds(t)
          \/ iget(t) \/ igetFound(t) \/ read_inode(t) \/ new_inode(t)
          \/ iput_wait(t) \/ iput(t) \/ free_inode(t)
          \/ sync_inodes(t) \/ syncNext(t)
    BY <1>5, Steps, Zenon
  <2>2. CASE (\E n \in Nums : Lookup(t, n)) \/ Create(t) \/ iputCall(t) \/ syncCall(t)
    BY <2>2, Zenon DEF Lookup, Create, iputCall, syncCall
  <2>3. CASE (\E by \in {-1, 1} : link(t, by)) \/ get_empty_inode(t) \/ WriteEnds(t)
             \/ read_inode(t) \/ new_inode(t)
    BY <2>3, Zenon DEF link, get_empty_inode, WriteEnds, read_inode, new_inode
  <2>4. CASE iget(t) \/ igetFound(t) \/ iput(t) \/ sync_inodes(t) \/ syncNext(t)
    BY <2>4, Zenon DEF iget, igetFound, iput, sync_inodes, syncNext
  <2>. QED BY <1>2, <1>3, <1>4, <2>1, <2>2, <2>3, <2>4, Zenon
<1>. QED BY <1>1, <1>5, Zenon

(* An inode is allocated exactly while it has a name or is open, iput       *)
(* truncates only what nobody else has open, and no check of i_count or     *)
(* i_nlinks in iput and free_inode fails, for any number of tasks and       *)
(* inodes and whatever clear_bit tells.                                     *)
THEOREM AllocationExact == Spec => []AllocExact
<1>. DEFINE Calm == hit = {} => panic \in Known
<1>1. Init => Calm
  BY Zenon DEF Init, Known
<1>2. IInv /\ GInv /\ Calm /\ [Next]_vars => Calm'
  BY NoPanic, HitsStay, Zenon DEF GInv
<1>3. ASSUME IInv, GInv, Calm PROVE AllocExact
  <2>. SUFFICES ASSUME hit = {}
                PROVE  /\ \A n \in Nums : n \in imap <=>
                             entries[n] > 0 \/ \E i \in Table : inode[i].num = n /\ inode[i].count > 0
                       /\ \A t \in Tasks : pc[t] = "truncate" => inode[slot[t]].count = 1
                       /\ panic \in Known
    BY Zenon DEF AllocExact
  <2>1. TableOK(inode, Readers, imap, disk, entries) /\ \A t \in Tasks : Mine(t)
    BY <1>3, Zenon DEF GInv, Good, TableInv
  <2>2. ASSUME NEW n \in Nums, n \in imap
        PROVE  entries[n] > 0 \/ \E i \in Table : inode[i].num = n /\ inode[i].count > 0
    <3>1. CASE \A i \in Table : inode[i].num # n
      BY <2>1, <2>2, <3>1, Zenon DEF TableOK, Absent
    <3>2. ASSUME NEW i \in Table, inode[i].num = n
          PROVE  entries[n] > 0 \/ inode[i].count > 0
      <4>1. inode[i].count \in Nat /\ (inode[i].count > 0 <=> inode[i].count # 0)
        <5>1. inode[i].count \in Nat
          BY <1>3, Referred, Zenon
        <5>. QED BY <5>1
      <4>2. n # 0
        BY Constants, Zenon
      <4>. QED BY <2>1, <3>2, <4>1, <4>2, Zenon DEF TableOK, Row
    <3>. QED BY <3>1, <3>2, Zenon
  <2>3. ASSUME NEW n \in Nums, entries[n] > 0 PROVE n \in imap
    <3>1. entries[n] # 0
      BY <2>3
    <3>. QED BY <2>1, <3>1, Zenon DEF TableOK, Unnamed
  <2>4. ASSUME NEW n \in Nums, NEW i \in Table, inode[i].num = n PROVE n \in imap
    <3>1. n # 0
      BY Constants, Zenon
    <3>. QED BY <2>1, <2>4, <3>1, Zenon DEF TableOK, Row
  <2>5. ASSUME NEW t \in Tasks, pc[t] = "truncate" PROVE inode[slot[t]].count = 1
    BY <2>1, <2>5, Zenon DEF Mine, Ending
  <2>. QED BY <1>3, <2>2, <2>3, <2>4, <2>5, Zenon
<1>. QED BY <1>1, <1>2, <1>3, AlwaysIInv, AlwaysGInv, PTL DEF Spec
=============================================================================
