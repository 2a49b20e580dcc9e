------------------------------ MODULE FileBlocks ------------------------------
(***************************************************************************)
(* The blocks of files: the zone bitmap (fs/bitmap.c, mount_root of        *)
(* fs/super.c), the tree of zones of an inode (_bmap of fs/inode.c),       *)
(* truncate (fs/truncate.c) and the loops of file_read and file_write      *)
(* (fs/file_dev.c).                                                        *)
(*                                                                         *)
(* A task gives way where the code can sleep: in bread, in getblk inside   *)
(* new_block and in get_hash_table inside free_block.  A block is an array *)
(* of numbers, zone numbers or bytes; the byte of file f at p is Byte(f,p),*)
(* so that a byte read tells where it was written.                         *)
(***************************************************************************)
EXTENDS Integers, Sequences, FiniteSets, FiniteSetsExt, SequencesExt

CONSTANTS
    Tasks, Files,
    ND,           \* direct zones of an inode (7)
    NI,           \* zone numbers in a block (512) and bytes in a block (1024)
    s_nzones,     \* zones of the file system; the data zones are 1..s_nzones-1
    MapBits,      \* bits of the zone bitmap (8192 for each block of it)
    WordBits,     \* bits in an unsigned long
    Calls,        \* the <<"read" or "write", pos, count>> of the tasks' calls
    MaxSize,      \* how far a call that appends may take a file
    MaxCalls,     \* bound: calls the tasks make between them
    ClearTells,   \* clear_bit returns whether the bit was already clear
                  \* (FALSE in the code: bitmap.c:19-24)
    CountSets     \* mount_root sets the bits it counts (TRUE in the code:
                  \* super.c:9-14, 94-96)

Zones  == 1..s_nzones - 1
NoTask == 0

ASSUME FileBlocksAssumption ==
    /\ NoTask \notin Tasks /\ Files \subseteq Nat \ {0}
    /\ {ND, NI, s_nzones, WordBits, MaxSize, MaxCalls} \subseteq Nat \ {0} /\ MapBits >= s_nzones
    /\ Calls \subseteq {"read", "write"} \X Nat \X (Nat \ {0})
    /\ ClearTells \in BOOLEAN /\ CountSets \in BOOLEAN

VARIABLES
    zmap,         \* the bits that are set; bit j is zone j, s_firstdatazone is 1
    i_zone,       \* i_zone[f][0..ND+1]
    i_size,
    mem,          \* mem[b]: the content of block b
    written,      \* history: the bytes written to each file
    mounted,
    current,      \* the task inside the kernel, or NoTask
    pc,
    inode,        \* the file of a task's call
    todo,         \* what is left: of the call's bytes, or of the zones to free
    path, from,   \* the rest of _bmap's way, and the block (0: inode) it is in
    blk,          \* the block in hand
    calls,        \* bound: the calls made
    panic,
    hit           \* history: the windows another task's step has hit

disk == <<zmap, i_zone, i_size, mem, written>>
task == <<pc, inode, todo, path, from, blk>>
vars == <<disk, task, calls, mounted, current, panic, hit>>

Byte(f, p) == 1000 * f + p

Runs(t) == current \in {t, NoTask} /\ panic = "" /\ mounted

Panic(what) == panic' = what /\ UNCHANGED <<disk, task, calls, mounted, current, hit>>

Set(var, t, v) == [var EXCEPT ![t] = v]

Done(t) ==
    /\ pc' = Set(pc, t, "user") /\ inode' = Set(inode, t, 0)
    /\ todo' = Set(todo, t, <<>>) /\ path' = Set(path, t, <<>>)
    /\ from' = Set(from, t, 0) /\ blk' = Set(blk, t, 0)
    /\ current' = NoTask
-----------------------------------------------------------------------------
(* set_bit and clear_bit only ever touch the first word of the block.      *)
InWord(nr) == nr % WordBits

find_first_zero == Min({j \in 0..MapBits : j \notin zmap})

clear_bit(nr) == IF ClearTells THEN InWord(nr) \notin zmap ELSE InWord(nr) \in zmap

(* Bit 0 is not a zone; the other bits are the ones on the disk.           *)
do_mount == zmap \union {0}

(* The bits mount_root sets while it counts the free zones.                *)
MountBits == IF CountSets THEN {InWord(i) : i \in 0..s_nzones - 1} ELSE {}

(* mount_root counts the free zones.  A disk without a file system, or one *)
(* whose bitmaps cannot be read, is the end.                               *)
mount_root ==
    /\ ~mounted /\ panic = ""
    /\ \E readable \in BOOLEAN :
          /\ mounted' = readable
          /\ panic' = IF readable THEN "" ELSE "Unable to mount root"
          /\ zmap' = IF readable THEN do_mount \union MountBits ELSE zmap
    /\ UNCHANGED <<i_zone, i_size, mem, written, task, calls, current, hit>>
-----------------------------------------------------------------------------
(* The way from the inode to block n of a file: the index in i_zone, then  *)
(* the index in each indirect block.                                       *)
Way(n) ==
    LET m == n - ND IN
    IF n < ND THEN <<n>>
    ELSE IF m < NI THEN <<ND, m>>
    ELSE <<ND + 1, (m - NI) \div NI, (m - NI) % NI>>

(* The pointer at index k of the inode of f (c = 0) or of block c.         *)
Ptr(f, c, k) == IF c = 0 THEN i_zone[f][k] ELSE mem[c][k]

(* The tasks that hold the buffer of block b.                              *)
Holders(b) == {t \in Tasks : (pc[t] \in {"walk", "fresh"} /\ from[t] = b)
                             \/ (pc[t] = "use" /\ blk[t] = b)}

(* A call of file_read or file_write: its bytes are done block by block.   *)
(* One on a file that is being truncated is a hit.                         *)
Begin(t, f, how, pos, count) ==
    /\ Runs(t) /\ pc[t] = "user" /\ calls < MaxCalls /\ calls' = calls + 1
    /\ pc' = Set(pc, t, "walk") /\ inode' = Set(inode, t, f)
    /\ todo' = Set(todo, t, <<how, pos, count>>)
    /\ path' = Set(path, t, Way(pos \div NI)) /\ from' = Set(from, t, 0)
    /\ current' = t
    /\ hit' = IF \E u \in Tasks : pc[u] = "free" /\ inode[u] = f
              THEN hit \union {"truncate"} ELSE hit
    /\ UNCHANGED <<disk, mounted, blk, panic>>

(* A call at f_pos, and one through a file opened with O_APPEND.           *)
ReadWrite(t, f) == \E c \in Calls : Begin(t, f, c[1], c[2], c[3])

WriteAppend(t, f) == i_size[f] < MaxSize /\ Begin(t, f, "write", i_size[f], 1)

(* _bmap takes pointer b and goes on with the rest of the way, or has the  *)
(* block the caller breads.                                                *)
Descend(t, b) ==
    /\ path' = Set(path, t, Tail(path[t]))
    /\ IF Len(path[t]) > 1
       THEN /\ pc' = Set(pc, t, "walk")
            /\ from' = Set(from, t, b) /\ blk' = Set(blk, t, 0)
       ELSE /\ pc' = Set(pc, t, "use")
            /\ blk' = Set(blk, t, b) /\ from' = Set(from, t, 0)
    /\ current' = NoTask
    /\ UNCHANGED <<inode, todo>>

(* bmap returns 0: there is no block at any level below.                   *)
Hole(t) ==
    /\ pc' = Set(pc, t, "use") /\ blk' = Set(blk, t, 0) /\ from' = Set(from, t, 0)
    /\ path' = Set(path, t, <<>>) /\ current' = t
    /\ UNCHANGED <<inode, todo>>

(* One level of _bmap: the pointer is there, or is missing and, when       *)
(* creating, new_block sets the first zero bit and sleeps in getblk.  A    *)
(* full disk ends the call, also when the bit is past the zones, and then  *)
(* stays set; a hole is read as zeroes.                                    *)
_bmap_twice(t) ==                         \* mutant: new_block does not set the bit
    /\ Runs(t) /\ pc[t] = "walk"
    /\ LET p == Ptr(inode[t], from[t], path[t][1]) IN
       IF p # 0 THEN Descend(t, p)
       ELSE IF todo[t][1] = "read" \/ find_first_zero >= s_nzones THEN Done(t)
       ELSE /\ pc' = Set(pc, t, "fresh") /\ blk' = Set(blk, t, find_first_zero)
            /\ UNCHANGED <<inode, todo, path, from>> /\ current' = NoTask
    /\ UNCHANGED <<zmap, i_zone, i_size, mem, written, mounted, calls, panic, hit>>

_bmap(t) ==
    /\ Runs(t) /\ pc[t] = "walk"
    /\ LET p == Ptr(inode[t], from[t], path[t][1])
           j == find_first_zero
       IN  IF p # 0 THEN Descend(t, p) /\ UNCHANGED <<zmap, panic>>
           ELSE IF todo[t][1] = "read" THEN Hole(t) /\ UNCHANGED <<zmap, panic>>
           ELSE IF j = MapBits THEN Done(t) /\ UNCHANGED <<zmap, panic>>
           ELSE IF InWord(j) \in zmap
           THEN panic' = "new_block: bit already set" /\ UNCHANGED <<zmap, task, current>>
           ELSE /\ zmap' = zmap \union {InWord(j)}
                /\ IF j >= s_nzones THEN Done(t)
                   ELSE /\ pc' = Set(pc, t, "fresh") /\ blk' = Set(blk, t, j)
                        /\ current' = NoTask
                        /\ UNCHANGED <<inode, todo, path, from>>
                /\ UNCHANGED panic
    /\ UNCHANGED <<i_zone, i_size, mem, written, mounted, calls, hit>>

(* new_block has its buffer: the block is cleared and the pointer stored   *)
(* over whatever is there by now.                                          *)
new_block_dirty(t) ==                     \* mutant: the block is not cleared
    /\ Runs(t) /\ pc[t] = "fresh"
    /\ IF from[t] = 0
       THEN i_zone' = [i_zone EXCEPT ![inode[t]][path[t][1]] = blk[t]] /\ UNCHANGED mem
       ELSE mem' = [mem EXCEPT ![from[t]][path[t][1]] = blk[t]] /\ UNCHANGED i_zone
    /\ Descend(t, blk[t])
    /\ UNCHANGED <<zmap, i_size, written, mounted, calls, panic, hit>>

new_block(t) ==
    /\ Runs(t) /\ pc[t] = "fresh"
    /\ IF Holders(blk[t]) # {} THEN Panic("new block: count is != 1")
       ELSE LET clear == [mem EXCEPT ![blk[t]] = [k \in 0..NI - 1 |-> 0]] IN
            /\ IF from[t] = 0
               THEN /\ i_zone' = [i_zone EXCEPT ![inode[t]][path[t][1]] = blk[t]]
                    /\ mem' = clear
               ELSE /\ mem' = [clear EXCEPT ![from[t]][path[t][1]] = blk[t]]
                    /\ UNCHANGED i_zone
            /\ hit' = IF Ptr(inode[t], from[t], path[t][1]) # 0
                      THEN hit \union {"twice"} ELSE hit
            /\ Descend(t, blk[t])
            /\ UNCHANGED <<zmap, i_size, written, mounted, calls, panic>>

(* The bytes of file_write that go into one block: c bytes from pos on.    *)
file_write(t, f, pos, c) ==
    /\ mem' = [mem EXCEPT ![blk[t]] = [k \in 0..NI - 1 |->
                  IF k \in (pos % NI)..(pos % NI) + c - 1
                  THEN Byte(f, pos - (pos % NI) + k) ELSE @[k]]]
    /\ written' = [written EXCEPT ![f] = @ \union (pos..pos + c - 1)]
    /\ i_size' = [i_size EXCEPT ![f] = Max({@, pos + c})]

(* One turn of the loops of file_read and file_write.                      *)
Use(t) ==
    /\ Runs(t) /\ pc[t] = "use"
    /\ LET f == inode[t]  pos == todo[t][2]  left == todo[t][3]
           c == Min({NI - (pos % NI), left})
       IN  /\ IF todo[t][1] = "read" THEN UNCHANGED <<mem, written, i_size>>
              ELSE file_write(t, f, pos, c)
           /\ IF c = left THEN Done(t)
              ELSE /\ pc' = Set(pc, t, "walk")
                   /\ todo' = Set(todo, t, <<todo[t][1], pos + c, left - c>>)
                   /\ path' = Set(path, t, Way((pos + c) \div NI))
                   /\ from' = Set(from, t, 0) /\ blk' = Set(blk, t, 0)
                   /\ current' = t /\ UNCHANGED inode
    /\ UNCHANGED <<zmap, i_zone, mounted, calls, panic, hit>>
-----------------------------------------------------------------------------
(* The zones truncate frees, in its order: direct, then what an indirect   *)
(* block points to before the block itself.                                *)
Entries(b) == SelectSeq([k \in 1..NI |-> mem[b][k - 1]], LAMBDA x : x # 0)

free_ind_keeps(b) ==                      \* mutant: the indirect block is not freed
    IF b = 0 THEN <<>> ELSE Entries(b)

free_ind(b) == IF b = 0 THEN <<>> ELSE IF b \notin Zones THEN <<b>> ELSE Append(Entries(b), b)

free_dind(b) ==
    IF b = 0 THEN <<>>
    ELSE Append(FlattenSeq([k \in 1..Len(Entries(b)) |-> free_ind(Entries(b)[k])]), b)

truncate(t, f) ==
    /\ Runs(t) /\ pc[t] = "user" /\ calls < MaxCalls /\ calls' = calls + 1
    /\ pc' = Set(pc, t, "free") /\ inode' = Set(inode, t, f)
    /\ todo' = Set(todo, t, SelectSeq([k \in 1..ND |-> i_zone[f][k - 1]], LAMBDA x : x # 0)
                              \o free_ind(i_zone[f][ND]) \o free_dind(i_zone[f][ND + 1]))
    /\ current' = IF todo'[t] = <<>> THEN t ELSE NoTask
    /\ hit' = IF \E u \in Tasks \ {t} : inode[u] = f THEN hit \union {"truncate"} ELSE hit
    /\ UNCHANGED <<disk, mounted, path, from, blk, panic>>

(* free_block after get_hash_table: a block somebody holds is left alone   *)
(* (with the reference just taken, which is never given back; only after a *)
(* truncate hit is there such a block).  truncate resets a direct zone at  *)
(* once.                                                                   *)
free_block(t) ==
    /\ Runs(t) /\ pc[t] = "free" /\ todo[t] # <<>>
    /\ LET b == Head(todo[t]) IN
       IF b \notin Zones THEN Panic("trying to free block not in datazone")
       ELSE IF Holders(b) = {} /\ clear_bit(b) THEN Panic("free_block: bit already cleared")
       ELSE /\ zmap' = IF Holders(b) = {} THEN zmap \ {InWord(b)} ELSE zmap
            /\ i_zone' = [i_zone EXCEPT ![inode[t]] = [k \in 0..ND + 1 |->
                             IF k < ND /\ @[k] = b THEN 0 ELSE @[k]]]
            /\ todo' = Set(todo, t, Tail(todo[t]))
            /\ current' = IF Len(todo[t]) = 1 THEN t ELSE NoTask
            /\ UNCHANGED <<i_size, mem, written, pc, inode, path, from, blk, mounted, calls, panic, hit>>

truncateEnds(t) ==
    /\ Runs(t) /\ pc[t] = "free" /\ todo[t] = <<>>
    /\ i_zone' = [i_zone EXCEPT ![inode[t]][ND] = 0, ![inode[t]][ND + 1] = 0]
    /\ written' = [written EXCEPT ![inode[t]] = {}]
    /\ i_size' = [i_size EXCEPT ![inode[t]] = 0]
    /\ Done(t)
    /\ UNCHANGED <<zmap, mem, mounted, calls, panic, hit>>
-----------------------------------------------------------------------------
(* A fresh file system.                                                    *)
Init ==
    /\ i_zone = [f \in Files |-> [k \in 0..ND + 1 |-> 0]] /\ zmap = {}
    /\ mem = [b \in Zones |-> [k \in 0..NI - 1 |-> 0]]
    /\ written = [f \in Files |-> {}] /\ i_size = [f \in Files |-> 0]
    /\ mounted = FALSE /\ current = NoTask /\ calls = 0
    /\ pc = [t \in Tasks |-> "user"] /\ inode = [t \in Tasks |-> 0]
    /\ todo = [t \in Tasks |-> <<>>] /\ path = [t \in Tasks |-> <<>>]
    /\ from = [t \in Tasks |-> 0] /\ blk = [t \in Tasks |-> 0]
    /\ panic = "" /\ hit = {}

Next ==
    \/ mount_root
    \/ \E t \in Tasks :
        \/ \E f \in Files : ReadWrite(t, f) \/ WriteAppend(t, f) \/ truncate(t, f)
        \/ _bmap(t) \/ new_block(t) \/ Use(t) \/ free_block(t) \/ truncateEnds(t)

Spec == Init /\ [][Next]_vars
-----------------------------------------------------------------------------
(* The block at the end of a way, 0 for a hole.                            *)
BlockOf(f, n) ==
    LET w == Way(n)
        next(b, k) == IF b = 0 THEN 0 ELSE mem[b][k]
    IN  CASE Len(w) = 1 -> i_zone[f][w[1]]
          [] Len(w) = 2 -> next(i_zone[f][w[1]], w[2])
          [] Len(w) = 3 -> next(next(i_zone[f][w[1]], w[2]), w[3])

Truncated == {inode[t] : t \in {u \in Tasks : pc[u] = "free"}}

IndexBlocks(f) ==
    LET two == i_zone[f][ND + 1] IN
    ({i_zone[f][ND], two} \union (IF two = 0 THEN {} ELSE {mem[two][k] : k \in 0..NI - 1})) \ {0}

(* The references to zones, each with its place and the zone it leads to:  *)
(* pointers of files, the rest of a truncate, the block new_block is about *)
(* to return.                                                              *)
ZoneRefs ==
    LET live == Files \ Truncated
        index == UNION {IndexBlocks(f) : f \in live}
        freeing == {t \in Tasks : pc[t] = "free"}
        creating == {t \in Tasks : pc[t] = "fresh"}
        refs == {<<"inode", f, k, i_zone[f][k]>> : f \in live, k \in 0..ND + 1}
                \union {<<"block", b, k, mem[b][k]>> : b \in index, k \in 0..NI - 1}
                \union UNION {{<<"free", t, k, todo[t][k]>> : k \in DOMAIN todo[t]} : t \in freeing}
                \union {<<"fresh", t, 0, blk[t]>> : t \in creating}
    IN  {r \in refs : r[4] \in Zones}

ZonesUsed == {r[4] : r \in ZoneRefs}

(* No zone is used twice or handed out while in use, whatever the tasks    *)
(* that create, read and truncate do, unless a file is truncated while     *)
(* another task works on it (new_block, _bmap, truncate).                  *)
NoSharing ==
    "truncate" \notin hit =>
        LET refs == ZoneRefs
            used == {r[4] : r \in refs}
        IN  Cardinality(refs) = Cardinality(used) /\ used \subseteq zmap

(* No zone is lost: a bit that mount_root did not set is set only for a    *)
(* zone in use, also after a full disk has cut a call short.  new_block    *)
(* never gets a buffer that is in use and truncate frees nothing that is   *)
(* not a zone; free_block finds a bit clear, and new_block one set, only   *)
(* for what clear_bit tells and the words it and set_bit reach.  Two tasks *)
(* creating the same block at the same time (`twice') are the exception    *)
(* besides truncate.                                                       *)
NoLeak ==
    hit = {} =>
        /\ Zones \cap zmap \subseteq ZonesUsed \union MountBits
        /\ panic \notin {"new block: count is != 1", "trying to free block not in datazone"}
        /\ panic = "free_block: bit already cleared" => ~ClearTells \/ WordBits < s_nzones
        /\ panic = "new_block: bit already set" => WordBits < MapBits

(* A byte of a file reads as it was last written, through all levels of    *)
(* _bmap, and as zero where nothing was; never as a byte of another place. *)
(* i_size, from which O_APPEND starts, is the end of the furthest byte     *)
(* written, in whatever order tasks write and append.                      *)
ReadsBack ==
    "truncate" \notin hit =>
        \A f \in Files \ Truncated :
            /\ i_size[f] = Max({0} \union {p + 1 : p \in written[f]})
            /\ \A n \in 0..ND + NI + NI * NI - 1 :
                  LET b == BlockOf(f, n)
                      byte(k) == IF b = 0 THEN 0 ELSE mem[b][k]
                  IN  \A k \in 0..NI - 1 :
                          /\ byte(k) \in {0, Byte(f, n * NI + k)}
                          /\ hit = {} => (byte(k) # 0 <=> n * NI + k \in written[f])

=============================================================================
