------------------------------ MODULE InodeTable ------------------------------
(***************************************************************************)
(* The table of in-core inodes: iget, iput, get_empty_inode, read_inode,   *)
(* write_inode and sync_inodes of fs/inode.c with new_inode and free_inode *)
(* of fs/bitmap.c, used by tasks that look up, link and unlink files.      *)
(*                                                                         *)
(* Tasks run one at a time and give way only where the code can sleep: for *)
(* a locked inode, in bread, in truncate.  Waiting for a lock is the guard *)
(* ~lock, which is what InodeLock shows lock_inode to be.  Of an inode's   *)
(* content only i_nlinks is kept.                                          *)
(***************************************************************************)
EXTENDS Integers, FiniteSets, FiniteSetsExt

CONSTANTS
    Tasks,
    NR_INODE,    \* size of inode_table
    s_ninodes,   \* inodes of the file system
    MaxLinks,    \* bound on the names of a file
    ClearTells   \* clear_bit returns whether the bit was already clear
                 \* (FALSE in the code, it returns the old bit: bitmap.c:19-24)

Table == 0..NR_INODE - 1
Nums  == 1..s_ninodes
None  == -1      \* no task, no slot

ASSUME InodeTableAssumption ==
    /\ None \notin Tasks /\ IsFiniteSet(Tasks)
    /\ {NR_INODE, s_ninodes, MaxLinks} \subseteq Nat \ {0}
    /\ ClearTells \in BOOLEAN

VARIABLES
    inode,       \* inode_table: num (0 when i_dev is 0), count, lock, dirt, nlinks
    imap,        \* the inodes whose bit is set
    disk,        \* disk[n]: i_nlinks of inode n in the inode blocks
    entries,     \* entries[n]: names of inode n in directories
    last_allocated_inode,
    current,     \* the task inside the kernel, or None
    pc, op,      \* where a task is, and the call it makes
    slot,        \* the inode its call works on
    empty,       \* iget's `empty`
    nr,          \* the number it looks up
    held,        \* the inode it has open
    panic,
    hit          \* history: the windows that another task's step has hit

file == <<disk, entries, imap>>
task == <<pc, op, slot, empty, nr, held, current>>
vars == <<inode, file, task, last_allocated_inode, panic, hit>>

Zeroed == [num |-> 0, count |-> 0, lock |-> FALSE, dirt |-> FALSE, nlinks |-> 0]

Runs(t) == current \in {t, None} /\ panic = ""

(* The task goes on at p with inode i: at once, or when i is unlocked.     *)
At(t, p, i) ==
    /\ pc' = [pc EXCEPT ![t] = p]
    /\ slot' = [slot EXCEPT ![t] = i]
    /\ current' = IF inode[i].lock THEN None ELSE t

Sleep(t, p) == pc' = [pc EXCEPT ![t] = p] /\ current' = None /\ UNCHANGED slot

Return(t, i) ==
    /\ pc' = [pc EXCEPT ![t] = "user"] /\ op' = [op EXCEPT ![t] = "none"]
    /\ slot' = [slot EXCEPT ![t] = None] /\ empty' = [empty EXCEPT ![t] = None]
    /\ nr' = [nr EXCEPT ![t] = 0]
    /\ held' = [held EXCEPT ![t] = i]
    /\ current' = None

Panic(what) == panic' = what /\ UNCHANGED <<inode, file, task, last_allocated_inode, hit>>
-----------------------------------------------------------------------------
(* write_inode: lock, bread; then the copy, i_dirt=0 and the unlock.       *)
WriteBegins(t, p) ==
    /\ inode' = [inode EXCEPT ![slot[t]].lock = TRUE]
    /\ Sleep(t, p)

(* The place in the block is computed from i_num after bread; all inodes   *)
(* are in one block here, and the number of a reset inode, 0, is the last. *)
InBlock(n) == ((n - 1) % s_ninodes) + 1

Written(i) ==
    /\ disk' = [disk EXCEPT ![InBlock(inode[i].num)] = inode[i].nlinks]
    /\ inode' = [inode EXCEPT ![i].lock = FALSE, ![i].dirt = FALSE]

(* Every write of an inode ends and the task goes on at p.                 *)
WriteEnds(t) ==
    /\ Runs(t) /\ pc[t] \in {"emptyWrite", "iputWrite", "syncWrite"}
    /\ Written(slot[t])
    /\ pc' = [pc EXCEPT ![t] = CASE @ = "emptyWrite" -> "empty"
                                 [] @ = "iputWrite"  -> "repeat"
                                 [] @ = "syncWrite"  -> "syncNext"]
    /\ current' = t
    /\ UNCHANGED <<imap, entries, op, slot, empty, nr, held, last_allocated_inode, panic, hit>>

(* The scan of get_empty_inode starts at last_allocated_inode.             *)
search(t) ==
    /\ Runs(t) /\ pc[t] = "search"
    /\ LET free == {k \in 0..NR_INODE - 1 :
                        inode[(last_allocated_inode + k) % NR_INODE].count = 0}
           i == (last_allocated_inode + Min(free)) % NR_INODE
       IN  IF free = {} THEN Panic("No free inodes in mem")
           ELSE /\ last_allocated_inode' = i
                /\ At(t, "empty", i)
                /\ UNCHANGED <<inode, file, op, empty, nr, held, panic, hit>>

(* The rest of get_empty_inode; the inode may have been taken meanwhile.   *)
get_empty_inode(t) ==
    /\ Runs(t) /\ pc[t] = "empty" /\ ~inode[slot[t]].lock
    /\ IF inode[slot[t]].dirt THEN WriteBegins(t, "emptyWrite") /\ UNCHANGED empty
       ELSE IF inode[slot[t]].count = 0
       THEN /\ inode' = [inode EXCEPT ![slot[t]] = [Zeroed EXCEPT !.count = 1]]
            /\ empty' = [empty EXCEPT ![t] = slot[t]]
            /\ pc' = [pc EXCEPT ![t] = op[t]] /\ current' = t /\ UNCHANGED slot
       ELSE At(t, "search", slot[t]) /\ UNCHANGED <<inode, empty>>
    /\ UNCHANGED <<file, op, nr, held, last_allocated_inode, panic, hit>>
-----------------------------------------------------------------------------
(* A name is looked up: the number is read from a directory entry and used *)
(* by iget after the directory has been released.                          *)
Lookup(t, n) ==
    /\ Runs(t) /\ pc[t] = "user" /\ held[t] = None
    /\ entries[n] > 0
    /\ nr' = [nr EXCEPT ![t] = n] /\ op' = [op EXCEPT ![t] = "iget"]
    /\ Sleep(t, "search")
    /\ UNCHANGED <<inode, file, empty, held, last_allocated_inode, panic, hit>>

(* A number that has lost its last name since it was read is a hit.        *)
NoteStale(t) == hit' = IF entries[nr[t]] = 0 THEN hit \union {"stale"} ELSE hit

(* The loop of iget over the table.                                        *)
iget(t) ==
    /\ Runs(t) /\ pc[t] = "iget"
    /\ LET found == {i \in Table : inode[i].num = nr[t]}
       IN  IF found # {}
           THEN At(t, "igetWait", Min(found)) /\ UNCHANGED inode
           ELSE /\ inode' = [inode EXCEPT ![empty[t]].num = nr[t], ![empty[t]].lock = TRUE]
                /\ pc' = [pc EXCEPT ![t] = "read"]
                /\ slot' = [slot EXCEPT ![t] = empty[t]] /\ current' = None
    /\ NoteStale(t)
    /\ UNCHANGED <<file, op, empty, nr, held, last_allocated_inode, panic>>

(* Found and unlocked: looked at again, counted, the empty one given back. *)
igetFound_leaks(t) ==                     \* mutant: the empty inode is not given back
    /\ Runs(t) /\ pc[t] = "igetWait" /\ ~inode[slot[t]].lock
    /\ inode' = [inode EXCEPT ![slot[t]].count = @ + 1]
    /\ Return(t, slot[t])
    /\ UNCHANGED <<file, last_allocated_inode, panic, hit>>

igetFound(t) ==
    /\ Runs(t) /\ pc[t] = "igetWait" /\ ~inode[slot[t]].lock
    /\ IF inode[slot[t]].num = nr[t]
       THEN /\ inode' = [inode EXCEPT ![slot[t]].count = @ + 1, ![empty[t]].count = @ - 1]
            /\ Return(t, slot[t])
       ELSE /\ At(t, "iget", slot[t])
            /\ UNCHANGED <<inode, op, empty, nr, held>>
    /\ NoteStale(t)
    /\ UNCHANGED <<file, last_allocated_inode, panic>>

(* read_inode after bread.                                                 *)
read_inode(t) ==
    /\ Runs(t) /\ pc[t] = "read"
    /\ inode' = [inode EXCEPT ![slot[t]].nlinks = disk[nr[t]], ![slot[t]].lock = FALSE]
    /\ Return(t, slot[t])
    /\ UNCHANGED <<file, last_allocated_inode, panic, hit>>

(* A new file: new_inode, and the entry its caller makes for it.           *)
Create(t) ==
    /\ Runs(t) /\ pc[t] = "user" /\ held[t] = None
    /\ op' = [op EXCEPT ![t] = "new"]
    /\ Sleep(t, "search")
    /\ UNCHANGED <<inode, file, empty, nr, held, last_allocated_inode, panic, hit>>

new_inode(t) ==
    /\ Runs(t) /\ pc[t] = "new"
    /\ IF Nums \subseteq imap
       THEN /\ inode' = [inode EXCEPT ![empty[t]].count = @ - 1]
            /\ Return(t, None)
            /\ UNCHANGED file
       ELSE LET j == Min(Nums \ imap) IN
            /\ imap' = imap \union {j}
            /\ inode' = [inode EXCEPT ![empty[t]] =
                  [num |-> j, count |-> 1, lock |-> FALSE, dirt |-> TRUE, nlinks |-> 1]]
            /\ entries' = [entries EXCEPT ![j] = 1]
            /\ Return(t, empty[t])
            /\ UNCHANGED disk
    /\ UNCHANGED <<last_allocated_inode, panic, hit>>

(* sys_link and sys_unlink on an inode the task holds; a count that is     *)
(* already 0 is taken for 1 by sys_unlink.                                 *)
link(t, by) ==
    /\ Runs(t) /\ pc[t] = "user" /\ held[t] # None
    /\ LET n == inode[held[t]].num IN
       /\ entries[n] > 0 /\ entries[n] + by <= MaxLinks
       /\ inode[held[t]].nlinks + by <= MaxLinks
       /\ entries' = [entries EXCEPT ![n] = @ + by]
    /\ inode' = [inode EXCEPT ![held[t]].nlinks = Max({0, @ + by}), ![held[t]].dirt = TRUE]
    /\ UNCHANGED <<imap, disk, task, last_allocated_inode, panic, hit>>
-----------------------------------------------------------------------------
iputCall(t) ==
    /\ Runs(t) /\ pc[t] = "user" /\ held[t] # None
    /\ At(t, "iput", held[t])
    /\ UNCHANGED <<inode, file, op, empty, nr, held, last_allocated_inode, panic, hit>>

iput_wait(t) ==
    /\ Runs(t) /\ pc[t] = "iput" /\ ~inode[slot[t]].lock
    /\ IF inode[slot[t]].count = 0 THEN Panic("iput: trying to free free inode")
       ELSE /\ IF inode[slot[t]].num = 0 \/ inode[slot[t]].count > 1
               THEN /\ inode' = [inode EXCEPT ![slot[t]].count = @ - 1]
                    /\ Return(t, None)
               ELSE /\ At(t, "repeat", slot[t])
                    /\ UNCHANGED <<inode, op, empty, nr, held>>
            /\ UNCHANGED <<file, last_allocated_inode, panic, hit>>

(* repeat: no name left, or dirty, or the last reference dropped.          *)
iput_keeps(t) ==                          \* mutant: a file without names is kept
    /\ Runs(t) /\ pc[t] = "repeat" /\ ~inode[slot[t]].lock
    /\ IF inode[slot[t]].dirt
       THEN WriteBegins(t, "iputWrite") /\ UNCHANGED <<op, empty, nr, held>>
       ELSE /\ inode' = [inode EXCEPT ![slot[t]].count = @ - 1]
            /\ Return(t, None)
    /\ UNCHANGED <<file, last_allocated_inode, panic, hit>>

iput_drops(t) ==                          \* mutant: a dirty inode is not written
    /\ Runs(t) /\ pc[t] = "repeat" /\ ~inode[slot[t]].lock
    /\ IF inode[slot[t]].nlinks = 0
       THEN Sleep(t, "truncate") /\ UNCHANGED <<inode, op, empty, nr, held>>
       ELSE /\ inode' = [inode EXCEPT ![slot[t]].count = @ - 1, ![slot[t]].dirt = FALSE]
            /\ Return(t, None)
    /\ UNCHANGED <<file, last_allocated_inode, panic, hit>>

iput(t) ==
    /\ Runs(t) /\ pc[t] = "repeat" /\ ~inode[slot[t]].lock
    /\ IF inode[slot[t]].nlinks = 0
       THEN Sleep(t, "truncate") /\ UNCHANGED <<inode, op, empty, nr, held>>
       ELSE IF inode[slot[t]].dirt
       THEN WriteBegins(t, "iputWrite") /\ UNCHANGED <<op, empty, nr, held>>
       ELSE /\ inode' = [inode EXCEPT ![slot[t]].count = @ - 1]
            /\ Return(t, None)
    /\ UNCHANGED <<file, last_allocated_inode, panic, hit>>

(* clear_bit(n): its result.                                               *)
clear_bit(n) == IF ClearTells THEN n \notin imap ELSE n \in imap

(* truncate has returned; free_inode.                                      *)
free_inode(t) ==
    /\ Runs(t) /\ pc[t] = "truncate"
    /\ LET i == slot[t] IN
       IF inode[i].count > 1 THEN Panic("free_inode")
       ELSE IF inode[i].nlinks > 0 THEN Panic("trying to free inode with links")
       ELSE IF clear_bit(inode[i].num) THEN Panic("free_inode: bit already cleared")
       ELSE /\ imap' = imap \ {inode[i].num}
            /\ inode' = [inode EXCEPT ![i] = Zeroed]
            /\ Return(t, None)
            /\ hit' = IF inode[i].lock THEN hit \union {"locked"} ELSE hit
            /\ UNCHANGED <<disk, entries, last_allocated_inode, panic>>
-----------------------------------------------------------------------------
(* sync_inodes: every inode in turn.                                       *)
syncCall(t) ==
    /\ Runs(t) /\ pc[t] = "user"
    /\ At(t, "sync", 0)
    /\ UNCHANGED <<inode, file, op, empty, nr, held, last_allocated_inode, panic, hit>>

sync_inodes(t) ==
    /\ Runs(t) /\ pc[t] = "sync" /\ ~inode[slot[t]].lock
    /\ IF inode[slot[t]].dirt THEN WriteBegins(t, "syncWrite")
       ELSE At(t, "syncNext", slot[t]) /\ UNCHANGED inode
    /\ UNCHANGED <<file, op, empty, nr, held, last_allocated_inode, panic, hit>>

syncNext(t) ==
    /\ Runs(t) /\ pc[t] = "syncNext"
    /\ IF slot[t] = NR_INODE - 1 THEN Return(t, held[t])
       ELSE At(t, "sync", slot[t] + 1) /\ UNCHANGED <<op, empty, nr, held>>
    /\ UNCHANGED <<inode, file, last_allocated_inode, panic, hit>>
-----------------------------------------------------------------------------
(* A file system in use: any inodes with one name, nothing in core.        *)
Init ==
    /\ inode = [i \in Table |-> Zeroed]
    /\ imap \in SUBSET Nums
    /\ disk = [n \in Nums |-> IF n \in imap THEN 1 ELSE 0]
    /\ entries = disk
    /\ last_allocated_inode = 0
    /\ current = None
    /\ pc = [t \in Tasks |-> "user"] /\ op = [t \in Tasks |-> "none"]
    /\ slot = [t \in Tasks |-> None] /\ empty = [t \in Tasks |-> None]
    /\ nr = [t \in Tasks |-> 0] /\ held = [t \in Tasks |-> None]
    /\ panic = "" /\ hit = {}

Next ==
    \E t \in Tasks :
        \/ \E n \in Nums : Lookup(t, n)
        \/ Create(t) \/ iputCall(t) \/ syncCall(t)
        \/ \E by \in {-1, 1} : link(t, by)
        \/ search(t) \/ get_empty_inode(t) \/ WriteEnds(t)
        \/ iget(t) \/ igetFound(t) \/ read_inode(t) \/ new_inode(t)
        \/ iput_wait(t) \/ iput(t) \/ free_inode(t)
        \/ sync_inodes(t) \/ syncNext(t)

Spec == Init /\ [][Next]_vars
-----------------------------------------------------------------------------
(* The types; an inode has at most two references per task.                *)
TypeOK ==
    /\ inode \in [Table -> [num : 0..s_ninodes, count : 0..2 * Cardinality(Tasks),
                            lock : BOOLEAN, dirt : BOOLEAN, nlinks : 0..MaxLinks]]
    /\ imap \subseteq Nums
    /\ disk \in [Nums -> 0..MaxLinks] /\ entries \in [Nums -> 0..MaxLinks]
    /\ last_allocated_inode \in Table
    /\ current \in Tasks \union {None}
    /\ slot \in [Tasks -> Table \union {None}] /\ empty \in [Tasks -> Table \union {None}]
    /\ held \in [Tasks -> Table \union {None}] /\ nr \in [Tasks -> 0..s_ninodes]
    /\ hit \subseteq {"stale", "locked"}

(* i_count is the number of references: the tasks that have the inode open *)
(* and those that have claimed it in get_empty_inode.                      *)
CountExact ==
    \A i \in Table :
        inode[i].count = Cardinality({t \in Tasks : held[t] = i})
                       + Cardinality({t \in Tasks : empty[t] = i})

(* No change of an inode is lost, whoever writes it when: a file has one   *)
(* copy in core, which is as its users left it, and what is clean or not   *)
(* in core is so on disk.  The exceptions are a number that iget uses      *)
(* after the last name it was read from has gone (`stale'), and free_inode *)
(* resetting an inode that sync_inodes is writing (`locked').              *)
NoLostUpdate ==
    hit = {} =>
        /\ \A i, j \in Table : inode[i].num = inode[j].num /\ i # j => inode[i].num = 0
        /\ \A i \in Table : inode[i].num # 0 =>
              LET n == inode[i].num IN
              /\ (\A t \in Tasks : ~(pc[t] = "read" /\ slot[t] = i)) => inode[i].nlinks = entries[n]
              /\ ~inode[i].dirt => disk[n] = entries[n]
        /\ \A n \in imap : (\A i \in Table : inode[i].num # n) => disk[n] = entries[n]

(* The panics that are left: a full table, and, with clear_bit as it is,   *)
(* every free_inode.                                                       *)
Known == {"", "No free inodes in mem", "free_inode: bit already cleared"}

(* An inode is allocated exactly while it has a name or is open: unlinking *)
(* an open file keeps it, its last iput frees it, nothing leaks.  iput     *)
(* truncates only what nobody else has open, although it looks at i_count  *)
(* once, before it may sleep in write_inode (`we can sleep - so do again', *)
(* inode.c:152), and the checks of i_count and i_nlinks in iput and        *)
(* free_inode never fail.                                                  *)
AllocExact ==
    hit = {} =>
        /\ \A n \in Nums : n \in imap <=>
              entries[n] > 0 \/ \E i \in Table : inode[i].num = n /\ inode[i].count > 0
        /\ \A t \in Tasks : pc[t] = "truncate" => inode[slot[t]].count = 1
        /\ panic \in Known

=============================================================================
