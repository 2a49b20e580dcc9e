----------------------------- MODULE BufferCache -----------------------------
(***************************************************************************)
(* The buffer cache, fs/buffer.c: getblk, bread, brelse, sys_sync and      *)
(* sync_dev, run by tasks that can lose the processor only where the code  *)
(* sleeps, with the disk interrupt between any two steps.                  *)
(*                                                                         *)
(* The contents of a block are reduced to one bit: is this copy the last   *)
(* one a task wrote?  `fresh` is that bit for a buffer, disk[k] for the    *)
(* disk, `copy` for the data the driver has taken from a buffer.           *)
(* The disk driver is represented by what buffer.c relies on: the request  *)
(* locks the buffer, data move, the interrupt unlocks it.  A task asleep   *)
(* on b_wait goes on once the buffer is unlocked (see InodeLock for the    *)
(* queue).  The store through bh->b_next when the hash chain was empty     *)
(* (line 103) is taken to do no harm, as where page 0 can be written.      *)
(***************************************************************************)
EXTENDS Integers, Sequences, FiniteSets

CONSTANTS
    Tasks, NULL,
    N,          \* NR_BUFFERS
    Blocks,     \* the (device, block number) pairs in use
    Dev,        \* the device of a block
    Pinned,     \* blocks held for good since mount_root, one buffer each
    Bad         \* blocks past the end of the device

(* The free list never runs empty: the pinned buffers stay on it, and      *)
(* NR_TASKS is far below NR_BUFFERS.                                       *)
ASSUME BufferAssumption ==
    /\ N \in Nat /\ IsFiniteSet(Tasks)
    /\ Len(Pinned) > 0 \/ Cardinality(Tasks) < N
    /\ NULL \notin Tasks \union Blocks \union (1..N)
    /\ Pinned \in Seq(Blocks \ Bad) /\ Len(Pinned) \in 0..(N - 1)
    /\ \A a, b \in 1..Len(Pinned) : Pinned[a] = Pinned[b] => a = b
    /\ \A k \in Blocks : Dev[k] # NULL

Buffers == 1..N

VARIABLES
    bh,         \* struct buffer_head: key (b_dev, b_blocknr), count, ...
    hashed,     \* the buffers in some hash queue
    free_list, next_free, prev_free,
    disk,
    me,         \* per task: pc and the locals of the function it is in
    cur,        \* the task that is running, or NULL at a sleep
    hit         \* history: the windows another actor's step has hit

list == <<free_list, next_free, prev_free>>
vars == <<bh, hashed, list, disk, me, cur, hit>>

Idle == [pc |-> "out", tmp |-> NULL, want |-> NULL, i |-> 0, dev |-> NULL]

Locked(b)      == bh[b].io # "idle"
CanRun(t)      == cur \in {t, NULL}
find_buffer(k) == {b \in hashed : bh[b].key = k}

(* cur after reaching wait_on_buffer(b): the task sleeps if b is locked.   *)
wait_on_buffer(t, b) == cur' = IF Locked(b) THEN NULL ELSE t
-----------------------------------------------------------------------------
remove_from_queues_keeps(b) ==       \* mutant: free_list is not moved
    /\ hashed'    = hashed \ {b}
    /\ next_free' = [next_free EXCEPT ![prev_free[b]] = next_free[b]]
    /\ prev_free' = [prev_free EXCEPT ![next_free[b]] = prev_free[b]]
    /\ UNCHANGED free_list

remove_from_queues(b) ==
    /\ hashed'    = hashed \ {b}
    /\ next_free' = [next_free EXCEPT ![prev_free[b]] = next_free[b]]
    /\ prev_free' = [prev_free EXCEPT ![next_free[b]] = prev_free[b]]
    /\ free_list' = IF free_list = b THEN next_free[b] ELSE free_list

insert_into_queues(b, k) ==
    /\ next_free' = [next_free EXCEPT ![b] = free_list, ![prev_free[free_list]] = b]
    /\ prev_free' = [prev_free EXCEPT ![b] = prev_free[free_list], ![free_list] = b]
    /\ hashed'    = IF k = NULL THEN hashed ELSE hashed \union {b}
    /\ UNCHANGED free_list

Woken_nobody(t, r) == [me EXCEPT ![t] = r]   \* mutant: no wake_up

(* me after the end of brelse in task t: buffer_wait is woken.             *)
Woken(t, r) ==
    [u \in Tasks |-> IF u = t THEN r
                     ELSE IF me[u].pc = "bufwait" THEN [me[u] EXCEPT !.pc = "hash"]
                     ELSE me[u]]

(* brelse once the buffer is unlocked, in task t which goes on as r.       *)
Release(t, r) ==
    /\ bh' = [bh EXCEPT ![me[t].tmp].count = @ - 1]
    /\ me' = Woken(t, r)

(* ll_rw_block up to its sleep: blocks past the end are left alone.        *)
StartIO(b, rw) == bh[b].key \notin Bad /\ bh' = [bh EXCEPT ![b].io = rw]
-----------------------------------------------------------------------------
(* A task calls bread (getblk and, at "got", the read).                    *)
bread(t, k) ==
    /\ me[t].pc = "out" /\ cur = NULL
    /\ me' = [me EXCEPT ![t].pc = "hash", ![t].want = k]
    /\ cur' = t
    /\ UNCHANGED <<bh, hashed, list, disk, hit>>

(* get_hash_table up to wait_on_buffer, or the start of the free-list scan. *)
get_hash_table(t) ==
    /\ me[t].pc = "hash" /\ CanRun(t)
    /\ \/ \E b \in find_buffer(me[t].want) :
             /\ bh' = [bh EXCEPT ![b].count = @ + 1]
             /\ me' = [me EXCEPT ![t].pc = "hashed", ![t].tmp = b]
             /\ wait_on_buffer(t, b)
       \/ /\ find_buffer(me[t].want) = {}
          /\ me' = [me EXCEPT ![t].pc = "scan", ![t].tmp = free_list]
          /\ cur' = t
          /\ UNCHANGED bh
    /\ UNCHANGED <<hashed, list, disk, hit>>

(* get_hash_table after the wait: is it still the block?                   *)
Hashed(t) ==
    /\ me[t].pc = "hashed" /\ CanRun(t) /\ ~Locked(me[t].tmp)
    /\ cur' = t
    /\ IF bh[me[t].tmp].key = me[t].want
       THEN me' = [me EXCEPT ![t].pc = "got"] /\ UNCHANGED bh
       ELSE Release(t, [me[t] EXCEPT !.pc = "hash", !.tmp = NULL])
    /\ UNCHANGED <<hashed, list, disk, hit>>

(* `tmp = tmp->b_next_free` and the end of the do-while loop.              *)
Advance(t) ==
    LET n == next_free[me[t].tmp]
    IN  IF n # free_list
        THEN me' = [me EXCEPT ![t].pc = "scan", ![t].tmp = n] /\ cur' = t
        ELSE me' = [me EXCEPT ![t].pc = "bufwait", ![t].tmp = NULL] /\ cur' = NULL

(* One turn of getblk's loop over the free list, up to wait_on_buffer ...  *)
Scan(t) ==
    /\ me[t].pc = "scan" /\ CanRun(t)
    /\ IF bh[me[t].tmp].count = 0
       THEN me' = [me EXCEPT ![t].pc = "scanned"] /\ wait_on_buffer(t, me[t].tmp)
       ELSE Advance(t)
    /\ UNCHANGED <<bh, hashed, list, disk, hit>>

Takes_clean(t) ==                    \* mutant: no sync_dev for a dirty buffer
    /\ bh' = [bh EXCEPT ![me[t].tmp].count = @ + 1]
    /\ remove_from_queues(me[t].tmp)
    /\ me' = [me EXCEPT ![t].pc = "insert"]
    /\ cur' = t

Takes(t) ==
    /\ bh' = [bh EXCEPT ![me[t].tmp].count = @ + 1]
    /\ remove_from_queues(me[t].tmp)
    /\ me' = IF bh[me[t].tmp].dirt
             THEN [me EXCEPT ![t].pc = "sync", ![t].i = 1,
                             ![t].dev = Dev[bh[me[t].tmp].key]]
             ELSE [me EXCEPT ![t].pc = "insert"]
    /\ cur' = t

(* ... and after it: take the buffer if it is still unused.                *)
Scanned(t) ==
    /\ me[t].pc = "scanned" /\ CanRun(t) /\ ~Locked(me[t].tmp)
    /\ IF bh[me[t].tmp].count = 0 THEN Takes(t)
       ELSE Advance(t) /\ UNCHANGED <<bh, hashed, list>>
    /\ UNCHANGED <<disk, hit>>

(* sys_sync, and sync_dev inside getblk, are one loop over all buffers;    *)
(* sys_sync has no device to compare with and no buffer in tmp.            *)
sys_sync(t) ==
    /\ me[t].pc = "out" /\ cur = NULL
    /\ me' = [me EXCEPT ![t].pc = "sync", ![t].i = 1]
    /\ cur' = t
    /\ UNCHANGED <<bh, hashed, list, disk, hit>>

Turn(t) ==   \* i++, or the end of the loop
    \/ /\ me[t].i < N
       /\ me' = [me EXCEPT ![t].pc = "sync", ![t].i = @ + 1]
       /\ cur' = t
    \/ /\ me[t].i = N /\ me[t].dev = NULL
       /\ me' = [me EXCEPT ![t] = Idle]
       /\ cur' = NULL
    \/ /\ me[t].i = N /\ me[t].dev # NULL
       /\ me' = [me EXCEPT ![t].pc = "insert", ![t].i = 0, ![t].dev = NULL]
       /\ cur' = t

OtherDevice(t) ==
    /\ me[t].dev # NULL
    /\ bh[me[t].i].key = NULL \/ Dev[bh[me[t].i].key] # me[t].dev

Sync(t) ==
    /\ me[t].pc = "sync" /\ CanRun(t)
    /\ IF OtherDevice(t)
       THEN Turn(t)
       ELSE me' = [me EXCEPT ![t].pc = "syncwait"] /\ wait_on_buffer(t, me[t].i)
    /\ UNCHANGED <<bh, hashed, list, disk, hit>>

(* After the wait: write the buffer if it is dirty, and wait for that.     *)
SyncWrite(t) ==
    /\ me[t].pc = "syncwait" /\ CanRun(t) /\ ~Locked(me[t].i)
    /\ IF bh[me[t].i].dirt /\ bh[me[t].i].key \notin Bad
       THEN /\ StartIO(me[t].i, "WRITE")
            /\ me' = [me EXCEPT ![t].pc = "writing"]
            /\ cur' = NULL
       ELSE Turn(t) /\ UNCHANGED bh
    /\ UNCHANGED <<hashed, list, disk, hit>>

Written_hasty(t) ==                  \* mutant: ll_rw_block does not wait
    /\ me[t].pc = "writing" /\ CanRun(t)
    /\ Turn(t)
    /\ UNCHANGED <<bh, hashed, list, disk, hit>>

Written(t) ==
    /\ me[t].pc = "writing" /\ CanRun(t) /\ ~Locked(me[t].i)
    /\ Turn(t)
    /\ UNCHANGED <<bh, hashed, list, disk, hit>>

Beaten_holds(t, b) ==                \* mutant: b_count stays 1
    /\ bh' = [bh EXCEPT ![b].key = NULL, ![b].dirt = FALSE,
                        ![b].uptodate = FALSE, ![b].fresh = FALSE]
    /\ insert_into_queues(b, NULL)
    /\ me' = [me EXCEPT ![t].pc = "hash", ![t].tmp = NULL]

(* Someone else has brought the block in: the buffer goes back empty.      *)
Beaten(t, b) ==
    /\ bh' = [bh EXCEPT ![b].key = NULL, ![b].count = 0, ![b].dirt = FALSE,
                        ![b].uptodate = FALSE, ![b].fresh = FALSE]
    /\ insert_into_queues(b, NULL)
    /\ me' = [me EXCEPT ![t].pc = "hash", ![t].tmp = NULL]

Settles(t, b, k) ==
    /\ bh' = [bh EXCEPT ![b].key = k, ![b].dirt = FALSE,
                        ![b].uptodate = FALSE, ![b].fresh = FALSE]
    /\ insert_into_queues(b, k)
    /\ me' = [me EXCEPT ![t].pc = "got"]

Insert_blindly(t) ==                 \* mutant: find_buffer is not asked again
    /\ me[t].pc = "insert" /\ CanRun(t)
    /\ Settles(t, me[t].tmp, me[t].want)
    /\ cur' = t
    /\ UNCHANGED <<disk, hit>>

(* The end of getblk: the buffer gets its new block.                       *)
Insert(t) ==
    /\ me[t].pc = "insert" /\ CanRun(t)
    /\ \/ find_buffer(me[t].want) # {} /\ Beaten(t, me[t].tmp)
       \/ find_buffer(me[t].want) = {} /\ Settles(t, me[t].tmp, me[t].want)
    /\ cur' = t
    /\ UNCHANGED <<disk, hit>>

(* bread after getblk.                                                     *)
Got(t) ==
    LET b == me[t].tmp
    IN  /\ me[t].pc = "got" /\ CanRun(t)
        /\ \/ /\ bh[b].uptodate
              /\ me' = [me EXCEPT ![t].pc = "use"]
              /\ UNCHANGED bh
           \/ /\ ~bh[b].uptodate /\ StartIO(b, "READ")
              /\ me' = [me EXCEPT ![t].pc = "reading"]
           \/ /\ ~bh[b].uptodate /\ bh[b].key \in Bad
              /\ Release(t, Idle)
        /\ cur' = NULL
        /\ UNCHANGED <<hashed, list, disk, hit>>

Read(t) ==
    /\ me[t].pc = "reading" /\ CanRun(t) /\ ~Locked(me[t].tmp)
    /\ IF bh[me[t].tmp].uptodate
       THEN me' = [me EXCEPT ![t].pc = "use"] /\ UNCHANGED bh
       ELSE Release(t, Idle)
    /\ cur' = NULL
    /\ UNCHANGED <<hashed, list, disk, hit>>

Change_clean(b) ==                   \* mutant: b_dirt is not set
    /\ bh' = [c \in Buffers |->
                IF c = b THEN [bh[c] EXCEPT !.fresh = TRUE, !.copy = FALSE]
                ELSE IF bh[c].key = bh[b].key
                THEN [bh[c] EXCEPT !.fresh = FALSE, !.copy = FALSE] ELSE bh[c]]
    /\ disk' = [disk EXCEPT ![bh[b].key] = FALSE]
    /\ UNCHANGED hit

(* A task changes the contents and sets b_dirt: all other copies are old.  *)
(* A change of data the driver has already taken is a hit: write_intr will *)
(* clear b_dirt.                                                           *)
Change(b) ==
    /\ bh' = [c \in Buffers |->
                IF c = b THEN [bh[c] EXCEPT !.dirt = TRUE, !.fresh = TRUE, !.copy = FALSE]
                ELSE IF bh[c].key = bh[b].key
                THEN [bh[c] EXCEPT !.fresh = FALSE, !.copy = FALSE] ELSE bh[c]]
    /\ disk' = [disk EXCEPT ![bh[b].key] = FALSE]
    /\ hit' = IF bh[b].io = "TAKEN" THEN hit \union {"rewritten"} ELSE hit

Modify(t) ==
    /\ me[t].pc = "use" /\ cur = NULL
    /\ Change(me[t].tmp)
    /\ UNCHANGED <<hashed, list, me, cur>>

(* new_block, free_block, new_inode, free_inode: a bit of a bitmap block   *)
(* that mount_root has read for good.                                      *)
ModifyPinned(b) ==
    /\ b \in 1..Len(Pinned) /\ cur = NULL
    /\ Change(b)
    /\ UNCHANGED <<hashed, list, me, cur>>

brelse(t) ==
    /\ me[t].pc = "use" /\ cur = NULL /\ ~Locked(me[t].tmp)
    /\ Release(t, Idle)
    /\ UNCHANGED <<hashed, list, disk, cur, hit>>
-----------------------------------------------------------------------------
(* do_request copies the data of a write to the device's buffer ...        *)
Transfer(b) ==
    /\ bh[b].io = "WRITE"
    /\ bh' = [bh EXCEPT ![b].io = "TAKEN", ![b].copy = bh[b].fresh]
    /\ UNCHANGED <<hashed, list, disk, me, cur, hit>>

(* ... and write_intr, read_intr end the request.  A block that is read    *)
(* while a buffer outside the hash queues has newer contents is a hit.     *)
write_intr(b) ==
    /\ bh[b].io = "TAKEN"
    /\ disk' = [disk EXCEPT ![bh[b].key] = bh[b].copy]
    /\ bh' = [bh EXCEPT ![b].io = "idle", ![b].uptodate = TRUE, ![b].dirt = FALSE,
                        ![b].copy = FALSE]
    /\ UNCHANGED <<hashed, list, me, cur, hit>>

read_intr(b) ==
    /\ bh[b].io = "READ"
    /\ bh' = [bh EXCEPT ![b].io = "idle", ![b].uptodate = TRUE, ![b].dirt = FALSE,
                        ![b].fresh = disk[bh[b].key]]
    /\ hit' = IF \E c \in Buffers \ hashed : bh[c].key = bh[b].key /\ ~disk[bh[b].key]
              THEN hit \union {"unhashed"} ELSE hit
    /\ UNCHANGED <<hashed, list, disk, me, cur>>
-----------------------------------------------------------------------------
(* buffer_init, and mount_root's bread of the bitmaps.                     *)
Init ==
    /\ bh = [b \in Buffers |->
               LET p == b <= Len(Pinned)
               IN  [key |-> IF p THEN Pinned[b] ELSE NULL, count |-> IF p THEN 1 ELSE 0,
                    uptodate |-> p, fresh |-> p, dirt |-> FALSE, io |-> "idle",
                    copy |-> FALSE]]
    /\ hashed = 1..Len(Pinned)
    /\ free_list = Len(Pinned) + 1
    /\ next_free = [b \in Buffers |-> IF b = N THEN 1 ELSE b + 1]
    /\ prev_free = [b \in Buffers |-> IF b = 1 THEN N ELSE b - 1]
    /\ disk = [k \in Blocks |-> TRUE]
    /\ me = [t \in Tasks |-> Idle]
    /\ cur = NULL
    /\ hit = {}

Call(t) == sys_sync(t) \/ \E k \in Blocks : bread(t, k)

Goes(t) ==   \* the rest of a call
    \/ get_hash_table(t) \/ Hashed(t) \/ Scan(t) \/ Scanned(t) \/ Sync(t)
    \/ SyncWrite(t) \/ Written(t) \/ Insert(t) \/ Got(t) \/ Read(t)

Dirties == (\E t \in Tasks : Modify(t)) \/ (\E b \in Buffers : ModifyPinned(b))

Interrupt(b) == Transfer(b) \/ write_intr(b) \/ read_intr(b)

Next == \/ \E t \in Tasks : Call(t) \/ Goes(t) \/ brelse(t)
        \/ Dirties
        \/ \E b \in Buffers : Interrupt(b)

Spec == Init /\ [][Next]_vars
-----------------------------------------------------------------------------
Keys == Blocks \union {NULL}

(* The types of the buffer heads, the lists and the tasks' locals.         *)
TypeOK ==
    /\ bh \in [Buffers -> [key : Keys, count : Nat, uptodate : BOOLEAN, fresh : BOOLEAN,
                           dirt : BOOLEAN, copy : BOOLEAN,
                           io : {"idle", "READ", "WRITE", "TAKEN"}]]
    /\ hashed \subseteq Buffers
    /\ free_list \in Buffers
    /\ next_free \in [Buffers -> Buffers] /\ prev_free \in [Buffers -> Buffers]
    /\ disk \in [Blocks -> BOOLEAN]
    /\ me \in [Tasks -> [pc : {"out", "hash", "hashed", "scan", "scanned", "bufwait",
                               "sync", "syncwait", "writing", "insert", "got",
                               "reading", "use"},
                         tmp : Buffers \union {NULL}, want : Keys, i : 0..N,
                         dev : {Dev[k] : k \in Blocks} \union {NULL}]]
    /\ cur \in Tasks \union {NULL}
    /\ hit \subseteq {"unhashed", "rewritten"}

(* Task t has taken its buffer off both lists; it counts in b_count.       *)
Removing(t) == me[t].tmp # NULL /\ me[t].pc \in {"sync", "syncwait", "writing", "insert"}
Using(t)    == me[t].pc \in {"hashed", "got", "reading", "use"}
Holding(t, b) == me[t].tmp = b /\ (Removing(t) \/ Using(t))

(* b_count is the number of references: brelse never frees a free buffer,  *)
(* and a buffer somebody uses is never given another block.                *)
CountExact ==
    \A b \in Buffers :
        bh[b].count = Cardinality({t \in Tasks : Holding(t, b)})
                      + IF b <= Len(Pinned) THEN 1 ELSE 0

(* What getblk returns, and what its caller goes on using over its own     *)
(* sleeps, is the block that was asked for, and its only copy in the       *)
(* cache.  The retry of get_hash_table ("this shouldn't really happen") is *)
(* never taken.                                                            *)
RightBlock ==
    \A t \in Tasks : Using(t) => find_buffer(me[t].want) = {me[t].tmp}

(* The n-th buffer from free_list.                                         *)
Nth[n \in 0..(N - 1)] == IF n = 0 THEN free_list ELSE next_free[Nth[n - 1]]

(* The free list is one ring, linked both ways, of all the buffers no task *)
(* has taken off it.                                                       *)
FreeRing ==
    LET ring == {Nth[n] : n \in 0..(N - 1)}
    IN  /\ ring = {b \in Buffers : \A t \in Tasks : ~(Removing(t) /\ me[t].tmp = b)}
        /\ \A b \in ring : prev_free[next_free[b]] = b

(* A buffer with a request under way keeps its block.                      *)
NoRenameInFlight ==
    [][\A b \in Buffers : Locked(b) => bh'[b].key = bh[b].key]_vars

(* A task that uses a block sees the last contents written to it, through  *)
(* evictions and re-reads, unless the block was read while getblk had the  *)
(* newer copy outside the hash queues (`unhashed': getblk sleeps in        *)
(* sync_dev), or a change met the end of a write (`rewritten').            *)
NoStaleUse ==
    hit = {} => \A t \in Tasks : me[t].pc = "use" => bh[me[t].tmp].fresh

(* A buffer that differs from the disk is dirty: the sync that is to come  *)
(* will write it, with the same exceptions.                                *)
DirtyKept ==
    hit = {} => \A b \in hashed : bh[b].uptodate /\ ~bh[b].dirt => (bh[b].fresh => disk[bh[b].key])

(* Nobody sleeps on buffer_wait in vain: as long as a task sleeps there,   *)
(* another one has a buffer, and the brelse that is to come wakes the       *)
(* sleeper; or has just been beaten to its block by a third (getblk gives  *)
(* the buffer back without a wake_up) and goes on with the block it finds. *)
WaiterHasHolder ==
    \A t \in Tasks : me[t].pc = "bufwait" =>
        \E u \in Tasks :
            \/ \E b \in Buffers : Holding(u, b)
            \/ cur = u /\ me[u].pc = "hash" /\ find_buffer(me[u].want) # {}
=============================================================================
