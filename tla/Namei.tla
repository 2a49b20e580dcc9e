-------------------------------- MODULE Namei --------------------------------
(***************************************************************************)
(* Directories and names: fs/namei.c, and the calls of fs/open.c and       *)
(* fs/stat.c that are a namei and little more.                             *)
(*                                                                         *)
(* A step is what a task does between two points where it can sleep: the   *)
(* bread of a directory block, iget, new_inode, new_block, and the iput in *)
(* the middle of sys_link.  What the kernel holds is one record, so that   *)
(* the operators that change it compose as the calls in the code do.       *)
(* The inode table and the zones have modules of their own; here iget is a *)
(* count, and zones are only counted.                                      *)
(***************************************************************************)
EXTENDS Integers, Sequences, FiniteSets, FiniteSetsExt

CONSTANTS
    Tasks,
    Users,        \* the tasks that are not the superuser
    NInodes,      \* inode numbers 1..NInodes; 1 is the root
    Entries,      \* DIR_ENTRIES_PER_BLOCK
    Zones,        \* zones of the disk
    Paths,        \* sequences of names, the last one possibly empty ("/usr/")
    Calls(_)      \* Calls(t): the calls of task t, <<op, path, new path>>

Inodes == 1..NInodes
Root   == 1

Ops == {"stat", "chdir", "open", "creat", "excl", "mkdir", "rmdir", "unlink", "old"}

ASSUME NameiAssumption ==
    /\ Users \subseteq Tasks /\ IsFiniteSet(Tasks)
    /\ {NInodes, Zones} \subseteq Nat \ {0} /\ Entries \in Nat /\ Entries > 1
    /\ Paths \subseteq Seq(STRING) \ {<<>>}
    /\ \A t \in Tasks : \A c \in Calls(t) :
          /\ c \in Ops \X Paths \X (Paths \union {<<>>})
          /\ c[1] = "old" => c[3] # <<>>

VARIABLES
    fs,           \* inode: the inodes, free: free zones, panic: message, and of
                  \* each task pwd: its current directory, filp: its open file or 0
    loc,          \* the locals of a task's call
    hit           \* history: the windows another task's step has hit

vars == <<fs, loc, hit>>

(* mode: "free" (bit clear in the bitmap), "none" (0), "reg" or "dir".     *)
(* dir: the entries <<name, inode>> up to i_size.                          *)
FreeInode == [mode |-> "free", nlinks |-> 0, count |-> 0, dir |-> <<>>, zones |-> 0]

(* rest: the names still to go through; len, b: find_entry's `entries' and *)
(* the block it is in; de: the entry; num: the number iget is called with. *)
User == [pc |-> "user", op |-> "", rest |-> <<>>, new |-> <<>>, dir |-> 0, name |-> "",
         inode |-> 0, len |-> 0, b |-> 0, de |-> 0, num |-> 0]
-----------------------------------------------------------------------------
(* iput: the last reference to an inode without links frees it.            *)
iput_zones(S, i) ==                       \* mutant: truncate is not called for directories
    IF i = 0 \/ S.panic # "" THEN S
    ELSE LET n == S.inode[i] IN
         IF n.count > 1 \/ n.nlinks > 0 THEN [S EXCEPT !.inode[i].count = @ - 1]
         ELSE [S EXCEPT !.inode[i] = FreeInode]

iput(S, i) ==
    IF i = 0 \/ S.panic # "" THEN S
    ELSE LET n == S.inode[i] IN
         IF n.count = 0 THEN [S EXCEPT !.panic = "iput: trying to free free inode"]
         ELSE IF n.count > 1 \/ n.nlinks > 0 THEN [S EXCEPT !.inode[i].count = @ - 1]
         ELSE IF n.mode = "free" THEN [S EXCEPT !.panic = "free_inode: bit already cleared"]
         ELSE [S EXCEPT !.inode[i] = FreeInode,
                        !.free = @ + (IF n.mode \in {"reg", "dir"} THEN n.zones ELSE 0)]

iget(S, i) == [S EXCEPT !.inode[i].count = @ + 1]

(* The mode bits are abstracted: to a user a permission is there or not.   *)
(* Not even the superuser uses a deleted directory.                        *)
permission(S, i, ok) == ok /\ S.inode[i].nlinks > 0

Allowed(t) == IF t \in Users THEN BOOLEAN ELSE {TRUE}

(* A number is stale once its inode is freed between the look-up of an     *)
(* entry and iget.                                                         *)
Stale(S) ==
    \E u \in Tasks : /\ loc[u].pc \in {"igetdir", "iget", "igetrm"}
                     /\ S.inode[loc[u].num].mode = "free"

Go(t, S, l, h) ==
    /\ fs' = S /\ loc' = [loc EXCEPT ![t] = l]
    /\ hit' = hit \union h \union (IF Stale(S) THEN {"stale"} ELSE {})

(* A call ends: what it holds is put.                                      *)
Return(t, S, l, h) == Go(t, iput(iput(S, l.inode), l.dir), User, h)
-----------------------------------------------------------------------------
(* The slots of block b among the first len entries.                       *)
Slots(b, len) == {i \in 1..len : (i - 1) \div Entries = b}

match(dir, i, name) == i <= Len(dir) /\ dir[i] = <<name, dir[i][2]>> /\ dir[i][2] # 0

(* find_entry begins: `entries' is read before the first bread sleeps.     *)
Search(S, l, pc) == [l EXCEPT !.pc = pc, !.len = Len(S.inode[l.dir].dir), !.b = 0]

(* sys_chdir with the inode namei has found.                               *)
sys_chdir(S, t, i) ==
    IF S.inode[i].mode # "dir" THEN iput(S, i) ELSE [iput(S, S.pwd[t]) EXCEPT !.pwd[t] = i]

(* What the calls do between dir_namei and find_entry; the empty name is   *)
(* the special case `/usr/'.                                               *)
Base(t, S, l, ok) ==
    IF l.name = ""
    THEN CASE l.op = "chdir" -> Go(t, sys_chdir(S, t, l.dir), User, {})
           [] l.op = "open"  -> Go(t, [S EXCEPT !.filp[t] = l.dir], User, {})
           [] OTHER          -> Return(t, S, l, {})
    ELSE IF l.op \in {"mkdir", "unlink", "link"} /\ ~permission(S, l.dir, ok)
    THEN Return(t, S, l, {})
    ELSE Go(t, S, Search(S, l, "find"), {})

(* get_dir enters directory l.dir.                                         *)
get_dir(t, S, l, ok) ==
    LET m == [l EXCEPT !.name = Head(l.rest), !.rest = Tail(l.rest)] IN
    IF S.inode[l.dir].mode # "dir" \/ ~permission(S, l.dir, ok) THEN Return(t, S, l, {})
    ELSE IF m.rest = <<>> THEN Base(t, S, m, ok)
    ELSE Go(t, S, Search(S, m, "walk"), {})

(* A system call with a path relative to the current directory.  mkdir and *)
(* rmdir are for the superuser; a task has one file open at a time.        *)
Call(t, ok) ==
    /\ fs.panic = "" /\ loc[t].pc = "user"
    /\ \E c \in Calls(t) :
          /\ c[1] \in {"mkdir", "rmdir"} => t \notin Users
          /\ c[1] \in {"open", "creat", "excl"} => fs.filp[t] = 0
          /\ get_dir(t, iget(fs, fs.pwd[t]),
                     [User EXCEPT !.op = c[1], !.rest = c[2], !.new = c[3], !.dir = fs.pwd[t]], ok)

(* sys_link goes on with the new name.                                     *)
dir_namei(t, ok) ==
    /\ fs.panic = "" /\ loc[t].pc = "second"
    /\ get_dir(t, iget(fs, fs.pwd[t]),
               [loc[t] EXCEPT !.op = "link", !.rest = loc[t].new, !.new = <<>>,
                              !.dir = fs.pwd[t]], ok)

close(t) ==
    /\ fs.panic = "" /\ loc[t].pc = "user" /\ fs.filp[t] # 0
    /\ Go(t, [iput(fs, fs.filp[t]) EXCEPT !.filp[t] = 0], User, {})
-----------------------------------------------------------------------------
(* The directory of the call has been removed: what its entries lead to    *)
(* may be free, or another file by now.                                    *)
Gone(l) == IF fs.inode[l.dir].nlinks = 0 THEN {"gone"} ELSE {}

(* The entry is found: its number is read.  get_dir, namei and open_namei  *)
(* put the directory before iget; sys_unlink and sys_rmdir keep it.        *)
Found(t, l, ok) ==
    LET num  == fs.inode[l.dir].dir[l.de][2]
        next(pc) == Go(t, iput(fs, l.dir), [l EXCEPT !.pc = pc, !.num = num, !.dir = 0], Gone(l))
    IN  CASE l.pc = "walk" -> next("igetdir")
          [] l.pc = "find" /\ l.op \in {"stat", "chdir", "old", "open", "creat"} -> next("iget")
          [] l.pc = "find" /\ l.op \in {"unlink", "rmdir"} ->
                IF l.op = "rmdir" /\ ~permission(fs, l.dir, ok) THEN Return(t, fs, l, {})
                ELSE Go(t, fs, [l EXCEPT !.pc = "igetrm", !.num = num], Gone(l))
          [] OTHER -> Return(t, fs, l, {})                      \* -EEXIST

NotFound(t, l, ok) ==
    IF l.pc = "find" /\ (l.op = "mkdir" \/ (l.op \in {"creat", "excl"} /\ permission(fs, l.dir, ok)))
    THEN Go(t, fs, [l EXCEPT !.pc = "new"], {})
    ELSE IF l.pc = "find" /\ l.op = "link" THEN Go(t, fs, [l EXCEPT !.pc = "add", !.b = 0], {})
    ELSE Return(t, fs, l, {})

(* One block of find_entry.                                                *)
find_entry(t, ok) ==
    LET l == loc[t]
        found == {i \in Slots(l.b, l.len) : match(fs.inode[l.dir].dir, i, l.name)}
    IN  /\ fs.panic = "" /\ l.pc \in {"walk", "find"}
        /\ IF found # {} THEN Found(t, [l EXCEPT !.de = Min(found)], ok)
           ELSE IF (l.b + 1) * Entries < l.len THEN Go(t, fs, [l EXCEPT !.b = @ + 1], {})
           ELSE NotFound(t, l, ok)

igetdir(t, ok) ==
    /\ fs.panic = "" /\ loc[t].pc = "igetdir"
    /\ get_dir(t, iget(fs, loc[t].num), [loc[t] EXCEPT !.dir = loc[t].num, !.num = 0], ok)

(* open_namei has the inode: what it returns stays in filp.                *)
open_namei_leaks(t, S, l, ok) ==          \* mutant: -EPERM does not put the inode
    IF permission(S, l.inode, ok) /\ (S.inode[l.inode].mode = "dir" => l.op = "open")
    THEN Go(t, [S EXCEPT !.filp[t] = l.inode], User, {})
    ELSE Go(t, S, User, {})

open_namei(t, S, l, ok) ==
    IF permission(S, l.inode, ok) /\ (S.inode[l.inode].mode = "dir" => l.op = "open")
    THEN Go(t, [S EXCEPT !.filp[t] = l.inode], User, {})
    ELSE Return(t, S, l, {})

(* namei has the inode: sys_stat and its like put it.                      *)
namei(t, ok) ==
    LET l == [loc[t] EXCEPT !.inode = loc[t].num, !.num = 0]
        S == iget(fs, l.inode)
    IN  /\ fs.panic = "" /\ loc[t].pc = "iget"
        /\ CASE l.op = "chdir" -> Go(t, sys_chdir(S, t, l.inode), User, {})
             [] l.op = "old" /\ S.inode[l.inode].mode = "reg" ->
                   Go(t, S, [l EXCEPT !.pc = "second"], {})
             [] l.op \in {"open", "creat"} -> open_namei(t, S, l, ok)
             [] OTHER -> Return(t, S, l, {})             \* sys_stat, or -EPERM
-----------------------------------------------------------------------------
(* The live entries of a directory, and those besides "." and "..".        *)
Live(n) == {i \in 1..Len(n.dir) : n.dir[i][2] # 0}

(* de->inode = 0 in the directory of the call.                             *)
Clear(S, l) == [S EXCEPT !.inode[l.dir].dir[l.de] = <<l.name, 0>>]

(* The entry found before the sleep is not the one cleared after it.       *)
Moved(S, l) == IF S.inode[l.dir].dir[l.de] = <<l.name, l.num>> THEN {} ELSE {"entry"}

(* sys_unlink after iget: all at once.  A file whose last link sys_link    *)
(* has yet to count is `nonexistent'.                                      *)
sys_unlink(t) ==
    LET l == [loc[t] EXCEPT !.inode = loc[t].num]
        S == iget(fs, l.inode)
        n == S.inode[l.inode].nlinks
    IN  /\ fs.panic = "" /\ loc[t].pc = "igetrm" /\ loc[t].op = "unlink"
        /\ IF S.inode[l.inode].mode # "reg" THEN Return(t, S, l, {})
           ELSE Return(t, [Clear(S, l) EXCEPT !.inode[l.inode].nlinks = Max({n, 1}) - 1], l,
                       Moved(S, l) \union (IF n = 0 THEN {"link"} ELSE {}))


sys_rmdir(t) ==
    LET l == [loc[t] EXCEPT !.inode = loc[t].num]
        S == iget(fs, l.inode)
        n == S.inode[l.inode]
    IN  /\ fs.panic = "" /\ loc[t].pc = "igetrm" /\ loc[t].op = "rmdir"
        /\ IF l.inode = l.dir \/ n.mode # "dir" \/ Len(n.dir) < 2 THEN Return(t, S, l, {})
           ELSE Go(t, S, [l EXCEPT !.pc = "empty", !.len = Len(n.dir), !.b = 0], {})

Removed(S, l) == [Clear(S, l) EXCEPT !.inode[l.inode].nlinks = 0, !.inode[l.dir].nlinks = @ - 1]


empty_dir(t) ==
    LET l == loc[t]
        n == fs.inode[l.inode]
    IN  /\ fs.panic = "" /\ l.pc = "empty"
        /\ IF \E i \in Slots(l.b, l.len) : i > 2 /\ i \in Live(n) THEN Return(t, fs, l, {})
           ELSE IF (l.b + 1) * Entries < l.len THEN Go(t, fs, [l EXCEPT !.b = @ + 1], {})
           ELSE Return(t, Removed(fs, l), l, Moved(fs, l) \union Gone(l))
-----------------------------------------------------------------------------
(* new_inode; open_namei sets the mode at once.                            *)
new_inode(t) ==
    LET l == loc[t]
        free == {i \in Inodes : fs.inode[i].mode = "free"}
        new == [FreeInode EXCEPT !.mode = IF l.op = "mkdir" THEN "none" ELSE "reg",
                                 !.nlinks = 1, !.count = 1]
    IN  /\ fs.panic = "" /\ l.pc = "new"
        /\ IF free = {} THEN Return(t, fs, l, {})
           ELSE Go(t, [fs EXCEPT !.inode[Min(free)] = new],
                   [l EXCEPT !.pc = IF l.op = "mkdir" THEN "block" ELSE "add",
                             !.inode = Min(free), !.b = 0], {})

(* sys_mkdir gets a block for the directory ...                            *)
mkdir_block(t) ==
    LET l == loc[t] IN
    /\ fs.panic = "" /\ l.pc = "block"
    /\ IF fs.free = 0 THEN Return(t, [fs EXCEPT !.inode[l.inode].nlinks = 0], l, {})
       ELSE Go(t, [fs EXCEPT !.free = @ - 1, !.inode[l.inode].zones = 1],
               [l EXCEPT !.pc = "fill"], {})

(* ... and fills it in.                                                    *)
mkdir_fill(t) ==
    LET l == loc[t] IN
    /\ fs.panic = "" /\ l.pc = "fill"
    /\ Go(t, [fs EXCEPT !.inode[l.inode].dir = <<<<".", l.inode>>, <<"..", l.dir>>>>,
                        !.inode[l.inode].nlinks = 2, !.inode[l.inode].mode = "dir"],
          [l EXCEPT !.pc = "add", !.b = 0], {})

(* add_entry has no slot.  sys_mkdir frees the block of the directory, and *)
(* then iput truncates it and frees the block again: free_block panics.    *)
NoSlot(t, l) ==
    CASE l.op = "mkdir" -> Go(t, [fs EXCEPT !.free = @ + 1,
                                            !.panic = "free_block: bit already cleared"], l, {})
      [] l.op = "link"  -> Return(t, fs, l, {})
      [] OTHER          -> Return(t, [fs EXCEPT !.inode[l.inode].nlinks = 0], l, {})

(* Task u is between its search for a name and the entry it will add.      *)
Making(u, dir, name) ==
    /\ loc[u].pc \in {"find", "new", "block", "fill", "add"}
    /\ loc[u].op \in {"creat", "excl", "mkdir", "link"}
    /\ loc[u].dir = dir /\ loc[u].name = name

(* Task u is removing directory dir and does not look at slot i any more.  *)
Behind(u, dir, i) ==
    /\ loc[u].pc = "empty" /\ loc[u].inode = dir
    /\ (i - 1) \div Entries < loc[u].b \/ i > loc[u].len

(* add_entry has slot i: the entry is filled in before the task can sleep. *)
Slot(t, l, i) ==
    LET d == fs.inode[l.dir]
        e == <<l.name, l.inode>>
        S == [fs EXCEPT !.inode[l.dir].dir = IF i > Len(@) THEN Append(@, e) ELSE [@ EXCEPT ![i] = e]]
        h == (IF \E u \in Tasks \ {t} : Making(u, l.dir, l.name) THEN {"name"} ELSE {})
             \union (IF d.nlinks = 0 \/ \E u \in Tasks : Behind(u, l.dir, i)
                     THEN {"removed"} ELSE {})
    IN  CASE l.op = "mkdir" -> Return(t, [S EXCEPT !.inode[l.dir].nlinks = @ + 1], l, h)
          [] l.op = "link"  -> Go(t, iput(S, l.dir), [l EXCEPT !.pc = "link", !.dir = 0], h)
          [] OTHER -> Go(t, [iput(S, l.dir) EXCEPT !.filp[t] = l.inode], User, h)

(* One block of add_entry: the first free slot, or the next block, which   *)
(* create_block makes when it is not there.                                *)
add_entry(t) ==
    LET l == loc[t]
        d == fs.inode[l.dir]
        open == {i \in Slots(l.b, (l.b + 1) * Entries) : i \notin Live(d)}
    IN  /\ fs.panic = "" /\ l.pc = "add"
        /\ IF open # {} THEN Slot(t, l, Min(open))
           ELSE IF d.zones > l.b + 1 THEN Go(t, fs, [l EXCEPT !.b = @ + 1], {})
           ELSE IF fs.free = 0 THEN NoSlot(t, l)
           ELSE Go(t, [fs EXCEPT !.free = @ - 1, !.inode[l.dir].zones = @ + 1],
                   [l EXCEPT !.b = @ + 1], {})

(* sys_link counts the link after the iput of the directory.               *)
sys_link(t) ==
    LET l == loc[t] IN
    /\ fs.panic = "" /\ l.pc = "link"
    /\ Return(t, [fs EXCEPT !.inode[l.inode].nlinks = @ + 1], l, {})
-----------------------------------------------------------------------------
(* The root directory, held as the current directory of every task.        *)
Init ==
    /\ fs = [inode |-> [i \in Inodes |-> IF i # Root THEN FreeInode ELSE
                           [mode |-> "dir", nlinks |-> 2, count |-> Cardinality(Tasks),
                            dir |-> <<<<".", Root>>, <<"..", Root>>>>, zones |-> 1]],
             free |-> Zones, panic |-> "",
             pwd |-> [t \in Tasks |-> Root], filp |-> [t \in Tasks |-> 0]]
    /\ loc = [t \in Tasks |-> User] /\ hit = {}

Step(t, ok) ==
    \/ Call(t, ok) \/ dir_namei(t, ok) \/ find_entry(t, ok) \/ igetdir(t, ok) \/ namei(t, ok)

(* panic ends in an endless loop.                                          *)
panicked == fs.panic # "" /\ UNCHANGED vars

Next ==
    \/ panicked
    \/ \E t \in Tasks :
        \/ \E ok \in Allowed(t) : Step(t, ok)
        \/ close(t) \/ sys_unlink(t) \/ sys_rmdir(t) \/ empty_dir(t) \/ new_inode(t)
        \/ mkdir_block(t) \/ mkdir_fill(t) \/ add_entry(t) \/ sys_link(t)

Spec == Init /\ [][Next]_vars
-----------------------------------------------------------------------------
(* The kernel has stopped in sys_mkdir, which freed a block twice.         *)
FreedTwice ==
    /\ fs.panic = "free_block: bit already cleared"
    /\ \E t \in Tasks : loc[t].op = "mkdir" /\ loc[t].pc = "add"

(* Every path through every call puts what it got: the count of an inode   *)
(* is the number of current directories, open files and calls that hold it.*)
(* It is free exactly when nothing leads to it and nobody holds it, so     *)
(* that none is lost, none is freed under a task that has it, and iput and *)
(* free_inode never find one already free.                                 *)
RefsExact ==
    "stale" \notin hit =>
        /\ fs.panic = "" \/ FreedTwice
        /\ \A i \in Inodes :
              /\ fs.inode[i].count = Cardinality({t \in Tasks : fs.pwd[t] = i})
                                     + Cardinality({t \in Tasks : fs.filp[t] = i})
                                     + Cardinality({t \in Tasks : loc[t].dir = i})
                                     + Cardinality({t \in Tasks : loc[t].inode = i})
              /\ fs.inode[i].mode = "free" <=> fs.inode[i].nlinks = 0 /\ fs.inode[i].count = 0

(* The entries, of directories that are not removed, that lead to i.       *)
EntriesOf(i) ==
    UNION {{<<d, k>> : k \in {j \in Live(fs.inode[d]) : fs.inode[d].dir[j][2] = i}}
           : d \in {x \in Inodes : fs.inode[x].mode = "dir" /\ fs.inode[x].nlinks > 0}}

(* The inodes a call is making and has not entered in a directory yet.     *)
Unborn == {loc[t].inode : t \in {u \in Tasks : /\ loc[u].pc \in {"block", "fill", "add"}
                                               /\ loc[u].op # "link"}}



(* Every zone is free or in one inode, on the error paths too, but for one *)
(* of them: a directory that sys_mkdir has no room for has its block freed *)
(* by free_block and then by iput (namei.c:436-441), and that is the only  *)
(* zone ever freed twice.                                                  *)
ZonesExact ==
    "stale" \notin hit =>
        fs.free + Cardinality(UNION {{i} \X (1..fs.inode[i].zones) : i \in Inodes})
            = Zones + (IF FreedTwice THEN 2 ELSE 1)

=============================================================================
