-------------------------------- MODULE Memory --------------------------------
(***************************************************************************)
(* Physical pages and page tables: mem_map and the three-level tables of   *)
(* mm/memory.c, with their users: fork, exit, wait, page faults, pipes.    *)
(*                                                                         *)
(* A page is its number; LOW_MEM and up are counted in mem_map.  The state *)
(* of mm/memory.c is one record, mm, that its functions take and return.   *)
(* A virtual address is <<PX(0,va), PX(1,va), PX(2,va)>>; the lower half of*)
(* the root is the user's, and the kernel sees page f at Kernel(f).        *)
(***************************************************************************)
EXTENDS Integers, Sequences, FiniteSets, FiniteSetsExt

CONSTANTS
    NR_TASKS,
    LOW_MEM, HIGH_MEMORY,  \* page numbers
    NPTE,                  \* entries of a table
    UserFrames,            \* the pages that paging_init maps for the user too
                           \* (in the code all of RAM, see memory.c:269)
    MaxPipes               \* bound on the pages of pipes

Frames  == 0..HIGH_MEMORY - 1
Tasks   == 0..NR_TASKS - 1
swapper == -1              \* swapper_pg_dir, a page of the kernel image
Nowhere == -2              \* the page of physical address 0, or no page
NoSlot  == -1

ASSUME MemoryAssumption ==
    /\ {NR_TASKS, LOW_MEM, HIGH_MEMORY, NPTE, MaxPipes} \subseteq Nat
    /\ NPTE >= 2 /\ LOW_MEM < HIGH_MEMORY /\ HIGH_MEMORY <= NPTE * NPTE
    /\ UserFrames \subseteq Frames

VARIABLES
    mm,        \* map: mem_map; pt[f]: the entries in page f; panic; ret of map_page
    state,     \* task[i]->state, "free" when task[i] is NULL
    father, pgd,
    page,      \* the first of the two pages of task[i]
    dying,     \* tasks between free_page_tables and the end of do_exit
    pipes,     \* i_size of the pipe inodes: their pages
    current, satp,
    ram_start, \* the next page that paging_init maps
    hit        \* history: the windows that have been hit

task == <<state, father, pgd, page, dying>>
vars == <<mm, task, pipes, current, satp, hit, ram_start>>

Index   == 0..NPTE - 1
Zero    == [v |-> FALSE, w |-> FALSE, f |-> Nowhere]
Cleared == [i \in Index |-> Zero]
User(f)   == <<f % NPTE, f \div NPTE, 0>>            \* identity: address = page
Kernel(f) == <<f % NPTE, f \div NPTE, NPTE \div 2>>  \* P2V
-----------------------------------------------------------------------------
(* Pages.                                                                  *)
Free(S) == {f \in LOW_MEM..HIGH_MEMORY - 1 : S.map[f] = 0}

(* The page get_free_page returns, and what it leaves.                     *)
FreePage(S) == IF Free(S) = {} THEN Nowhere ELSE Min(Free(S))

get_free_page(S) == [S EXCEPT !.map[FreePage(S)] = 1, !.pt[FreePage(S)] = Cleared]

TwoFreePages(S) ==
    LET two == {f \in Free(S) : f + 1 \in Free(S)}
    IN  IF two = {} THEN Nowhere ELSE Max(two)

get_two_free_pages(S) ==
    LET p == TwoFreePages(S)
    IN  [S EXCEPT !.map[p] = 1, !.map[p + 1] = 1, !.pt[p] = Cleared, !.pt[p + 1] = Cleared]

(* free_page of each target of refs, a set of <<path, page>>.              *)
free_pages(S, refs) ==
    LET n(f) == Cardinality({x \in refs : x[2] = f})
        bad  == {f \in DOMAIN S.map : n(f) > S.map[f]}
    IN  [S EXCEPT !.map = [f \in DOMAIN @ |-> IF f \in bad THEN 0 ELSE @[f] - n(f)],
                  !.panic = IF bad = {} THEN @ ELSE "trying to free free page"]

free_page(S, f) == free_pages(S, {<<<< >>, f>>})

free_two_pages(S, p) == free_pages(S, {<<<< >>, p>>, <<<< >>, p + 1>>})
-----------------------------------------------------------------------------
(* Page tables.  Walk goes from tables, given as <<path, page>>, to the    *)
(* valid entries in them.                                                  *)
Walk(S, X) ==
    UNION {{<<Append(x[1], i), S.pt[x[2]][i].f>> : i \in {j \in Index : S.pt[x[2]][j].v}} : x \in X}

Level1(S, root) == {x \in Walk(S, {<<<< >>, root>>}) : x[1][1] < NPTE \div 2}
Level0(S, root) == Walk(S, Level1(S, root))
Leaves(S, root) == Walk(S, Level0(S, root))

(* What free_one_table frees and reference_count_one_table counts, for all *)
(* user entries of a root.                                                 *)
Refs(S, root) == Level1(S, root) \cup Level0(S, root) \cup Leaves(S, root)

(* One level of map_page: the entry is there already, or gets a new table. *)
Enter(S, table, i) ==
    IF S.pt[table][i].v \/ Free(S) = {} THEN S
    ELSE [get_free_page(S) EXCEPT !.pt[table][i] = [v |-> TRUE, w |-> FALSE, f |-> FreePage(S)]]

(* The roll-back of line 506 looks one level too low: it frees nothing, or *)
(* faults at address 0, and a new level-1 table stays where it is.         *)
map_page(S, root, va, f) ==
    LET S1 == Enter(S, root, va[3])
        l1 == S1.pt[root][va[3]]
        S2 == Enter(S1, l1.f, va[2])
        l0 == S2.pt[l1.f][va[2]]
    IN  IF ~l1.v THEN [S1 EXCEPT !.ret = -1]
        ELSE IF ~l0.v THEN [S2 EXCEPT !.ret = -1]
        ELSE [S2 EXCEPT !.pt[l0.f][va[1]] = [v |-> TRUE, w |-> TRUE, f |-> f], !.ret = 0]

free_page_tables(S, root) == free_page(free_pages(S, Refs(S, root)), root)

(* Every user page of the root becomes read-only.                          *)
ReadOnly(S, root) ==
    [S EXCEPT !.pt = [p \in DOMAIN @ |->
        IF p \in {x[2] : x \in Level0(S, root)} THEN [i \in Index |-> [@[p][i] EXCEPT !.w = FALSE]] ELSE @[p]]]

(* mem_map has no entry for a page below LOW_MEM: the increment faults, in *)
(* task 0 as no other has been forked.                                     *)
reference_count(S, root) ==
    IF \E x \in Refs(S, root) : x[2] < LOW_MEM
    THEN [S EXCEPT !.panic = "Try to do_exit on TASK 0."]
    ELSE [ReadOnly(S, root) EXCEPT !.map =
            [f \in DOMAIN @ |-> @[f] + Cardinality({x \in Refs(S, root) : x[2] = f})]]

(* The new root is a copy of the old one: all lower tables are shared.     *)
copy_page_tables(S, root) ==
    reference_count([get_free_page(S) EXCEPT !.pt[FreePage(S)] = S.pt[root]], root)
-----------------------------------------------------------------------------
Init ==
    /\ mm = [map   |-> [f \in LOW_MEM..HIGH_MEMORY - 1 |-> 0],
             pt    |-> [f \in Frames \cup {swapper} |-> Cleared],
             panic |-> "", ret |-> 0]
    /\ ram_start = 0
    /\ state = [t \in Tasks |-> IF t = 0 THEN "RUNNING" ELSE "free"]
    /\ father = [t \in Tasks |-> 0]
    /\ pgd = [t \in Tasks |-> swapper]
    /\ page = [t \in Tasks |-> Nowhere]
    /\ dying = {} /\ pipes = {}
    /\ current = 0 /\ satp = swapper
    /\ hit = {}

(* A turn of the loop of paging_init.                                      *)
paging_init ==
    LET S == map_page(mm, swapper, Kernel(ram_start), ram_start)
    IN  /\ ram_start < HIGH_MEMORY
        /\ mm' = IF ram_start \in UserFrames THEN map_page(S, swapper, User(ram_start), ram_start) ELSE S
        /\ ram_start' = ram_start + 1
        /\ UNCHANGED <<task, pipes, current, satp, hit>>

Up == ram_start = HIGH_MEMORY /\ mm.panic = "" /\ UNCHANGED ram_start

(* The current task is in user mode and makes a call or faults.            *)
Runs(t) == Up /\ current = t /\ state[t] = "RUNNING" /\ t \notin dying

(* fork.  Slots are taken from 1 up; without one nothing happens.          *)
copy_process_leaks(t) ==                   \* mutant: the two pages are not given back
    LET empty == {i \in Tasks \ {0} : state[i] = "free"}
        two == get_two_free_pages(mm)
    IN  /\ Runs(t) /\ empty # {} /\ TwoFreePages(mm) # Nowhere
        /\ IF Free(two) = {}
           THEN mm' = two /\ UNCHANGED task
           ELSE /\ mm' = copy_page_tables(two, pgd[t])
                /\ state' = [state EXCEPT ![Min(empty)] = "RUNNING"]
                /\ father' = [father EXCEPT ![Min(empty)] = t]
                /\ pgd' = [pgd EXCEPT ![Min(empty)] = FreePage(two)]
                /\ page' = [page EXCEPT ![Min(empty)] = TwoFreePages(mm)]
                /\ UNCHANGED dying
        /\ UNCHANGED <<pipes, current, satp, hit>>

copy_process(t) ==
    LET empty == {i \in Tasks \ {0} : state[i] = "free"}
        two == get_two_free_pages(mm)
    IN  /\ Runs(t) /\ empty # {} /\ TwoFreePages(mm) # Nowhere
        /\ IF Free(two) = {}
           THEN mm' = free_two_pages(two, TwoFreePages(mm)) /\ UNCHANGED task
           ELSE /\ mm' = copy_page_tables(two, pgd[t])
                /\ state' = [state EXCEPT ![Min(empty)] = "RUNNING"]
                /\ father' = [father EXCEPT ![Min(empty)] = t]
                /\ pgd' = [pgd EXCEPT ![Min(empty)] = FreePage(two)]
                /\ page' = [page EXCEPT ![Min(empty)] = TwoFreePages(mm)]
                /\ UNCHANGED dying
        /\ UNCHANGED <<pipes, current, satp, hit>>

(* do_exit up to the closing of the files, with S what is left of memory.  *)
Exits_keeps(t, S) ==                       \* mutant: the root freed stays loaded
    IF t = 0 THEN mm' = [S EXCEPT !.panic = "Try to do_exit on TASK 0."] /\ UNCHANGED <<task, satp>>
    ELSE /\ mm' = free_page_tables(S, pgd[t])
         /\ father' = [i \in Tasks |-> IF father[i] = t THEN 0 ELSE father[i]]
         /\ dying' = dying \cup {t}
         /\ UNCHANGED <<state, pgd, page, satp>>

Exits(t, S) ==
    IF t = 0 THEN mm' = [S EXCEPT !.panic = "Try to do_exit on TASK 0."] /\ UNCHANGED <<task, satp>>
    ELSE /\ mm' = free_page_tables(S, pgd[t])
         /\ satp' = swapper
         /\ father' = [i \in Tasks |-> IF father[i] = t THEN 0 ELSE father[i]]
         /\ dying' = dying \cup {t}
         /\ UNCHANGED <<state, pgd, page>>

sys_exit(t) == Runs(t) /\ Exits(t, mm) /\ UNCHANGED <<pipes, current, hit>>

(* The end of do_exit, after the closing of files, which may sleep.        *)
exited(t) ==
    /\ Up /\ current = t /\ t \in dying
    /\ state' = [state EXCEPT ![t] = IF father[t] # 0 THEN "ZOMBIE" ELSE "DEAD"]
    /\ dying' = dying \ {t}
    /\ UNCHANGED <<mm, father, pgd, page, pipes, current, satp, hit>>

(* sys_waitpid finds the zombie z; release.                                *)
release(t, z) ==
    /\ Runs(t) /\ state[z] = "ZOMBIE" /\ father[z] = t /\ z # t
    /\ mm' = free_two_pages(mm, page[z])
    /\ state' = [state EXCEPT ![z] = "free"] /\ page' = [page EXCEPT ![z] = Nowhere]
    /\ father' = [father EXCEPT ![z] = 0] /\ pgd' = [pgd EXCEPT ![z] = swapper]
    /\ UNCHANGED <<dying, pipes, current, satp, hit>>

(* The write to a page that is not writable, with the level-0 table of va. *)
(* When the page is counted once it becomes writable.  Else the arguments  *)
(* of map_page are the wrong way round: the new page's kernel address is   *)
(* mapped to the page of number va, and the copy goes there or, while the  *)
(* TLB has the old translation, to the new page.  The entry, which all     *)
(* tasks share, becomes writable.  An entry that is not valid comes here   *)
(* too, and its page has no count: the decrement faults.                   *)
do_wp_page(t, va, table) ==
    LET old == mm.pt[table][va[1]].f
        n   == FreePage(mm)
        S   == map_page(get_free_page(mm), pgd[t], Kernel(n), va[1] + NPTE * va[2])
    IN  IF old >= LOW_MEM /\ mm.map[old] = 1
        THEN /\ mm' = [mm EXCEPT !.pt[table][va[1]].w = TRUE]
             /\ UNCHANGED <<task, satp, hit>>
        ELSE IF n = Nowhere THEN Exits(t, mm) /\ UNCHANGED hit
        ELSE IF S.ret # 0 THEN Exits(t, S) /\ UNCHANGED hit
        ELSE IF old < LOW_MEM THEN Exits(t, S) /\ hit' = hit \cup {"nopage"}
        ELSE /\ \E to \in {n, va[1] + NPTE * va[2]} :
                   mm' = [S EXCEPT !.map[old] = (@ - 1) % 65536,
                                   !.pt[table][va[1]].w = TRUE,
                                   !.pt[to] = S.pt[old]]
             /\ hit' = hit \cup {"cow"}
             /\ UNCHANGED <<task, satp>>

(* The user addresses of a root that have a level-0 table.                 *)
Tabled(S, root) ==
    {<<i, x[1][2], x[1][1]>> : i \in Index, x \in Level0(S, root)} \ {<<0, 0, 0>>}

(* A fault at a user address.  get_pte never returns NULL: it reads a      *)
(* missing table at the kernel address of page 0, which is not mapped, and *)
(* the second fault ends in do_exit, as the first does for page 0, which   *)
(* stands for all these addresses.  The test of do_page_fault is true for  *)
(* every entry: do_no_page is not called.                                  *)
do_page_fault(t) ==
    /\ Runs(t)
    /\ \/ Exits(t, mm) /\ UNCHANGED hit
       \/ \E va \in Tabled(mm, pgd[t]) :
             LET table == mm.pt[mm.pt[pgd[t]][va[3]].f][va[2]].f
             IN  ~mm.pt[table][va[1]].w /\ do_wp_page(t, va, table)
    /\ UNCHANGED <<pipes, current>>

(* get_pipe_inode takes a page and the last iput frees it.                 *)
get_pipe_inode(t) ==
    /\ Runs(t) /\ Free(mm) # {} /\ Cardinality(pipes) < MaxPipes
    /\ mm' = get_free_page(mm) /\ pipes' = pipes \cup {FreePage(mm)}
    /\ UNCHANGED <<task, current, satp, hit>>

iput(t, f) ==
    /\ Runs(t) /\ f \in pipes
    /\ mm' = free_page(mm, f) /\ pipes' = pipes \ {f}
    /\ UNCHANGED <<task, current, satp, hit>>

(* schedule: the current task is preempted, sleeps or has ended.           *)
context_switch(u) ==
    /\ Up /\ u # current /\ state[u] = "RUNNING"
    /\ current' = u /\ satp' = pgd[u]
    /\ hit' = IF u \in dying THEN hit \cup {"dying"} ELSE hit
    /\ UNCHANGED <<mm, task, pipes>>

(* panic ends in an endless loop.                                          *)
panicked == mm.panic # "" /\ UNCHANGED vars

Next ==
    \/ paging_init \/ panicked
    \/ \E t \in Tasks : copy_process(t) \/ sys_exit(t) \/ exited(t) \/ get_pipe_inode(t)
                        \/ do_page_fault(t)
    \/ \E t, z \in Tasks : release(t, z)
    \/ \E t \in Tasks, f \in pipes : iput(t, f)
    \/ \E u \in Tasks : context_switch(u)

Spec == Init /\ [][Next]_vars
-----------------------------------------------------------------------------
(* The forked tasks that have page tables of their own.                    *)
Live == {t \in Tasks \ {0} : state[t] = "RUNNING" /\ t \notin dying}

(* The tables below swapper_pg_dir, of the user and of the kernel.         *)
BootTables == LET l1 == Walk(mm, {<<<< >>, swapper>>}) IN {x[2] : x \in l1 \cup Walk(mm, l1)}

(* mem_map counts references exactly: a page has one for every path to it  *)
(* from the root of a task that was forked, and one for each use as a root,*)
(* task structure, boot-time table or pipe; what task 0 reaches through    *)
(* swapper_pg_dir is not counted (paging_init).  Nothing is lost when a    *)
(* fork fails half way, and what a task has counted its exit gives back,   *)
(* once: free_page never finds a page free (mm.panic).                     *)
CountExact ==
    hit = {} =>
        /\ mm.panic # "trying to free free page"
        /\ mm.panic = "" =>
            LET paths  == UNION {{t} \X Refs(mm, pgd[t]) : t \in Live}
                tables == BootTables
            IN  \A f \in DOMAIN mm.map :
                    mm.map[f] = Cardinality({p \in paths : p[2][2] = f})
                                + Cardinality({t \in Live : pgd[t] = f})
                                + Cardinality({t \in Tasks \ {0} : state[t] # "free" /\ f \in {page[t], page[t] + 1}})
                                + Cardinality({f} \cap tables) + Cardinality({f} \cap pipes)

(* The root the processor uses is still allocated and maps the kernel as   *)
(* swapper_pg_dir does, through the exit of the task that runs on it too.  *)
RootInUse ==
    hit = {} => \/ satp = swapper
                \/ /\ mm.map[satp] > 0
                   /\ \A i \in NPTE \div 2..NPTE - 1 : mm.pt[satp][i] = mm.pt[swapper][i]
===============================================================================
