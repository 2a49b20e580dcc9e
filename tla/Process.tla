------------------------------- MODULE Process -------------------------------
(***************************************************************************)
(* Tasks, the scheduler and signals: kernel/sched.c, kernel/exit.c,        *)
(* kernel/fork.c and kernel/signal.c on one hart.                          *)
(*                                                                         *)
(* A task is named by its slot in task[].  Kernel code is not preempted by *)
(* other tasks (do_timer calls schedule() only for an interrupted user     *)
(* mode), so one action is what `current` runs up to its next schedule(),  *)
(* or up to the next point where an interrupt handler can be told apart.   *)
(* at[s] is the place where task s is, or will go on when it is chosen.    *)
(*                                                                         *)
(* Left out because nothing in the tree ever gives it another value: uid   *)
(* and euid are 0, so every send_sig is permitted; pgrp is 0; sig_fn is 0; *)
(* alarm is 0 (only tty_read sets it, for a VTIME that is always 0); every *)
(* priority is init_task's.  What do_exit frees in other components (page  *)
(* tables, files, inodes) appears here only as a place where it may sleep. *)
(***************************************************************************)
EXTENDS Integers, FiniteSets

CONSTANTS
    NR_TASKS,   \* size of task[]
    MAX_PID,    \* last_pid wraps to 1 after this value (LONG_MAX in the code)
    PRIORITY,   \* init_task.priority, inherited by every task
    Sigs,       \* the signal numbers that sys_kill is called with
    WaitArgs,   \* the first arguments that sys_waitpid is called with
    SleepKinds, \* the states in which other system calls may sleep
    PassIndex   \* TRUE: schedule() hands context_switch the slot number, as
                \* line 133 does; FALSE: the descriptor in that slot, as the
                \* parameter's type asks for

SIGCHLD == 17

ASSUME ProcessAssumption ==
    /\ NR_TASKS \in Nat /\ NR_TASKS >= 2
    /\ MAX_PID \in Nat /\ MAX_PID >= NR_TASKS
    /\ PRIORITY \in Nat /\ PRIORITY >= 1
    /\ Sigs \subseteq 1..32
    /\ WaitArgs \subseteq Int
    /\ SleepKinds \subseteq {"INTERRUPTIBLE", "UNINTERRUPTIBLE"}
    /\ PassIndex \in BOOLEAN

VARIABLES
    current,    \* the running task
    state,      \* task_struct.state, or "NULL" for an empty slot of task[]
    at,         \* where the task is in the kernel, or "user"
    counter,    \* task_struct.counter
    signal,     \* task_struct.signal, as the set of pending numbers
    pid,        \* task_struct.pid
    father,     \* task_struct.father
    warg,       \* sys_waitpid's first argument, while the task is in it
    last_pid,
    faulted     \* the hart took a fault inside schedule() it cannot leave

vars == <<current, state, at, counter, signal, pid, father, warg, last_pid,
          faulted>>

Slots   == 0..(NR_TASKS - 1)
Users   == 1..(NR_TASKS - 1)                 \* every slot but task 0's
Present == {s \in Slots : state[s] # "NULL"}
Pids    == {pid[s] : s \in Present}
Pgrp    == 0

States == {"NULL", "RUNNING", "INTERRUPTIBLE", "UNINTERRUPTIBLE", "ZOMBIE",
           "DEAD"}
Places == {"user", "ret", "pause", "waitpid", "sleep", "close", "gone"}
-----------------------------------------------------------------------------
(* schedule(), called by current with the given states, signals and        *)
(* counters.  Tasks with a signal leave an interruptible sleep; of the     *)
(* runnable ones the highest counter wins, the highest slot among equals;  *)
(* when all of theirs are used up every counter is recomputed; task 0 runs *)
(* when there is none.                                                     *)
Woken(st) ==
    [s \in Slots |->
        IF s # 0 /\ st[s] = "INTERRUPTIBLE" /\ signal'[s] # {}
        THEN "RUNNING" ELSE st[s]]

Runnable(st) == {s \in Users : st[s] = "RUNNING"}

Exhausted(st, cnt) ==
    Runnable(st) # {} /\ \A s \in Runnable(st) : cnt[s] = 0

Recomputed_halved(st, cnt) ==             \* mutant: priority is not added
    [s \in Slots |-> cnt[s] \div 2]

Recomputed(st, cnt) ==
    [s \in Slots |-> IF s # 0 /\ st[s] # "NULL"
                     THEN (cnt[s] \div 2) + PRIORITY ELSE cnt[s]]

Best(n, st, cnt) ==
    \/ n = 0 /\ Runnable(st) = {}
    \/ /\ n \in Runnable(st)
       /\ \A s \in Runnable(st) : cnt[s] < cnt[n] \/ (cnt[s] = cnt[n] /\ s <= n)

(* With PassIndex, `next->pgd` is a load from an address below PAGE_SIZE:   *)
(* the fault handler ends the task in do_exit, which calls schedule()      *)
(* again, or panics for task 0; nothing gets past this line.               *)
context_switch(n) ==
    IF PassIndex THEN faulted' = TRUE /\ current' = current
                 ELSE faulted' = FALSE /\ current' = n

schedule(st, cnt) ==
    /\ state' = Woken(st)
    /\ counter' = IF Exhausted(Woken(st), cnt)
                  THEN Recomputed(Woken(st), cnt) ELSE cnt
    /\ \E n \in Slots : Best(n, state', counter') /\ context_switch(n)

NoSwitch == UNCHANGED <<current, faulted>>
At(p)    == at' = [at EXCEPT ![current] = p]
-----------------------------------------------------------------------------
(* sys_fork / copy_process.  The pid search runs, and moves last_pid, even *)
(* when task[] is full or no memory is left.                               *)
Distance(p) == IF p > last_pid THEN p - last_pid ELSE p - last_pid + MAX_PID

find_empty_process_next(p) == Distance(p) = 1  \* mutant: no check of task[]

find_empty_process(p) ==
    /\ p \in (1..MAX_PID) \ Pids
    /\ \A q \in (1..MAX_PID) \ Pids : Distance(p) <= Distance(q)

NewTask(nr, p) ==
    /\ state'   = [state EXCEPT ![nr] = "RUNNING"]
    /\ pid'     = [pid EXCEPT ![nr] = p]
    /\ father'  = [father EXCEPT ![nr] = pid[current]]
    /\ counter' = [counter EXCEPT ![nr] = PRIORITY]
    /\ signal'  = [signal EXCEPT ![nr] = {}]
    /\ at'      = [at EXCEPT ![nr] = "user", ![current] = "ret"]

ForkOK ==
    /\ at[current] = "user"
    /\ \E p \in 1..MAX_PID : find_empty_process(p) /\ last_pid' = p
    /\ \E nr \in Users :
          /\ state[nr] = "NULL"
          /\ \A k \in Users : state[k] = "NULL" => nr <= k
          /\ NewTask(nr, last_pid')
    /\ UNCHANGED warg
    /\ NoSwitch

ForkFails ==
    /\ at[current] = "user"
    /\ \E p \in 1..MAX_PID : find_empty_process(p) /\ last_pid' = p
    /\ At("ret")
    /\ UNCHANGED <<state, counter, signal, pid, father, warg>>
    /\ NoSwitch
-----------------------------------------------------------------------------
(* sys_kill / do_kill / send_sig: bits are set, nobody is woken here.      *)
KillTargets(n) ==
    {s \in Users \cap Present :
        \/ n = 0 /\ Pgrp = pid[current]
        \/ n > 0 /\ pid[s] = n
        \/ n = -1
        \/ n < -1 /\ Pgrp = -n}

WithSignal(S, sig) ==
    [s \in Slots |-> IF s \in S THEN signal[s] \union {sig} ELSE signal[s]]

sys_kill(n, sig) ==
    /\ at[current] = "user"
    /\ signal' = WithSignal(KillTargets(n), sig)
    /\ At("ret")
    /\ UNCHANGED <<state, counter, pid, father, warg, last_pid>>
    /\ NoSwitch

(* sys_pause / do_pause, and a system call that sleeps for a device or a   *)
(* queue; task 0 may pause but sleep_on panics for it.                     *)
sys_pause ==
    /\ at[current] = "user"
    /\ At("pause")
    /\ UNCHANGED <<signal, pid, father, warg, last_pid>>
    /\ schedule([state EXCEPT ![current] = "INTERRUPTIBLE"], counter)

Sleep(kind) ==
    /\ at[current] = "user" /\ current # 0
    /\ At("sleep")
    /\ UNCHANGED <<signal, pid, father, warg, last_pid>>
    /\ schedule([state EXCEPT ![current] = kind], counter)

Resume ==
    /\ at[current] \in {"pause", "sleep"}
    /\ At("ret")
    /\ UNCHANGED <<state, counter, signal, pid, father, warg, last_pid>>
    /\ NoSwitch

(* wake_up on the queue of a sleeping task, by an interrupt or another task *)
Wake(s) ==
    /\ state[s] \in {"INTERRUPTIBLE", "UNINTERRUPTIBLE"}
    /\ at[s] \in {"sleep", "close"}
    /\ state' = [state EXCEPT ![s] = "RUNNING"]
    /\ UNCHANGED <<at, counter, signal, pid, father, warg, last_pid>>
    /\ NoSwitch
-----------------------------------------------------------------------------
(* sys_waitpid.  The scan reaps the zombie in the highest slot; with       *)
(* children but no zombie the caller pauses, and after the pause goes back *)
(* to the scan unless a signal other than SIGCHLD is pending.  `flag` is   *)
(* not cleared for the second scan.                                        *)
Children_anyones(arg) ==                  \* mutant: father is not compared
    {s \in Users \ {current} : state[s] # "NULL" /\ arg \in {-1, 0, pid[s]}}

Children(arg) ==
    {s \in Users \ {current} :
        /\ state[s] # "NULL" /\ father[s] = pid[current]
        /\ \/ arg = -1
           \/ pid[s] = arg
           \/ arg = 0                       \* pgrp = current->pgrp
           \/ arg < 0 /\ Pgrp = -arg}

Zombies(arg) == {s \in Children(arg) : state[s] = "ZOMBIE"}

release(z, sig) ==
    /\ state'   = [state EXCEPT ![z] = "NULL"]
    /\ pid'     = [pid EXCEPT ![z] = 0]
    /\ father'  = [father EXCEPT ![z] = 0]
    /\ counter' = [counter EXCEPT ![z] = 0]
    /\ signal'  = [sig EXCEPT ![z] = {}]
    /\ at'      = [at EXCEPT ![z] = "gone", ![current] = "ret"]

WaitReaps(arg, sig) ==
    /\ \E z \in Zombies(arg) :
          (\A y \in Zombies(arg) : y <= z) /\ release(z, sig)
    /\ warg' = [warg EXCEPT ![current] = 0]
    /\ UNCHANGED last_pid
    /\ NoSwitch

WaitGivesUp(arg, nohang, flag, sig) ==       \* 0 for WNOHANG, or -ECHILD
    /\ Zombies(arg) = {}
    /\ nohang \/ (Children(arg) = {} /\ ~flag)
    /\ signal' = sig
    /\ warg' = [warg EXCEPT ![current] = 0]
    /\ At("ret")
    /\ UNCHANGED <<state, counter, pid, father, last_pid>>
    /\ NoSwitch

WaitPauses(arg, nohang, flag, sig) ==
    /\ Zombies(arg) = {}
    /\ ~nohang /\ (Children(arg) # {} \/ flag)
    /\ signal' = sig
    /\ warg' = [warg EXCEPT ![current] = arg]
    /\ At("waitpid")
    /\ UNCHANGED <<pid, father, last_pid>>
    /\ schedule([state EXCEPT ![current] = "INTERRUPTIBLE"], counter)

WaitScan(arg, nohang, flag, sig) ==
    \/ WaitReaps(arg, sig)
    \/ WaitGivesUp(arg, nohang, flag, sig)
    \/ WaitPauses(arg, nohang, flag, sig)

sys_waitpid(arg, nohang) ==
    /\ at[current] = "user"
    /\ WaitScan(arg, nohang, FALSE, signal)

NoSIGCHLD == [signal EXCEPT ![current] = @ \ {SIGCHLD}]

WaitpidResumes ==
    /\ at[current] = "waitpid"
    /\ NoSIGCHLD[current] = {}
    /\ WaitScan(warg[current], FALSE, TRUE, NoSIGCHLD)

WaitpidInterrupted ==
    /\ at[current] = "waitpid"
    /\ NoSIGCHLD[current] # {}
    /\ signal' = NoSIGCHLD
    /\ warg' = [warg EXCEPT ![current] = 0]
    /\ At("ret")
    /\ UNCHANGED <<state, counter, pid, father, last_pid>>
    /\ NoSwitch
-----------------------------------------------------------------------------
(* do_exit, in two parts: what it does before it closes the files and      *)
(* drops the directories (which may sleep), and what it does after.  It    *)
(* panics for task 0, and a panic ends the run.                            *)
ExitBegins_orphans(sig) ==                \* mutant: the children keep their father
    /\ current # 0
    /\ UNCHANGED <<father, state, counter, pid, warg, last_pid>>
    /\ signal' = sig
    /\ At("close")
    /\ NoSwitch

ExitBegins(sig) ==
    /\ current # 0
    /\ father' = [s \in Slots |->
                     IF s \in Present /\ father[s] = pid[current]
                     THEN 0 ELSE father[s]]
    /\ signal' = sig
    /\ At("close")
    /\ UNCHANGED <<state, counter, pid, warg, last_pid>>
    /\ NoSwitch

sys_exit == at[current] = "user" /\ ExitBegins(signal)

CloseSleeps ==
    /\ at[current] = "close" /\ "UNINTERRUPTIBLE" \in SleepKinds
    /\ UNCHANGED <<at, signal, pid, father, warg, last_pid>>
    /\ schedule([state EXCEPT ![current] = "UNINTERRUPTIBLE"], counter)

ExitEnds_silent ==                        \* mutant: SIGCHLD is not sent
    /\ at[current] = "close"
    /\ At("gone")
    /\ UNCHANGED <<pid, father, warg, last_pid, signal>>
    /\ schedule([state EXCEPT ![current] =
                    IF father[current] # 0 THEN "ZOMBIE" ELSE "DEAD"], counter)

ExitEnds ==
    /\ at[current] = "close"
    /\ At("gone")
    /\ UNCHANGED <<pid, father, warg, last_pid>>
    /\ IF father[current] # 0
       THEN /\ signal' = WithSignal(KillTargets(father[current]), SIGCHLD)
            /\ schedule([state EXCEPT ![current] = "ZOMBIE"], counter)
       ELSE /\ UNCHANGED signal
            /\ schedule([state EXCEPT ![current] = "DEAD"], counter)

(* do_signal, on the way back to user mode: numbers in ascending order,    *)
(* SIGCHLD is dropped, the first other one ends the task.                  *)
Fatal == signal[current] \ {SIGCHLD}

do_signal_drops ==                        \* mutant: every signal is ignored
    /\ at[current] = "ret"
    /\ signal' = [signal EXCEPT ![current] = {}]
    /\ At("user")
    /\ UNCHANGED <<state, counter, pid, father, warg, last_pid>>
    /\ NoSwitch

do_signal ==
    /\ at[current] = "ret"
    /\ \/ /\ Fatal = {}
          /\ signal' = [signal EXCEPT ![current] = {}]
          /\ At("user")
          /\ UNCHANGED <<state, counter, pid, father, warg, last_pid>>
          /\ NoSwitch
       \/ \E f \in Fatal :
             /\ \A g \in Fatal : f <= g
             /\ ExitBegins([signal EXCEPT ![current] = {g \in @ : g > f}])

(* do_timer: the tick costs the running task one count; with none left a   *)
(* task in user mode is switched out, and handles signals when it is back. *)
do_timer ==
    LET left == [counter EXCEPT ![current] = IF @ > 0 THEN @ - 1 ELSE 0] IN
    /\ UNCHANGED <<signal, pid, father, warg, last_pid>>
    /\ IF left[current] = 0 /\ at[current] = "user"
       THEN At("ret") /\ schedule(state, left)
       ELSE counter' = left /\ UNCHANGED <<state, at>> /\ NoSwitch
-----------------------------------------------------------------------------
Init ==
    /\ current  = 0
    /\ state    = [s \in Slots |-> IF s = 0 THEN "RUNNING" ELSE "NULL"]
    /\ at       = [s \in Slots |-> IF s = 0 THEN "user" ELSE "gone"]
    /\ counter  = [s \in Slots |-> IF s = 0 THEN PRIORITY ELSE 0]
    /\ signal   = [s \in Slots |-> {}]
    /\ pid      = [s \in Slots |-> 0]
    /\ father   = [s \in Slots |-> IF s = 0 THEN -1 ELSE 0]
    /\ warg     = [s \in Slots |-> 0]
    /\ last_pid = 0
    /\ faulted  = FALSE

SystemCall ==
    \/ ForkOK
    \/ ForkFails
    \/ \E n \in -2..MAX_PID, sig \in Sigs : sys_kill(n, sig)
    \/ sys_pause
    \/ \E kind \in SleepKinds : Sleep(kind)
    \/ \E arg \in WaitArgs, nohang \in BOOLEAN : sys_waitpid(arg, nohang)
    \/ sys_exit

KernelStep ==
    \/ Resume
    \/ WaitpidResumes
    \/ WaitpidInterrupted
    \/ ExitEnds
    \/ do_signal

Next ==
    /\ ~faulted
    /\ \/ SystemCall
       \/ KernelStep
       \/ CloseSleeps
       \/ do_timer
       \/ \E s \in Users : Wake(s)

Spec == Init /\ [][Next]_vars

(* Fairness: the hart always runs, so a task in the kernel goes on, and the *)
(* timer is re-armed by every tick.  Nothing is assumed of what user code  *)
(* calls, nor of devices.                                                  *)
FairSpec == Spec /\ WF_vars(~faulted /\ KernelStep)
                 /\ WF_vars(~faulted /\ do_timer)
-----------------------------------------------------------------------------
(* Every variable keeps the type of the field it stands for.               *)
TypeOK ==
    /\ current \in Slots
    /\ state \in [Slots -> States]
    /\ at \in [Slots -> Places]
    /\ counter \in [Slots -> Nat]
    /\ signal \in [Slots -> SUBSET (1..32)]
    /\ pid \in [Slots -> 0..MAX_PID]
    /\ father \in [Slots -> -1..MAX_PID]
    /\ warg \in [Slots -> Int]
    /\ last_pid \in 0..MAX_PID
    /\ faulted \in BOOLEAN

(* The task table and the running task agree: `current` has a descriptor, a *)
(* freed or zombie slot runs no code, task 0 is never freed, killed or      *)
(* given another pid, and only task 0 has no father.                        *)
TaskTable ==
    /\ state[current] # "NULL"
    /\ \A s \in Slots : state[s] \in {"NULL", "ZOMBIE", "DEAD"} <=> at[s] = "gone"
    /\ at[0] \notin {"close", "gone"} /\ pid[0] = 0
    /\ \A s \in Users \cap Present : pid[s] >= 1 /\ father[s] >= 0

(* find_empty_process hands out a pid no task in task[] has, zombies and   *)
(* never-released tasks included, also after last_pid has wrapped.         *)
PidsUnique ==
    \A s, t \in Present : pid[s] = pid[t] => s = t

(* father always names a task that is there and has not begun do_exit:     *)
(* do_exit re-parents to task 0 before a pid can be given out again, so a  *)
(* recycled pid never adopts another task's children.                      *)
FatherAlive ==
    \A s \in Users \cap Present :
        \E f \in Present : /\ pid[f] = father[s]
                           /\ at[f] \notin {"close", "gone"}

(* No lost child: a task asleep in sys_waitpid while one of the children it *)
(* waits for is a zombie has SIGCHLD pending, so the next schedule() wakes  *)
(* it (do_exit signals, waitpid clears the bit only before a new scan).     *)
Awaits(s, c) ==
    /\ at[s] = "waitpid" /\ c \in (Users \cap Present) \ {s}
    /\ father[c] = pid[s]
    /\ warg[s] \in {-1, 0, pid[c]}

NoLostChild ==
    \A s, c \in Users :
        Awaits(s, c) /\ state[c] = "ZOMBIE" /\ state[s] = "INTERRUPTIBLE"
            => SIGCHLD \in signal[s]

(* Nobody waits in vain: sys_waitpid never clears `flag`, so a second scan  *)
(* that found no child would pause again for ever; there is always one.     *)
NoVainWait ==
    \A s \in Slots : at[s] = "waitpid" => \E c \in Users : Awaits(s, c)

(* schedule() gives the hart to task 0 only when no other task can run.     *)
IdleIsLast ==
    [][current' = 0 /\ current # 0 => Runnable(state') = {}]_vars

(* Tasks that compute share the hart: once no more system calls are made, a *)
(* runnable task gets it (do_timer uses up the counters of the others, then *)
(* schedule() recomputes all of them).  A call that fails at once can have  *)
(* the same effect as a tick, and then counts as one.                       *)
OnlyComputing == <>[][SystemCall => do_timer]_vars

GetsTheHart ==
    \A s \in Users : (state[s] = "RUNNING") ~>
                     (current = s \/ state[s] # "RUNNING")

NoStarvation == OnlyComputing => GetsTheHart

(* Signals arrive, also when they come while their task is on its way to    *)
(* sleep: a zombie does not leave its waiting father asleep, as sys_waitpid *)
(* returns; and a signal other than SIGCHLD ends the task it was sent to,   *)
(* unless that task sits in an uninterruptible sleep.                       *)
SignalsArrive ==
    OnlyComputing =>
        \A s \in Users :
            /\ \A c \in Users : (Awaits(s, c) /\ state[c] = "ZOMBIE") ~> (at[s] # "waitpid")
            /\ (signal[s] \ {SIGCHLD} # {}) ~>
                   (at[s] \in {"close", "gone"} \/ state[s] = "UNINTERRUPTIBLE")
=============================================================================
