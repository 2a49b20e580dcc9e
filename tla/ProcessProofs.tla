---------------------------- MODULE ProcessProofs ----------------------------
(***************************************************************************)
(* Proofs about module Process, for every number of slots, pids, signals   *)
(* and priorities.  The inductive invariant is the conjunction IInv: each  *)
(* of its safety parts needs TypeOK and TaskTable, and NoVainWait also     *)
(* needs PidsUnique (two tasks with one pid would share their children).   *)
(***************************************************************************)
EXTENDS Process, TLAPS

IInv ==
    TypeOK /\ TaskTable /\ PidsUnique /\ FatherAlive /\ NoLostChild /\ NoVainWait

(* What a call of schedule(st, cnt) may do: sleepers become RUNNING, nobody *)
(* else changes state, and the next task is RUNNING, or task 0.             *)
Scheduled(st) ==
    /\ state' \in [Slots -> States]
    /\ \A s \in Slots :
          \/ state'[s] = st[s]
          \/ st[s] = "INTERRUPTIBLE" /\ state'[s] = "RUNNING"
    /\ current' \in Slots
    /\ current' = current \/ current' = 0 \/ state'[current'] = "RUNNING"

(* schedule() of sched.c keeps the types of what it writes and changes the  *)
(* state of a task only from INTERRUPTIBLE to RUNNING.                      *)
LEMMA ScheduleFacts ==
    ASSUME NEW st \in [Slots -> States], NEW cnt \in [Slots -> Nat],
           current \in Slots, schedule(st, cnt)
    PROVE  /\ Scheduled(st)
           /\ counter' \in [Slots -> Nat]
           /\ faulted' \in BOOLEAN
<1>1. /\ state' \in [Slots -> States]
      /\ \A s \in Slots : \/ state'[s] = st[s]
                          \/ st[s] = "INTERRUPTIBLE" /\ state'[s] = "RUNNING"
  BY DEF schedule, Woken, States
<1>2. counter' \in [Slots -> Nat]
  <2>1. \A c \in Nat : (c \div 2) + PRIORITY \in Nat
    BY ProcessAssumption, SMT
  <2>2. Recomputed(Woken(st), cnt) \in [Slots -> Nat]
    BY <2>1 DEF Recomputed
  <2> QED
    BY <2>2 DEF schedule
<1>3. PICK n \in Slots : Best(n, state', counter') /\ context_switch(n)
  BY DEF schedule
<1>4. n = 0 \/ state'[n] = "RUNNING"
  BY <1>3 DEF Best, Runnable
<1>5. faulted' \in BOOLEAN /\ (current' = current \/ current' = n)
  BY <1>3, Zenon DEF context_switch
<1> QED
  BY <1>1, <1>2, <1>3, <1>4, <1>5 DEF Scheduled

(* Slot 0 is a slot, and every other slot is a user slot.                   *)
LEMMA SlotFacts ==
    /\ 0 \in Slots
    /\ Users = Slots \ {0}
    /\ Users \subseteq Slots
    /\ \A s \in Slots : s \in Int
BY ProcessAssumption, SMT DEF Slots, Users

(* The state in which sched_init leaves the table satisfies the invariant.  *)
LEMMA InitIInv == Init => IInv
<1> SUFFICES ASSUME Init PROVE IInv
  OBVIOUS
<1> USE SlotFacts, ProcessAssumption DEF Init
<1>1. TypeOK
  <2>1. state \in [Slots -> States] /\ at \in [Slots -> Places]
    BY DEF States, Places
  <2>2. signal \in [Slots -> SUBSET (1..32)] /\ warg \in [Slots -> Int]
    OBVIOUS
  <2>3. counter \in [Slots -> Nat] /\ pid \in [Slots -> 0..MAX_PID]
    BY SMT
  <2>4. father \in [Slots -> -1..MAX_PID]
    BY SMT
  <2>5. current \in Slots /\ last_pid \in 0..MAX_PID
    BY SMT
  <2>6. faulted \in BOOLEAN
    BY Zenon
  <2> QED
    BY <2>1, <2>2, <2>3, <2>4, <2>5, <2>6 DEF TypeOK
<1>2. TaskTable
  BY DEF TaskTable, Present
<1>3. Present = {0}
  BY DEF Present
<1>4. PidsUnique /\ FatherAlive /\ NoLostChild /\ NoVainWait
  BY <1>3 DEF PidsUnique, FatherAlive, NoLostChild, NoVainWait, Awaits
<1> QED
  BY <1>1, <1>2, <1>4 DEF IInv
-----------------------------------------------------------------------------
(* Every step keeps the types: pids stay within MAX_PID, counters never     *)
(* become negative, a state word is always one of the TASK_ constants.      *)
LEMMA TypeStep == TypeOK /\ Next => TypeOK'
<1> SUFFICES ASSUME TypeOK, Next PROVE TypeOK'
  OBVIOUS
<1> USE SlotFacts, ProcessAssumption DEF TypeOK
<1> DEFINE Rest == /\ state' \in [Slots -> States]
                   /\ counter' \in [Slots -> Nat]
                   /\ current' \in Slots
                   /\ faulted' \in BOOLEAN
<1>1. ASSUME NoSwitch PROVE current' \in Slots /\ faulted' \in BOOLEAN
  BY <1>1 DEF NoSwitch
<1>2. ASSUME NEW x \in States, schedule([state EXCEPT ![current] = x], counter)
      PROVE  Rest
  <2>1. [state EXCEPT ![current] = x] \in [Slots -> States]
    OBVIOUS
  <2> QED
    BY <1>2, <2>1, ScheduleFacts, Zenon DEF Scheduled
<1>3. ASSUME NEW p \in Places, At(p) PROVE at' \in [Slots -> Places]
  BY <1>3 DEF At
<1>4. ASSUME NEW sig \in [Slots -> SUBSET (1..32)], ExitBegins(sig)
      PROVE  TypeOK'
  <2>1. father' \in [Slots -> -1..MAX_PID]
    BY <1>4 DEF ExitBegins
  <2>2. at' \in [Slots -> Places] /\ current' \in Slots /\ faulted' \in BOOLEAN
    BY <1>1, <1>3, <1>4 DEF ExitBegins, Places
  <2> QED
    BY <2>1, <2>2, <1>4 DEF ExitBegins
<1>5. ASSUME NEW S, NEW sig \in 1..32
      PROVE  WithSignal(S, sig) \in [Slots -> SUBSET (1..32)]
  BY DEF WithSignal
<1>6. ASSUME NEW arg \in Int, NEW nohang, NEW flag,
             NEW sig \in [Slots -> SUBSET (1..32)],
             WaitScan(arg, nohang, flag, sig)
      PROVE  TypeOK'
  <2>1. CASE WaitReaps(arg, sig)
    <3>1. PICK z \in Slots : release(z, sig)
      BY <2>1 DEF WaitReaps, Zombies, Children
    <3>2. /\ state' \in [Slots -> States] /\ at' \in [Slots -> Places]
          /\ pid' \in [Slots -> 0..MAX_PID] /\ father' \in [Slots -> -1..MAX_PID]
      BY <3>1 DEF release, States, Places
    <3>3. /\ counter' \in [Slots -> Nat]
          /\ signal' \in [Slots -> SUBSET (1..32)]
          /\ warg' \in [Slots -> Int] /\ last_pid' \in 0..MAX_PID
      BY <3>1, <2>1 DEF release, WaitReaps
    <3> QED
      BY <3>2, <3>3, <2>1, <1>1 DEF WaitReaps
  <2>2. CASE WaitGivesUp(arg, nohang, flag, sig)
    <3>1. at' \in [Slots -> Places] /\ current' \in Slots /\ faulted' \in BOOLEAN
      BY <1>1, <1>3, <2>2 DEF WaitGivesUp, Places
    <3>2. warg' \in [Slots -> Int]
      BY <2>2 DEF WaitGivesUp
    <3> QED
      BY <3>1, <3>2, <2>2 DEF WaitGivesUp
  <2>3. CASE WaitPauses(arg, nohang, flag, sig)
    <3>1. at' \in [Slots -> Places] /\ Rest
      BY <1>2, <1>3, <2>3 DEF WaitPauses, Places, States
    <3>2. warg' \in [Slots -> Int]
      BY <2>3 DEF WaitPauses
    <3> QED
      BY <3>1, <3>2, <2>3 DEF WaitPauses
  <2> QED
    BY <1>6, <2>1, <2>2, <2>3 DEF WaitScan
<1>7. CASE SystemCall
  <2>1. CASE ForkOK
    <3>1. PICK nr \in Users : NewTask(nr, last_pid')
      BY <2>1 DEF ForkOK
    <3>2. last_pid' \in 0..MAX_PID
      BY <2>1 DEF ForkOK
    <3>3. state' \in [Slots -> States] /\ at' \in [Slots -> Places]
      BY <3>1 DEF NewTask, States, Places
    <3>4. pid' \in [Slots -> 0..MAX_PID] /\ father' \in [Slots -> -1..MAX_PID]
      <4>1. \A q \in 0..MAX_PID : q \in -1..MAX_PID
        OBVIOUS
      <4> QED
        BY <4>1, <3>1, <3>2 DEF NewTask
    <3>5. counter' \in [Slots -> Nat] /\ signal' \in [Slots -> SUBSET (1..32)]
      BY <3>1 DEF NewTask
    <3> QED
      BY <3>2, <3>3, <3>4, <3>5, <2>1, <1>1 DEF ForkOK
  <2>2. CASE ForkFails
    <3>1. last_pid' \in 0..MAX_PID
      BY <2>2 DEF ForkFails
    <3> QED
      BY <3>1, <2>2, <1>1, <1>3 DEF ForkFails, Places
  <2>3. ASSUME NEW n \in -2..MAX_PID, NEW sig \in Sigs, sys_kill(n, sig)
        PROVE  TypeOK'
    BY <2>3, <1>1, <1>3, <1>5, Zenon DEF sys_kill, Places
  <2>4. CASE sys_pause
    BY <2>4, <1>2, <1>3 DEF sys_pause, Places, States
  <2>5. ASSUME NEW kind \in SleepKinds, Sleep(kind) PROVE TypeOK'
    <3>1. kind \in States
      BY DEF States
    <3> QED
      BY <3>1, <2>5, <1>2, <1>3, Zenon DEF Sleep, Places
  <2>6. ASSUME NEW arg \in WaitArgs, NEW nohang \in BOOLEAN,
               sys_waitpid(arg, nohang)
        PROVE  TypeOK'
    BY <2>6, <1>6, Zenon DEF sys_waitpid
  <2>7. CASE sys_exit
    BY <2>7, <1>4 DEF sys_exit
  <2> QED
    BY <1>7, <2>1, <2>2, <2>3, <2>4, <2>5, <2>6, <2>7, Zenon DEF SystemCall
<1>8. CASE KernelStep
  <2>1. CASE Resume
    BY <2>1, <1>1, <1>3 DEF Resume, Places
  <2>2. NoSIGCHLD \in [Slots -> SUBSET (1..32)]
    BY DEF NoSIGCHLD
  <2>3. CASE WaitpidResumes
    BY <2>3, <2>2, <1>6, Zenon DEF WaitpidResumes
  <2>4. CASE WaitpidInterrupted
    BY <2>4, <2>2, <1>1, <1>3, Zenon DEF WaitpidInterrupted, Places
  <2>5. CASE ExitEnds
    <3>1. Rest /\ at' \in [Slots -> Places]
      BY <2>5, <1>2, <1>3, Zenon DEF ExitEnds, Places, States
    <3>2. signal' \in [Slots -> SUBSET (1..32)]
      BY <2>5, <1>5 DEF ExitEnds, SIGCHLD
    <3> QED
      BY <3>1, <3>2, <2>5 DEF ExitEnds
  <2>6. CASE do_signal
    <3>1. CASE /\ signal' = [signal EXCEPT ![current] = {}]
               /\ At("user") /\ NoSwitch
               /\ UNCHANGED <<state, counter, pid, father, warg, last_pid>>
      BY <3>1, <1>1, <1>3, Zenon DEF Places
    <3>2. ASSUME NEW f \in Fatal,
                 ExitBegins([signal EXCEPT ![current] = {g \in @ : g > f}])
          PROVE  TypeOK'
      <4>1. [signal EXCEPT ![current] = {g \in @ : g > f}]
               \in [Slots -> SUBSET (1..32)]
        OBVIOUS
      <4> QED
        BY <3>2, <4>1, <1>4, Zenon
    <3> QED
      BY <2>6, <3>1, <3>2, Zenon DEF do_signal
  <2> QED
    BY <1>8, <2>1, <2>3, <2>4, <2>5, <2>6 DEF KernelStep
<1>9. CASE CloseSleeps
  BY <1>9, <1>2 DEF CloseSleeps, States
<1>10. CASE do_timer
  <2> DEFINE left == [counter EXCEPT ![current] = IF @ > 0 THEN @ - 1 ELSE 0]
  <2>1. left \in [Slots -> Nat]
    OBVIOUS
  <2>2. CASE At("ret") /\ schedule(state, left)
    <3>1. Rest
      BY <2>1, <2>2, ScheduleFacts, Zenon DEF Scheduled
    <3> QED
      BY <3>1, <2>2, <1>3, <1>10 DEF do_timer, Places
  <2>3. CASE counter' = left /\ UNCHANGED <<state, at>> /\ NoSwitch
    BY <2>3, <2>1, <1>1, <1>10 DEF do_timer
  <2> QED
    BY <2>2, <2>3, <1>10 DEF do_timer
<1>11. ASSUME NEW s \in Users, Wake(s) PROVE TypeOK'
  BY <1>11, <1>1 DEF Wake, States
<1> QED
  BY <1>7, <1>8, <1>9, <1>10, <1>11 DEF Next
-----------------------------------------------------------------------------
Live == {"RUNNING", "INTERRUPTIBLE", "UNINTERRUPTIBLE"}

(* Task s stays where it is, perhaps with more signals or another state;    *)
(* inside sys_waitpid the only new state is RUNNING.                        *)
Kept(s) ==
    /\ at'[s] = at[s] /\ warg'[s] = warg[s] /\ signal[s] \subseteq signal'[s]
    /\ \/ state'[s] = state[s]
       \/ /\ state[s] \in Live /\ state'[s] \in Live
          /\ state'[s] = "RUNNING" \/ at[s] # "waitpid"

(* Task s goes on to a place outside sys_waitpid and do_exit.               *)
Moved(s) ==
    /\ at[s] # "gone" /\ at'[s] \notin {"waitpid", "close", "gone"}
    /\ state'[s] = state[s] \/ (state[s] \in Live /\ state'[s] \in Live)

NextIsPresent ==
    current' = current \/ current' = 0 \/ state'[current'] = "RUNNING"

(* Steps that neither create, reap, re-parent nor end a task keep IInv:     *)
(* most system calls, the timer and wake_up.                                *)
LEMMA PlainStep ==
    ASSUME IInv, TypeOK', UNCHANGED <<pid, father>>, NextIsPresent,
           \A s \in Slots : Kept(s) \/ Moved(s)
    PROVE  IInv'
<1> USE SlotFacts DEF IInv
<1>0. /\ TypeOK /\ TaskTable /\ PidsUnique /\ FatherAlive /\ NoLostChild
      /\ NoVainWait
  OBVIOUS
<1>1. \A s \in Slots : state'[s] = state[s] \/ (state[s] \in Live /\ state'[s] \in Live)
  BY DEF Kept, Moved
<1>2. Present' = Present
  BY <1>1 DEF Present, Live
<1>3. TaskTable'
  <2>1. state'[current'] # "NULL"
    BY <1>0, <1>1 DEF TaskTable, NextIsPresent, TypeOK, Live
  <2>2. \A s \in Slots : state'[s] \in {"NULL", "ZOMBIE", "DEAD"} <=> at'[s] = "gone"
    BY <1>0, <1>1 DEF TaskTable, Kept, Moved, Live
  <2>3. at'[0] \notin {"close", "gone"} /\ pid'[0] = 0
    BY <1>0 DEF TaskTable, Kept, Moved
  <2> QED
    BY <1>0, <1>2, <2>1, <2>2, <2>3 DEF TaskTable
<1>4. PidsUnique'
  BY <1>0, <1>2 DEF PidsUnique
<1>5. FatherAlive'
  <2>1. \A f \in Present : at[f] \notin {"close", "gone"}
                           => at'[f] \notin {"close", "gone"}
    BY Zenon DEF Present, Kept, Moved
  <2> QED
    BY <1>0, <1>2, <2>1 DEF FatherAlive
<1>6. NoLostChild'
  BY <1>0, <1>1, <1>2 DEF NoLostChild, Awaits, Kept, Moved, Live
<1>7. NoVainWait'
  BY <1>0, <1>2, SMTT(30) DEF NoVainWait, Awaits, Kept, Moved
<1> QED
  BY <1>3, <1>4, <1>5, <1>6, <1>7

(* schedule(), called by a task that has set its own state to x and goes on *)
(* at p, is a plain step.                                                   *)
LEMMA OwnSchedule ==
    ASSUME IInv, TypeOK', NEW cnt \in [Slots -> Nat],
           NEW x \in Live, NEW p \in Places \ {"waitpid", "close", "gone"},
           at[current] # "gone", At(p) \/ (at[current] # "waitpid" /\ at' = at),
           UNCHANGED <<pid, father, warg, signal>>,
           schedule([state EXCEPT ![current] = x], cnt)
    PROVE  IInv'
<1> USE SlotFacts DEF IInv, TypeOK
<1>1. [state EXCEPT ![current] = x] \in [Slots -> States]
  BY DEF Live, States
<1>2. Scheduled([state EXCEPT ![current] = x])
  BY <1>1, ScheduleFacts, Zenon
<1>3. state[current] \in Live
  BY DEF TaskTable, States, Live
<1>4. state'[current] \in Live
  BY <1>2 DEF Scheduled, Live
<1>5. \A s \in Slots \ {current} : Kept(s)
  BY <1>2, ZenonT(60) DEF Kept, Scheduled, Live, At
<1>6. Kept(current) \/ Moved(current)
  BY <1>3, <1>4 DEF Kept, Moved, At
<1>7. NextIsPresent
  BY <1>2 DEF Scheduled, NextIsPresent
<1> QED
  BY <1>5, <1>6, <1>7, PlainStep

(* copy_process: the new task's pid is nobody's, its father is alive.       *)
LEMMA ForkStep == ASSUME IInv, TypeOK', ForkOK PROVE IInv'
<1> USE SlotFacts DEF IInv
<1>0. /\ TypeOK /\ TaskTable /\ PidsUnique /\ FatherAlive /\ NoLostChild
      /\ NoVainWait
  OBVIOUS
<1>1. PICK nr \in Users : state[nr] = "NULL" /\ NewTask(nr, last_pid')
  BY DEF ForkOK
<1>2. last_pid' \in 1..MAX_PID /\ last_pid' \notin Pids
  BY Zenon DEF ForkOK, find_empty_process
<1>3. current' = current /\ warg' = warg /\ at[current] = "user"
      /\ current \in Slots /\ current # nr
  BY <1>0, <1>1, Zenon DEF ForkOK, NoSwitch, TaskTable, TypeOK
<1>4. Present' = Present \union {nr} /\ nr \notin Present
  BY <1>0, <1>1, SMTT(30) DEF NewTask, Present, TypeOK
<1>5. /\ state'[nr] = "RUNNING" /\ pid'[nr] = last_pid' /\ at'[nr] = "user"
      /\ father'[nr] = pid[current]
  BY <1>0, <1>1, <1>3, Zenon DEF NewTask, TypeOK
<1>6. \A s \in Slots \ {nr} :
        /\ state'[s] = state[s] /\ pid'[s] = pid[s] /\ father'[s] = father[s]
        /\ signal'[s] = signal[s]
        /\ at'[s] = IF s = current THEN "ret" ELSE at[s]
  BY <1>0, <1>1 DEF NewTask, TypeOK
<1>7. TaskTable'
  <2>1. state'[current'] # "NULL"
    BY <1>0, <1>3, <1>6 DEF TaskTable
  <2>2. \A s \in Slots : state'[s] \in {"NULL", "ZOMBIE", "DEAD"} <=> at'[s] = "gone"
    BY <1>0, <1>3, <1>5, <1>6, Zenon DEF TaskTable
  <2>3. at'[0] \notin {"close", "gone"} /\ pid'[0] = 0
    BY <1>0, <1>6, Zenon DEF TaskTable
  <2>4. pid'[nr] >= 1 /\ father'[nr] >= 0
    BY <1>0, <1>2, <1>3, <1>5, SMTT(30) DEF TypeOK
  <2> QED
    BY <1>0, <1>4, <1>6, <2>1, <2>2, <2>3, <2>4, Zenon DEF TaskTable
<1>8. PidsUnique'
  <2>1. \A s \in Present : pid[s] # last_pid'
    BY <1>2 DEF Pids
  <2>2. \A s \in Present : pid'[s] = pid[s] /\ s # nr
    BY <1>4, <1>6 DEF Present
  <2> QED
    BY <1>0, <1>4, <1>5, <2>1, <2>2 DEF PidsUnique
<1>9. FatherAlive'
  <2>1. \A f \in Present : at[f] \notin {"close", "gone"}
           => f \in Present' /\ pid'[f] = pid[f] /\ at'[f] \notin {"close", "gone"}
    BY <1>4, <1>6 DEF Present
  <2>2. current \in Present
    BY <1>0, <1>3 DEF Present, TaskTable
  <2>3. \A s \in Users \cap Present : father'[s] = father[s]
    BY <1>4, <1>6
  <2> QED
    BY <1>0, <1>3, <1>4, <1>5, <2>1, <2>2, <2>3, SMTT(30) DEF FatherAlive
<1>10. \A s, c \in Slots : Awaits(s, c)' => s # nr /\ c \in Present' /\ at[s] = "waitpid" /\ s # current
  BY <1>3, <1>5, <1>6, Zenon DEF Awaits
<1>11. NoLostChild'
  BY <1>0, <1>3, <1>4, <1>5, <1>6, <1>10, SMTT(30) DEF NoLostChild, Awaits
<1>12. NoVainWait'
  <2>1. \A s \in Slots, c \in Users : Awaits(s, c) => Awaits(s, c)'
    <3> TAKE s \in Slots, c \in Users
    <3> HAVE Awaits(s, c)
    <3>1. s # nr /\ c # nr /\ s # current
      BY <1>0, <1>1, <1>3, <1>4, Zenon DEF Awaits, TaskTable
    <3> QED
      BY <3>1, <1>3, <1>4, <1>6 DEF Awaits
  <2> QED
    BY <1>0, <1>3, <1>5, <1>6, <2>1 DEF NoVainWait
<1> QED
  BY <1>7, <1>8, <1>9, <1>11, <1>12

(* release: a zombie is nobody's living father, and the children of two     *)
(* tasks are disjoint, so no other waiter loses the child it waits for.     *)
LEMMA ReapStep ==
    ASSUME IInv, TypeOK', NEW arg, NEW sig, WaitReaps(arg, sig),
           at[current] \in {"user", "waitpid"},
           sig \in [Slots -> SUBSET (1..32)],
           \A s \in Slots \ {current} : sig[s] = signal[s]
    PROVE  IInv'
<1> USE SlotFacts DEF IInv
<1>0. /\ TypeOK /\ TaskTable /\ PidsUnique /\ FatherAlive /\ NoLostChild
      /\ NoVainWait
  OBVIOUS
<1>1. PICK z \in Zombies(arg) : release(z, sig)
  BY Zenon DEF WaitReaps
<1>2. /\ z \in Users /\ z # current /\ state[z] = "ZOMBIE" /\ at[z] = "gone"
      /\ father[z] = pid[current]
  BY <1>0, Zenon DEF Zombies, Children, TaskTable
<1>3. current' = current /\ current \in Slots
      /\ \A s \in Slots \ {current} : warg'[s] = warg[s]
  BY <1>0, Zenon DEF WaitReaps, NoSwitch, TypeOK
<1>4. Present' = Present \ {z}
  BY <1>0, <1>1, <1>2, Zenon DEF release, Present, TypeOK
<1>5. at'[z] = "gone" /\ state'[z] = "NULL" /\ at'[current] = "ret"
  BY <1>0, <1>1, <1>2, Zenon DEF release, TypeOK
<1>6. \A s \in Slots \ {z} :
        /\ state'[s] = state[s] /\ pid'[s] = pid[s] /\ father'[s] = father[s]
        /\ s # current => signal'[s] = signal[s] /\ at'[s] = at[s]
  BY <1>0, <1>1, ZenonT(60) DEF release, TypeOK
<1>7. TaskTable'
  <2>1. state'[current'] # "NULL"
    BY <1>0, <1>2, <1>3, <1>6, Zenon DEF TaskTable
  <2>2. \A s \in Slots : state'[s] \in {"NULL", "ZOMBIE", "DEAD"} <=> at'[s] = "gone"
    BY <1>0, <1>2, <1>3, <1>5, <1>6, ZenonT(60) DEF TaskTable
  <2>3. at'[0] \notin {"close", "gone"} /\ pid'[0] = 0
    BY <1>0, <1>2, <1>5, <1>6, Zenon DEF TaskTable
  <2> QED
    BY <1>0, <1>4, <1>6, <2>1, <2>2, <2>3, Zenon DEF TaskTable
<1>8. PidsUnique'
  BY <1>0, <1>4, <1>6, ZenonT(60) DEF PidsUnique, Present
<1>9. FatherAlive'
  <2>1. \A f \in Present : at[f] \notin {"close", "gone"}
           => f \in Present' /\ pid'[f] = pid[f] /\ at'[f] \notin {"close", "gone"}
    BY <1>2, <1>4, <1>5, <1>6, Zenon DEF Present
  <2>2. \A s \in Users \cap Present' : s \in Present /\ father'[s] = father[s]
    BY <1>4, <1>6, Zenon
  <2> QED
    BY <1>0, <1>4, <2>1, <2>2, SMTT(30) DEF FatherAlive
<1>10. NoLostChild'
  BY <1>0, <1>2, <1>3, <1>4, <1>5, <1>6, SMTT(30) DEF NoLostChild, Awaits
<1>11. NoVainWait'
  <2> SUFFICES ASSUME NEW s \in Slots, at'[s] = "waitpid"
               PROVE  \E c \in Users : Awaits(s, c)'
    BY ZenonT(30) DEF NoVainWait
  <2>1. s # z /\ s # current /\ at[s] = "waitpid"
    BY <1>2, <1>3, <1>5, <1>6, Zenon
  <2>2. PICK c \in Users : Awaits(s, c)
    BY <1>0, <2>1, Zenon DEF NoVainWait
  <2>3. s \in Present /\ current \in Present
    BY <1>0, <1>3, <2>1, Zenon DEF TaskTable, Present
  <2>4. c # z
    BY <1>0, <1>2, <2>1, <2>2, <2>3, Zenon DEF Awaits, PidsUnique
  <2> QED
    BY <1>3, <1>4, <1>6, <2>1, <2>2, <2>4 DEF Awaits
<1> QED
  BY <1>7, <1>8, <1>9, <1>10, <1>11, Zenon

(* sys_waitpid pauses only after a scan that found a child and no zombie,   *)
(* and on the way to a second scan the child of the first is still there.   *)
LEMMA PauseStep ==
    ASSUME IInv, TypeOK', NEW arg \in Int, NEW nohang, NEW flag \in BOOLEAN,
           NEW sig, WaitPauses(arg, nohang, flag, sig),
           at[current] \in {"user", "waitpid"},
           flag => at[current] = "waitpid" /\ arg = warg[current],
           \A s \in Slots \ {current} : sig[s] = signal[s]
    PROVE  IInv'
<1> USE SlotFacts DEF IInv
<1>0. /\ TypeOK /\ TaskTable /\ PidsUnique /\ FatherAlive /\ NoLostChild
      /\ NoVainWait
  OBVIOUS
<1>1. Scheduled([state EXCEPT ![current] = "INTERRUPTIBLE"])
  <2>1. [state EXCEPT ![current] = "INTERRUPTIBLE"] \in [Slots -> States]
    BY <1>0, Zenon DEF TypeOK, States
  <2> QED
    BY <1>0, <2>1, ScheduleFacts, Zenon DEF WaitPauses, TypeOK
<1>2. /\ current \in Slots /\ state[current] \in Live /\ state'[current] \in Live
  BY <1>0, <1>1, SMTT(30) DEF Scheduled, TypeOK, TaskTable, States, Live
<1>3. \A s \in Slots \ {current} :
        /\ at'[s] = at[s] /\ warg'[s] = warg[s] /\ signal'[s] = signal[s]
        /\ state'[s] = state[s] \/ (state[s] = "INTERRUPTIBLE" /\ state'[s] = "RUNNING")
  BY <1>0, <1>1, SMTT(30) DEF Scheduled, WaitPauses, At, TypeOK
<1>4. at'[current] = "waitpid" /\ warg'[current] = arg
      /\ pid' = pid /\ father' = father
  BY <1>0, Zenon DEF WaitPauses, At, TypeOK
<1>5. Present' = Present
  BY <1>2, <1>3, Zenon DEF Present, Live
<1>6. TaskTable'
  <2>1. state'[current'] # "NULL"
    BY <1>1, <1>0, <1>2, <1>3, ZenonT(60) DEF Scheduled, TaskTable, Live
  <2>2. \A s \in Slots : state'[s] \in {"NULL", "ZOMBIE", "DEAD"} <=> at'[s] = "gone"
    BY <1>0, <1>2, <1>3, <1>4, ZenonT(60) DEF TaskTable, Live
  <2>3. at'[0] \notin {"close", "gone"} /\ pid'[0] = 0
    BY <1>0, <1>3, <1>4, Zenon DEF TaskTable
  <2> QED
    BY <1>0, <1>4, <1>5, <2>1, <2>2, <2>3, Zenon DEF TaskTable
<1>7. PidsUnique'
  BY <1>0, <1>4, <1>5, Zenon DEF PidsUnique
<1>8. FatherAlive'
  <2>1. \A f \in Present : at[f] \notin {"close", "gone"}
                           => at'[f] \notin {"close", "gone"}
    BY <1>3, <1>4, Zenon DEF Present
  <2> QED
    BY <1>0, <1>4, <1>5, <2>1, Zenon DEF FatherAlive
<1>9. NoLostChild'
  <2> SUFFICES ASSUME NEW s \in Users, NEW c \in Users, Awaits(s, c)',
                      state'[c] = "ZOMBIE", state'[s] = "INTERRUPTIBLE"
               PROVE  SIGCHLD \in signal'[s]
    BY Zenon DEF NoLostChild
  <2>1. state[c] = "ZOMBIE" /\ c # current
    BY <1>2, <1>3 DEF Live
  <2>2. CASE s = current
    <3>1. c \in Zombies(arg)
      BY <1>4, <2>1, <2>2, ZenonT(60) DEF Awaits, Zombies, Children
    <3> QED
      BY <3>1, ZenonT(60) DEF WaitPauses
  <2>3. CASE s # current
    BY <1>0, <1>3, <1>4, <1>5, <2>1, <2>3, ZenonT(60) DEF NoLostChild, Awaits
  <2> QED
    BY <2>2, <2>3, Zenon
<1>10. NoVainWait'
  <2>0. PICK me \in Slots : me = current
    BY <1>2
  <2>1. \E c \in Users : Awaits(me, c)'
    <3>1. CASE flag
      <4>1. PICK c \in Users : Awaits(current, c)
        BY <1>0, <1>2, <3>1, Zenon DEF NoVainWait
      <4> QED
        BY <2>0, <3>1, <4>1, <1>4, <1>5 DEF Awaits
    <3>2. CASE ~flag
      <4>1. PICK c \in Children(arg) : TRUE
        BY <3>2, Zenon DEF WaitPauses
      <4>2. /\ c \in Users \ {current} /\ c \in Present
            /\ father[c] = pid[current] /\ arg \in {-1, 0, pid[c]}
        BY <4>1, SMTT(30) DEF Children, Present, Pgrp
      <4> QED
        BY <2>0, <4>2, <1>4, <1>5, Zenon DEF Awaits
    <3> QED
      BY <3>1, <3>2, Zenon
  <2>2. \A s \in Slots \ {current}, c \in Users : Awaits(s, c) => Awaits(s, c)'
    BY <1>3, <1>4, <1>5, Zenon DEF Awaits
  <2> QED
    BY <1>0, <1>3, <2>0, <2>1, <2>2, Zenon DEF NoVainWait
<1> QED
  BY <1>6, <1>7, <1>8, <1>9, <1>10

(* The first part of do_exit: every child gets task 0 for a father.         *)
LEMMA ExitBeginsStep ==
    ASSUME IInv, TypeOK', NEW sig, ExitBegins(sig), at[current] # "gone",
           \A s \in Slots \ {current} : sig[s] = signal[s]
    PROVE  IInv'
<1> USE SlotFacts DEF IInv
<1>0. /\ TypeOK /\ TaskTable /\ PidsUnique /\ FatherAlive /\ NoLostChild
      /\ NoVainWait
  BY Zenon
<1>1. /\ current \in Users /\ current' = current
      /\ state' = state /\ pid' = pid /\ warg' = warg /\ Present' = Present
  BY <1>0, Zenon DEF ExitBegins, NoSwitch, TypeOK, Present
<1>2. at'[current] = "close" /\ \A s \in Slots \ {current} :
                                  at'[s] = at[s] /\ signal'[s] = signal[s]
  BY <1>0, <1>1 DEF ExitBegins, At, TypeOK
<1>3. \A s \in Present : father'[s] = IF father[s] = pid[current]
                                      THEN 0 ELSE father[s]
  BY Zenon DEF ExitBegins, Present
<1>4. TaskTable'
  <2>1. \A s \in Users \cap Present : pid'[s] >= 1 /\ father'[s] >= 0
    BY <1>0, <1>1, <1>3, SMTT(30) DEF TaskTable
  <2>2. \A s \in Slots : state'[s] \in {"NULL", "ZOMBIE", "DEAD"} <=> at'[s] = "gone"
    BY <1>0, <1>1, <1>2, Zenon DEF TaskTable
  <2> QED
    BY <1>0, <1>1, <1>2, <2>1, <2>2, Zenon DEF TaskTable
<1>5. PidsUnique'
  BY <1>0, <1>1 DEF PidsUnique
<1>6. FatherAlive'
  <2> SUFFICES ASSUME NEW s \in Users \cap Present
               PROVE  \E f \in Present : /\ pid[f] = father'[s]
                                         /\ at'[f] \notin {"close", "gone"}
    BY <1>1 DEF FatherAlive
  <2>1. CASE father[s] = pid[current]
    <3>1. 0 \in Present /\ pid[0] = 0 /\ at'[0] \notin {"close", "gone"}
      BY <1>0, <1>1, <1>2, Zenon DEF TaskTable, Present
    <3> QED
      BY <2>1, <3>1, <1>3
  <2>2. CASE father[s] # pid[current]
    <3>1. PICK f \in Present : pid[f] = father[s] /\ at[f] \notin {"close", "gone"}
      BY <1>0 DEF FatherAlive
    <3> QED
      BY <2>2, <3>1, <1>2, <1>3, Zenon DEF Present
  <2> QED
    BY <2>1, <2>2, Zenon
<1>7. \A s \in Slots \ {current} : at[s] = "waitpid" =>
         \A c \in Users \cap Present : father[c] = pid[s] => father'[c] = pid[s]
  <2> TAKE s \in Slots \ {current}
  <2> HAVE at[s] = "waitpid"
  <2>1. s \in Present /\ current \in Present
    BY <1>0, <1>1 DEF TaskTable, Present
  <2>2. pid[s] # pid[current]
    BY <1>0, <2>1, Zenon DEF PidsUnique
  <2> QED
    BY <2>2, <1>3, Zenon
<1>8. \A s \in Users \ {current} : at[s] = "waitpid" =>
         \A c \in Users \cap Present : father'[c] = pid[s] => father[c] = pid[s]
  <2> TAKE s \in Users \ {current}
  <2> HAVE at[s] = "waitpid"
  <2>1. s \in Present /\ pid[s] >= 1
    BY <1>0, Zenon DEF TaskTable, Present
  <2> QED
    BY <2>1, <1>3, <1>0 DEF TypeOK
<1>9. NoLostChild'
  BY <1>0, <1>1, <1>2, <1>8, SMTT(30) DEF NoLostChild, Awaits
<1>10. NoVainWait'
  BY <1>0, <1>1, <1>2, <1>7 DEF NoVainWait, Awaits
<1> QED
  BY <1>4, <1>5, <1>6, <1>9, <1>10

(* The last part of do_exit: the zombie's father, if it waits, gets SIGCHLD.*)
LEMMA ExitEndsStep == ASSUME IInv, TypeOK', ExitEnds PROVE IInv'
<1> USE SlotFacts DEF IInv
<1>0. /\ TypeOK /\ TaskTable /\ PidsUnique /\ FatherAlive /\ NoLostChild
      /\ NoVainWait
  OBVIOUS
<1>1. PICK x \in {"ZOMBIE", "DEAD"} :
        /\ schedule([state EXCEPT ![current] = x], counter)
        /\ x = "ZOMBIE" => signal' = WithSignal(KillTargets(father[current]), SIGCHLD)
                           /\ father[current] # 0
        /\ x = "DEAD" => signal' = signal
  BY DEF ExitEnds
<1>2. Scheduled([state EXCEPT ![current] = x])
  <2>1. [state EXCEPT ![current] = x] \in [Slots -> States]
    BY <1>0, Zenon DEF TypeOK, States
  <2> QED
    BY <1>0, <1>1, <2>1, ScheduleFacts, Zenon DEF TypeOK
<1>3. /\ current \in Users /\ at[current] = "close" /\ at'[current] = "gone"
      /\ state'[current] = x /\ current \in Present
      /\ pid' = pid /\ father' = father /\ warg' = warg
  BY <1>0, <1>2, ZenonT(60) DEF ExitEnds, At, TypeOK, TaskTable, Scheduled, Present
<1>4. \A s \in Slots \ {current} :
        /\ at'[s] = at[s]
        /\ state'[s] = state[s] \/ (state[s] = "INTERRUPTIBLE" /\ state'[s] = "RUNNING")
  BY <1>0, <1>2 DEF ExitEnds, At, TypeOK, Scheduled
<1>5. \A s \in Slots : signal[s] \subseteq signal'[s]
  BY <1>0, <1>1 DEF WithSignal, TypeOK
<1>6. Present' = Present
  BY <1>3, <1>4, Zenon DEF Present
<1>7. TaskTable'
  <2>1. state'[current'] # "NULL"
    BY <1>0, <1>2, <1>3, <1>4, ZenonT(60) DEF Scheduled, TaskTable
  <2>2. \A s \in Slots : state'[s] \in {"NULL", "ZOMBIE", "DEAD"} <=> at'[s] = "gone"
    BY <1>0, <1>3, <1>4, Zenon DEF TaskTable
  <2>3. at'[0] \notin {"close", "gone"} /\ pid'[0] = 0
    BY <1>0, <1>3, <1>4, Zenon DEF TaskTable
  <2> QED
    BY <1>0, <1>3, <1>6, <2>1, <2>2, <2>3, Zenon DEF TaskTable
<1>8. PidsUnique'
  BY <1>0, <1>3, <1>6, Zenon DEF PidsUnique
<1>9. FatherAlive'
  <2>1. \A f \in Present : at[f] \notin {"close", "gone"}
                           => at'[f] \notin {"close", "gone"}
    BY <1>3, <1>4 DEF Present
  <2> QED
    BY <1>0, <1>3, <1>6, <2>1, Zenon DEF FatherAlive
<1>10. NoLostChild'
  <2> SUFFICES ASSUME NEW s \in Users, NEW c \in Users, Awaits(s, c)',
                      state'[c] = "ZOMBIE", state'[s] = "INTERRUPTIBLE"
               PROVE  SIGCHLD \in signal'[s]
    BY Zenon DEF NoLostChild
  <2>1. s # current /\ Awaits(s, c) /\ state[s] = "INTERRUPTIBLE"
    BY <1>3, <1>4, <1>6, Zenon DEF Awaits
  <2>2. CASE c = current
    <3>1. s \in Users \cap Present /\ father[current] = pid[s] /\ pid[s] >= 1
      BY <1>0, <2>1, <2>2, Zenon DEF Awaits, TaskTable, Present
    <3>2. pid[s] \in Int
      BY <1>0 DEF TypeOK
    <3>3. s \in KillTargets(father[current])
      BY <3>1, <3>2, SMTT(30) DEF KillTargets
    <3> QED
      BY <1>1, <1>3, <2>2, <3>3, Zenon DEF WithSignal
  <2>3. CASE c # current
    BY <1>0, <1>4, <1>5, <2>1, <2>3, Zenon DEF NoLostChild
  <2> QED
    BY <2>2, <2>3, Zenon
<1>11. NoVainWait'
  BY <1>0, <1>3, <1>4, <1>6, SMTT(30) DEF NoVainWait, Awaits
<1> QED
  BY <1>7, <1>8, <1>9, <1>10, <1>11, Zenon

(* Every scan of sys_waitpid keeps IInv.                                    *)
LEMMA ScanStep ==
    ASSUME IInv, TypeOK', NEW arg \in Int, NEW nohang, NEW flag \in BOOLEAN,
           NEW sig \in [Slots -> SUBSET (1..32)],
           WaitScan(arg, nohang, flag, sig),
           at[current] \in {"user", "waitpid"},
           flag => at[current] = "waitpid" /\ arg = warg[current],
           \A s \in Slots \ {current} : sig[s] = signal[s]
    PROVE  IInv'
<1>1. CASE WaitReaps(arg, sig)
  BY <1>1, ReapStep, Zenon
<1>2. CASE WaitGivesUp(arg, nohang, flag, sig)
  <2>1. Moved(current) /\ NextIsPresent
    BY <1>2, Zenon DEF WaitGivesUp, Moved, At, NoSwitch, NextIsPresent, IInv, TypeOK
  <2>2. \A s \in Slots \ {current} : Kept(s)
    BY <1>2, ZenonT(30) DEF WaitGivesUp, Kept, At, IInv, TypeOK
  <2> QED
    BY <1>2, <2>1, <2>2, PlainStep DEF WaitGivesUp
<1>3. CASE WaitPauses(arg, nohang, flag, sig)
  BY <1>3, PauseStep
<1> QED
  BY <1>1, <1>2, <1>3 DEF WaitScan

(* IInv is inductive.                                                       *)
LEMMA IInvStep == IInv /\ [Next]_vars => IInv'
<1> SUFFICES ASSUME IInv, [Next]_vars PROVE IInv'
  OBVIOUS
<1>0. TypeOK /\ TaskTable
  BY Zenon DEF IInv
<1> USE SlotFacts, ProcessAssumption
<1>1. CASE UNCHANGED vars
  <2>1. \A s \in Slots : Kept(s)
    BY <1>1, Zenon DEF vars, Kept
  <2>2. NextIsPresent /\ TypeOK'
    BY <1>0, <1>1 DEF vars, TypeOK, NextIsPresent
  <2> QED
    BY <1>1, <2>1, <2>2, PlainStep, Zenon DEF vars
<1>2. ASSUME Next PROVE TypeOK'
  BY <1>0, <1>2, TypeStep
<1>3. CASE Next /\ SystemCall
  <2>0. TypeOK'
    BY <1>2, <1>3
  <2>1. CASE ForkOK
    BY <2>0, <2>1, ForkStep, Zenon
  <2>2. CASE ForkFails
    <3>1. \A s \in Slots : Kept(s) \/ Moved(s)
      BY <1>0, <2>2, Zenon DEF ForkFails, Kept, Moved, At, TypeOK
    <3> QED
      BY <2>0, <2>2, <3>1, PlainStep, Zenon DEF ForkFails, NoSwitch, NextIsPresent
  <2>3. ASSUME NEW n \in -2..MAX_PID, NEW sig \in Sigs, sys_kill(n, sig)
        PROVE  IInv'
    <3>1. \A s \in Slots : signal[s] \subseteq signal'[s]
      BY <1>0, <2>3, ZenonT(30) DEF sys_kill, WithSignal, TypeOK
    <3>2. \A s \in Slots : Kept(s) \/ Moved(s)
      BY <1>0, <2>3, <3>1 DEF sys_kill, Kept, Moved, At, TypeOK
    <3> QED
      BY <2>0, <2>3, <3>2, PlainStep DEF sys_kill, NoSwitch, NextIsPresent
  <2>4. CASE sys_pause
    BY <1>0, <2>0, <2>4, OwnSchedule, Zenon DEF sys_pause, Live, Places, TypeOK
  <2>5. ASSUME NEW kind \in SleepKinds, Sleep(kind) PROVE IInv'
    <3>1. kind \in Live
      BY DEF Live
    <3> QED
      BY <1>0, <2>0, <2>5, <3>1, OwnSchedule, Zenon DEF Sleep, Places, TypeOK
  <2>6. ASSUME NEW arg \in WaitArgs, NEW nohang \in BOOLEAN,
               sys_waitpid(arg, nohang)
        PROVE  IInv'
    BY <1>0, <2>0, <2>6, ScanStep, Zenon DEF sys_waitpid, TypeOK
  <2>7. CASE sys_exit
    BY <2>0, <2>7, ExitBeginsStep DEF sys_exit
  <2> QED
    BY <1>3, <2>1, <2>2, <2>3, <2>4, <2>5, <2>6, <2>7 DEF SystemCall
<1>4. CASE Next /\ KernelStep
  <2>0. TypeOK'
    BY <1>2, <1>4
  <2>1. CASE Resume
    <3>1. \A s \in Slots : Kept(s) \/ Moved(s)
      BY <1>0, <2>1, Zenon DEF Resume, Kept, Moved, At, TypeOK
    <3> QED
      BY <2>0, <2>1, <3>1, PlainStep, Zenon DEF Resume, NoSwitch, NextIsPresent
  <2>2. /\ NoSIGCHLD \in [Slots -> SUBSET (1..32)]
        /\ \A s \in Slots \ {current} : NoSIGCHLD[s] = signal[s]
    BY <1>0 DEF NoSIGCHLD, TypeOK
  <2>3. CASE WaitpidResumes
    BY <1>0, <2>0, <2>2, <2>3, ScanStep, Zenon DEF WaitpidResumes, TypeOK
  <2>4. CASE WaitpidInterrupted
    <3>1. \A s \in Slots : Kept(s) \/ Moved(s)
      BY <1>0, <2>2, <2>4, Zenon DEF WaitpidInterrupted, Kept, Moved, At, TypeOK
    <3> QED
      BY <2>0, <2>4, <3>1, PlainStep, Zenon
         DEF WaitpidInterrupted, NoSwitch, NextIsPresent
  <2>5. CASE ExitEnds
    BY <2>0, <2>5, ExitEndsStep
  <2>6. CASE do_signal
    <3>1. CASE /\ signal' = [signal EXCEPT ![current] = {}]
               /\ At("user") /\ NoSwitch
               /\ UNCHANGED <<state, counter, pid, father, warg, last_pid>>
      <4>1. \A s \in Slots : Kept(s) \/ Moved(s)
        BY <1>0, <2>6, <3>1 DEF do_signal, Kept, Moved, At, TypeOK
      <4> QED
        BY <2>0, <3>1, <4>1, PlainStep, Zenon DEF NoSwitch, NextIsPresent
    <3>2. ASSUME NEW f \in Fatal,
                 ExitBegins([signal EXCEPT ![current] = {g \in @ : g > f}])
          PROVE  IInv'
      <4>1. \A s \in Slots \ {current} :
               [signal EXCEPT ![current] = {g \in @ : g > f}][s] = signal[s]
        BY <1>0, Zenon DEF TypeOK
      <4>2. at[current] # "gone"
        BY <2>6, Zenon DEF do_signal
      <4> QED
        BY <2>0, <3>2, <4>1, <4>2, ExitBeginsStep, Zenon
    <3> QED
      BY <2>6, <3>1, <3>2, Zenon DEF do_signal
  <2> QED
    BY <1>4, <2>1, <2>3, <2>4, <2>5, <2>6, Zenon DEF KernelStep
<1>5. CASE Next /\ CloseSleeps
  <2>1. "ret" \in Places \ {"waitpid", "close", "gone"} /\ "UNINTERRUPTIBLE" \in Live
    BY Zenon DEF Places, Live
  <2>2. counter \in [Slots -> Nat] /\ TypeOK'
    BY <1>0, <1>2, <1>5 DEF TypeOK
  <2>3. /\ at[current] = "close" /\ at' = at
        /\ UNCHANGED <<pid, father, warg, signal>>
        /\ schedule([state EXCEPT ![current] = "UNINTERRUPTIBLE"], counter)
    BY <1>5, Zenon DEF CloseSleeps
  <2> QED
    BY <2>1, <2>2, <2>3, OwnSchedule
<1>6. CASE Next /\ do_timer
  <2>0. TypeOK'
    BY <1>2, <1>6
  <2> DEFINE left == [counter EXCEPT ![current] = IF @ > 0 THEN @ - 1 ELSE 0]
  <2>1. left \in [Slots -> Nat]
    BY <1>0, SMTT(30) DEF TypeOK
  <2>2. CASE at[current] = "user" /\ At("ret") /\ schedule(state, left)
    <3>1. state = [state EXCEPT ![current] = state[current]]
      BY <1>0, Zenon DEF TypeOK
    <3>2. state[current] \in Live
      BY <1>0, <2>2 DEF TypeOK, TaskTable, States, Live
    <3>3. schedule([state EXCEPT ![current] = state[current]], left)
      BY <2>2, <3>1, Zenon
    <3>4. UNCHANGED <<pid, father, warg, signal>>
      BY <1>6, Zenon DEF do_timer
    <3> HIDE DEF left
    <3> QED
      BY <2>0, <2>1, <2>2, <3>2, <3>3, <3>4, OwnSchedule, Zenon DEF Places
  <2>3. CASE counter' = left /\ UNCHANGED <<state, at>> /\ NoSwitch
    <3>1. \A s \in Slots : Kept(s)
      BY <1>6, <2>3 DEF do_timer, Kept
    <3> QED
      BY <1>6, <2>0, <2>3, <3>1, PlainStep, Zenon DEF do_timer, NoSwitch, NextIsPresent
  <2> QED
    BY <1>6, <2>2, <2>3, Zenon DEF do_timer
<1>7. ASSUME Next, NEW s \in Users, Wake(s) PROVE IInv'
  <2>1. \A t \in Slots : Kept(t)
    BY <1>0, <1>7 DEF Wake, Kept, TypeOK, Live
  <2> QED
    BY <1>2, <1>7, <2>1, PlainStep, Zenon DEF Wake, NoSwitch, NextIsPresent
<1> QED
  BY <1>1, <1>3, <1>4, <1>5, <1>6, <1>7 DEF Next
-----------------------------------------------------------------------------
(* The inductive invariant holds in every reachable state.                  *)
LEMMA IInvAlways == Spec => []IInv
BY InitIInv, IInvStep, PTL DEF Spec

(* task[], current and every field written by fork, exit, waitpid, signal   *)
(* and schedule keep their types.                                           *)
THEOREM TypeCorrect == Spec => []TypeOK
<1>1. IInv => TypeOK
  BY DEF IInv
<1> QED
  BY <1>1, IInvAlways, PTL

(* The table stays consistent: what a slot's state says, where its task is  *)
(* and who runs fit together after every fork, exit, release and switch.    *)
THEOREM TableConsistent == Spec => []TaskTable
<1>1. IInv => TaskTable
  BY DEF IInv
<1> QED
  BY <1>1, IInvAlways, PTL

(* find_empty_process never hands out a pid that is in use.                 *)
THEOREM PidsAlwaysUnique == Spec => []PidsUnique
<1>1. IInv => PidsUnique
  BY DEF IInv
<1> QED
  BY <1>1, IInvAlways, PTL

(* do_exit re-parents before its pid can be reused: fathers are alive.      *)
THEOREM FathersAlwaysAlive == Spec => []FatherAlive
<1>1. IInv => FatherAlive
  BY DEF IInv
<1> QED
  BY <1>1, IInvAlways, PTL

(* A father asleep in sys_waitpid has been told of each of its zombies.     *)
THEOREM ChildrenNeverLost == Spec => []NoLostChild
<1>1. IInv => NoLostChild
  BY DEF IInv
<1> QED
  BY <1>1, IInvAlways, PTL

(* A task inside sys_waitpid always has a child to wait for.                *)
THEOREM WaitsNeverVain == Spec => []NoVainWait
<1>1. IInv => NoVainWait
  BY DEF IInv
<1> QED
  BY <1>1, IInvAlways, PTL

(* The hart changes hands only in schedule(), which takes task 0 last.      *)
LEMMA IdleStep ==
    ASSUME Next PROVE current' = 0 /\ current # 0 => Runnable(state') = {}
<1> DEFINE P == current' = 0 /\ current # 0 => Runnable(state') = {}
<1> SUFFICES P
  OBVIOUS
<1>1. ASSUME NEW st, NEW cnt, schedule(st, cnt) PROVE P
  <2>1. PICK n \in Slots : Best(n, state', counter') /\ context_switch(n)
    BY <1>1 DEF schedule
  <2>2. current' = current \/ current' = n
    BY <2>1 DEF context_switch
  <2>3. n = 0 => Runnable(state') = {}
    BY <2>1, SlotFacts DEF Best, Runnable
  <2> QED
    BY <2>2, <2>3
<1>2. ASSUME NoSwitch PROVE P
  BY <1>2, Zenon DEF NoSwitch
<1>3. ASSUME NEW arg, NEW nohang, NEW flag, NEW sig,
             WaitScan(arg, nohang, flag, sig)
      PROVE  P
  BY <1>1, <1>2, <1>3 DEF WaitScan, WaitReaps, WaitGivesUp, WaitPauses
<1>4. ASSUME NEW sig, ExitBegins(sig) PROVE P
  BY <1>2, <1>4 DEF ExitBegins
<1>5. CASE SystemCall
  <2>1. CASE ForkOK \/ ForkFails \/ \E n \in -2..MAX_PID, sig \in Sigs : sys_kill(n, sig)
    BY <2>1, <1>2 DEF ForkOK, ForkFails, sys_kill
  <2>2. CASE sys_pause \/ \E kind \in SleepKinds : Sleep(kind)
    BY <2>2, <1>1, Zenon DEF sys_pause, Sleep
  <2>3. CASE \E arg \in WaitArgs, nohang \in BOOLEAN : sys_waitpid(arg, nohang)
    BY <2>3, <1>3, Zenon DEF sys_waitpid
  <2>4. CASE sys_exit
    BY <2>4, <1>4 DEF sys_exit
  <2> QED
    BY <1>5, <2>1, <2>2, <2>3, <2>4, Zenon DEF SystemCall
<1>6. CASE KernelStep
  <2>1. CASE Resume \/ WaitpidInterrupted
    BY <2>1, <1>2 DEF Resume, WaitpidInterrupted
  <2>2. CASE WaitpidResumes
    BY <2>2, <1>3, Zenon DEF WaitpidResumes
  <2>3. CASE ExitEnds
    BY <2>3, <1>1 DEF ExitEnds
  <2>4. CASE do_signal
    BY <2>4, <1>2, <1>4, Zenon DEF do_signal
  <2> QED
    BY <1>6, <2>1, <2>2, <2>3, <2>4, Zenon DEF KernelStep
<1>7. CASE CloseSleeps
  BY <1>7, <1>1, Zenon DEF CloseSleeps
<1>8. CASE do_timer
  BY <1>8, <1>1, <1>2 DEF do_timer
<1>9. CASE \E s \in Users : Wake(s)
  BY <1>9, <1>2, Zenon DEF Wake
<1> QED
  BY <1>5, <1>6, <1>7, <1>8, <1>9 DEF Next

(* schedule() switches to task 0 only when no other task can run.           *)
THEOREM IdleOnlyLast == Spec => IdleIsLast
<1>1. [Next]_vars => [current' = 0 /\ current # 0 => Runnable(state') = {}]_vars
  BY IdleStep
<1> QED
  BY <1>1, PTL DEF Spec, IdleIsLast
=============================================================================
