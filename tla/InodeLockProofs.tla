--------------------------- MODULE InodeLockProofs ---------------------------
(***************************************************************************)
(* Proofs about module InodeLock for any set of tasks.  The inductive      *)
(* invariant adds to the checked ones that i_lock is set exactly while one *)
(* task holds the inode, that only tasks inside sleep_on sleep, and that   *)
(* the head of the queue sleeps.                                           *)
(***************************************************************************)
EXTENDS InodeLock, TLAPS

Exclusive ==
    /\ i_lock <=> holders # {}
    /\ \A t, u \in holders : t = u

QueueShape ==
    /\ \A t \in Tasks : state[t] = "UNINTERRUPTIBLE" => pc[t] \in Asleep
    /\ \A t \in Tasks : pc[t] \notin Asleep => tmp[t] = NULL
    /\ i_wait # NULL => state[i_wait] = "UNINTERRUPTIBLE"

IInv ==
    /\ TypeOK /\ NoLostSleeper /\ NoStrayWake /\ NoSleepOnFree
    /\ Exclusive /\ QueueShape

(* The zeroed inode table satisfies the invariant.                         *)
LEMMA InitIInv == Init => IInv
<1> SUFFICES ASSUME Init PROVE IInv
  OBVIOUS
<1> USE InodeLockAssumption DEF Init, Asleep
<1>1. TypeOK
  BY Zenon DEF TypeOK
<1>2. NoLostSleeper /\ NoStrayWake /\ NoSleepOnFree
  BY DEF NoLostSleeper, NoStrayWake, NoSleepOnFree, Holds
<1>3. holders = {}
  BY DEF holders
<1>4. Exclusive /\ QueueShape
  BY <1>3 DEF Exclusive, QueueShape
<1> QED
  BY <1>1, <1>2, <1>4 DEF IInv

(* sleep_on keeps the queue whole, both for a task that comes from outside *)
(* and for one that was woken, wakes the task behind it and sleeps again.  *)
LEMMA SleepStep ==
    ASSUME IInv, NEW t \in Tasks, NEW op \in Asleep,
           state[t] = "RUNNING", pc[t] # "hold", i_lock, UNCHANGED i_lock,
           sleep_on(t, NextWoken(t)), pc' = [pc EXCEPT ![t] = op]
    PROVE  IInv'
<1> USE InodeLockAssumption DEF IInv
<1>1. /\ tmp' = [tmp EXCEPT ![t] = i_wait] /\ i_wait' = t /\ i_wait # t
      /\ state'[t] = "UNINTERRUPTIBLE"
  BY DEF sleep_on, NextWoken, TypeOK, QueueShape
<1>2. \A u \in Tasks \ {t} :
        state'[u] = IF u = tmp[t] THEN "RUNNING" ELSE state[u]
  BY DEF sleep_on, NextWoken, TypeOK
<1>3. tmp[t] # t /\ (tmp[t] # NULL => Holds(t, tmp[t]))
  BY DEF QueueShape, NoStrayWake, Holds, TypeOK
<1>4. TypeOK'
  BY DEF TypeOK, sleep_on, NextWoken, Asleep
<1>5. \A v \in Tasks \ {t}, u \in Tasks : Holds(v, u)' <=> Holds(v, u)
  BY DEF Holds, sleep_on, TypeOK
<1>6. \A u \in Tasks : Holds(t, u)' <=> i_wait = u
  BY <1>1 DEF Holds, TypeOK
<1>7. \A v \in Tasks : ~Holds(v, t)
  BY DEF NoStrayWake
<1>8. NoLostSleeper'
  <2> SUFFICES ASSUME NEW u \in Tasks, state'[u] = "UNINTERRUPTIBLE", u # t
               PROVE  \E v \in Tasks \ {u} : Holds(v, u)'
    BY <1>1 DEF NoLostSleeper
  <2>1. state[u] = "UNINTERRUPTIBLE" /\ u # tmp[t]
    BY <1>2
  <2>2. CASE i_wait = u
    BY <2>2, <1>6
  <2>3. CASE i_wait # u
    <3>1. PICK v \in Tasks \ {u} : Holds(v, u)
      BY <2>1, <2>3 DEF NoLostSleeper
    <3>2. v # t
      BY <3>1, <2>1 DEF Holds
    <3> QED
      BY <3>1, <3>2, <1>5
  <2> QED
    BY <2>2, <2>3
<1>9. NoStrayWake'
  <2> SUFFICES ASSUME NEW v \in Tasks, NEW u \in Tasks, Holds(v, u)'
               PROVE  /\ state'[u] = "UNINTERRUPTIBLE" /\ pc'[u] \in Asleep
                      /\ i_wait' # u
                      /\ \A w \in Tasks : Holds(w, u)' => w = v
    BY DEF NoStrayWake
  <2>1. CASE v = t
    <3>1. i_wait = u /\ u # t
      BY <2>1, <1>1, <1>6
    <3>2. \A w \in Tasks : ~Holds(w, u)
      BY <3>1 DEF NoStrayWake
    <3>3. u # tmp[t]
      BY <3>2, <1>3
    <3> QED
      BY <2>1, <3>1, <3>2, <3>3, <1>1, <1>2, <1>5 DEF QueueShape, TypeOK
  <2>2. CASE v # t
    <3>1. Holds(v, u) /\ u # t
      BY <2>2, <1>5, <1>7
    <3>2. u # tmp[t] /\ i_wait # u /\ state[u] = "UNINTERRUPTIBLE" /\ pc[u] \in Asleep
      BY <2>2, <3>1, <1>3 DEF NoStrayWake
    <3> QED
      BY <3>1, <3>2, <1>1, <1>2, <1>5, <1>6 DEF NoStrayWake, TypeOK
  <2> QED
    BY <2>1, <2>2
<1>10. NoSleepOnFree'
  BY DEF NoSleepOnFree
<1>11. holders' = holders
  BY DEF holders, TypeOK, Asleep
<1>12. Exclusive'
  BY <1>11 DEF Exclusive
<1>13. QueueShape'
  BY <1>1, <1>2 DEF QueueShape, TypeOK
<1> QED
  BY <1>4, <1>8, <1>9, <1>10, <1>12, <1>13

(* Leaving the loop: the inode is free, so nobody is queued, and the task   *)
(* that leaves wakes the one behind it.                                     *)
LEMMA LeaveStep ==
    ASSUME IInv, NEW t \in Tasks, NEW p \in {"hold", "out"},
           state[t] = "RUNNING", pc[t] # "hold", ~i_lock,
           state' = NextWoken(t), tmp' = [tmp EXCEPT ![t] = NULL],
           UNCHANGED i_wait, pc' = [pc EXCEPT ![t] = p],
           i_lock' = (p = "hold")
    PROVE  IInv'
<1> USE InodeLockAssumption DEF IInv
<1>1. i_wait = NULL
  BY DEF NoSleepOnFree
<1>2. \A u \in Tasks : state'[u] = IF u = tmp[t] THEN "RUNNING" ELSE state[u]
  BY DEF NextWoken, TypeOK
<1>3. TypeOK'
  BY DEF TypeOK, NextWoken
<1>4. \A v \in Tasks \ {t}, u \in Tasks : Holds(v, u)' <=> Holds(v, u)
  BY DEF Holds, TypeOK
<1>5. \A u \in Tasks : ~Holds(t, u)' /\ ~Holds(u, t)
  BY DEF Holds, TypeOK, NoStrayWake, Asleep
<1>6. NoLostSleeper'
  <2> SUFFICES ASSUME NEW u \in Tasks, state'[u] = "UNINTERRUPTIBLE"
               PROVE  \E v \in Tasks \ {u} : Holds(v, u)'
    BY DEF NoLostSleeper
  <2>1. state[u] = "UNINTERRUPTIBLE" /\ u # tmp[t]
    BY <1>2
  <2>2. PICK v \in Tasks \ {u} : Holds(v, u)
    BY <2>1, <1>1 DEF NoLostSleeper
  <2>3. v # t
    BY <2>1, <2>2 DEF Holds
  <2> QED
    BY <2>2, <2>3, <1>4
<1>7. NoStrayWake'
  <2> SUFFICES ASSUME NEW v \in Tasks, NEW u \in Tasks, Holds(v, u)'
               PROVE  /\ state'[u] = "UNINTERRUPTIBLE" /\ pc'[u] \in Asleep
                      /\ i_wait' # u
                      /\ \A w \in Tasks : Holds(w, u)' => w = v
    BY DEF NoStrayWake
  <2>1. v # t /\ Holds(v, u) /\ u # t
    BY <1>4, <1>5
  <2>2. u # tmp[t]
    BY <2>1 DEF NoStrayWake, Holds, QueueShape, TypeOK
  <2> QED
    BY <2>1, <2>2, <1>2, <1>4, <1>5 DEF NoStrayWake, TypeOK
<1>8. NoSleepOnFree'
  BY <1>1 DEF NoSleepOnFree
<1>9. holders = {}
  BY DEF Exclusive
<1>10. holders' = IF p = "hold" THEN {t} ELSE {}
  BY <1>9 DEF holders, TypeOK
<1>11. Exclusive'
  BY <1>10, Zenon DEF Exclusive
<1>12. QueueShape'
  BY <1>1, <1>2 DEF QueueShape, TypeOK
<1> QED
  BY <1>3, <1>6, <1>7, <1>8, <1>11, <1>12

(* unlock_inode frees the inode and wakes the head of the queue.            *)
LEMMA UnlockStep ==
    ASSUME IInv, NEW t \in Tasks, unlock_inode(t) PROVE IInv'
<1> USE InodeLockAssumption DEF IInv
<1>1. /\ pc[t] = "hold" /\ pc' = [pc EXCEPT ![t] = "out"] /\ tmp' = tmp
      /\ i_lock' = FALSE /\ i_wait' = NULL
  BY DEF unlock_inode, wake_up
<1>2. \A u \in Tasks : state'[u] = IF u = i_wait THEN "RUNNING" ELSE state[u]
  BY DEF unlock_inode, wake_up, TypeOK
<1>3. TypeOK'
  BY <1>1, Zenon DEF TypeOK, unlock_inode, wake_up
<1>4. \A v, u \in Tasks : Holds(v, u)' <=> Holds(v, u)
  BY <1>1 DEF Holds, TypeOK, Asleep
<1>5. NoLostSleeper'
  BY <1>2, <1>4 DEF NoLostSleeper
<1>6. NoStrayWake'
  <2> SUFFICES ASSUME NEW v \in Tasks, NEW u \in Tasks, Holds(v, u)
               PROVE  /\ state'[u] = "UNINTERRUPTIBLE" /\ pc'[u] \in Asleep
                      /\ i_wait' # u
                      /\ \A w \in Tasks : Holds(w, u) => w = v
    BY <1>4 DEF NoStrayWake
  <2>1. u # i_wait /\ u # t /\ pc[u] \in Asleep
    BY <1>1 DEF NoStrayWake, Asleep
  <2> QED
    BY <2>1, <1>1, <1>2 DEF NoStrayWake, TypeOK
<1>7. NoSleepOnFree'
  BY <1>1 DEF NoSleepOnFree
<1>8. holders = {t} /\ holders' = {}
  BY <1>1 DEF Exclusive, holders, TypeOK
<1>9. Exclusive'
  BY <1>1, <1>8 DEF Exclusive
<1>10. QueueShape'
  BY <1>1, <1>2 DEF QueueShape, TypeOK, Asleep
<1> QED
  BY <1>3, <1>5, <1>6, <1>7, <1>9, <1>10

(* Every pass through the loop of lock_inode or wait_on_inode.              *)
LEMMA LoopStep ==
    ASSUME IInv, NEW t \in Tasks, state[t] = "RUNNING", pc[t] # "hold",
           \/ Loop(t, "lock", NextWoken(t), Locks(t))
           \/ Loop(t, "wait", NextWoken(t), Leaves(t))
    PROVE  IInv'
<1>1. CASE i_lock
  <2>1. PICK op \in Asleep : /\ sleep_on(t, NextWoken(t)) /\ UNCHANGED i_lock
                             /\ pc' = [pc EXCEPT ![t] = op]
    BY <1>1, Zenon DEF Loop, Asleep
  <2> QED
    BY <1>1, <2>1, SleepStep, Zenon
<1>2. CASE ~i_lock
  <2>1. PICK p \in {"hold", "out"} :
           /\ state' = NextWoken(t) /\ tmp' = [tmp EXCEPT ![t] = NULL]
           /\ UNCHANGED i_wait /\ pc' = [pc EXCEPT ![t] = p]
           /\ i_lock' = (p = "hold")
    <3>1. CASE Loop(t, "lock", NextWoken(t), Locks(t))
      BY <1>2, <3>1, Zenon DEF Loop, Locks
    <3>2. CASE Loop(t, "wait", NextWoken(t), Leaves(t))
      <4>1. i_lock' = i_lock /\ i_lock \in BOOLEAN
        BY <1>2, <3>2 DEF Loop, Leaves, IInv, TypeOK
      <4>2. i_lock' = ("out" = "hold")
        BY <4>1, <1>2
      <4> QED
        BY <1>2, <3>2, <4>2 DEF Loop, Leaves
    <3> QED
      BY <3>1, <3>2
  <2> QED
    BY <1>2, <2>1, LeaveStep, Zenon
<1> QED
  BY <1>1, <1>2

(* IInv is inductive.                                                       *)
LEMMA IInvStep == IInv /\ [Next]_vars => IInv'
<1> SUFFICES ASSUME IInv, [Next]_vars PROVE IInv'
  OBVIOUS
<1>1. CASE UNCHANGED vars
  BY <1>1 DEF vars, IInv, TypeOK, NoLostSleeper, NoStrayWake, NoSleepOnFree,
              Exclusive, QueueShape, Holds, holders
<1>2. ASSUME NEW t \in Tasks, Call(t) PROVE IInv'
  <2>1. pc[t] = "out"
    BY <1>2 DEF Call, lock_inode, wait_on_inode
  <2>2. state[t] = "RUNNING" /\ NextWoken(t) = state
    BY <2>1 DEF IInv, QueueShape, TypeOK, NextWoken, Asleep
  <2> QED
    BY <1>2, <2>1, <2>2, LoopStep DEF Call, lock_inode, wait_on_inode
<1>3. ASSUME NEW t \in Tasks, Back(t) PROVE IInv'
  BY <1>3, LoopStep DEF Back, Asleep
<1>4. ASSUME NEW t \in Tasks, unlock_inode(t) PROVE IInv'
  BY <1>4, UnlockStep
<1> QED
  BY <1>1, <1>2, <1>3, <1>4 DEF Next

(* The inductive invariant holds in every reachable state.                  *)
LEMMA IInvAlways == Spec => []IInv
BY InitIInv, IInvStep, PTL DEF Spec

(* The lock, the queue and every sleeper's tmp keep their types.            *)
THEOREM TypeCorrect == Spec => []TypeOK
<1>1. IInv => TypeOK
  BY DEF IInv
<1> QED
  BY <1>1, IInvAlways, PTL

(* No sleeper on an inode ever drops out of the queue that sleep_on keeps   *)
(* in i_wait and the sleepers' stacks.                                      *)
THEOREM SleepersNeverLost == Spec => []NoLostSleeper
<1>1. IInv => NoLostSleeper
  BY DEF IInv
<1> QED
  BY <1>1, IInvAlways, PTL

(* The tmp->state = TASK_RUNNING at the end of sleep_on reaches only tasks  *)
(* that still sleep in the same queue.                                      *)
THEOREM WakesNeverStray == Spec => []NoStrayWake
<1>1. IInv => NoStrayWake
  BY DEF IInv
<1> QED
  BY <1>1, IInvAlways, PTL

(* A free inode has an empty queue.                                         *)
THEOREM FreeMeansNoQueue == Spec => []NoSleepOnFree
<1>1. IInv => NoSleepOnFree
  BY DEF IInv
<1> QED
  BY <1>1, IInvAlways, PTL

(* A step of the lock is a step of the abstract Mutex, or none at all.      *)
LEMMA MutexStep == IInv /\ [Next]_vars => [M!Next]_holders
<1> SUFFICES ASSUME IInv, [Next]_vars PROVE M!Next \/ holders' = holders
  OBVIOUS
<1> USE DEF IInv
<1>1. CASE UNCHANGED vars
  BY <1>1 DEF vars, holders
<1>2. ASSUME NEW t \in Tasks, NEW op, NEW st, op \in Asleep, pc[t] # "hold",
             Loop(t, op, st, Locks(t)) \/ Loop(t, op, st, Leaves(t))
      PROVE  M!Next \/ holders' = holders
  <2>1. CASE i_lock
    <3>1. pc' = [pc EXCEPT ![t] = op]
      BY <1>2, <2>1, Zenon DEF Loop
    <3> QED
      BY <1>2, <3>1 DEF holders, TypeOK, Asleep
  <2>2. CASE ~i_lock
    <3>1. holders = {}
      BY <2>2 DEF Exclusive
    <3>2. CASE pc' = [pc EXCEPT ![t] = "hold"]
      <4>1. holders' = {t}
        BY <3>1, <3>2 DEF holders, TypeOK
      <4> QED
        BY <3>1, <4>1 DEF M!Next, M!Acquire
    <3>3. CASE pc' = [pc EXCEPT ![t] = "out"]
      BY <1>2, <3>3 DEF holders, TypeOK
    <3> QED
      BY <1>2, <2>2, <3>2, <3>3 DEF Loop, Locks, Leaves
  <2> QED
    BY <2>1, <2>2
<1>3. ASSUME NEW t \in Tasks, Call(t) \/ Back(t)
      PROVE  M!Next \/ holders' = holders
  BY <1>2, <1>3 DEF Call, Back, lock_inode, wait_on_inode, Asleep
<1>4. ASSUME NEW t \in Tasks, unlock_inode(t)
      PROVE  M!Next \/ holders' = holders
  <2>1. holders = {t}
    BY <1>4 DEF unlock_inode, Exclusive, holders
  <2>2. holders' = {}
    BY <1>4, <2>1 DEF unlock_inode, holders, TypeOK
  <2> QED
    BY <2>1, <2>2 DEF M!Next, M!Release
<1> QED
  BY <1>1, <1>3, <1>4 DEF Next

(* lock_inode and unlock_inode implement mutual exclusion.                  *)
THEOREM ImplementsMutex == Spec => IsMutex
<1>1. Init => M!Init
  BY DEF Init, M!Init, holders
<1> QED
  BY <1>1, MutexStep, IInvAlways, PTL DEF Spec, IsMutex, M!Spec
=============================================================================
