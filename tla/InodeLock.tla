------------------------------ MODULE InodeLock ------------------------------
(***************************************************************************)
(* sleep_on and wake_up (kernel/sched.c) as the inode lock uses them:      *)
(* lock_inode, unlock_inode and wait_on_inode of fs/inode.c, on one inode. *)
(*                                                                         *)
(* The queue is the pointer i_wait and one local `tmp` per sleeper: a new  *)
(* sleeper keeps the old head in tmp and wakes it when it is itself awake. *)
(* i_wait is touched by tasks only, never by an interrupt, so what a task  *)
(* does between two calls of schedule() is one action.                     *)
(***************************************************************************)


CONSTANTS Tasks, NULL

ASSUME InodeLockAssumption == NULL \notin Tasks

VARIABLES
    i_lock,
    i_wait,     \* head of the queue, or NULL
    tmp,        \* sleep_on's local variable
    state,      \* RUNNING or UNINTERRUPTIBLE
    pc          \* out, asleep in "lock" or "wait", or "hold"ing the inode

vars == <<i_lock, i_wait, tmp, state, pc>>

Asleep == {"lock", "wait"}
-----------------------------------------------------------------------------
(* sleep_on up to its schedule(), and the rest of it.                      *)
sleep_on(t, st) ==
    /\ tmp' = [tmp EXCEPT ![t] = i_wait]
    /\ i_wait' = t
    /\ state' = [st EXCEPT ![t] = "UNINTERRUPTIBLE"]

wake_up_keeps ==                     \* mutant: *p is not reset
    /\ state' = IF i_wait # NULL THEN [state EXCEPT ![i_wait] = "RUNNING"]
                                 ELSE state
    /\ UNCHANGED i_wait

wake_up ==
    /\ state' = IF i_wait # NULL THEN [state EXCEPT ![i_wait] = "RUNNING"]
                                 ELSE state
    /\ i_wait' = NULL

NextWoken_nobody(t) == state         \* mutant: tmp is not woken

NextWoken(t) == IF tmp[t] # NULL THEN [state EXCEPT ![tmp[t]] = "RUNNING"]
                                 ELSE state

Loop_once(t, op, st, done) ==        \* mutant: `if` for `while`
    \/ /\ i_lock /\ pc[t] = "out"
       /\ sleep_on(t, st)
       /\ pc' = [pc EXCEPT ![t] = op]
       /\ UNCHANGED i_lock
    \/ /\ ~i_lock \/ pc[t] # "out"
       /\ state' = st
       /\ tmp' = [tmp EXCEPT ![t] = NULL]
       /\ UNCHANGED i_wait
       /\ done

(* while (i_lock) sleep_on(&i_wait), then what follows the loop.           *)
Loop(t, op, st, done) ==
    \/ /\ i_lock
       /\ sleep_on(t, st)
       /\ pc' = [pc EXCEPT ![t] = op]
       /\ UNCHANGED i_lock
    \/ /\ ~i_lock
       /\ state' = st
       /\ tmp' = [tmp EXCEPT ![t] = NULL]
       /\ UNCHANGED i_wait
       /\ done

Locks(t) == i_lock' = TRUE /\ pc' = [pc EXCEPT ![t] = "hold"]
Leaves(t) == UNCHANGED i_lock /\ pc' = [pc EXCEPT ![t] = "out"]

lock_inode(t)    == pc[t] = "out" /\ Loop(t, "lock", state, Locks(t))
wait_on_inode(t) == pc[t] = "out" /\ Loop(t, "wait", state, Leaves(t))

(* A sleeper that was woken is chosen by schedule().                       *)
Back(t) ==
    /\ pc[t] \in Asleep /\ state[t] = "RUNNING"
    /\ \/ pc[t] = "lock" /\ Loop(t, "lock", NextWoken(t), Locks(t))
       \/ pc[t] = "wait" /\ Loop(t, "wait", NextWoken(t), Leaves(t))

unlock_inode(t) ==
    /\ pc[t] = "hold"
    /\ i_lock' = FALSE
    /\ wake_up
    /\ pc' = [pc EXCEPT ![t] = "out"]
    /\ UNCHANGED tmp
-----------------------------------------------------------------------------
Init ==
    /\ i_lock = FALSE
    /\ i_wait = NULL
    /\ tmp    = [t \in Tasks |-> NULL]
    /\ state  = [t \in Tasks |-> "RUNNING"]
    /\ pc     = [t \in Tasks |-> "out"]

Call(t) == lock_inode(t) \/ wait_on_inode(t)

Next == \E t \in Tasks : Call(t) \/ Back(t) \/ unlock_inode(t)

Spec == Init /\ [][Next]_vars

(* The scheduler runs every runnable task, and a holder gives the inode    *)
(* back: read_inode and write_inode end with unlock_inode.                 *)
FairSpec == Spec /\ \A t \in Tasks : WF_vars(Back(t)) /\ WF_vars(unlock_inode(t))
-----------------------------------------------------------------------------
(* The types of the lock, the queue and the sleepers' locals.              *)
TypeOK ==
    /\ i_lock \in BOOLEAN
    /\ i_wait \in Tasks \union {NULL}
    /\ tmp \in [Tasks -> Tasks \union {NULL}]
    /\ state \in [Tasks -> {"RUNNING", "UNINTERRUPTIBLE"}]
    /\ pc \in [Tasks -> {"out", "lock", "wait", "hold"}]

(* Whoever sleeps can still be reached: it is the head of the queue, or the *)
(* tmp of exactly one other task that is inside sleep_on.                   *)
Holds(t, u) == tmp[t] = u /\ pc[t] \in Asleep

NoLostSleeper ==
    \A u \in Tasks :
        state[u] = "UNINTERRUPTIBLE" =>
            \/ i_wait = u
            \/ \E t \in Tasks \ {u} : Holds(t, u)

(* tmp names only tasks that are still asleep, and each of them only once:  *)
(* sleep_on never sets a task RUNNING that has gone on to something else    *)
(* (a task that exits would be brought back to life by it).                 *)
NoStrayWake ==
    \A t, u \in Tasks : Holds(t, u) =>
        /\ state[u] = "UNINTERRUPTIBLE" /\ pc[u] \in Asleep /\ i_wait # u
        /\ \A v \in Tasks : Holds(v, u) => v = t

(* The queue is empty while the inode is free: unlock_inode woke its head.  *)
NoSleepOnFree == i_wait # NULL => i_lock

(* The lock excludes, as the abstract Mutex: one holder, released by it.    *)
holders == {t \in Tasks : pc[t] = "hold"}

M == INSTANCE Mutex WITH Tasks <- Tasks, holders <- holders

IsMutex == M!Spec

(* Once no task asks for the inode any more, everybody who waits for it     *)
(* gets through.                                                            *)
EveryoneThrough ==
    <>[][\A t \in Tasks : ~Call(t)]_vars =>
        \A t \in Tasks : (pc[t] \in Asleep) ~> (pc[t] \notin Asleep)
=============================================================================
