-------------------------------- MODULE Pipe --------------------------------
(***************************************************************************)
(* One pipe (fs/pipe.c) from sys_pipe on: read_pipe, write_pipe, closing   *)
(* an end (do_close and iput), dup, and fork, by which tasks come to share *)
(* it.  The child gets the parent's descriptors without being counted in   *)
(* f_count: the loop that counted it is commented out (fork.c:89-91).      *)
(*                                                                         *)
(* A task loses the processor only in sleep_on, so what read_pipe and      *)
(* write_pipe do between two sleeps is one action.  Bytes are numbered as  *)
(* they are written; rd numbers the next byte a reader must get.  wake_up  *)
(* makes every sleeper runnable: the chain of sleep_on does that one after *)
(* the other (InodeLock).                                                  *)
(***************************************************************************)
EXTENDS Integers, FiniteSets

CONSTANTS
    Tasks, Creator,
    Size,       \* PAGE_SIZE
    Counts,     \* the counts a read or a write is called with
    NR_OPEN     \* descriptors of a task

ASSUME PipeAssumption ==
    /\ Creator \in Tasks /\ IsFiniteSet(Tasks)
    /\ Size \in Nat /\ Size > 1 /\ Counts \subseteq Nat \ {0}
    /\ NR_OPEN \in Nat /\ NR_OPEN > 1

Ends  == {"r", "w"}
Bytes == 0..(2 * Size - 1)      \* byte numbers, which wrap around

VARIABLES
    page, head, tail,   \* the ring: i_size, PIPE_HEAD, PIPE_TAIL
    rd, wr,             \* numbers of the next byte to read, to write
    i_count, f_count,   \* of the inode, and of the file of each end
    filp,               \* how many descriptors of a task are an end
    pc, left,           \* where a task is, and its count
    asleep,             \* the tasks asleep on i_wait
    ret,                \* what the read or write that has just ended returned
    panicked            \* in do_close or iput: a count is 0

ring == <<page, head, tail, rd, wr>>
refs == <<i_count, f_count, filp, panicked>>
vars == <<ring, refs, pc, left, asleep, ret>>

PIPE_SIZE  == (head - tail) % Size
PIPE_EMPTY == head = tail
Room_whole == Size - PIPE_SIZE       \* mutant: full at PAGE_SIZE
Room       == Size - 1 - PIPE_SIZE   \* PIPE_FULL is Room = 0
Least(a, b) == IF a < b THEN a ELSE b
Has(t, e) == filp[t][e] > 0
-----------------------------------------------------------------------------
(* INC_PIPE, n times.                                                      *)
Inc(p, n) == (p + n) % Size

Returns(t, r) ==
    /\ pc'   = [pc EXCEPT ![t] = "out"]
    /\ left' = [left EXCEPT ![t] = 0]
    /\ ret'  = r

(* wake_up(&i_wait), then sleep_on(&i_wait) in `where` with n bytes to go. *)
Sleeps(t, where, n) ==
    /\ asleep' = {t}
    /\ pc'   = [pc EXCEPT ![t] = where]
    /\ left' = [left EXCEPT ![t] = n]
    /\ ret'  = "none"

(* read_pipe's copy: up to n bytes, at least one.                          *)
Took(t, n) ==
    /\ tail' = Inc(tail, Least(n, PIPE_SIZE))
    /\ rd'   = (rd + Least(n, PIPE_SIZE)) % (2 * Size)
    /\ asleep' = {}
    /\ UNCHANGED <<page, head, wr>>
    /\ Returns(t, "data")

(* read_pipe, from the test for an empty pipe on.                          *)
Reading(t, n) ==
    /\ \/ ~PIPE_EMPTY /\ Took(t, n)
       \/ PIPE_EMPTY /\ i_count # 2 /\ asleep' = {} /\ Returns(t, "eof") /\ UNCHANGED ring
       \/ PIPE_EMPTY /\ i_count = 2 /\ Sleeps(t, "read", n) /\ UNCHANGED ring
    /\ UNCHANGED refs

(* The loop of write_pipe until it ends or the pipe is full.               *)
Pours(k) ==
    /\ page' = [x \in DOMAIN page |->
                  IF (x - head) % Size < k THEN (wr + ((x - head) % Size)) % (2 * Size)
                                           ELSE page[x]]
    /\ head' = Inc(head, k)
    /\ wr'   = (wr + k) % (2 * Size)
    /\ UNCHANGED <<tail, rd>>

Writing(t, n) ==
    /\ Pours(Least(n, Room))
    /\ \/ n <= Room /\ asleep' = {} /\ Returns(t, "data")
       \/ n > Room /\ i_count # 2 /\ asleep' = {} /\ Returns(t, "sigpipe")
       \/ n > Room /\ i_count = 2 /\ Sleeps(t, "write", n - Room)
    /\ UNCHANGED refs
-----------------------------------------------------------------------------
Calls(t, e) == pc[t] = "out" /\ Has(t, e) /\ i_count > 0 /\ ~panicked

read_pipe(t, n)  == Calls(t, "r") /\ Reading(t, n)

write_pipe(t, n) ==
    /\ Calls(t, "w")
    /\ \/ i_count # 2 /\ asleep' = {} /\ Returns(t, "sigpipe") /\ UNCHANGED <<ring, refs>>
       \/ i_count = 2 /\ Writing(t, n)

(* A sleeper that was woken is chosen by schedule().                       *)
Back(t) ==
    /\ t \notin asleep /\ ~panicked
    /\ \/ pc[t] = "read"  /\ Reading(t, left[t])
       \/ pc[t] = "write" /\ Writing(t, left[t])

(* iput of the pipe's inode; at 0 the page is freed.                       *)
iput_silent ==                       \* mutant: no wake_up
    i_count' = (IF i_count = 0 THEN 0 ELSE i_count - 1) /\ UNCHANGED asleep

iput == i_count' = (IF i_count = 0 THEN 0 ELSE i_count - 1) /\ asleep' = {}

(* do_close.  The panics: "Close: file count is 0", and in iput "trying to *)
(* free free inode".                                                       *)
do_close(t, e) ==
    /\ pc[t] = "out" /\ Has(t, e) /\ ~panicked
    /\ filp' = [filp EXCEPT ![t][e] = @ - 1]
    /\ panicked' = (f_count[e] = 0 \/ (f_count[e] = 1 /\ i_count = 0))
    /\ f_count' = [f_count EXCEPT ![e] = IF @ = 0 THEN 0 ELSE @ - 1]
    /\ IF f_count[e] = 1 THEN iput ELSE UNCHANGED <<i_count, asleep>>
    /\ ret' = "none" /\ UNCHANGED <<ring, pc, left>>

(* dup; it does not look at the count of the file.                         *)
dupfd(t, e) ==
    /\ pc[t] = "out" /\ Has(t, e) /\ ~panicked
    /\ filp[t]["r"] + filp[t]["w"] < NR_OPEN
    /\ filp' = [filp EXCEPT ![t][e] = @ + 1]
    /\ f_count' = [f_count EXCEPT ![e] = @ + 1]
    /\ ret' = "none"
    /\ UNCHANGED <<ring, i_count, panicked, pc, left, asleep>>

(* copy_process: the child has the parent's filp[].                        *)
Fork(t, c) ==
    /\ pc[t] = "out" /\ pc[c] = "unborn" /\ ~panicked
    /\ pc' = [pc EXCEPT ![c] = "out"]
    /\ filp' = [filp EXCEPT ![c] = filp[t]]
    /\ ret' = "none"
    /\ UNCHANGED <<ring, i_count, f_count, panicked, left, asleep>>
-----------------------------------------------------------------------------
(* sys_pipe and get_pipe_inode have succeeded in Creator.                  *)
Init ==
    /\ page = [x \in 0..(Size - 1) |-> 0]
    /\ head = 0 /\ tail = 0 /\ rd = 0 /\ wr = 0
    /\ i_count = 2 /\ f_count = [e \in Ends |-> 1]
    /\ filp = [t \in Tasks |-> [e \in Ends |-> IF t = Creator THEN 1 ELSE 0]]
    /\ pc = [t \in Tasks |-> IF t = Creator THEN "out" ELSE "unborn"]
    /\ left = [t \in Tasks |-> 0]
    /\ asleep = {} /\ ret = "none" /\ panicked = FALSE

Next ==
    \/ \E t \in Tasks, n \in Counts : read_pipe(t, n) \/ write_pipe(t, n)
    \/ \E t \in Tasks : Back(t)
    \/ \E t \in Tasks, e \in Ends : do_close(t, e) \/ dupfd(t, e)
    \/ \E t, c \in Tasks : Fork(t, c)

Spec == Init /\ [][Next]_vars
-----------------------------------------------------------------------------
(* The types of the ring, the counts and the tasks' state.                 *)
TypeOK ==
    /\ page \in [0..(Size - 1) -> Bytes]
    /\ head \in 0..(Size - 1) /\ tail \in 0..(Size - 1)
    /\ rd \in Bytes /\ wr \in Bytes
    /\ i_count \in 0..2 /\ f_count \in [Ends -> Nat]
    /\ filp \in [Tasks -> [Ends -> Nat]]
    /\ pc \in [Tasks -> {"unborn", "out", "read", "write"}]
    /\ left \in [Tasks -> Nat]
    /\ asleep \subseteq Tasks
    /\ ret \in {"none", "data", "eof", "sigpipe"}
    /\ panicked \in BOOLEAN

(* What the ring holds is what was written and not yet read, in order.     *)
Contents ==
    /\ (wr - rd) % (2 * Size) = PIPE_SIZE
    /\ \A x \in 0..(Size - 1) : x < PIPE_SIZE =>
          page[(tail + x) % Size] = (rd + x) % (2 * Size)

(* As long as the pipe has its page, no byte is lost, overwritten, read    *)
(* twice or out of turn.  (The last iput frees the page, and readers that  *)
(* fork made, who are not counted, may then still be inside read_pipe.)    *)
InOrder == i_count > 0 => Contents

(* No wake-up is missed: whoever is still asleep has nothing to do, a      *)
(* reader because the pipe is empty, a writer because it is full, and by   *)
(* i_count both ends are open.                                             *)
SleepIsNeeded ==
    \A t \in asleep :
        /\ i_count = 2
        /\ pc[t] = "read"  => PIPE_EMPTY
        /\ pc[t] = "write" => Room = 0
        /\ pc[t] # "out"

(* read returns 0 only when there are no writers left, and SIGPIPE is sent *)
(* only when there are no readers, which is what read_pipe and write_pipe  *)
(* take i_count # 2 to mean.                                               *)
EndIsEnd ==
    /\ ret = "eof"     => \A u \in Tasks : ~Has(u, "w")
    /\ ret = "sigpipe" => \A u \in Tasks : ~Has(u, "r")

=============================================================================
