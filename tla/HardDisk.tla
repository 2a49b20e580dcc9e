------------------------------ MODULE HardDisk ------------------------------
(***************************************************************************)
(* The hard-disk driver (kernel/hd.c): the request list and its elevator,  *)
(* the interrupt handler that works it off, the wait for a free request    *)
(* and for a buffer.  A system call runs with interrupts on, so hd_inter-  *)
(* rupt may come between any two steps of the running task; tasks do not   *)
(* preempt each other in the kernel.                                       *)
(*                                                                         *)
(* A locked buffer has at most one request, so a request is named by its   *)
(* buffer: `request` is the set of slots in use, `queue` the list that     *)
(* starts at this_request.  A buffer is a block number, and the elevator's *)
(* order is that of the block numbers.                                     *)
(***************************************************************************)
EXTENDS Integers, Sequences, FiniteSets, Functions

CONSTANTS
    Tasks,        \* the tasks that read and write
    Buffers,      \* the buffers, by block number
    Uses,         \* Uses[t]: the buffers task t works on
    NR_REQUEST,   \* size of request[]
    NR_HD,        \* drives in hd_info[] (0 in the code: hd.c:34-36)
    nr_sects      \* size of the partition in sectors

NoTask == 0       \* nobody runs in the kernel; also the null pointer of a queue
NoBuf  == -1      \* a pointer that is not in use

ASSUME HardDiskAssumption ==
    /\ NoTask \notin Tasks
    /\ Buffers \subseteq Nat
    /\ Uses \in [Tasks -> SUBSET Buffers]
    /\ NR_REQUEST \in Nat \ {0}
    /\ NR_HD \in Nat /\ nr_sects \in Nat

VARIABLES
    current,      \* the task inside the kernel, or NoTask
    at,           \* at[t]: where t is
    buf,          \* buf[t]: the buffer of t's call
    awake,        \* awake[t]: state is TASK_RUNNING
    link,         \* link[t]: `tmp` of t's sleep_on
    b_lock,       \* b_lock[b]
    b_wait,       \* b_wait[b], the queue of the buffer
    wait_for_request,
    request,      \* the buffers that have a slot
    queue,        \* the list from this_request on
    tmp,          \* `tmp` of add_request
    nsector,      \* sectors left of this_request
    sorting,
    do_hd,        \* do_hd is not NULL
    busy,         \* the device works on a command
    missed        \* history: the windows a completion has hit

taskVars == <<current, at, buf, awake, link, tmp>>
diskVars == <<request, queue, nsector, sorting, do_hd, busy, missed>>
bufVars  == <<b_lock, b_wait, wait_for_request>>
vars == <<taskVars, diskVars, bufVars>>

Places == {"user", "scan", "full", "reqsleep", "sort", "link", "start",
           "wait", "bufsleep", "again"}

(* The task that may take the next step: the running one, or any runnable  *)
(* one when the kernel is idle or in user mode.                            *)
Runs(t) == current \in {t, NoTask} /\ awake[t]

Go(t, place) == at' = [at EXCEPT ![t] = place] /\ current' = t
Leave(t) ==
    /\ at' = [at EXCEPT ![t] = "user"]
    /\ buf' = [buf EXCEPT ![t] = NoBuf]
    /\ current' = NoTask
-----------------------------------------------------------------------------
(* IN_ORDER compares drive, cylinder, head and sector.                     *)
IN_ORDER(a, b) == a < b

(* Where the loop of add_request leaves `tmp`, from position i of q.       *)
Stops(q, i, b) ==
    {j \in i..Len(q) :
        \/ j = Len(q)
        \/ (IN_ORDER(q[j], b) \/ ~IN_ORDER(q[j], q[j+1])) /\ IN_ORDER(b, q[j+1])}

Sorted_last(q, i, b) == Append(q, b)      \* mutant: no elevator

Sorted(q, i, b) ==
    LET j == CHOOSE k \in Stops(q, i, b) : \A l \in Stops(q, i, b) : k <= l
    IN  [k \in 1..Len(q) + 1 |->
            IF k <= j THEN q[k] ELSE IF k = j + 1 THEN b ELSE q[k - 1]]

(* virtio_cmd hands a command for one sector to the device, which answers  *)
(* with an interrupt; hd_out sets the handler first.                       *)
virtio_cmd == busy' = TRUE

hd_out == do_hd' = TRUE /\ virtio_cmd

(* do_request, given the list and the value of sorting; do_hd is NULL and  *)
(* the device idle when it is called.                                      *)
do_request_keeps(q, srt) ==               \* mutant: do_hd is kept while sorting
    IF q = <<>> THEN do_hd' = FALSE /\ busy' = FALSE
    ELSE IF srt THEN do_hd' = do_hd /\ busy' = FALSE ELSE hd_out

do_request(q, srt) ==
    IF srt \/ q = <<>> THEN do_hd' = FALSE /\ busy' = FALSE ELSE hd_out

lock_buffer(b)   == b_lock' = [b_lock EXCEPT ![b] = TRUE]
unlock_buffer(b) ==                       \* and wake_up(&wait_for_request)
    /\ b_lock' = [b_lock EXCEPT ![b] = FALSE]
    /\ awake' = [u \in Tasks |-> awake[u] \/ u \in {wait_for_request, b_wait[b]}]
    /\ wait_for_request' = NoTask
    /\ b_wait' = [b_wait EXCEPT ![b] = NoTask]
-----------------------------------------------------------------------------
(* sleep_on: the task becomes the head of the queue and keeps the old head *)
(* in tmp; when it runs again it wakes that one.                           *)
SleepOn(t, old, place) ==
    /\ link' = [link EXCEPT ![t] = old]
    /\ awake' = [awake EXCEPT ![t] = FALSE]
    /\ at' = [at EXCEPT ![t] = place]
    /\ current' = NoTask

WakeNext(t) ==
    /\ awake' = [u \in Tasks |-> awake[u] \/ u = link[t]]
    /\ link' = [link EXCEPT ![t] = NoTask]

(* rw_hd: a bad drive or a block past the partition is ignored; otherwise  *)
(* rw_abs_hd locks the buffer and looks for a slot.  Every caller has      *)
(* waited for the buffer and not slept since.                              *)
rw_hd(t, b) ==
    /\ Runs(t) /\ at[t] = "user" /\ ~b_lock[b]
    /\ IF NR_HD = 0 \/ 2 * b + 2 > nr_sects
       THEN UNCHANGED <<taskVars, b_lock>>
       ELSE /\ lock_buffer(b)
            /\ buf' = [buf EXCEPT ![t] = b]
            /\ Go(t, "scan")
            /\ UNCHANGED <<awake, link, tmp>>
    /\ UNCHANGED <<b_wait, wait_for_request, diskVars>>

(* The scan of rw_abs_hd, up to sorting=1 of add_request.                  *)
Scan(t) ==
    /\ Runs(t) /\ at[t] = "scan"
    /\ IF Cardinality(request) < NR_REQUEST
       THEN request' = request \union {buf[t]} /\ sorting' = TRUE /\ Go(t, "sort")
       ELSE Go(t, "full") /\ UNCHANGED <<request, sorting>>
    /\ UNCHANGED <<buf, awake, link, tmp, bufVars, queue, nsector, do_hd, busy, missed>>

SleepForSlot(t) ==
    /\ Runs(t) /\ at[t] = "full"
    /\ SleepOn(t, wait_for_request, "reqsleep")
    /\ wait_for_request' = t
    /\ UNCHANGED <<buf, tmp, b_lock, b_wait, diskVars>>

SlotWakes(t) ==
    /\ Runs(t) /\ at[t] = "reqsleep"
    /\ WakeNext(t)
    /\ Go(t, "scan")
    /\ UNCHANGED <<buf, tmp, bufVars, diskVars>>

(* if (!(tmp=this_request)) this_request=req                               *)
TakeFirst(t) ==
    /\ Runs(t) /\ at[t] = "sort"
    /\ IF queue = <<>>
       THEN queue' = <<buf[t]>> /\ nsector' = 2 /\ Go(t, "start") /\ UNCHANGED tmp
       ELSE tmp' = queue[1] /\ Go(t, "link") /\ UNCHANGED <<queue, nsector>>
    /\ UNCHANGED <<buf, awake, link, bufVars, request, sorting, do_hd, busy, missed>>

Link_behind(t) ==                         \* mutant: right behind tmp, which may be finished
    /\ Runs(t) /\ at[t] = "link"
    /\ queue' = IF queue # <<>> /\ queue[1] = tmp THEN <<tmp, buf[t]>> \o Tail(queue) ELSE queue
    /\ Go(t, "start") /\ tmp' = NoBuf
    /\ UNCHANGED <<buf, awake, link, bufVars, request, nsector, sorting, do_hd, busy, missed>>

(* The rest of the insertion.  tmp is the first of the list, or has been   *)
(* finished since: then its next is the first, or NULL, and a request hung *)
(* on a finished one is in no list.                                        *)
Link(t) ==
    /\ Runs(t) /\ at[t] = "link"
    /\ queue' = IF queue = <<>> THEN <<>>
                ELSE IF queue[1] = tmp /\ Len(queue) > 1
                     THEN Sorted(queue, 2, buf[t])
                     ELSE Sorted(queue, 1, buf[t])
    /\ Go(t, "start") /\ tmp' = NoBuf
    /\ UNCHANGED <<buf, awake, link, bufVars, request, nsector, sorting, do_hd, busy, missed>>

(* sorting=0 and the restart of interrupts that have died down.            *)
Start(t) ==
    /\ Runs(t) /\ at[t] = "start"
    /\ sorting' = FALSE
    /\ IF ~do_hd THEN do_request(queue, FALSE) ELSE UNCHANGED <<do_hd, busy>>
    /\ Go(t, "wait")
    /\ UNCHANGED <<buf, awake, link, tmp, bufVars, request, queue, nsector, missed>>
-----------------------------------------------------------------------------
(* wait_on_buffer, by the driver or by getblk, bread and sync: the first   *)
(* test and the sleep it leads to are behind cli().  context_switch leaves *)
(* interrupts on, so the tests after a sleep are not.                      *)
wait_on_buffer(t, b) ==
    /\ Runs(t)
    /\ at[t] = "user" \/ (at[t] = "wait" /\ b = buf[t])
    /\ IF b_lock[b]
       THEN /\ SleepOn(t, b_wait[b], "bufsleep")
            /\ b_wait' = [b_wait EXCEPT ![b] = t]
            /\ buf' = [buf EXCEPT ![t] = b]
       ELSE Leave(t) /\ UNCHANGED <<awake, link, b_wait>>
    /\ UNCHANGED <<tmp, b_lock, wait_for_request, diskVars>>

BufferWakes(t) ==
    /\ Runs(t) /\ at[t] = "bufsleep"
    /\ WakeNext(t)
    /\ IF b_lock[buf[t]] THEN Go(t, "again") /\ UNCHANGED buf ELSE Leave(t)
    /\ UNCHANGED <<tmp, bufVars, diskVars>>

SleepAgain(t) ==
    /\ Runs(t) /\ at[t] = "again"
    /\ SleepOn(t, b_wait[buf[t]], "bufsleep")
    /\ b_wait' = [b_wait EXCEPT ![buf[t]] = t]
    /\ UNCHANGED <<buf, tmp, b_lock, wait_for_request, diskVars>>
-----------------------------------------------------------------------------
(* The end of read_intr and write_intr: the waiters are woken, the buffer  *)
(* unlocked, the slot freed, the next request started.                     *)
EndRequest_nowake(b) ==                   \* mutant: wait_for_request is not woken
    /\ b_lock' = [b_lock EXCEPT ![b] = FALSE]
    /\ awake' = [u \in Tasks |-> awake[u] \/ u = b_wait[b]]
    /\ b_wait' = [b_wait EXCEPT ![b] = NoTask]
    /\ request' = request \ {b}
    /\ queue' = Tail(queue) /\ nsector' = 2
    /\ do_request(Tail(queue), sorting)
    /\ UNCHANGED <<missed, wait_for_request>>

EndRequest(b) ==
    /\ unlock_buffer(b)
    /\ request' = request \ {b}
    /\ queue' = Tail(queue) /\ nsector' = 2
    /\ do_request(Tail(queue), sorting)
    /\ missed' = missed \union
         (IF current = NoTask THEN {} ELSE
            {w \in {"link", "full", "again"} :
                /\ at[current] = w
                /\ w = "link"  => queue = <<tmp>>
                /\ w = "again" => buf[current] = b})

(* read_intr and write_intr with a sector left to do.  They give no second *)
(* command and leave do_hd NULL: the request stays where it is until the   *)
(* next add_request calls do_request, which starts it again.               *)
FirstSector ==
    /\ nsector' = 1
    /\ do_hd' = FALSE /\ busy' = FALSE
    /\ UNCHANGED <<bufVars, awake, request, queue, missed>>

(* The handler is taken from do_hd, which is NULL while it runs.  Without  *)
(* a handler the interrupt is unexpected, and ignored.                     *)
hd_interrupt ==
    /\ busy
    /\ IF nsector = 2 THEN FirstSector ELSE EndRequest(queue[1])
    /\ UNCHANGED <<current, at, buf, link, tmp, sorting>>
-----------------------------------------------------------------------------
(* hd_init                                                                 *)
Init ==
    /\ current = NoTask
    /\ at = [t \in Tasks |-> "user"]
    /\ buf = [t \in Tasks |-> NoBuf]
    /\ awake = [t \in Tasks |-> TRUE]
    /\ link = [t \in Tasks |-> NoTask]
    /\ b_lock = [b \in Buffers |-> FALSE]
    /\ b_wait = [b \in Buffers |-> NoTask]
    /\ wait_for_request = NoTask
    /\ request = {} /\ queue = <<>> /\ nsector = 2
    /\ tmp = NoBuf
    /\ sorting = FALSE /\ do_hd = FALSE /\ busy = FALSE
    /\ missed = {}

Call(t) ==
    \E b \in Uses[t] : rw_hd(t, b) \/ (at[t] = "user" /\ wait_on_buffer(t, b))

KernelStep(t) ==
    \/ Scan(t) \/ SleepForSlot(t) \/ SlotWakes(t)
    \/ TakeFirst(t) \/ Link(t) \/ Start(t)
    \/ (at[t] = "wait" /\ wait_on_buffer(t, buf[t]))
    \/ BufferWakes(t) \/ SleepAgain(t)

Next == hd_interrupt \/ \E t \in Tasks : Call(t) \/ KernelStep(t)

Spec == Init /\ [][Next]_vars
-----------------------------------------------------------------------------
(* Every variable keeps its type, and no more slots are in use than        *)
(* request[] has.                                                          *)
TypeOK ==
    /\ current \in Tasks \union {NoTask}
    /\ at \in [Tasks -> Places]
    /\ buf \in [Tasks -> Buffers \union {NoBuf}]
    /\ awake \in [Tasks -> BOOLEAN]
    /\ link \in [Tasks -> Tasks \union {NoTask}]
    /\ b_lock \in [Buffers -> BOOLEAN]
    /\ b_wait \in [Buffers -> Tasks \union {NoTask}]
    /\ wait_for_request \in Tasks \union {NoTask}
    /\ request \subseteq Buffers /\ Cardinality(request) <= NR_REQUEST
    /\ queue \in Seq(Buffers) /\ Len(queue) <= NR_REQUEST
    /\ tmp \in Buffers \union {NoBuf}
    /\ nsector \in 1..2
    /\ {sorting, do_hd, busy} \subseteq BOOLEAN
    /\ missed \subseteq {"link", "full", "again"}

Adding(t) == at[t] \in {"sort", "link"}

(* The list never loses or repeats a request (rw_abs_hd, add_request and   *)
(* the handler): every slot in use is in the list exactly once, or is the  *)
(* one being added.  The exception is a completion that empties the list   *)
(* between `tmp=this_request' and `tmp->next=req' (hd.c:369-373).          *)
NoLostRequest ==
    "link" \notin missed =>
        /\ Cardinality(Range(queue)) = Len(queue)
        /\ Range(queue) = request \ {buf[t] : t \in {u \in Tasks : Adding(u)}}

(* A buffer is locked from lock_buffer to the end of its request, by one   *)
(* request or one task that looks for a slot; the request at the end of    *)
(* which it is unlocked is its own.                                        *)
LockedByOne ==
    \A b \in Buffers :
        LET seekers == {t \in Tasks : at[t] \in {"scan", "full", "reqsleep"} /\ buf[t] = b}
        IN  (IF b_lock[b] THEN 1 ELSE 0)
                = Cardinality(seekers) + (IF b \in request THEN 1 ELSE 0)

(* The list behind the request in service is at most two sweeps of the     *)
(* disk arm, whatever order the requests came in and wherever interrupts   *)
(* cut it (the loop of add_request).                                       *)
Elevator ==
    \E k \in 0..Len(queue) : \A i \in 2..Len(queue) - 1 :
        i = k \/ IN_ORDER(queue[i], queue[i+1])

(* Interrupts die down in one place only (hd.c:386-393): with requests in  *)
(* the list and nobody in add_request, the device has a command and do_hd  *)
(* its handler, unless the request in service is half done, which the next *)
(* add_request starts again.  No completion during `sorting' stops it.     *)
KeepsGoing ==
    /\ busy <=> do_hd
    /\ queue # <<>> /\ (current = NoTask \/ ~(Adding(current) \/ at[current] = "start"))
        => busy \/ nsector = 1

(* Nobody sleeps in vain: the sleepers of a buffer wait for a locked one or *)
(* one of them is already woken, those of wait_for_request wait for a      *)
(* request or one of them is woken.  The exceptions are a completion        *)
(* between the scan and its sleep_on, between the repeated test of b_lock  *)
(* and its sleep_on, and a lost request.                                   *)
NoVainSleep ==
    \A t \in Tasks : ~awake[t] =>
        LET alike(u) == at[u] = at[t] /\ (at[t] = "bufsleep" => buf[u] = buf[t])
            woken == \E u \in Tasks : awake[u] /\ alike(u)
        IN  IF at[t] = "bufsleep"
            THEN b_lock[buf[t]] \/ woken \/ "again" \in missed
            ELSE queue # <<>> \/ woken \/ missed # {}
=============================================================================
