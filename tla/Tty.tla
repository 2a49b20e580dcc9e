--------------------------------- MODULE Tty ---------------------------------
(***************************************************************************)
(* A terminal: tty_read, tty_write and copy_to_cooked of kernel/tty_io.c   *)
(* with the interruptible_sleep_on of kernel/sched.c, used by tasks, and a *)
(* line that interrupts them, read_char and write_char of kernel/rs_io.c   *)
(* applied to the terminal's own queues.  (The code calls neither, as      *)
(* rs_interrupt switches on `IIR_reg && IIR_TYPE_MASK', and table_list[3]  *)
(* and [4], which they use, are the neighbouring queues; and the console   *)
(* has no write function, tty_io.c:52.  The line need not do anything, so  *)
(* that case is among the behaviours here.)                                *)
(*                                                                         *)
(* One task is inside the kernel at a time; it gives way only in schedule, *)
(* but once interrupts are enabled the line may interrupt it between any   *)
(* two accesses to a queue.  A queue is the sequence of its characters.    *)
(***************************************************************************)
EXTENDS Integers, Sequences, FiniteSets

CONSTANTS
    Tasks,
    Group,        \* the tasks of the terminal's process group
    Rows,         \* the rows of tty_table that are looked at
    TTY_BUF_SIZE,
    LowWater,     \* room for which sleep_if_full waits (128)
    Slack,        \* room above which a reader waits for a line (20)
    Startup,      \* characters left when the line wakes a writer
    Typed, MaxTyped,   \* the characters typed, bound on their number
    Texts, Counts,     \* what is written, how much is read
    MaxCalls           \* bound on the calls

None == 0         \* no task

ASSUME TtyAssumption ==
    /\ None \notin Tasks /\ Group \subseteq Tasks /\ Rows \subseteq {0, 1}
    /\ {LowWater, Slack, Startup, MaxTyped, MaxCalls} \subseteq Nat
    /\ TTY_BUF_SIZE \in Nat /\ TTY_BUF_SIZE > LowWater
    /\ Texts \subseteq Seq(STRING) /\ Counts \subseteq Nat \ {0}

VARIABLES
    row,          \* the terminal: 0 is the console, 1 a serial line
    read_q, write_q, secondary, data,   \* data: secondary.data
    sending,      \* the transmit interrupt is on
    cr_flag,
    proc_list,    \* of the queues "secondary" and "write_q"
    current,      \* the task inside the kernel, or None
    ie,           \* interrupts are enabled
    pc, state, signal, tmp,
    nr, b,        \* characters left to read; the text left to write
    c, n,         \* the character and the counter a task has in hand
    typed, calls, \* counters for the bounds
    hit           \* history: the windows that an interrupt has hit

queues == <<read_q, write_q, secondary, data>>
task   == <<pc, state, tmp, nr, b, c, n, current>>
bounds == <<typed, calls>>
vars   == <<row, queues, sending, cr_flag, proc_list, ie, task, signal, bounds, hit>>

Flag(f) == f \in (IF row = 0 THEN {"ICANON", "ECHO", "ECHOCTL", "ONLCR"} ELSE {"ONLRET"})

FULL(q)     == Len(q) = TTY_BUF_SIZE - 1
LEFT(q)     == TTY_BUF_SIZE - 1 - Len(q)
LAST(q)     == q[Len(q)]
DEC(q)      == SubSeq(q, 1, Len(q) - 1)
(* head catches up with tail: the queue looks empty.                       *)
PUTCH(x, q) == IF FULL(q) THEN << >> ELSE Append(q, x)
(* tail overtakes head: the queue looks full of what it held before.       *)
GETCH(q)    == IF q = << >> THEN [i \in 1..TTY_BUF_SIZE - 1 |-> "old"] ELSE Tail(q)

EndsLine(x) == x \in {"NL", "EOF"}
Ends(q)     == Cardinality({i \in 1..Len(q) : EndsLine(q[i])})

Init ==
    /\ row \in Rows
    /\ read_q = << >> /\ write_q = << >> /\ secondary = << >> /\ data = 0
    /\ sending = FALSE /\ cr_flag = FALSE
    /\ proc_list = [secondary |-> None, write_q |-> None]
    /\ current = None /\ ie = TRUE
    /\ pc = [t \in Tasks |-> "user"] /\ state = [t \in Tasks |-> "RUNNING"]
    /\ signal = [t \in Tasks |-> FALSE] /\ tmp = [t \in Tasks |-> None]
    /\ nr = [t \in Tasks |-> 0] /\ b = [t \in Tasks |-> << >>] /\ c = [t \in Tasks |-> "none"]
    /\ n = [t \in Tasks |-> 0]
    /\ typed = 0 /\ calls = 0
    /\ hit = {}
-----------------------------------------------------------------------------
(* copy_to_cooked, in the interrupt: S is the terminal, x a character of   *)
(* read_q; S.rest is what stays in read_q because secondary is full.       *)
(* An echo goes to write_q whether or not it is full.                      *)
Put(xs, q) ==                              \* one or two characters
    IF Len(xs) = 1 THEN PUTCH(xs[1], q) ELSE PUTCH(xs[2], PUTCH(xs[1], q))

Echo(S, xs) == [S EXCEPT !.write_q = Put(xs, @), !.sending = TRUE]

EchoOf(x) == CASE x = "NL"               -> <<"nl", "cr">>
               [] x \in {"EOF", "CTRL"}  -> <<"^", "letter">>
               [] OTHER                  -> <<"echo">>

Erase_any(S) ==                            \* mutant: the end of a line is erased too
    IF S.secondary = << >> THEN S
    ELSE [S EXCEPT !.secondary = DEC(@)]

Erase(S) ==
    IF S.secondary = << >> \/ EndsLine(LAST(S.secondary)) THEN S
    ELSE LET dels == IF LAST(S.secondary) = "CTRL" THEN <<"del", "del">> ELSE <<"del">>
         IN  [(IF Flag("ECHO") THEN Echo(S, dels) ELSE S) EXCEPT
                  !.secondary = DEC(@)]

Store(S, x) ==
    [(IF Flag("ECHO") THEN Echo(S, EchoOf(x)) ELSE S) EXCEPT
        !.data = IF EndsLine(x) THEN @ + 1 ELSE @,
        !.secondary = PUTCH(x, @)]

Cook(S, x) ==
    IF FULL(S.secondary) \/ S.rest # << >> THEN [S EXCEPT !.rest = Append(@, x)]
    ELSE IF Flag("ICANON") /\ x = "ERASE" THEN Erase(S)
    ELSE IF Flag("ICANON") /\ x \in {"STOP", "START"} THEN S   \* tty->stopped is never read
    ELSE IF x = "INTR" THEN [S EXCEPT !.intr = TRUE]
    ELSE Store(S, x)

(* The loop over what is in read_q.                                        *)
copy_to_cooked(S, w) ==
    LET C[k \in 0..Len(w)] == IF k = 0 THEN S ELSE Cook(C[k - 1], w[k]) IN C[Len(w)]

wake_up(q) ==
    /\ state' = [t \in Tasks |-> IF t = proc_list[q] THEN "RUNNING" ELSE state[t]]
    /\ proc_list' = [proc_list EXCEPT ![q] = None]

tty_intr == signal' = [t \in Tasks |-> signal[t] \/ t \in Group]

(* A character that finds no room is dropped.                              *)
read_char(x) == IF FULL(read_q) THEN read_q ELSE Append(read_q, x)

(* A character arrives: read_char, then copy_to_cooked with its wake_up.   *)
do_tty_interrupt(x) ==
    LET S == copy_to_cooked([secondary |-> secondary, write_q |-> write_q, data |-> data,
                             rest |-> << >>, intr |-> FALSE, sending |-> sending],
                            read_char(x))
        In(p) == \E t \in Tasks : pc[t] = p
    IN  /\ ie /\ typed < MaxTyped /\ typed' = typed + 1
        /\ read_q' = S.rest /\ write_q' = S.write_q /\ secondary' = S.secondary /\ data' = S.data
        /\ sending' = S.sending
        /\ IF S.intr THEN tty_intr ELSE UNCHANGED signal
        /\ wake_up("secondary")
        /\ hit' = hit \cup (IF In("store") /\ S.data # data THEN {"data"} ELSE {})
                       \cup (IF In("getch") /\ S.secondary = << >> THEN {"erase"} ELSE {})
        /\ UNCHANGED <<row, cr_flag, ie, pc, tmp, nr, b, c, n, current, calls>>

(* The line sends the first character of write_q.  Then tail goes back by  *)
(* one instead of forward (rs_io.c:112), onto one that was sent before, or *)
(* meets head.                                                             *)
Sent == IF write_q = << >> \/ FULL(write_q) THEN << >> ELSE <<"old">> \o write_q

(* write_char; few characters left, or none, wake a writer.  The interrupt *)
(* stays on: IER_reg | 0x0d (rs_io.c:99, 120) clears no bit.               *)
Sends ==
    /\ ie /\ sending
    /\ write_q' = Sent
    /\ state' = [t \in Tasks |-> IF t = proc_list.write_q /\ (Len(write_q) <= Startup \/ Sent = << >>)
                                 THEN "RUNNING" ELSE state[t]]
    /\ UNCHANGED <<row, read_q, secondary, data, sending, cr_flag, proc_list, ie, pc, tmp, nr, b,
                   c, n, current, signal, bounds, hit>>
-----------------------------------------------------------------------------
(* schedule makes a sleeping task with a signal runnable.                  *)
Runs(t) == current = t \/ (current = None /\ (state[t] = "RUNNING" \/ signal[t]))

(* A task goes on at p, inside the kernel; or returns, and then takes its  *)
(* signals.                                                                *)
GoOn(t, p) == pc' = [pc EXCEPT ![t] = p] /\ current' = t /\ UNCHANGED <<state, tmp, signal>>

Return(t) ==
    /\ pc' = [pc EXCEPT ![t] = "user"] /\ current' = None /\ ie' = TRUE
    /\ state' = [state EXCEPT ![t] = "RUNNING"]
    /\ signal' = [signal EXCEPT ![t] = FALSE]
    /\ UNCHANGED tmp

(* The conditions of the loops of sleep_if_empty and sleep_if_full.        *)
Waits(t, q) ==
    ~signal[t] /\ IF q = "secondary" THEN secondary = << >> ELSE LEFT(write_q) < LowWater


Earlier(t) == {tmp[t]}

(* The tasks of T and those that slept on q before them, along tmp.        *)
Chain(q, T) ==
    LET L[k \in 0..Cardinality(Tasks)] ==
            IF k = 0 THEN T ELSE L[k - 1] \cup {tmp[u] : u \in {x \in L[k - 1] \cap Tasks : pc[x] = q}}
    IN  L[Cardinality(Tasks)]

(* The tasks in the list of q.                                             *)
Listed(q) == Chain(q, {proc_list[q]})

(* Task t enters list q, with those of before behind it, while a task that *)
(* was woken, and is not in the list, has yet to run: it will find t there *)
(* and sleep again.                                                        *)
Late(t, q, before) ==
    IF \E u \in Tasks \ {t} : pc[u] = q /\ u \notin before THEN {"list"} ELSE {}

(* interruptible_sleep_on up to schedule.                                  *)
Sleeps(t, q) ==
    /\ tmp' = [tmp EXCEPT ![t] = proc_list[q]]
    /\ proc_list' = [proc_list EXCEPT ![q] = t]
    /\ state' = [state EXCEPT ![t] = "INTERRUPTIBLE"]
    /\ pc' = [pc EXCEPT ![t] = q] /\ current' = None /\ ie' = TRUE
    /\ hit' = hit \cup Late(t, q, Listed(q))
    /\ UNCHANGED signal

(* The rest of interruptible_sleep_on and of the loop around it.  A task   *)
(* that is not the last in the list wakes the last and sleeps again; it    *)
(* does not enter the list again.                                          *)
interruptible_sleep_on(t, q) ==
    /\ Runs(t) /\ pc[t] = q
    /\ IF proc_list[q] \notin {None, t}
       THEN /\ state' = [state EXCEPT ![proc_list[q]] = "RUNNING", ![t] = "INTERRUPTIBLE"]
            /\ current' = None
            /\ UNCHANGED <<proc_list, pc, tmp, ie, hit>>
       ELSE IF Waits(t, q)
       THEN /\ state' = [u \in Tasks |-> IF u = t THEN "INTERRUPTIBLE"
                                        ELSE IF u \in Earlier(t) THEN "RUNNING" ELSE state[u]]
            /\ proc_list' = [proc_list EXCEPT ![q] = t]
            /\ tmp' = [tmp EXCEPT ![t] = None]
            /\ current' = None
            /\ hit' = hit \cup Late(t, q, {})
            /\ UNCHANGED <<pc, ie>>
       ELSE /\ state' = [u \in Tasks |-> IF u \in {t} \cup Earlier(t) THEN "RUNNING" ELSE state[u]]
            /\ proc_list' = [proc_list EXCEPT ![q] = None]
            /\ tmp' = [tmp EXCEPT ![t] = None]
            /\ pc' = [pc EXCEPT ![t] = IF q = "secondary" THEN "read" ELSE "write2"]
            /\ current' = t /\ ie' = TRUE
            /\ UNCHANGED hit
    /\ UNCHANGED <<row, queues, sending, cr_flag, nr, b, c, n, signal, bounds>>
-----------------------------------------------------------------------------
(* The calls.  Traps are taken with interrupts disabled.                   *)
Call(t) ==
    /\ current = None /\ pc[t] = "user" /\ calls < MaxCalls /\ calls' = calls + 1
    /\ current' = t /\ ie' = FALSE
    /\ \/ /\ pc' = [pc EXCEPT ![t] = "read"]
          /\ \E k \in Counts : nr' = [nr EXCEPT ![t] = k]
          /\ UNCHANGED b
       \/ /\ pc' = [pc EXCEPT ![t] = "write"]
          /\ \E text \in Texts : b' = [b EXCEPT ![t] = text]
          /\ UNCHANGED nr
    /\ UNCHANGED <<row, queues, sending, cr_flag, proc_list, state, signal, tmp, c, n, typed, hit>>

(* The top of the loop of tty_read.  VTIME is 0: no alarm is set.  Without *)
(* a complete line, sleep_if_empty returns at once and the loop spins.     *)
Spins == Flag("ICANON") /\ secondary # << >> /\ data = 0 /\ LEFT(secondary) > Slack

tty_read(t) ==
    /\ Runs(t) /\ pc[t] = "read"
    /\ IF signal[t] THEN Return(t) /\ nr' = [nr EXCEPT ![t] = 0] /\ UNCHANGED <<proc_list, hit>>
       ELSE IF secondary = << >> THEN Sleeps(t, "secondary") /\ UNCHANGED nr
       ELSE IF Spins THEN GoOn(t, "read") /\ ie' = TRUE /\ UNCHANGED <<nr, proc_list, hit>>
       ELSE GoOn(t, "getch") /\ UNCHANGED <<ie, nr, proc_list, hit>>
    /\ UNCHANGED <<row, queues, sending, cr_flag, b, c, n, bounds>>

(* The inner loop: the end of a turn with character x, q being left in the *)
(* queue.  VMIN is 1: one character is enough.                             *)
Turn(t, x, q) ==
    /\ c' = [c EXCEPT ![t] = "none"]
    /\ IF ~(x = "EOF" /\ Flag("ICANON")) /\ nr[t] > 1 /\ q # << >>
       THEN GoOn(t, "getch") /\ nr' = [nr EXCEPT ![t] = @ - 1] /\ UNCHANGED ie
       ELSE Return(t) /\ nr' = [nr EXCEPT ![t] = 0]

getch(t) ==
    LET x == IF secondary = << >> THEN "old" ELSE Head(secondary)
    IN  /\ Runs(t) /\ pc[t] = "getch"
        /\ secondary' = GETCH(secondary)
        /\ IF EndsLine(x) THEN GoOn(t, "load") /\ c' = [c EXCEPT ![t] = x] /\ UNCHANGED <<nr, ie>>
           ELSE Turn(t, x, GETCH(secondary))
        /\ UNCHANGED <<row, read_q, write_q, data, sending, cr_flag, proc_list, b, n,
                       bounds, hit>>

(* secondary.data-- is a load and a store.                                 *)
load(t) ==
    /\ Runs(t) /\ pc[t] = "load"
    /\ n' = [n EXCEPT ![t] = data]
    /\ GoOn(t, "store")
    /\ UNCHANGED <<row, queues, sending, cr_flag, proc_list, ie, nr, b, c, bounds, hit>>

store(t) ==
    /\ Runs(t) /\ pc[t] = "store"
    /\ data' = n[t] - 1
    /\ n' = [n EXCEPT ![t] = 0]
    /\ Turn(t, c[t], secondary)
    /\ UNCHANGED <<row, read_q, write_q, secondary, sending, cr_flag, proc_list, b, bounds, hit>>

(* The outer loop of tty_write: at its top, and after sleep_if_full.       *)
tty_write(t) ==
    /\ Runs(t) /\ pc[t] \in {"write", "write2"}
    /\ IF signal[t] THEN Return(t) /\ b' = [b EXCEPT ![t] = << >>] /\ UNCHANGED <<proc_list, hit>>
       ELSE IF pc[t] = "write" /\ FULL(write_q) THEN Sleeps(t, "write_q") /\ UNCHANGED b
       ELSE GoOn(t, "fill") /\ UNCHANGED <<ie, proc_list, b, hit>>
    /\ UNCHANGED <<row, queues, sending, cr_flag, nr, c, n, bounds>>

(* The character to put next: c_oflag of the row.                          *)
Post(x) == IF x = "NL" /\ Flag("ONLRET") THEN "CR" ELSE x

NeedsCR(x) == Post(x) = "NL" /\ ~cr_flag /\ Flag("ONLCR")

Room == ~FULL(write_q)

(* tty->write.                                                             *)
Started == sending \/ write_q # << >>

(* The inner loop up to the store of PUTCH; at its end, tty->write starts  *)
(* the line and enables interrupts.                                        *)
fill(t) ==
    /\ Runs(t) /\ pc[t] = "fill"
    /\ IF b[t] # << >> /\ Room
       THEN LET x == Head(b[t])
            IN  /\ cr_flag' = NeedsCR(x)
                /\ c' = [c EXCEPT ![t] = IF NeedsCR(x) THEN "CR" ELSE Post(x)]
                /\ b' = IF NeedsCR(x) THEN b ELSE [b EXCEPT ![t] = Tail(@)]
                /\ GoOn(t, "inc")
                /\ UNCHANGED <<sending, ie>>
       ELSE /\ sending' = Started
            /\ IF b[t] = << >> THEN Return(t)
               ELSE /\ pc' = [pc EXCEPT ![t] = "write"] /\ current' = None /\ ie' = TRUE
                    /\ UNCHANGED <<state, tmp, signal>>
            /\ UNCHANGED <<cr_flag, b, c>>
    /\ UNCHANGED <<row, queues, proc_list, nr, n, bounds, hit>>

inc(t) ==
    /\ Runs(t) /\ pc[t] = "inc"
    /\ write_q' = PUTCH(c[t], write_q)
    /\ c' = [c EXCEPT ![t] = "none"]
    /\ GoOn(t, "fill")
    /\ UNCHANGED <<row, read_q, secondary, data, sending, cr_flag, proc_list, ie, nr, b, n, bounds, hit>>

Step(t) ==
    \/ tty_read(t) \/ getch(t) \/ load(t) \/ store(t)
    \/ tty_write(t) \/ fill(t) \/ inc(t)
    \/ \E q \in {"secondary", "write_q"} : interruptible_sleep_on(t, q)

Next ==
    \/ \E x \in Typed : do_tty_interrupt(x)
    \/ Sends
    \/ \E t \in Tasks : Call(t) \/ Step(t)

Spec == Init /\ [][Next]_vars
-----------------------------------------------------------------------------
(* secondary.data, on which readers of lines depend, counts the line ends  *)
(* in the queue, with those a reader has taken and not yet subtracted.     *)
DataExact ==
    hit \cap {"data", "erase"} = {} =>
        data = Ends(secondary) + Cardinality({t \in Tasks : pc[t] \in {"load", "store"}})

Woken(q) == {t \in Tasks : pc[t] = q /\ (state[t] = "RUNNING" \/ signal[t])}

===============================================================================
