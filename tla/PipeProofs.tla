----------------------------- MODULE PipeProofs -----------------------------
(***************************************************************************)
(* Proofs about Pipe, for every page size, set of tasks and set of counts. *)
(* The ring needs the arithmetic of one wrap-around (the lemmas Mod...).   *)
(* Nothing is assumed about the counts: the theorems hold although fork    *)
(* does not count the child, and dup counts a file that is closed.         *)
(***************************************************************************)
EXTENDS Pipe, TLAPS

-----------------------------------------------------------------------------
(* The remainder of what lies less than one turn below or above 0..S-1.    *)
LEMMA ModSmall ==
  ASSUME NEW S \in Nat, S > 0, NEW a \in 0..S - 1
  PROVE  a % S = a
OBVIOUS

LEMMA ModOver ==
  ASSUME NEW S \in Nat, S > 0, NEW a \in S..2 * S - 1
  PROVE  a % S = a - S
OBVIOUS

LEMMA ModUnder ==
  ASSUME NEW S \in Nat, S > 0, NEW a \in Int, -S <= a, a < 0
  PROVE  a % S = a + S
OBVIOUS

(* A step forward of at most one turn.                                     *)
LEMMA ModSum ==
  ASSUME NEW S \in Nat, S > 0, NEW a \in 0..S - 1, NEW k \in 0..S
  PROVE  /\ (a + k) % S = IF a + k < S THEN a + k ELSE a + k - S
         /\ (a + k) % S \in 0..S - 1
BY ModSmall, ModOver

(* The distance from b forward to a.                                       *)
LEMMA ModDiff ==
  ASSUME NEW S \in Nat, S > 0, NEW a \in 0..S - 1, NEW b \in 0..S - 1
  PROVE  /\ (a - b) % S = IF b <= a THEN a - b ELSE a - b + S
         /\ (a - b) % S \in 0..S - 1
BY ModSmall, ModUnder

(* Two steps forward are one.                                              *)
LEMMA ModAgain ==
  ASSUME NEW S \in Nat, S > 0, NEW a \in 0..S - 1, NEW k \in Nat, NEW x \in Nat, k + x <= S
  PROVE  (((a + k) % S) + x) % S = (a + (k + x)) % S
BY ModSum

(* A step of the front makes the distance larger.                          *)
LEMMA ModAhead ==
  ASSUME NEW S \in Nat, S > 0, NEW a \in 0..S - 1, NEW b \in 0..S - 1,
         NEW k \in Nat, k + ((a - b) % S) < S
  PROVE  (((a + k) % S) - b) % S = ((a - b) % S) + k
BY ModSum, ModDiff

(* A step of the back makes the distance smaller.                          *)
LEMMA ModBehind ==
  ASSUME NEW S \in Nat, S > 0, NEW a \in 0..S - 1, NEW b \in 0..S - 1,
         NEW k \in Nat, k <= ((a - b) % S)
  PROVE  (a - ((b + k) % S)) % S = ((a - b) % S) - k
BY ModSum, ModDiff, SMTT(30)

(* Where the place y steps from the back lies, seen from the front.        *)
LEMMA ModPlace ==
  ASSUME NEW S \in Nat, S > 0, NEW a \in 0..S - 1, NEW b \in 0..S - 1, NEW y \in 0..S - 1
  PROVE  (((b + y) % S) - a) % S = IF y < ((a - b) % S) THEN y - ((a - b) % S) + S
                                                    ELSE y - ((a - b) % S)
BY ModSum, ModDiff, SMTT(30)

(* The front is the back and the distance.                                 *)
LEMMA ModBack ==
  ASSUME NEW S \in Nat, S > 0, NEW a \in 0..S - 1, NEW b \in 0..S - 1
  PROVE  a = (b + ((a - b) % S)) % S
BY ModSum, ModDiff

-----------------------------------------------------------------------------
(* The part of TypeOK about the ring.                                      *)
RingType ==
    /\ page \in [0..(Size - 1) -> Bytes]
    /\ head \in 0..(Size - 1) /\ tail \in 0..(Size - 1)
    /\ rd \in Bytes /\ wr \in Bytes

(* A ring holds at most Size - 1 bytes; head = tail means that it is empty.*)
LEMMA RingSize ==
  ASSUME RingType
  PROVE  /\ Size \in Nat /\ Size > 0
         /\ PIPE_SIZE \in 0..Size - 1
         /\ PIPE_EMPTY <=> PIPE_SIZE = 0
BY PipeAssumption, ModDiff DEF RingType, PIPE_SIZE, PIPE_EMPTY

(* Taking k bytes out leaves the others in order.                          *)
LEMMA Taken ==
  ASSUME RingType, Contents, NEW k \in 0..PIPE_SIZE,
         tail' = Inc(tail, k), rd' = (rd + k) % (2 * Size), UNCHANGED <<page, head, wr>>
  PROVE  RingType' /\ Contents'
<1>1. /\ Size \in Nat /\ Size > 0 /\ 2 * Size \in Nat /\ 2 * Size > 0
      /\ k \in Nat /\ k <= Size /\ k <= 2 * Size
      /\ rd \in 0..2 * Size - 1 /\ wr \in 0..2 * Size - 1
      /\ head \in 0..Size - 1 /\ tail \in 0..Size - 1
  <2>1. Size \in Nat /\ Size > 0 /\ PIPE_SIZE \in 0..Size - 1
    BY RingSize
  <2> QED
    BY <2>1 DEF RingType, Bytes
<1>2. RingType'
  <2>1. tail' \in 0..Size - 1
    BY <1>1, ModSum DEF Inc
  <2>2. rd' \in 0..2 * Size - 1
    BY <1>1, ModSum
  <2> QED
    BY <2>1, <2>2 DEF RingType, Bytes
<1>3. PIPE_SIZE' = PIPE_SIZE - k
  BY <1>1, ModBehind DEF PIPE_SIZE, Inc
<1>4. (wr' - rd') % (2 * Size) = PIPE_SIZE - k
  <2>1. (wr - rd) % (2 * Size) = PIPE_SIZE
    BY DEF Contents
  <2> QED
    BY <1>1, <2>1, ModBehind, RingSize, SMTT(30)
<1>5. ASSUME NEW x \in 0..(Size - 1), x < PIPE_SIZE - k
      PROVE  page'[(tail' + x) % Size] = (rd' + x) % (2 * Size)
  <2>1. k + x \in 0..(Size - 1) /\ k + x < PIPE_SIZE
    BY <1>1, <1>5, RingSize
  <2>2. page[(tail + (k + x)) % Size] = (rd + (k + x)) % (2 * Size)
    BY <2>1 DEF Contents
  <2>3. (tail' + x) % Size = (tail + (k + x)) % Size
    BY <1>1, <2>1, ModAgain DEF Inc
  <2>4. (rd' + x) % (2 * Size) = (rd + (k + x)) % (2 * Size)
    BY <1>1, <2>1, ModAgain
  <2> QED
    BY <2>2, <2>3, <2>4
<1> QED
  BY <1>2, <1>3, <1>4, <1>5 DEF Contents

(* Pouring k bytes into the room there is keeps all of them in order.      *)
LEMMA Poured ==
  ASSUME RingType, Contents, NEW k \in 0..Room, Pours(k)
  PROVE  RingType' /\ Contents' /\ PIPE_SIZE' = PIPE_SIZE + k
<1>1. /\ Size \in Nat /\ Size > 0 /\ 2 * Size \in Nat /\ 2 * Size > 0
      /\ k \in Nat /\ k + PIPE_SIZE < Size /\ k + PIPE_SIZE < 2 * Size
      /\ PIPE_SIZE \in Nat
      /\ rd \in 0..2 * Size - 1 /\ wr \in 0..2 * Size - 1
      /\ head \in 0..Size - 1 /\ tail \in 0..Size - 1
  <2>1. Size \in Nat /\ Size > 0 /\ PIPE_SIZE \in 0..Size - 1
    BY RingSize
  <2> QED
    BY <2>1 DEF RingType, Bytes, Room
<1>2. RingType'
  <2>1. head' \in 0..Size - 1
    BY <1>1, ModSum DEF Inc, Pours
  <2>2. wr' \in 0..2 * Size - 1
    BY <1>1, ModSum DEF Pours
  <2>3. page' \in [0..(Size - 1) -> Bytes]
    <3>1. ASSUME NEW x \in 0..(Size - 1)
          PROVE  (wr + ((x - head) % Size)) % (2 * Size) \in Bytes
      <4>1. (x - head) % Size \in 0..Size - 1
        BY <1>1, <3>1, ModDiff
      <4> QED
        BY <1>1, <4>1, ModSum DEF Bytes
    <3> QED
      BY <3>1 DEF RingType, Pours
  <2> QED
    BY <2>1, <2>2, <2>3 DEF RingType, Bytes, Pours
<1>3. PIPE_SIZE' = PIPE_SIZE + k
  BY <1>1, ModAhead DEF PIPE_SIZE, Inc, Pours
<1>4. (wr' - rd') % (2 * Size) = PIPE_SIZE + k
  <2>1. (wr - rd) % (2 * Size) = PIPE_SIZE
    BY DEF Contents
  <2> QED
    BY <1>1, <2>1, ModAhead DEF Pours
<1>5. ASSUME NEW y \in 0..(Size - 1), y < PIPE_SIZE + k
      PROVE  page'[(tail' + y) % Size] = (rd' + y) % (2 * Size)
  <2> DEFINE x == (tail + y) % Size
  <2>1. x \in 0..(Size - 1)
    BY <1>1, <1>5, ModSum
  <2>2. (x - head) % Size = IF y < PIPE_SIZE THEN y - PIPE_SIZE + Size ELSE y - PIPE_SIZE
    <3>1. Size \in Nat /\ Size > 0 /\ head \in 0..Size - 1 /\ tail \in 0..Size - 1
      BY <1>1
    <3> QED
      BY <3>1, <1>5, ModPlace, SMTT(30) DEF PIPE_SIZE
  <2>3. page'[x] = IF (x - head) % Size < k THEN (wr + ((x - head) % Size)) % (2 * Size)
                                            ELSE page[x]
    BY <2>1 DEF Pours, RingType
  <2>4. CASE y < PIPE_SIZE
    <3>1. page[x] = (rd + y) % (2 * Size)
      BY <1>5, <2>4 DEF Contents
    <3>2. page'[x] = page[x]
      BY <1>1, <1>5, <2>2, <2>3, <2>4
    <3> QED
      BY <3>1, <3>2 DEF Pours
  <2>5. CASE ~(y < PIPE_SIZE)
    <3>1. page'[x] = (wr + (y - PIPE_SIZE)) % (2 * Size)
      BY <1>1, <1>5, <2>2, <2>3, <2>5
    <3>2. wr = (rd + PIPE_SIZE) % (2 * Size)
      BY <1>1, ModBack DEF Contents
    <3>3. (((rd + PIPE_SIZE) % (2 * Size)) + (y - PIPE_SIZE)) % (2 * Size)
            = (rd + (PIPE_SIZE + (y - PIPE_SIZE))) % (2 * Size)
      BY <1>1, <1>5, <2>5, ModAgain
    <3> QED
      BY <1>1, <1>5, <3>1, <3>2, <3>3 DEF Pours
  <2> QED
    BY <2>4, <2>5
<1> QED
  BY <1>2, <1>3, <1>4, <1>5 DEF Contents

-----------------------------------------------------------------------------
(* Whoever is asleep is inside read_pipe or write_pipe.                    *)
Sleepers == \A t \in asleep : pc[t] \in {"read", "write"}

PInv == TypeOK /\ Contents /\ SleepIsNeeded /\ Sleepers

(* The invariant holds initially, and one lemma for each kind of step.     *)
LEMMA Init_PInv == Init => PInv
<1> SUFFICES ASSUME Init PROVE PInv
  OBVIOUS
<1>1. TypeOK
  <2>1. page \in [0..(Size - 1) -> Bytes] /\ 0 \in 0..(Size - 1) /\ 0 \in Bytes
    BY PipeAssumption DEF Init, Bytes
  <2>2. filp \in [Tasks -> [Ends -> Nat]] /\ f_count \in [Ends -> Nat]
    BY DEF Init
  <2>3. /\ pc \in [Tasks -> {"unborn", "out", "read", "write"}] /\ left \in [Tasks -> Nat]
        /\ i_count \in 0..2 /\ asleep \subseteq Tasks /\ ret \in {"none", "data", "eof", "sigpipe"}
    BY DEF Init
  <2>4. panicked \in BOOLEAN
    BY Zenon DEF Init
  <2> QED
    BY <2>1, <2>2, <2>3, <2>4 DEF Init, TypeOK
<1>2. Contents
  <2>1. (0 - 0) % Size = 0 /\ (0 - 0) % (2 * Size) = 0
    BY PipeAssumption
  <2> QED
    BY <2>1 DEF Init, Contents, PIPE_SIZE
<1> QED
  BY <1>1, <1>2 DEF Init, PInv, SleepIsNeeded, Sleepers

LEMMA ReadStep ==
  ASSUME PInv, NEW t \in Tasks, NEW n \in Nat, Reading(t, n)
  PROVE  PInv'
<1> USE DEF PInv
<1>1. RingType
  BY DEF RingType, TypeOK
<1>3. CASE ~PIPE_EMPTY /\ Took(t, n)
  <2>1. Least(n, PIPE_SIZE) \in 0..PIPE_SIZE
    BY <1>1, RingSize DEF Least
  <2>2. RingType' /\ Contents'
    BY <1>1, <1>3, <2>1, Taken DEF Took
  <2>3. TypeOK'
    BY <1>3, <2>2 DEF TypeOK, RingType, Took, Returns, Reading, refs
  <2> QED
    BY <1>3, <2>2, <2>3 DEF Took, SleepIsNeeded, Sleepers
<1>4. CASE PIPE_EMPTY /\ i_count # 2 /\ asleep' = {} /\ Returns(t, "eof") /\ UNCHANGED ring
  <2>1. Contents'
    BY <1>4 DEF ring, Contents, PIPE_SIZE
  <2>2. TypeOK'
    BY <1>4 DEF TypeOK, ring, Returns, Reading, refs
  <2> QED
    BY <1>4, <2>1, <2>2 DEF SleepIsNeeded, Sleepers
<1>5. CASE PIPE_EMPTY /\ i_count = 2 /\ Sleeps(t, "read", n) /\ UNCHANGED ring
  <2>1. Contents'
    BY <1>5 DEF ring, Contents, PIPE_SIZE
  <2>2. TypeOK'
    BY <1>5 DEF TypeOK, ring, Sleeps, Reading, refs
  <2>3. pc'[t] = "read" /\ asleep' = {t} /\ i_count' = 2 /\ PIPE_EMPTY'
    BY <1>5 DEF Sleeps, Reading, refs, TypeOK, ring, PIPE_EMPTY
  <2> QED
    BY <2>1, <2>2, <2>3 DEF SleepIsNeeded, Sleepers
<1> QED
  BY <1>3, <1>4, <1>5 DEF Reading

LEMMA WriteStep ==
  ASSUME PInv, NEW t \in Tasks, NEW n \in Nat, Writing(t, n)
  PROVE  PInv'
<1> USE DEF PInv
<1>1. RingType
  BY DEF RingType, TypeOK
<1>3. Room \in Nat /\ Least(n, Room) \in 0..Room
  <2>1. Size \in Nat /\ PIPE_SIZE \in 0..Size - 1
    BY <1>1, RingSize
  <2> QED
    BY <2>1 DEF Least, Room
<1>4. RingType' /\ Contents' /\ PIPE_SIZE' = PIPE_SIZE + Least(n, Room)
  BY <1>1, <1>3, Poured DEF Writing
<1>5. CASE \/ n <= Room /\ asleep' = {} /\ Returns(t, "data")
           \/ n > Room /\ i_count # 2 /\ asleep' = {} /\ Returns(t, "sigpipe")
  <2>1. /\ pc' = [pc EXCEPT ![t] = "out"] /\ left' = [left EXCEPT ![t] = 0]
        /\ ret' \in {"data", "sigpipe"} /\ asleep' = {} /\ UNCHANGED refs
    BY <1>5 DEF Returns, Writing
  <2>2. TypeOK'
    BY <1>4, <2>1, Zenon DEF TypeOK, RingType, refs
  <2> QED
    BY <1>4, <2>1, <2>2 DEF SleepIsNeeded, Sleepers
<1>6. CASE n > Room /\ i_count = 2 /\ Sleeps(t, "write", n - Room)
  <2>1. TypeOK'
    BY <1>3, <1>4, <1>6, SMTT(30) DEF TypeOK, RingType, Sleeps, Writing, refs
  <2>2. pc'[t] = "write" /\ asleep' = {t} /\ i_count' = 2
    BY <1>6 DEF Sleeps, Writing, refs, TypeOK
  <2>3. Room' = 0
    <3>1. PIPE_SIZE \in 0..Size - 1 /\ Size \in Nat
      BY <1>1, RingSize
    <3> QED
      BY <1>3, <1>4, <1>6, <3>1 DEF Room, Least
  <2> QED
    BY <1>4, <2>1, <2>2, <2>3 DEF SleepIsNeeded, Sleepers
<1> QED
  BY <1>5, <1>6 DEF Writing

LEMMA RefuseStep ==       \* write_pipe finds i_count # 2 at once
  ASSUME PInv, NEW t \in Tasks, asleep' = {}, Returns(t, "sigpipe"), UNCHANGED <<ring, refs>>
  PROVE  PInv'
<1> USE DEF PInv
<1>1. TypeOK'
  BY DEF TypeOK, ring, refs, Returns
<1>2. Contents'
  BY DEF ring, Contents, PIPE_SIZE
<1> QED
  BY <1>1, <1>2 DEF SleepIsNeeded, Sleepers

LEMMA CloseStep ==
  ASSUME PInv, NEW t \in Tasks, NEW e \in Ends, do_close(t, e)
  PROVE  PInv'
<1> USE DEF PInv
<1>1. Contents'
  BY DEF do_close, ring, Contents, PIPE_SIZE
<1>2. \/ i_count' = (IF i_count = 0 THEN 0 ELSE i_count - 1) /\ asleep' = {}
      \/ i_count' = i_count /\ asleep' = asleep
  BY DEF do_close, iput
<1>3. i_count' \in 0..2
  BY <1>2 DEF TypeOK
<1>4. TypeOK'
  <2>1. f_count' \in [Ends -> Nat]
    BY DEF do_close, TypeOK
  <2>2. filp' \in [Tasks -> [Ends -> Nat]]
    BY DEF do_close, TypeOK, Has
  <2>3. panicked' \in BOOLEAN
    BY DEF do_close
  <2>4. asleep' \subseteq Tasks
    BY <1>2 DEF TypeOK
  <2> QED
    BY <1>3, <2>1, <2>2, <2>3, <2>4 DEF do_close, TypeOK, ring
<1>5. SleepIsNeeded' /\ Sleepers'
  BY <1>2 DEF do_close, ring, SleepIsNeeded, Sleepers, PIPE_EMPTY, Room, PIPE_SIZE
<1> QED
  BY <1>1, <1>4, <1>5

LEMMA DupStep ==
  ASSUME PInv, NEW t \in Tasks, NEW e \in Ends, dupfd(t, e)
  PROVE  PInv'
<1> USE DEF PInv
<1>1. Contents'
  BY DEF dupfd, ring, Contents, PIPE_SIZE
<1>2. f_count' \in [Ends -> Nat] /\ filp' \in [Tasks -> [Ends -> Nat]]
  BY DEF dupfd, TypeOK
<1>3. TypeOK'
  BY <1>2 DEF dupfd, TypeOK, ring
<1>4. SleepIsNeeded' /\ Sleepers'
  BY DEF dupfd, ring, SleepIsNeeded, Sleepers, PIPE_EMPTY, Room, PIPE_SIZE
<1> QED
  BY <1>1, <1>3, <1>4

LEMMA ForkStep ==
  ASSUME PInv, NEW t \in Tasks, NEW c \in Tasks, Fork(t, c)
  PROVE  PInv'
<1> USE DEF PInv
<1>1. Contents'
  BY DEF Fork, ring, Contents, PIPE_SIZE
<1>2. TypeOK'
  BY DEF Fork, TypeOK, ring
<1>3. SleepIsNeeded' /\ Sleepers'
  <2>1. \A u \in asleep : u \in Tasks /\ u # c /\ pc'[u] = pc[u]
    BY Zenon DEF Fork, Sleepers, TypeOK
  <2> QED
    BY <2>1 DEF Fork, ring, SleepIsNeeded, Sleepers, PIPE_EMPTY, Room, PIPE_SIZE
<1> QED
  BY <1>1, <1>2, <1>3

(* Every step preserves the invariant, one case per action.                *)
LEMMA Next_PInv == PInv /\ [Next]_vars => PInv'
<1> SUFFICES ASSUME PInv, [Next]_vars PROVE PInv'
  OBVIOUS
<1>1. ASSUME NEW t \in Tasks, NEW n \in Counts, read_pipe(t, n) PROVE PInv'
  BY <1>1, PipeAssumption, ReadStep DEF read_pipe
<1>2. ASSUME NEW t \in Tasks, NEW n \in Counts, write_pipe(t, n) PROVE PInv'
  BY <1>2, PipeAssumption, WriteStep, RefuseStep, Zenon DEF write_pipe
<1>3. ASSUME NEW t \in Tasks, Back(t) PROVE PInv'
  <2>1. left[t] \in Nat
    BY DEF PInv, TypeOK
  <2> QED
    BY <1>3, <2>1, ReadStep, WriteStep DEF Back
<1>4. ASSUME NEW t \in Tasks, NEW e \in Ends, do_close(t, e) PROVE PInv'
  BY <1>4, CloseStep
<1>5. ASSUME NEW t \in Tasks, NEW e \in Ends, dupfd(t, e) PROVE PInv'
  BY <1>5, DupStep
<1>6. ASSUME NEW t \in Tasks, NEW c \in Tasks, Fork(t, c) PROVE PInv'
  BY <1>6, ForkStep
<1>7. CASE UNCHANGED vars
  BY <1>7, ZenonT(60) DEF vars, ring, refs, PInv, TypeOK, Contents, SleepIsNeeded, Sleepers,
              PIPE_SIZE, PIPE_EMPTY, Room
<1> QED
  BY <1>1, <1>2, <1>3, <1>4, <1>5, <1>6, <1>7 DEF Next

LEMMA AlwaysPInv == Spec => []PInv
BY Init_PInv, Next_PInv, PTL DEF Spec

(* Every reachable state of a pipe has its types, whatever the page size,  *)
(* the tasks and the counts.                                               *)
THEOREM TypeCorrect == Spec => []TypeOK
<1>1. PInv => TypeOK
  BY DEF PInv
<1> QED
  BY <1>1, AlwaysPInv, PTL

(* read_pipe and write_pipe deliver every byte once and in order, over the *)
(* wrap-around of head and tail, for every page size.                      *)
THEOREM BytesInOrder == Spec => []InOrder
<1>1. PInv => InOrder
  BY DEF PInv, InOrder
<1> QED
  BY <1>1, AlwaysPInv, PTL

(* Nobody sleeps on i_wait who could go on: every change of the pipe that  *)
(* a sleeper waits for is followed by a wake_up.                           *)
THEOREM WakesNeverMissed == Spec => []SleepIsNeeded
<1>1. PInv => SleepIsNeeded
  BY DEF PInv
<1> QED
  BY <1>1, AlwaysPInv, PTL

=============================================================================
