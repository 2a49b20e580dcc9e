------------------------------ MODULE TtyProofs ------------------------------
(***************************************************************************)
(* Proofs about Tty: the line count is exact, whatever the size of the     *)
(* queues, the number of tasks, the characters typed and the texts         *)
(* written, until an interrupt hits one of the two windows it is exposed   *)
(* to.                                                                     *)
(*                                                                         *)
(* Three layers.  TypeOK: a queue never holds more than its buffer, even   *)
(* after a window.  Alone: a task between two accesses to a queue is the   *)
(* one inside the kernel, so that only an interrupt can come between them. *)
(* Exact: what holds until then; copy_to_cooked keeps the difference       *)
(* between secondary.data and the line ends in the queue.                  *)
(***************************************************************************)
EXTENDS Tty, FiniteSetTheorems, WellFoundedInduction, TLAPS

Chars == Typed \union {"old"}
Marks == STRING \union Chars \union {"CR", "none", "nl", "cr", "^", "letter", "echo", "del", "old"}
Inside == {"getch", "load", "store", "fill", "inc"}
Places == Inside \union {"user", "read", "write", "write2", "secondary", "write_q"}

Windows == {"data", "erase", "list"}

(* A queue of characters of X fits its buffer.                             *)
Fits(q, X) == q \in Seq(X) /\ Len(q) <= TTY_BUF_SIZE - 1

TypeOK ==
    /\ read_q \in Seq(Typed) /\ Fits(write_q, Marks) /\ Fits(secondary, Chars)
    /\ data \in Int /\ sending \in BOOLEAN /\ hit \in SUBSET Windows
    /\ pc \in [Tasks -> Places] /\ current \in Tasks \union {None}
    /\ b \in [Tasks -> Seq(STRING)] /\ c \in [Tasks -> Marks] /\ n \in [Tasks -> Int]

Alone == \A t \in Tasks : pc[t] \in Inside => current = t

Owes == \E t \in Tasks : pc[t] \in {"load", "store"}

(* The windows after which the count is not exact.                         *)
Counted == hit \cap {"data", "erase"} = {}

Exact ==
    /\ Counted => data = Ends(secondary) + (IF Owes THEN 1 ELSE 0)
    /\ \A t \in Tasks : /\ pc[t] = "store" /\ Counted => n[t] = data
                        /\ pc[t] = "getch" /\ "erase" \notin hit => secondary # << >>

IInv == TypeOK /\ Alone /\ Exact
-----------------------------------------------------------------------------
LEMMA Constants ==
    /\ TTY_BUF_SIZE \in Nat \ {0} /\ None \notin Tasks /\ None = 0
    /\ Texts \subseteq Seq(STRING)
<1>. QED BY TtyAssumption, SMT DEF None

(* A set of naturals that is not empty has a least element.                *)
LEMMA LeastIn ==
    ASSUME NEW S \in SUBSET Nat, S # {}
    PROVE  \E m \in S : \A k \in S : ~(k < m)
<1>1. PICK m \in S : \A k \in S : ~(<<k, m>> \in OpToRel(<, Nat))
  BY NatLessThanWellFounded, WFMin, Zenon
<1>. QED BY <1>1, Zenon DEF OpToRel

(* The line ends of a queue, counted.                                      *)
LEMMA EndsType ==
    ASSUME NEW X, NEW q \in Seq(X)
    PROVE  IsFiniteSet({i \in 1..Len(q) : EndsLine(q[i])}) /\ Ends(q) \in Nat
<1>1. Len(q) \in Int /\ 1 \in Int
  OBVIOUS
<1>2. IsFiniteSet(1..Len(q))
  BY <1>1, FS_Interval, Zenon
<1>3. {i \in 1..Len(q) : EndsLine(q[i])} \in SUBSET (1..Len(q))
  BY Zenon
<1>4. IsFiniteSet({i \in 1..Len(q) : EndsLine(q[i])})
  BY <1>2, <1>3, FS_Subset, Zenon
<1>. QED BY <1>4, FS_CardinalityType, Zenon DEF Ends

LEMMA EndsEmpty == Ends(<< >>) = 0
<1>1. {i \in 1..Len(<< >>) : EndsLine(<< >>[i])} = {}
  OBVIOUS
<1>. QED BY <1>1, FS_EmptySet, Zenon DEF Ends

(* Storing a line end adds one, any other character none.                  *)
LEMMA EndsAppend ==
    ASSUME NEW X, NEW q \in Seq(X), NEW x \in X
    PROVE  Ends(Append(q, x)) = Ends(q) + (IF EndsLine(x) THEN 1 ELSE 0)
<1>. DEFINE E == {i \in 1..Len(q) : EndsLine(q[i])}
            A == Append(q, x)
            F == {i \in 1..Len(A) : EndsLine(A[i])}
<1>1. Len(q) \in Nat /\ Len(A) = Len(q) + 1 /\ A[Len(q) + 1] = x
  OBVIOUS
<1>2. \A i \in 1..Len(q) : A[i] = q[i]
  OBVIOUS
<1>3. IsFiniteSet(E) /\ Cardinality(E) \in Nat
  BY EndsType, FS_CardinalityType, Zenon
<1>4. CASE EndsLine(x)
  <2>1. F = E \union {Len(q) + 1} /\ Len(q) + 1 \notin E
    BY <1>1, <1>2, <1>4, SMT
  <2>2. Cardinality(E \union {Len(q) + 1}) = Cardinality(E) + 1
    BY <1>3, <2>1, FS_AddElement, Zenon
  <2>. QED BY <1>4, <2>1, <2>2, Zenon DEF Ends
<1>5. CASE ~EndsLine(x)
  <2>1. F = E
    BY <1>1, <1>2, <1>5, SMT
  <2>2. Ends(A) = Ends(q)
    BY <2>1, Zenon DEF Ends
  <2>3. Ends(q) \in Nat
    BY EndsType, Zenon
  <2>. QED BY <1>5, <2>2, <2>3, SMT
<1>. QED BY <1>4, <1>5

(* Taking the first character away.                                        *)
LEMMA EndsTail ==
    ASSUME NEW X, NEW q \in Seq(X), q # << >>
    PROVE  Ends(q) = Ends(Tail(q)) + (IF EndsLine(Head(q)) THEN 1 ELSE 0)
<1>. DEFINE A == Tail(q)
            E == {i \in 1..Len(A) : EndsLine(A[i])}
            F == {i \in 1..Len(q) : EndsLine(q[i])}
            f == [i \in E |-> i + 1]
<1>1. /\ Len(q) \in Nat \ {0} /\ Len(A) = Len(q) - 1 /\ Head(q) = q[1] /\ A \in Seq(X)
      /\ \A i \in 1..Len(A) : A[i] = q[i + 1]
  BY SMT
<1>2. IsFiniteSet(E) /\ IsFiniteSet(F) /\ Cardinality(F) \in Nat
  BY <1>1, EndsType, FS_CardinalityType, Zenon
<1>3. ExistsBijection(E, F \ {1})
  <2>1. \A i \in E : i + 1 \in F \ {1}
    BY ONLY <1>1, SMT
  <2>2. f \in [E -> F \ {1}]
    BY <2>1
  <2>3. \A i, j \in E : f[i] = f[j] => i = j
    BY SMT
  <2>4. ASSUME NEW j \in F \ {1} PROVE \E i \in E : f[i] = j
    <3>1. j - 1 \in E /\ (j - 1) + 1 = j
      BY ONLY <1>1, <2>4, SMT
    <3>. QED BY <3>1, Zenon
  <2>5. f \in Bijection(E, F \ {1})
    BY <2>2, <2>3, <2>4, Zenon DEF Bijection, Injection, Surjection, IsInjective
  <2>. QED BY <2>5 DEF ExistsBijection
<1>4. Cardinality(F \ {1}) = Cardinality(E)
  BY <1>2, <1>3, FS_Bijection, Zenon
<1>5. Cardinality(F \ {1}) = IF 1 \in F THEN Cardinality(F) - 1 ELSE Cardinality(F)
  BY <1>2, FS_RemoveElement, Zenon
<1>6. 1 \in F <=> EndsLine(Head(q))
  BY ONLY <1>1, SMT
<1>7. Ends(q) = Cardinality(F) /\ Ends(Tail(q)) = Cardinality(E)
  BY Zenon DEF Ends
<1>. HIDE DEF A, E, F, f
<1>. QED BY <1>2, <1>4, <1>5, <1>6, <1>7, SMT

(* Erasing the last character when it does not end a line.                 *)
LEMMA EndsDec ==
    ASSUME NEW X, NEW q \in Seq(X), q # << >>, ~EndsLine(LAST(q))
    PROVE  DEC(q) \in Seq(X) /\ Len(DEC(q)) = Len(q) - 1 /\ Ends(DEC(q)) = Ends(q)
<1>0. PICK k : k = Len(q) - 1
  BY Zenon
<1>1. /\ k \in Nat /\ k <= Len(q) /\ Len(q) = k + 1 /\ DEC(q) = SubSeq(q, 1, k)
      /\ ~EndsLine(q[k + 1])
  BY <1>0, SMT DEF DEC, LAST
<1>2. /\ DEC(q) \in Seq(X) /\ Len(DEC(q)) = k
      /\ \A i \in 1..k : DEC(q)[i] = q[i]
  BY <1>1
<1>3. {i \in 1..Len(DEC(q)) : EndsLine(DEC(q)[i])} = {i \in 1..Len(q) : EndsLine(q[i])}
  BY <1>1, <1>2, SMT
<1>. QED BY <1>0, <1>2, <1>3, Zenon DEF Ends
-----------------------------------------------------------------------------
(* PUTCH keeps a queue within its buffer, even when it was full.           *)
LEMMA PutFits ==
    ASSUME NEW X, NEW q, Fits(q, X), NEW x \in X
    PROVE  /\ Fits(PUTCH(x, q), X)
           /\ ~FULL(q) => PUTCH(x, q) = Append(q, x)
<1>1. CASE FULL(q)
  BY <1>1, Constants, SMT DEF Fits, PUTCH
<1>2. CASE ~FULL(q)
  BY <1>2, Constants, SMT DEF Fits, PUTCH, FULL
<1>. QED BY <1>1, <1>2

(* The terminals that copy_to_cooked goes through, from one whose count is *)
(* d above the line ends of its queue.                                     *)
Terminals ==
    [secondary : Seq(Chars), write_q : Seq(Marks), data : Int, rest : Seq(Typed),
     intr : BOOLEAN, sending : BOOLEAN]

Cooks(S, d) ==
    /\ S \in Terminals
    /\ Fits(S.secondary, Chars) /\ Fits(S.write_q, Marks)
    /\ S.data = Ends(S.secondary) + d

Echoes == {<<"nl", "cr">>, <<"^", "letter">>, <<"echo">>, <<"del", "del">>, <<"del">>}

LEMMA EchoCooks ==
    ASSUME NEW S, NEW d, Cooks(S, d), NEW xs \in Echoes
    PROVE  /\ Cooks(Echo(S, xs), d)
           /\ Echo(S, xs).secondary = S.secondary /\ Echo(S, xs).data = S.data
<1>1. Fits(Put(xs, S.write_q), Marks)
  <2>1. xs[1] \in Marks /\ (Len(xs) = 1 \/ xs[2] \in Marks)
    BY SMT DEF Echoes, Marks
  <2>2. Fits(PUTCH(xs[1], S.write_q), Marks)
    BY <2>1, PutFits, Zenon DEF Cooks
  <2>3. Len(xs) # 1 => Fits(PUTCH(xs[2], PUTCH(xs[1], S.write_q)), Marks)
    BY <2>1, <2>2, PutFits, Zenon
  <2>. QED BY <2>2, <2>3, Zenon DEF Put
<1>2. PICK w : w = Put(xs, S.write_q)
  BY Zenon
<1>3. Echo(S, xs) = [S EXCEPT !.write_q = w, !.sending = TRUE]
  BY <1>2, Zenon DEF Echo
<1>4. S \in Terminals /\ w \in Seq(Marks)
  BY <1>1, <1>2, Zenon DEF Cooks, Fits
<1>5. /\ Echo(S, xs).secondary = S.secondary /\ Echo(S, xs).write_q = w
      /\ Echo(S, xs).data = S.data
  BY ONLY <1>3, <1>4, SMT DEF Terminals
<1>6. Echo(S, xs) \in Terminals
  BY ONLY <1>3, <1>4, Zenon DEF Terminals
<1>. QED BY <1>1, <1>2, <1>4, <1>5, <1>6, Zenon DEF Cooks

(* The queue and the count of a terminal change together.                  *)
LEMMA CooksOn ==
    ASSUME NEW S, NEW d, Cooks(S, d), NEW s, NEW m, Fits(s, Chars),
           m \in Int, m = Ends(s) + d
    PROVE  Cooks([S EXCEPT !.data = m, !.secondary = s], d)
<1>. DEFINE T == [S EXCEPT !.data = m, !.secondary = s]
<1>1. S \in Terminals /\ s \in Seq(Chars)
  BY Zenon DEF Cooks, Fits
<1>2. T.secondary = s /\ T.write_q = S.write_q /\ T.data = m
  BY ONLY <1>1, m \in Int, SMT DEF Terminals
<1>3. T \in Terminals
  BY ONLY <1>1, m \in Int, Zenon DEF Terminals
<1>. HIDE DEF T
<1>4. Cooks(T, d)
  BY <1>2, <1>3, Zenon DEF Cooks
<1>. QED BY <1>4, Zenon DEF T

LEMMA CooksSame ==
    ASSUME NEW S, NEW d, Cooks(S, d), NEW s, Fits(s, Chars), Ends(s) = Ends(S.secondary)
    PROVE  Cooks([S EXCEPT !.secondary = s], d)
<1>. DEFINE T == [S EXCEPT !.secondary = s]
<1>1. S \in Terminals /\ s \in Seq(Chars)
  BY Zenon DEF Cooks, Fits
<1>2. T.secondary = s /\ T.write_q = S.write_q /\ T.data = S.data
  BY ONLY <1>1, SMT DEF Terminals
<1>3. T \in Terminals
  BY ONLY <1>1, Zenon DEF Terminals
<1>. HIDE DEF T
<1>4. Cooks(T, d)
  BY <1>2, <1>3, Zenon DEF Cooks
<1>. QED BY <1>4, Zenon DEF T

(* Characters that stay in read_q, and the flag of an interrupt character. *)
LEMMA CooksRest ==
    ASSUME NEW S, NEW d, Cooks(S, d), NEW x \in Typed
    PROVE  Cooks([S EXCEPT !.rest = Append(@, x)], d) /\ Cooks([S EXCEPT !.intr = TRUE], d)
<1>1. PICK r : r = Append(S.rest, x)
  BY Zenon
<1>2. S \in Terminals /\ r \in Seq(Typed)
  BY <1>1, SMT DEF Cooks, Terminals
<1>. DEFINE T == [S EXCEPT !.rest = r]
            U == [S EXCEPT !.intr = TRUE]
<1>3. T.secondary = S.secondary /\ T.write_q = S.write_q /\ T.data = S.data
  BY ONLY <1>2, SMT DEF Terminals
<1>4. U.secondary = S.secondary /\ U.write_q = S.write_q /\ U.data = S.data
  BY ONLY <1>2, SMT DEF Terminals
<1>5. T \in Terminals /\ U \in Terminals
  BY ONLY <1>2, Zenon DEF Terminals
<1>6. [S EXCEPT !.rest = Append(@, x)] = T
  BY <1>1, Zenon
<1>. HIDE DEF T, U
<1>7. Cooks(T, d) /\ Cooks(U, d)
  BY <1>3, <1>4, <1>5, Zenon DEF Cooks
<1>. QED BY <1>6, <1>7, Zenon DEF U

(* Erasing a character changes neither the count nor the line ends.        *)
LEMMA EraseCooks ==
    ASSUME NEW S, NEW d, Cooks(S, d)
    PROVE  Cooks(Erase(S), d)
<1>1. CASE S.secondary = << >> \/ EndsLine(LAST(S.secondary))
  BY <1>1, Zenon DEF Erase
<1>2. CASE S.secondary # << >> /\ ~EndsLine(LAST(S.secondary))
  <2>1. PICK dels : dels = IF LAST(S.secondary) = "CTRL" THEN <<"del", "del">> ELSE <<"del">>
    BY Zenon
  <2>2. PICK T : T = IF Flag("ECHO") THEN Echo(S, dels) ELSE S
    BY Zenon
  <2>3. dels \in Echoes
    BY <2>1 DEF Echoes
  <2>4. Cooks(T, d) /\ T.secondary = S.secondary /\ T.data = S.data
    <3>1. /\ Cooks(Echo(S, dels), d)
          /\ Echo(S, dels).secondary = S.secondary /\ Echo(S, dels).data = S.data
      BY <2>3, EchoCooks, Zenon
    <3>. QED BY <2>2, <3>1, Zenon
  <2>5. Erase(S) = [T EXCEPT !.secondary = DEC(@)]
    BY <1>2, <2>1, <2>2, Zenon DEF Erase
  <2>6. PICK s : s = DEC(T.secondary)
    BY Zenon
  <2>7. /\ T \in Terminals /\ S.secondary \in Seq(Chars) /\ Len(S.secondary) <= TTY_BUF_SIZE - 1
        /\ T.data \in Int
    BY <2>4, SMT DEF Cooks, Terminals, Fits
  <2>8. s \in Seq(Chars) /\ Len(s) = Len(S.secondary) - 1 /\ Ends(s) = Ends(S.secondary)
    BY <1>2, <2>4, <2>6, <2>7, EndsDec, Zenon
  <2>9. Fits(s, Chars)
    BY ONLY <2>7, <2>8, Constants, SMT DEF Fits
  <2>10. Ends(s) = Ends(T.secondary)
    BY <2>4, <2>8, Zenon
  <2>11. Cooks([T EXCEPT !.secondary = s], d)
    BY <2>4, <2>9, <2>10, CooksSame, Zenon
  <2>. QED BY <2>5, <2>6, <2>11, Zenon
<1>. QED BY <1>1, <1>2, Zenon

(* Storing a line end adds one to both.                                    *)
LEMMA StoreCooks ==
    ASSUME NEW S, NEW d, d \in Int, Cooks(S, d), ~FULL(S.secondary), NEW x \in Typed
    PROVE  Cooks(Store(S, x), d)
<1>1. PICK T : T = IF Flag("ECHO") THEN Echo(S, EchoOf(x)) ELSE S
  BY Zenon
<1>2. EchoOf(x) \in Echoes
  BY DEF Echoes, EchoOf
<1>3. Cooks(T, d) /\ T.secondary = S.secondary /\ T.data = S.data
  <2>1. /\ Cooks(Echo(S, EchoOf(x)), d)
        /\ Echo(S, EchoOf(x)).secondary = S.secondary /\ Echo(S, EchoOf(x)).data = S.data
    BY <1>2, EchoCooks, Zenon
  <2>. QED BY <1>1, <2>1, Zenon
<1>4. PICK m, s : m = (IF EndsLine(x) THEN T.data + 1 ELSE T.data) /\ s = PUTCH(x, T.secondary)
  BY Zenon
<1>5. T \in Terminals /\ Fits(T.secondary, Chars) /\ T.data = Ends(T.secondary) + d /\ x \in Chars
  BY <1>3, Zenon DEF Cooks, Chars
<1>6. T.secondary \in Seq(Chars) /\ T.data \in Int
  BY <1>5, SMT DEF Terminals
<1>7. s = Append(T.secondary, x) /\ Fits(s, Chars)
  BY <1>3, <1>4, <1>5, PutFits, Zenon
<1>8. /\ Ends(s) = Ends(T.secondary) + (IF EndsLine(x) THEN 1 ELSE 0)
      /\ Ends(T.secondary) \in Nat
  BY <1>5, <1>6, <1>7, EndsAppend, EndsType, Zenon
<1>9. m \in Int /\ m = Ends(s) + d
  BY ONLY <1>4, <1>5, <1>6, <1>8, d \in Int, SMT
<1>10. Cooks([T EXCEPT !.data = m, !.secondary = s], d)
  BY <1>3, <1>7, <1>9, CooksOn, Zenon
<1>11. Store(S, x) = [T EXCEPT !.data = m, !.secondary = s]
  <2>1. Store(S, x) = [T EXCEPT !.data = IF EndsLine(x) THEN @ + 1 ELSE @,
                                !.secondary = PUTCH(x, @)]
    BY <1>1, Zenon DEF Store
  <2>. QED BY <1>4, <1>5, <2>1, SMT DEF Terminals
<1>. QED BY <1>10, <1>11, Zenon

LEMMA CookCooks ==
    ASSUME NEW S, NEW d, d \in Int, Cooks(S, d), NEW x \in Typed
    PROVE  Cooks(Cook(S, x), d)
<1>1. CASE FULL(S.secondary) \/ S.rest # << >>
  BY <1>1, CooksRest, Zenon DEF Cook
<1>2. CASE ~FULL(S.secondary) /\ S.rest = << >>
  <2>1. Cook(S, x) \in {Erase(S), S, [S EXCEPT !.intr = TRUE], Store(S, x)}
    BY <1>2, Zenon DEF Cook
  <2>2. Cooks(Erase(S), d) /\ Cooks([S EXCEPT !.intr = TRUE], d) /\ Cooks(Store(S, x), d)
    BY <1>2, EraseCooks, CooksRest, StoreCooks, Zenon
  <2>. QED BY <2>1, <2>2, Zenon
<1>. QED BY <1>1, <1>2, Zenon

(* The turns of the loop of copy_to_cooked.                                *)
Turns(C, k, S, w) == C = [j \in 0..k |-> IF j = 0 THEN S ELSE Cook(C[j - 1], w[j])]

LEMMA TurnsExist ==
    ASSUME NEW S, NEW w, NEW k \in Nat
    PROVE  \E C : Turns(C, k, S, w)
<1>. DEFINE M == {j \in Nat : ~\E C : Turns(C, j, S, w)}
<1>1. SUFFICES ASSUME M # {} PROVE FALSE
  BY Zenon
<1>2. PICK j \in M : \A i \in M : ~(i < j)
  BY <1>1, LeastIn, Zenon
<1>3. CASE j = 0
  <2>. DEFINE C == [i \in 0..0 |-> S]
  <2>1. C = [i \in 0..0 |-> IF i = 0 THEN S ELSE Cook(C[i - 1], w[i])]
    BY SMT
  <2>. QED BY <1>2, <1>3, <2>1, Zenon DEF Turns
<1>4. CASE j # 0
  <2>1. j - 1 \in Nat /\ j - 1 < j /\ j \in Nat
    BY <1>2, <1>4, SMT
  <2>2. PICK D : Turns(D, j - 1, S, w)
    BY <1>2, <2>1, Zenon
  <2>3. \A i \in 0..(j - 1) : D[i] = IF i = 0 THEN S ELSE Cook(D[i - 1], w[i])
    BY <2>2, Zenon DEF Turns
  <2>4. PICK y : y = Cook(D[j - 1], w[j])
    BY Zenon
  <2>. DEFINE C == [i \in 0..j |-> IF i = j THEN y ELSE D[i]]
  <2>5. ASSUME NEW i \in 0..j PROVE C[i] = IF i = 0 THEN S ELSE Cook(C[i - 1], w[i])
    <3>1. CASE i = j
      <4>1. C[i] = y /\ C[i - 1] = D[j - 1] /\ i # 0
        BY <1>4, <2>1, <3>1, SMT
      <4>. HIDE DEF C
      <4>. QED BY <2>4, <3>1, <4>1, Zenon
    <3>2. CASE i # j /\ i # 0
      <4>1. C[i] = D[i] /\ C[i - 1] = D[i - 1] /\ i \in 0..(j - 1)
        BY <1>4, <2>1, <3>2, SMT
      <4>. HIDE DEF C
      <4>. QED BY <2>3, <3>2, <4>1, Zenon
    <3>3. CASE i = 0
      <4>1. C[i] = D[0] /\ 0 \in 0..(j - 1)
        BY <1>4, <2>1, <3>3, SMT
      <4>. HIDE DEF C
      <4>. QED BY <2>3, <3>3, <4>1, Zenon
    <3>. QED BY <3>1, <3>2, <3>3, Zenon
  <2>6. C = [i \in 0..j |-> IF i = 0 THEN S ELSE Cook(C[i - 1], w[i])]
    BY <2>5, Zenon
  <2>. QED BY <1>2, <2>6, Zenon DEF Turns
<1>. QED BY <1>3, <1>4, Zenon

LEMMA CopyCooks ==
    ASSUME NEW S, NEW d, d \in Int, Cooks(S, d), NEW w \in Seq(Typed)
    PROVE  Cooks(copy_to_cooked(S, w), d)
<1>1. Len(w) \in Nat
  OBVIOUS
<1>2. PICK C : /\ Turns(C, Len(w), S, w) /\ copy_to_cooked(S, w) = C[Len(w)]
  <2>1. \E C : Turns(C, Len(w), S, w)
    BY <1>1, TurnsExist, Zenon
  <2>. QED BY <2>1, Zenon DEF copy_to_cooked, Turns
<1>. DEFINE M == {j \in 0..Len(w) : ~Cooks(C[j], d)}
<1>3. M = {}
  <2>1. SUFFICES ASSUME M # {} PROVE FALSE
    BY Zenon
  <2>2. M \in SUBSET Nat
    BY <1>1, SMT
  <2>3. PICK j \in M : \A i \in M : ~(i < j)
    BY <2>1, <2>2, LeastIn, Zenon
  <2>4. j \in 0..Len(w) /\ C[j] = IF j = 0 THEN S ELSE Cook(C[j - 1], w[j])
    BY <1>2, <2>3, Zenon DEF Turns
  <2>5. j # 0
    BY <2>3, <2>4, Zenon
  <2>6. j - 1 \in 0..Len(w) /\ j - 1 < j /\ w[j] \in Typed
    BY ONLY <1>1, <2>4, <2>5, w \in Seq(Typed), SMT
  <2>7. Cooks(C[j - 1], d)
    BY <2>3, <2>6, Zenon
  <2>8. Cooks(C[j], d)
    BY <2>4, <2>5, <2>6, <2>7, CookCooks, Zenon
  <2>. QED BY <2>3, <2>8, Zenon
<1>4. Len(w) \in 0..Len(w)
  BY <1>1, SMT
<1>. QED BY <1>2, <1>3, <1>4, Zenon
-----------------------------------------------------------------------------
LEMMA InitIInv == Init => IInv
<1>. SUFFICES ASSUME Init PROVE IInv
  OBVIOUS
<1>1. TypeOK
  <2>1. << >> \in Seq(Typed) /\ << >> \in Seq(STRING) /\ Fits(<< >>, Marks) /\ Fits(<< >>, Chars)
    BY Constants, SMT DEF Fits
  <2>2. "none" \in Marks /\ "user" \in Places /\ 0 \in Int /\ {} \in SUBSET Windows
    BY DEF Marks, Places
  <2>. QED BY <2>1, <2>2, Zenon DEF Init, TypeOK
<1>2. \A t \in Tasks : pc[t] = "user"
  BY Zenon DEF Init
<1>3. Alone
  BY <1>2 DEF Alone, Inside
<1>4. Exact
  <2>1. ~Owes
    BY <1>2 DEF Owes
  <2>2. data = Ends(secondary) + 0
    BY EndsEmpty, SMT DEF Init
  <2>. QED BY <1>2, <2>1, <2>2 DEF Exact
<1>. QED BY <1>1, <1>3, <1>4, Zenon DEF IInv

(* What Exact says of task t, if it is at p and nobody else is inside.     *)
Holds(t, p) ==
    /\ Counted => data = Ends(secondary) + (IF p \in {"load", "store"} THEN 1 ELSE 0)
    /\ p = "store" /\ Counted => n[t] = data
    /\ p = "getch" /\ "erase" \notin hit => secondary # << >>

LEMMA Before ==
    ASSUME IInv, NEW t \in Tasks, current \in {t, None}
    PROVE  Holds(t, pc[t])
<1>1. \A u \in Tasks : u # t => pc[u] \notin Inside
  BY Constants, Zenon DEF IInv, Alone
<1>2. Owes <=> pc[t] \in {"load", "store"}
  BY <1>1 DEF Owes, Inside
<1>3. Exact
  BY Zenon DEF IInv
<1>. QED BY <1>2, <1>3, Zenon DEF Exact, Holds

(* A step of t to p, out of the kernel or inside it.                       *)
Moves(t, p) ==
    /\ pc' = [pc EXCEPT ![t] = p] /\ p \in Places
    /\ current' \in {t, None} /\ (p \in Inside => current' = t)

Types ==
    /\ read_q \in Seq(Typed) /\ Fits(write_q, Marks) /\ Fits(secondary, Chars)
    /\ data \in Int /\ sending \in BOOLEAN /\ hit \in SUBSET Windows
    /\ b \in [Tasks -> Seq(STRING)] /\ c \in [Tasks -> Marks] /\ n \in [Tasks -> Int]

LEMMA StepKeeps ==
    ASSUME IInv, NEW t \in Tasks, current \in {t, None}, NEW p, Moves(t, p), Types',
           Holds(t, p)'
    PROVE  IInv'
<1>1. pc \in [Tasks -> Places] /\ Alone
  BY Zenon DEF IInv, TypeOK
<1>2. pc' = [pc EXCEPT ![t] = p] /\ p \in Places /\ current' \in {t, None} /\ (p \in Inside => current' = t)
  BY Zenon DEF Moves
<1>3. pc'[t] = p /\ \A u \in Tasks : u # t => pc'[u] = pc[u]
  BY <1>1, <1>2, Zenon
<1>4. pc' \in [Tasks -> Places] /\ current' \in Tasks \union {None}
  BY <1>1, <1>2, Zenon
<1>5. \A u \in Tasks : u # t => pc'[u] \notin Inside
  BY <1>1, <1>3, Constants, Zenon DEF Alone
<1>6. Alone'
  BY <1>2, <1>3, <1>5, Zenon DEF Alone
<1>7. TypeOK'
  BY <1>4, Zenon DEF TypeOK, Types
<1>8. Exact'
  <2>1. \A u \in Tasks : pc'[u] \in {"load", "store", "getch"} => u = t
    BY <1>5 DEF Inside
  <2>2. Owes' <=> p \in {"load", "store"}
    BY <1>3, <2>1 DEF Owes
  <2>3. Counted' => data' = Ends(secondary)' + (IF Owes' THEN 1 ELSE 0)
    BY <2>2, Zenon DEF Holds
  <2>4. ASSUME NEW u \in Tasks
        PROVE  /\ pc'[u] = "store" /\ Counted' => n'[u] = data'
               /\ pc'[u] = "getch" /\ "erase" \notin hit' => secondary' # << >>
    <3>1. CASE u = t
      BY <1>3, <3>1, Zenon DEF Holds
    <3>2. CASE u # t
      BY <2>1, <3>2
    <3>. QED BY <3>1, <3>2, Zenon
  <2>. QED BY <2>3, <2>4, Zenon DEF Exact
<1>. QED BY <1>6, <1>7, <1>8, Zenon DEF IInv

(* A step that leaves the queues alone, to a place that claims nothing.    *)
Quiet ==
    /\ UNCHANGED <<read_q, write_q, secondary, data>> /\ sending' \in BOOLEAN
    /\ hit' \in {hit, hit \union {"list"}}

Elsewhere == Places \ {"load", "store", "getch"}

LEMMA QuietKeeps ==
    ASSUME IInv, NEW t \in Tasks, current \in {t, None}, NEW p, Moves(t, p), Types', Quiet,
           pc[t] \in Elsewhere, p \in Elsewhere
    PROVE  IInv'
<1>1. Counted' => data' = Ends(secondary)' + 0
  <2>1. Counted => data = Ends(secondary) + 0
    BY Before DEF Holds, Elsewhere
  <2>2. Counted' => Counted
    BY Zenon DEF Quiet, Counted
  <2>. QED BY <2>1, <2>2, Zenon DEF Quiet, Ends
<1>2. Holds(t, p)'
  BY <1>1 DEF Holds, Elsewhere
<1>. QED BY <1>2, StepKeeps, Zenon
-----------------------------------------------------------------------------
LEMMA CallKeeps ==
    ASSUME IInv, NEW t \in Tasks, Call(t)
    PROVE  IInv'
<1>1. /\ current \in {t, None} /\ pc[t] = "user" /\ current' = t
      /\ UNCHANGED <<read_q, write_q, secondary, data, sending, c, n, hit>>
      /\ \/ pc' = [pc EXCEPT ![t] = "read"] /\ b' = b
         \/ pc' = [pc EXCEPT ![t] = "write"] /\ \E text \in Texts : b' = [b EXCEPT ![t] = text]
  BY Zenon DEF Call, queues
<1>2. Types'
  <2>1. b' \in [Tasks -> Seq(STRING)]
    BY <1>1, Constants, Zenon DEF IInv, TypeOK
  <2>. QED BY <1>1, <2>1, Zenon DEF IInv, TypeOK, Types, Fits
<1>3. Quiet
  BY <1>1, Zenon DEF Quiet, IInv, TypeOK
<1>4. {"user", "read", "write"} \subseteq Elsewhere
  BY DEF Elsewhere, Places
<1>5. PICK p \in {"read", "write"} : pc' = [pc EXCEPT ![t] = p]
  BY <1>1, Zenon
<1>6. Moves(t, p)
  BY <1>1, <1>5 DEF Moves, Places, Inside
<1>. QED BY <1>1, <1>2, <1>3, <1>4, <1>5, <1>6, QuietKeeps, Zenon

(* Nobody runs while another task is inside the kernel.                    *)
LEMMA RunsFree == ASSUME NEW t, Runs(t) PROVE current \in {t, None}
<1>. QED BY Zenon DEF Runs

LEMMA ReturnMoves == ASSUME NEW t, Return(t) PROVE Moves(t, "user")
<1>. QED BY DEF Return, Moves, Places, Inside

LEMMA GoOnMoves == ASSUME NEW t, NEW p \in Places, GoOn(t, p) PROVE Moves(t, p)
<1>. QED BY Zenon DEF GoOn, Moves

LEMMA SleepsMoves == ASSUME NEW t, NEW q \in {"secondary", "write_q"}, Sleeps(t, q) PROVE Moves(t, q)
<1>1. q \in Places /\ q \notin Inside
  BY DEF Places, Inside
<1>. QED BY <1>1, Zenon DEF Sleeps, Moves

(* A task that sleeps may hit a window of the list, and no other.          *)
LEMMA SleepsHits ==
    ASSUME IInv, NEW t, NEW q, Sleeps(t, q)
    PROVE  hit' \in {hit, hit \union {"list"}} /\ hit' \in SUBSET Windows
<1>1. hit' \in {hit, hit \union {"list"}}
  BY Zenon DEF Sleeps, Late
<1>2. hit \in SUBSET Windows
  BY Zenon DEF IInv, TypeOK
<1>. QED BY <1>1, <1>2, Zenon DEF Windows

LEMMA ReadKeeps ==
    ASSUME IInv, NEW t \in Tasks, tty_read(t)
    PROVE  IInv'
<1>1. /\ current \in {t, None} /\ pc[t] = "read"
      /\ UNCHANGED <<read_q, write_q, secondary, data, sending, b, c, n>>
      /\ \/ Sleeps(t, "secondary")
         \/ hit' = hit /\ (Return(t) \/ GoOn(t, "read") \/ (GoOn(t, "getch") /\ secondary # << >>))
  BY RunsFree, Zenon DEF tty_read, queues
<1>. hit' \in {hit, hit \union {"list"}} /\ hit' \in SUBSET Windows
  BY <1>1, SleepsHits, Zenon DEF IInv, TypeOK
<1>2. Types'
  BY <1>1, Zenon DEF IInv, TypeOK, Types, Fits
<1>3. Quiet
  BY <1>1, Zenon DEF Quiet, IInv, TypeOK
<1>4. {"user", "read", "secondary"} \subseteq Elsewhere /\ {"read", "getch"} \subseteq Places
  BY DEF Elsewhere, Places, Inside
<1>5. CASE Return(t) \/ Sleeps(t, "secondary") \/ GoOn(t, "read")
  <2>1. PICK p \in {"user", "read", "secondary"} : Moves(t, p)
    BY <1>4, <1>5, ReturnMoves, SleepsMoves, GoOnMoves, Zenon
  <2>. QED BY <1>1, <1>2, <1>3, <1>4, <2>1, QuietKeeps, Zenon
<1>6. CASE hit' = hit /\ GoOn(t, "getch") /\ secondary # << >>
  <2>1. Moves(t, "getch")
    BY <1>4, <1>6, GoOnMoves, Zenon
  <2>2. Holds(t, "getch")'
    <3>1. Holds(t, "read")
      BY <1>1, Before, Zenon
    <3>2. Counted' => data' = Ends(secondary)' + 0
      BY <1>1, <1>6, <3>1 DEF Holds, Ends, Counted
    <3>. QED BY <1>1, <1>6, <3>2 DEF Holds
  <2>. QED BY <1>1, <1>2, <2>1, <2>2, StepKeeps, Zenon
<1>. QED BY <1>1, <1>5, <1>6, Zenon

(* The end of a turn: the next one only if a character is left.            *)
LEMMA TurnMoves ==
    ASSUME IInv, NEW t \in Tasks, NEW x, NEW q, Turn(t, x, q)
    PROVE  /\ c' \in [Tasks -> Marks]
           /\ Moves(t, "user") \/ (Moves(t, "getch") /\ q # << >>)
<1>1. "none" \in Marks /\ "getch" \in Places
  BY DEF Marks, Places, Inside
<1>2. c' \in [Tasks -> Marks]
  BY <1>1, Zenon DEF Turn, IInv, TypeOK
<1>3. Return(t) \/ (GoOn(t, "getch") /\ q # << >>)
  BY Zenon DEF Turn
<1>. QED BY <1>1, <1>2, <1>3, ReturnMoves, GoOnMoves, Zenon

LEMMA LoadKeeps ==
    ASSUME IInv, NEW t \in Tasks, load(t)
    PROVE  IInv'
<1>1. /\ current \in {t, None} /\ pc[t] = "load" /\ n' = [n EXCEPT ![t] = data] /\ GoOn(t, "store")
      /\ UNCHANGED <<read_q, write_q, secondary, data, sending, b, c, hit>>
  BY RunsFree, Zenon DEF load, queues
<1>2. n \in [Tasks -> Int] /\ data \in Int
  BY Zenon DEF IInv, TypeOK
<1>3. n' \in [Tasks -> Int] /\ n'[t] = data
  BY <1>1, <1>2, Zenon
<1>4. Types'
  BY <1>1, <1>3, Zenon DEF IInv, TypeOK, Types, Fits
<1>5. Moves(t, "store")
  <2>1. "store" \in Places
    BY DEF Places, Inside
  <2>. QED BY <1>1, <2>1, GoOnMoves, Zenon
<1>6. Holds(t, "store")'
  <2>1. Holds(t, "load")
    BY <1>1, Before, Zenon
  <2>2. Counted' => data' = Ends(secondary)' + 1
    BY <1>1, <2>1 DEF Holds, Ends, Counted
  <2>. QED BY <1>1, <1>3, <2>2 DEF Holds
<1>. QED BY <1>1, <1>4, <1>5, <1>6, StepKeeps, Zenon

LEMMA StoreKeeps ==
    ASSUME IInv, NEW t \in Tasks, store(t)
    PROVE  IInv'
<1>1. /\ current \in {t, None} /\ pc[t] = "store" /\ data' = n[t] - 1 /\ n' = [n EXCEPT ![t] = 0]
      /\ Turn(t, c[t], secondary)
      /\ UNCHANGED <<read_q, write_q, secondary, sending, b, hit>>
  BY RunsFree, Zenon DEF store
<1>2. /\ c' \in [Tasks -> Marks]
      /\ Moves(t, "user") \/ (Moves(t, "getch") /\ secondary # << >>)
  BY <1>1, TurnMoves, Zenon
<1>3. data' \in Int /\ n' \in [Tasks -> Int]
  BY <1>1, SMT DEF IInv, TypeOK
<1>4. Types'
  BY <1>1, <1>2, <1>3, Zenon DEF IInv, TypeOK, Types, Fits
<1>5. ASSUME Counted' PROVE data' = Ends(secondary)' + 0
  <2>1. Holds(t, "store") /\ Counted
    BY <1>1, <1>5, Before, Zenon DEF Counted
  <2>2. data = Ends(secondary) + 1 /\ n[t] = data
    BY <2>1 DEF Holds
  <2>3. Ends(secondary) \in Nat
    BY EndsType, Zenon DEF IInv, TypeOK, Fits
  <2>4. Ends(secondary)' = Ends(secondary)
    BY <1>1, Zenon DEF Ends
  <2>. QED BY ONLY <1>1, <2>2, <2>3, <2>4, SMT
<1>6. Holds(t, "user")'
  BY <1>5 DEF Holds
<1>7. secondary # << >> => Holds(t, "getch")'
  BY <1>1, <1>5 DEF Holds
<1>. QED BY <1>1, <1>2, <1>4, <1>6, <1>7, StepKeeps, Zenon

LEMMA GetchKeeps ==
    ASSUME IInv, NEW t \in Tasks, getch(t)
    PROVE  IInv'
<1>1. PICK x, q : x = (IF secondary = << >> THEN "old" ELSE Head(secondary)) /\ q = GETCH(secondary)
  BY Zenon
<1>2. /\ current \in {t, None} /\ pc[t] = "getch" /\ secondary' = q
      /\ \/ EndsLine(x) /\ GoOn(t, "load") /\ c' = [c EXCEPT ![t] = x]
         \/ ~EndsLine(x) /\ Turn(t, x, q)
      /\ UNCHANGED <<read_q, write_q, data, sending, b, n, hit>>
  BY <1>1, RunsFree, Zenon DEF getch
<1>3. secondary \in Seq(Chars) /\ Len(secondary) <= TTY_BUF_SIZE - 1
  BY Zenon DEF IInv, TypeOK, Fits
<1>4. x \in Chars /\ x \in Marks
  <2>1. x \in Chars
    BY <1>1, <1>3 DEF Chars
  <2>. QED BY <2>1 DEF Marks
<1>5. Fits(q, Chars)
  <2>1. CASE secondary = << >>
    <3>1. q = [i \in 1..TTY_BUF_SIZE - 1 |-> "old"]
      BY <1>1, <2>1, Zenon DEF GETCH
    <3>2. PICK k \in Nat : k = TTY_BUF_SIZE - 1
      BY Constants, SMT
    <3>3. q \in [1..k -> Chars]
      BY <3>1, <3>2 DEF Chars
    <3>4. q \in Seq(Chars) /\ Len(q) = k
      BY <3>3, SMT
    <3>. QED BY ONLY <3>2, <3>4, Constants, SMT DEF Fits
  <2>2. CASE secondary # << >>
    <3>1. q = Tail(secondary)
      BY <1>1, <2>2, Zenon DEF GETCH
    <3>. QED BY ONLY <1>3, <2>2, <3>1, Constants, SMT DEF Fits
  <2>. QED BY <2>1, <2>2, Zenon
<1>6. /\ c' \in [Tasks -> Marks]
      /\ \/ EndsLine(x) /\ Moves(t, "load")
         \/ ~EndsLine(x) /\ Moves(t, "user")
         \/ ~EndsLine(x) /\ Moves(t, "getch") /\ q # << >>
  <2>1. CASE EndsLine(x) /\ GoOn(t, "load") /\ c' = [c EXCEPT ![t] = x]
    <3>1. "load" \in Places
      BY DEF Places, Inside
    <3>2. c' \in [Tasks -> Marks]
      BY <1>4, <2>1, Zenon DEF IInv, TypeOK
    <3>3. Moves(t, "load")
      BY <2>1, <3>1, GoOnMoves, Zenon
    <3>. QED BY <2>1, <3>2, <3>3, Zenon
  <2>2. CASE ~EndsLine(x) /\ Turn(t, x, q)
    BY <2>2, TurnMoves, Zenon
  <2>. QED BY <1>2, <2>1, <2>2, Zenon
<1>7. Types'
  BY <1>2, <1>5, <1>6, Zenon DEF IInv, TypeOK, Types, Fits
<1>8. ASSUME Counted' PROVE data' = Ends(secondary)' + (IF EndsLine(x) THEN 1 ELSE 0)
  <2>1. Holds(t, "getch") /\ Counted /\ "erase" \notin hit
    BY <1>2, <1>8, Before, Zenon DEF Counted
  <2>2. data = Ends(secondary) + 0 /\ secondary # << >>
    BY <2>1 DEF Holds
  <2>3. x = Head(secondary) /\ q = Tail(secondary)
    BY <1>1, <2>2, Zenon DEF GETCH
  <2>4. Ends(secondary) = Ends(q) + (IF EndsLine(x) THEN 1 ELSE 0)
    BY <1>3, <2>2, <2>3, EndsTail, Zenon
  <2>5. Ends(secondary) \in Nat
    BY <1>3, EndsType, Zenon
  <2>6. Ends(secondary)' = Ends(q)
    BY <1>2, Zenon DEF Ends
  <2>7. data = Ends(secondary)
    BY ONLY <2>2, <2>5, SMT
  <2>. QED BY <1>2, <2>4, <2>6, <2>7, Zenon
<1>9. /\ EndsLine(x) => Holds(t, "load")'
      /\ ~EndsLine(x) => Holds(t, "user")'
      /\ ~EndsLine(x) /\ q # << >> => Holds(t, "getch")'
  BY <1>2, <1>8 DEF Holds
<1>. QED BY <1>2, <1>6, <1>7, <1>9, StepKeeps, Zenon

LEMMA WriteKeeps ==
    ASSUME IInv, NEW t \in Tasks, tty_write(t)
    PROVE  IInv'
<1>1. /\ current \in {t, None} /\ pc[t] \in {"write", "write2"}
      /\ UNCHANGED <<read_q, write_q, secondary, data, sending, c, n>>
      /\ Sleeps(t, "write_q") \/ (hit' = hit /\ (Return(t) \/ GoOn(t, "fill")))
      /\ b' = b \/ b' = [b EXCEPT ![t] = << >>]
  BY RunsFree, Zenon DEF tty_write, queues
<1>. hit' \in {hit, hit \union {"list"}} /\ hit' \in SUBSET Windows
  BY <1>1, SleepsHits, Zenon DEF IInv, TypeOK
<1>2. Types'
  <2>1. << >> \in Seq(STRING)
    OBVIOUS
  <2>2. b' \in [Tasks -> Seq(STRING)]
    BY <1>1, <2>1, Zenon DEF IInv, TypeOK
  <2>. QED BY <1>1, <2>2, Zenon DEF IInv, TypeOK, Types, Fits
<1>3. Quiet
  BY <1>1, Zenon DEF Quiet, IInv, TypeOK
<1>4. {"user", "write", "write2", "write_q", "fill"} \subseteq Elsewhere /\ "fill" \in Places
  BY DEF Elsewhere, Places, Inside
<1>5. PICK p \in {"user", "write_q", "fill"} : Moves(t, p)
  BY <1>1, <1>4, ReturnMoves, SleepsMoves, GoOnMoves, Zenon
<1>6. p \in Elsewhere /\ pc[t] \in Elsewhere
  BY <1>1, <1>4, <1>5, Zenon
<1>. QED BY <1>1, <1>2, <1>3, <1>5, <1>6, QuietKeeps, Zenon

LEMMA FillKeeps ==
    ASSUME IInv, NEW t \in Tasks, fill(t)
    PROVE  IInv'
<1>1. /\ current \in {t, None} /\ pc[t] = "fill"
      /\ UNCHANGED <<read_q, write_q, secondary, data, n, hit>>
  BY RunsFree, Zenon DEF fill, queues
<1>2. /\ b \in [Tasks -> Seq(STRING)] /\ c \in [Tasks -> Marks] /\ sending \in BOOLEAN
      /\ b[t] \in Seq(STRING)
  BY Zenon DEF IInv, TypeOK
<1>3. {"user", "write", "fill"} \subseteq Elsewhere /\ {"write", "inc"} \subseteq Places /\ "write" \notin Inside
  BY DEF Elsewhere, Places, Inside
<1>4. CASE b[t] # << >> /\ Room
  <2>1. PICK x : x = Head(b[t])
    BY Zenon
  <2>2. /\ c' = [c EXCEPT ![t] = IF NeedsCR(x) THEN "CR" ELSE Post(x)]
        /\ b' = b \/ b' = [b EXCEPT ![t] = Tail(b[t])]
        /\ GoOn(t, "inc") /\ sending' = sending
    BY <1>4, <2>1, Zenon DEF fill
  <2>3. x \in STRING /\ Tail(b[t]) \in Seq(STRING)
    BY <1>2, <1>4, <2>1
  <2>4. Post(x) \in Marks /\ "CR" \in Marks
    BY <2>3 DEF Post, Marks
  <2>5. c' \in [Tasks -> Marks] /\ b' \in [Tasks -> Seq(STRING)]
    BY <1>2, <2>2, <2>3, <2>4, Zenon
  <2>6. Types'
    BY <1>1, <2>2, <2>5, Zenon DEF IInv, TypeOK, Types, Fits
  <2>7. Moves(t, "inc")
    BY <1>3, <2>2, GoOnMoves, Zenon
  <2>8. Holds(t, "inc")'
    <3>1. Holds(t, "fill")
      BY <1>1, Before, Zenon
    <3>2. Counted' => data' = Ends(secondary)' + 0
      BY <1>1, <3>1 DEF Holds, Ends, Counted
    <3>. QED BY <3>2 DEF Holds
  <2>. QED BY <1>1, <2>6, <2>7, <2>8, StepKeeps, Zenon
<1>5. CASE ~(b[t] # << >> /\ Room)
  <2>1. /\ sending' = Started /\ UNCHANGED <<b, c>>
        /\ Return(t) \/ (pc' = [pc EXCEPT ![t] = "write"] /\ current' = None)
    BY <1>5, Zenon DEF fill
  <2>2. Started \in BOOLEAN
    BY DEF Started
  <2>3. Types'
    BY <1>1, <2>1, <2>2, Zenon DEF IInv, TypeOK, Types, Fits
  <2>4. Quiet
    BY <1>1, <2>1, <2>2, Zenon DEF Quiet
  <2>5. Moves(t, "user") \/ Moves(t, "write")
    BY <1>3, <2>1, ReturnMoves, Zenon DEF Moves
  <2>6. pc[t] \in Elsewhere /\ "user" \in Elsewhere /\ "write" \in Elsewhere
    BY <1>1, <1>3, Zenon
  <2>. QED BY <1>1, <2>3, <2>4, <2>5, <2>6, QuietKeeps, Zenon
<1>. QED BY <1>4, <1>5, Zenon

LEMMA IncKeeps ==
    ASSUME IInv, NEW t \in Tasks, inc(t)
    PROVE  IInv'
<1>1. /\ current \in {t, None} /\ pc[t] = "inc" /\ write_q' = PUTCH(c[t], write_q)
      /\ c' = [c EXCEPT ![t] = "none"] /\ GoOn(t, "fill")
      /\ UNCHANGED <<read_q, secondary, data, sending, b, n, hit>>
  BY RunsFree, Zenon DEF inc
<1>2. c \in [Tasks -> Marks] /\ Fits(write_q, Marks) /\ c[t] \in Marks
  BY Zenon DEF IInv, TypeOK
<1>3. Fits(write_q', Marks)
  BY <1>1, <1>2, PutFits, Zenon
<1>4. c' \in [Tasks -> Marks]
  <2>1. "none" \in Marks
    BY DEF Marks
  <2>. QED BY <1>1, <1>2, <2>1, Zenon
<1>5. Types'
  BY <1>1, <1>3, <1>4, Zenon DEF IInv, TypeOK, Types, Fits
<1>6. Moves(t, "fill")
  <2>1. "fill" \in Places
    BY DEF Places, Inside
  <2>. QED BY <1>1, <2>1, GoOnMoves, Zenon
<1>7. Holds(t, "fill")'
  <2>1. Holds(t, "inc")
    BY <1>1, Before, Zenon
  <2>2. Counted' => data' = Ends(secondary)' + 0
    BY <1>1, <2>1 DEF Holds, Ends, Counted
  <2>. QED BY <2>2 DEF Holds
<1>. QED BY <1>1, <1>5, <1>6, <1>7, StepKeeps, Zenon

LEMMA SleepKeeps ==
    ASSUME IInv, NEW t \in Tasks, NEW q \in {"secondary", "write_q"}, interruptible_sleep_on(t, q)
    PROVE  IInv'
<1>1. /\ current \in {t, None} /\ pc[t] = q /\ current' \in {t, None}
      /\ pc' = pc \/ pc' = [pc EXCEPT ![t] = "read"] \/ pc' = [pc EXCEPT ![t] = "write2"]
      /\ hit' = hit \/ hit' = hit \union {"list"}
      /\ UNCHANGED <<read_q, write_q, secondary, data, sending, b, c, n>>
  BY RunsFree, Zenon DEF interruptible_sleep_on, Late, queues
<1>2. pc \in [Tasks -> Places] /\ hit \in SUBSET Windows
  BY Zenon DEF IInv, TypeOK
<1>3. \A p \in {"secondary", "write_q", "read", "write2"} : p \in Elsewhere /\ p \in Places /\ p \notin Inside
  BY DEF Elsewhere, Places, Inside
<1>4. PICK p \in {"secondary", "write_q", "read", "write2"} : pc' = [pc EXCEPT ![t] = p]
  <2>1. pc = [pc EXCEPT ![t] = q]
    BY <1>1, <1>2, Zenon
  <2>. QED BY <1>1, <2>1, Zenon
<1>5. Moves(t, p)
  BY <1>1, <1>3, <1>4, Zenon DEF Moves
<1>6. hit' \in SUBSET Windows
  BY <1>1, <1>2, Zenon DEF Windows
<1>7. Types'
  BY <1>1, <1>6, Zenon DEF IInv, TypeOK, Types, Fits
<1>8. Holds(t, p)'
  <2>1. q \in Elsewhere /\ p \in Elsewhere /\ (Counted' => Counted)
    BY <1>1, <1>3, <1>4, Zenon DEF Counted
  <2>2. Holds(t, q)
    BY <1>1, Before, Zenon
  <2>3. Counted' => data' = Ends(secondary)' + 0
    BY <1>1, <2>1, <2>2 DEF Holds, Ends, Elsewhere
  <2>. QED BY <2>1, <2>3 DEF Holds, Elsewhere
<1>. QED BY <1>1, <1>5, <1>7, <1>8, StepKeeps, Zenon
-----------------------------------------------------------------------------
(* An interrupt moves no task.  What it may break is what it reports.      *)
LEMMA LineKeeps ==
    ASSUME IInv, UNCHANGED <<pc, current, n>>, Types', hit \subseteq hit',
           data' = Ends(secondary)' + (data - Ends(secondary)),
           \A t \in Tasks : /\ pc[t] = "store" /\ Counted' => data' = data
                            /\ pc[t] = "getch" /\ "erase" \notin hit' => secondary' # << >>
    PROVE  IInv'
<1>1. TypeOK' /\ Alone'
  BY Zenon DEF IInv, TypeOK, Types, Alone
<1>2. /\ Exact /\ (Counted' => Counted) /\ (Owes' <=> Owes)
      /\ ("erase" \notin hit' => "erase" \notin hit)
  BY Zenon DEF IInv, Counted, Owes
<1>3. ASSUME Counted' PROVE data' = Ends(secondary)' + (IF Owes' THEN 1 ELSE 0)
  <2>1. data = Ends(secondary) + (IF Owes THEN 1 ELSE 0)
    BY <1>2, <1>3, Zenon DEF Exact
  <2>2. Ends(secondary) \in Nat
    BY EndsType, Zenon DEF IInv, TypeOK, Fits
  <2>3. PICK k \in Nat : k = (IF Owes THEN 1 ELSE 0)
    BY SMT
  <2>4. data - Ends(secondary) = k
    BY ONLY <2>1, <2>2, <2>3, SMT
  <2>. QED BY <1>2, <2>3, <2>4, Zenon
<1>4. ASSUME NEW t \in Tasks
      PROVE  /\ pc'[t] = "store" /\ Counted' => n'[t] = data'
             /\ pc'[t] = "getch" /\ "erase" \notin hit' => secondary' # << >>
  BY <1>2, Zenon DEF Exact
<1>5. Exact'
  BY <1>3, <1>4, Zenon DEF Exact
<1>. QED BY <1>1, <1>5, Zenon DEF IInv

LEMMA SendsKeeps ==
    ASSUME IInv, Sends
    PROVE  IInv'
<1>1. /\ write_q' = Sent
      /\ UNCHANGED <<read_q, secondary, data, sending, pc, current, b, c, n, hit>>
  BY Zenon DEF Sends
<1>2. write_q \in Seq(Marks) /\ Len(write_q) <= TTY_BUF_SIZE - 1
  BY Zenon DEF IInv, TypeOK, Fits
<1>3. Fits(write_q', Marks)
  <2>1. PICK x \in Marks : x = "old"
    BY Zenon DEF Marks
  <2>2. Sent = IF write_q = << >> \/ Len(write_q) = TTY_BUF_SIZE - 1 THEN << >> ELSE <<x>> \o write_q
    BY <2>1, Zenon DEF Sent, FULL
  <2>. QED BY ONLY <1>1, <1>2, <2>2, Constants, SMT DEF Fits
<1>4. sending' \in BOOLEAN
  BY <1>1, Zenon DEF IInv, TypeOK, Types
<1>5. Types'
  BY <1>1, <1>3, <1>4, Zenon DEF IInv, TypeOK, Types, Fits
<1>6. data' = Ends(secondary)' + (data - Ends(secondary))
  <2>1. Ends(secondary) \in Nat /\ data \in Int
    BY EndsType, Zenon DEF IInv, TypeOK, Fits
  <2>2. data = Ends(secondary) + (data - Ends(secondary))
    BY ONLY <2>1, SMT
  <2>3. Ends(secondary)' = Ends(secondary)
    BY <1>1, Zenon DEF Ends
  <2>. QED BY <1>1, <2>2, <2>3, Zenon
<1>7. \A t \in Tasks : pc[t] = "getch" /\ "erase" \notin hit' => secondary' # << >>
  BY <1>1, Zenon DEF IInv, Exact
<1>. QED BY <1>1, <1>3, <1>5, <1>6, <1>7, LineKeeps, Zenon

LEMMA InterruptKeeps ==
    ASSUME IInv, NEW x \in Typed, do_tty_interrupt(x)
    PROVE  IInv'
<1>1. PICK R, w, S :
        /\ R = [secondary |-> secondary, write_q |-> write_q, data |-> data,
                rest |-> << >>, intr |-> FALSE, sending |-> sending]
        /\ w = read_char(x)
        /\ S = copy_to_cooked(R, w)
  BY Zenon
<1>2. PICK g1, g2 :
        /\ g1 = (IF (\E t \in Tasks : pc[t] = "store") /\ S.data # data THEN {"data"} ELSE {})
        /\ g2 = (IF (\E t \in Tasks : pc[t] = "getch") /\ S.secondary = << >> THEN {"erase"} ELSE {})
  BY Zenon
<1>3. /\ read_q' = S.rest /\ write_q' = S.write_q /\ secondary' = S.secondary /\ data' = S.data
      /\ sending' = S.sending
      /\ hit' = hit \union g1 \union g2
      /\ UNCHANGED <<pc, current, b, c, n>>
  BY <1>1, <1>2, ZenonT(30) DEF do_tty_interrupt
<1>4. TypeOK
  BY Zenon DEF IInv
<1>5. PICK d \in Int : d = data - Ends(secondary)
  <2>1. Ends(secondary) \in Nat /\ data \in Int
    BY <1>4, EndsType, Zenon DEF TypeOK, Fits
  <2>. QED BY ONLY <2>1, SMT
<1>6. Cooks(R, d)
  <2>1. << >> \in Seq(Typed)
    OBVIOUS
  <2>2. R \in Terminals
    BY <1>1, <1>4, <2>1, Zenon DEF TypeOK, Fits, Terminals
  <2>3. R.secondary = secondary /\ R.write_q = write_q /\ R.data = data
    BY ONLY <1>1, SMT
  <2>4. data = Ends(secondary) + d
    <3>1. Ends(secondary) \in Nat /\ data \in Int
      BY <1>4, EndsType, Zenon DEF TypeOK, Fits
    <3>. QED BY ONLY <1>5, <3>1, SMT
  <2>. QED BY <1>4, <2>2, <2>3, <2>4, Zenon DEF Cooks, TypeOK
<1>7. w \in Seq(Typed)
  <2>1. read_q \in Seq(Typed)
    BY <1>4, Zenon DEF TypeOK
  <2>2. Append(read_q, x) \in Seq(Typed)
    BY <2>1
  <2>. QED BY <1>1, <2>1, <2>2, Zenon DEF read_char
<1>8. Cooks(S, d)
  BY <1>1, <1>6, <1>7, CopyCooks, Zenon
<1>9. /\ S.rest \in Seq(Typed) /\ Fits(S.write_q, Marks) /\ Fits(S.secondary, Chars)
      /\ S.data \in Int /\ S.sending \in BOOLEAN
      /\ S.data = Ends(S.secondary) + d
  <2>1. S \in Terminals
    BY <1>8, Zenon DEF Cooks
  <2>2. S.rest \in Seq(Typed) /\ S.data \in Int /\ S.sending \in BOOLEAN
    BY ONLY <2>1, Zenon DEF Terminals
  <2>. QED BY <1>8, <2>2, Zenon DEF Cooks
<1>10. hit' \in SUBSET Windows
  <2>1. g1 \in SUBSET Windows /\ g2 \in SUBSET Windows
    BY <1>2, Zenon DEF Windows
  <2>. QED BY <1>3, <1>4, <2>1, Zenon DEF TypeOK
<1>11. Types'
  BY <1>3, <1>4, <1>9, <1>10, Zenon DEF TypeOK, Types
<1>12. hit \subseteq hit' /\ data' = Ends(secondary)' + (data - Ends(secondary))
  <2>1. Ends(secondary)' = Ends(S.secondary)
    BY <1>3, Zenon DEF Ends
  <2>. QED BY <1>3, <1>5, <1>9, <2>1, Zenon
<1>13. ASSUME NEW t \in Tasks
       PROVE  /\ pc[t] = "store" /\ Counted' => data' = data
              /\ pc[t] = "getch" /\ "erase" \notin hit' => secondary' # << >>
  <2>1. CASE pc[t] = "store" /\ Counted'
    <3>1. "data" \notin g1
      BY <1>3, <2>1, Zenon DEF Counted
    <3>2. data' = data
      BY <1>2, <1>3, <2>1, <3>1, Zenon
    <3>. QED BY <2>1, <3>2
  <2>2. CASE pc[t] = "getch" /\ "erase" \notin hit'
    <3>1. secondary' # << >>
      BY <1>2, <1>3, <2>2, Zenon
    <3>. QED BY <2>2, <3>1
  <2>. QED BY <2>1, <2>2, Zenon
<1>. QED BY <1>3, <1>11, <1>12, <1>13, LineKeeps, Zenon

LEMMA NextKeeps == IInv /\ [Next]_vars => IInv'
<1>. SUFFICES ASSUME IInv, [Next]_vars PROVE IInv'
  OBVIOUS
<1>1. ASSUME NEW t \in Tasks, Step(t) PROVE IInv'
  BY <1>1, ReadKeeps, GetchKeeps, LoadKeeps, StoreKeeps, WriteKeeps, FillKeeps, IncKeeps, SleepKeeps,
     Zenon DEF Step
<1>2. CASE Next
  BY <1>1, <1>2, InterruptKeeps, SendsKeeps, CallKeeps, Zenon DEF Next
<1>3. CASE UNCHANGED vars
  <2>1. UNCHANGED <<pc, current, read_q, write_q, secondary, data, sending, b, c, n, hit>>
    BY <1>3, Zenon DEF vars, queues, task
  <2>2. TypeOK' /\ Alone'
    BY <2>1, Zenon DEF IInv, TypeOK, Fits, Alone
  <2>3. Exact => Exact'
    BY <2>1, Zenon DEF Exact, Owes, Ends, FULL, Counted
  <2>. QED BY <2>1, <2>2, <2>3, Zenon DEF IInv
<1>. QED BY <1>2, <1>3, Zenon

(* The inductive invariant of the terminal, the bounds of its queues       *)
(* included: no interrupt and no task ever leaves more in secondary or     *)
(* write_q than TTY_BUF_SIZE - 1 characters, and between two accesses of a *)
(* task to a queue no other task runs.                                     *)
THEOREM Invariance == Spec => []IInv
<1>. QED BY InitIInv, NextKeeps, PTL DEF Spec

(* secondary.data counts the line ends in the queue, with the one that the *)
(* reader inside tty_read has taken and not yet subtracted, until an       *)
(* interrupt of copy_to_cooked comes between the load and the store of     *)
(* secondary.data--, or erases what the reader has just tested for.        *)
THEOREM LineCount == Spec => []DataExact
<1>1. IInv => DataExact
  <2>. SUFFICES ASSUME IInv, Counted
                PROVE  data = Ends(secondary) + Cardinality({t \in Tasks : pc[t] \in {"load", "store"}})
    BY Zenon DEF DataExact, Counted
  <2>. DEFINE O == {t \in Tasks : pc[t] \in {"load", "store"}}
  <2>1. Exact /\ Alone
    BY Zenon DEF IInv
  <2>2. CASE Owes
    <3>1. PICK t \in Tasks : pc[t] \in {"load", "store"}
      BY <2>2, Zenon DEF Owes
    <3>2. {"load", "store"} \subseteq Inside
      BY DEF Inside
    <3>3. O = {t}
      BY <2>1, <3>1, <3>2, Zenon DEF Alone
    <3>4. Cardinality(O) = 1
      BY <3>3, FS_Singleton, Zenon
    <3>. QED BY <2>1, <2>2, <3>4, Zenon DEF Exact
  <2>3. CASE ~Owes
    <3>1. O = {}
      BY <2>3, Zenon DEF Owes
    <3>2. Cardinality(O) = 0
      BY <3>1, FS_EmptySet, Zenon
    <3>. QED BY <2>1, <2>3, <3>2, Zenon DEF Exact
  <2>. QED BY <2>2, <2>3, Zenon
<1>. QED BY <1>1, Invariance, PTL
=============================================================================
