-------------------------- MODULE QueryRunsProofs ---------------------------
(***************************************************************************)
(* Proofs about RawResults and QueryRuns, for any number of users and      *)
(* requests, any cap, any text of commands and any limit.                  *)
(*                                                                         *)
(* First the loop over the results of a connection: it returns what it     *)
(* promises.  The loop is a fold over a flattened sequence.  Both are      *)
(* unfolded to the recursive functions of the library and compared, prefix *)
(* by prefix, with what has been read: induction over the natural numbers  *)
(* comes from the least element of a set of numbers (Least, AllNumbers).   *)
(* A text is cut at the command where reading ends, because it fails or    *)
(* reaches the limit: what lies before is read whole, what lies behind     *)
(* stays unread.                                                           *)
(*                                                                         *)
(* Then the log: which rows a trimming chooses, and how many rows it keeps *)
(* (RowIds, CapInv).  Then what a request answers and writes: every result *)
(* is that of its own statement, the row of the request tells what was     *)
(* answered, every state is well typed, and the counters of the server are *)
(* exact.                                                                  *)
(***************************************************************************)
EXTENDS QueryRuns, FiniteSetTheorems, SequenceTheorems, WellFoundedInduction, TLAPS

-----------------------------------------------------------------------------
(* Induction.                                                              *)

LEMMA Least ==
    ASSUME NEW T \in SUBSET Nat, T # {}
    PROVE  \E n \in T : \A m \in T : n <= m
<1>1. PICK n \in T : \A m \in T : ~(<<m, n>> \in OpToRel(<, Nat))
    <2>1. T \subseteq Nat OBVIOUS
    <2>2. QED BY <2>1, WFMin, NatLessThanWellFounded, Zenon
<1>2. \A m \in T : ~(m < n) BY <1>1, Zenon DEF OpToRel
<1>3. QED BY <1>2

\* A set of numbers with zero and with the successor of each member holds all numbers.
LEMMA AllNumbers ==
    ASSUME NEW T, 0 \in T, \A n \in Nat : n \in T => n + 1 \in T
    PROVE  Nat \subseteq T
<1> DEFINE Missing == Nat \ T
<1>1. SUFFICES ASSUME Missing # {} PROVE FALSE OBVIOUS
<1>2. PICK n \in Missing : \A m \in Missing : n <= m BY <1>1, Least
<1>3. n # 0 /\ n - 1 \in Nat BY <1>2
<1>4. n - 1 \in T BY <1>2, <1>3
<1>5. QED BY <1>2, <1>3, <1>4

LEMMA Cut ==
    ASSUME NEW A, NEW s \in Seq(A), NEW k \in Nat, k < Len(s)
    PROVE  \E t, u \in Seq(A) :
               /\ s = t \o u /\ Len(t) = k /\ u # <<>>
               /\ \A i \in 1..k : t[i] = s[i]
<1> DEFINE n == Len(s)
           t == SubSeq(s, 1, k)
           u == SubSeq(s, k + 1, n)
<1>1. /\ n \in Nat /\ k < n /\ k \in Int /\ n \in Int /\ 1 \in Int /\ k + 1 \in Int
      /\ \A i \in 1..n : s[i] \in A
    OBVIOUS
<1>2. 1 \in 1..(n + 1) /\ k \in (1 - 1)..n /\ n \in k..n BY <1>1
<1>3. t \o u = s
    <2>1. t \o u = SubSeq(s, 1, n) BY <1>2, ConcatAdjacentSubSeq
    <2>2. QED BY <2>1, SubSeqFull
<1>4. t \in Seq(A) /\ Len(t) = k /\ \A i \in 1..k : t[i] = s[i]
    <2>1. \A i \in 1..k : s[i] \in A BY <1>1
    <2>2. /\ t \in Seq(A) /\ Len(t) = IF 1 <= k THEN k - 1 + 1 ELSE 0
          /\ \A i \in 1..(k - 1 + 1) : t[i] = s[1 + i - 1]
        BY <1>1, <2>1, SubSeqProperties
    <2> HIDE DEF t
    <2>3. QED BY <2>2
<1>5. u \in Seq(A) /\ Len(u) = n - k
    <2>1. \A i \in (k + 1)..n : s[i] \in A BY <1>1
    <2>2. u \in Seq(A) /\ Len(u) = IF k + 1 <= n THEN n - (k + 1) + 1 ELSE 0
        BY <1>1, <2>1, SubSeqProperties
    <2> HIDE DEF u
    <2>3. QED BY <1>1, <2>2
<1> HIDE DEF t, u, n
<1>6. u # <<>>
    <2>1. n - k > 0 /\ Len(<<>>) = 0 BY <1>1
    <2>2. QED BY <1>5, <2>1
<1>7. QED BY <1>3, <1>4, <1>5, <1>6

-----------------------------------------------------------------------------
(* The loop                                                                *)

\* What is read after the answers of s, from `read' on.
Loop(read, s, limit) ==
    LET Turn(r, answer) == GetResult(r, answer, limit) IN FoldLeft(Turn, read, s)

\* The function that the fold of the library computes with: S is a set of places of s.
Reads(it, read, s, limit, P) ==
    it = [S \in SUBSET P |-> IF S = {} THEN read
                             ELSE GetResult(it[S \ {Max(S)}], s[Max(S)], limit)]

LEMMA MaxOfPlaces ==
    ASSUME NEW n \in Nat, NEW S \in SUBSET (1..n), S # {}
    PROVE  Max(S) \in S /\ \A m \in S : m <= Max(S)
<1> DEFINE T == {k \in Nat : \E m \in S : k = n - m}
<1>1. T # {} /\ T \in SUBSET Nat
    <2>1. PICK m \in S : TRUE OBVIOUS
    <2>2. m \in 1..n /\ n - m \in Nat OBVIOUS
    <2>3. n - m \in T BY <2>1, <2>2
    <2>4. QED BY <2>3
<1>2. PICK k \in T : \A m \in T : k <= m BY <1>1, Least
<1>3. PICK x \in S : k = n - x BY <1>2
<1>4. \A m \in S : x >= m BY <1>2, <1>3
<1>5. QED BY <1>3, <1>4 DEF Max

LEMMA ReadsExist ==
    ASSUME NEW read, NEW s, NEW limit, NEW n \in Nat
    PROVE  \E it : Reads(it, read, s, limit, 1..n)
<1> DEFINE T == {k \in Nat : \E it : Reads(it, read, s, limit, 1..k)}
<1>1. 0 \in T
    <2>1. 1..0 = {} OBVIOUS
    <2>2. Reads([S \in SUBSET {} |-> read], read, s, limit, {})
        BY DEF Reads
    <2>3. QED BY <2>1, <2>2
<1>2. ASSUME NEW k \in Nat, k \in T PROVE k + 1 \in T
    <2>1. PICK it : Reads(it, read, s, limit, 1..k) BY <1>2
    <2> DEFINE jt == [S \in SUBSET (1..(k + 1)) |->
                        IF S = {} THEN read
                        ELSE GetResult(it[S \ {Max(S)}], s[Max(S)], limit)]
    <2>2. ASSUME NEW S \in SUBSET (1..(k + 1)), S # {}
          PROVE  S \ {Max(S)} \in SUBSET (1..k)
        <3>1. k + 1 \in Nat OBVIOUS
        <3>2. Max(S) \in S /\ \A m \in S : m <= Max(S) BY <2>2, <3>1, MaxOfPlaces
        <3>3. ASSUME NEW m \in S \ {Max(S)} PROVE m \in 1..k
            <4>1. m \in 1..(k + 1) /\ Max(S) \in 1..(k + 1) BY <3>2
            <4>2. m <= Max(S) /\ m # Max(S) BY <3>2
            <4>3. QED BY <4>1, <4>2
        <3>4. QED BY <3>3
    <2>3. ASSUME NEW S \in SUBSET (1..k) PROVE jt[S] = it[S]
        <3>1. S \in SUBSET (1..(k + 1))
            <4>1. 1..k \subseteq 1..(k + 1) OBVIOUS
            <4>2. QED BY <4>1
        <3>2. QED BY <2>1, <3>1 DEF Reads
    <2>4. ASSUME NEW S \in SUBSET (1..(k + 1)), S # {}
          PROVE  jt[S] = GetResult(jt[S \ {Max(S)}], s[Max(S)], limit)
        BY <2>2, <2>3, <2>4
    <2>5. jt = [S \in SUBSET (1..(k + 1)) |->
                        IF S = {} THEN read
                        ELSE GetResult(jt[S \ {Max(S)}], s[Max(S)], limit)]
        BY <2>4
    <2>6. Reads(jt, read, s, limit, 1..(k + 1)) BY <2>5 DEF Reads
    <2>7. QED BY <2>6
<1>3. QED BY <1>1, <1>2, AllNumbers

\* What is read after each prefix of s.
ReadUpTo(g, read, s, limit) ==
    /\ g[0] = read
    /\ \A k \in 1..Len(s) : g[k] = GetResult(g[k - 1], s[k], limit)

LEMMA LoopReads ==
    ASSUME NEW A, NEW s \in Seq(A), NEW read, NEW limit
    PROVE  \E g : ReadUpTo(g, read, s, limit) /\ g[Len(s)] = Loop(read, s, limit)
<1> DEFINE n == Len(s)
           it == CHOOSE it : Reads(it, read, s, limit, 1..n)
           g == [k \in 0..n |-> it[1..k]]
<1>1. n \in Nat /\ DOMAIN s = 1..n OBVIOUS
<1>2. Reads(it, read, s, limit, 1..n) BY <1>1, ReadsExist
<1>3. Loop(read, s, limit) = it[1..n]
    BY <1>1 DEF Loop, FoldLeft, MapThenFoldSet, Reads
<1> HIDE DEF it
<1>4. ASSUME NEW k \in 1..n
      PROVE  it[1..k] = GetResult(it[1..(k - 1)], s[k], limit)
    <2>1. 1..k \in SUBSET (1..n) /\ 1..k # {} /\ k \in 1..k
        <3>1. k \in Nat /\ 1 <= k /\ k <= n BY <1>1
        <3>2. \A j \in 1..k : j \in 1..n BY <1>1, <3>1
        <3>3. k \in 1..k BY <3>1
        <3>4. 1..k \subseteq 1..n BY <3>2
        <3>5. QED BY <3>3, <3>4
    <2>2. Max(1..k) = k
        <3>1. Max(1..k) \in 1..k /\ \A m \in 1..k : m <= Max(1..k)
            BY <1>1, <2>1, MaxOfPlaces
        <3>2. QED BY <1>1, <2>1, <3>1
    <2>3. (1..k) \ {k} = 1..(k - 1) BY <1>1
    <2>4. QED BY <1>2, <2>1, <2>2, <2>3 DEF Reads
<1>5. it[1..0] = read
    <2>1. 1..0 = {} /\ {} \in SUBSET (1..n) OBVIOUS
    <2>2. QED BY <1>2, <2>1 DEF Reads
<1>6. ReadUpTo(g, read, s, limit) BY <1>1, <1>4, <1>5 DEF ReadUpTo
<1>7. g[n] = it[1..n] BY <1>1
<1>8. QED BY <1>3, <1>6, <1>7

LEMMA SameReads ==
    ASSUME NEW g, NEW h, NEW read, NEW s, NEW t, NEW limit, NEW n \in Nat,
           ReadUpTo(g, read, s, limit), ReadUpTo(h, read, t, limit),
           Len(s) \in Nat, Len(t) \in Nat, n <= Len(s), n <= Len(t),
           \A k \in 1..n : s[k] = t[k]
    PROVE  g[n] = h[n]
<1> DEFINE T == {k \in Nat : k <= n => g[k] = h[k]}
<1>1. 0 \in T BY DEF ReadUpTo
<1>2. ASSUME NEW k \in Nat, k \in T PROVE k + 1 \in T
    <2>1. CASE k + 1 <= n
        <3>1. g[k] = h[k] BY <1>2, <2>1
        <3>2. k + 1 \in 1..n /\ k + 1 \in 1..Len(s) /\ k + 1 \in 1..Len(t) /\ (k + 1) - 1 = k
            BY <2>1
        <3>3. g[k + 1] = GetResult(g[k], s[k + 1], limit)
            BY <3>2 DEF ReadUpTo
        <3>4. h[k + 1] = GetResult(h[k], t[k + 1], limit)
            BY <3>2 DEF ReadUpTo
        <3>5. QED BY <3>1, <3>2, <3>3, <3>4
    <2>2. QED BY <2>1
<1>3. n \in T BY <1>1, <1>2, AllNumbers
<1>4. QED BY <1>3

LEMMA LoopEmpty ==
    ASSUME NEW read, NEW limit
    PROVE  Loop(read, <<>>, limit) = read
<1>1. <<>> \in Seq({}) /\ Len(<<>>) = 0 OBVIOUS
<1>2. PICK g : ReadUpTo(g, read, <<>>, limit) /\ g[0] = Loop(read, <<>>, limit)
    BY <1>1, LoopReads
<1>3. QED BY <1>2 DEF ReadUpTo

LEMMA LoopAppend ==
    ASSUME NEW A, NEW s \in Seq(A), NEW e \in A, NEW read, NEW limit
    PROVE  Loop(read, Append(s, e), limit) = GetResult(Loop(read, s, limit), e, limit)
<1> DEFINE t == Append(s, e)
           n == Len(s)
<1>1. /\ t \in Seq(A) /\ n \in Nat /\ Len(t) = n + 1
      /\ t[n + 1] = e /\ \A k \in 1..n : s[k] = t[k]
    OBVIOUS
<1> HIDE DEF t, n
<1>2. PICK g : ReadUpTo(g, read, s, limit) /\ g[n] = Loop(read, s, limit)
    BY LoopReads DEF n
<1>3. PICK h : ReadUpTo(h, read, t, limit) /\ h[n + 1] = Loop(read, t, limit)
    BY <1>1, LoopReads
<1>4. g[n] = h[n]
    <2>1. Len(s) = n /\ n <= Len(s) /\ n <= Len(t) /\ Len(s) \in Nat /\ Len(t) \in Nat
        BY <1>1 DEF n
    <2>2. QED BY <1>1, <1>2, <1>3, <2>1, SameReads
<1>5. h[n + 1] = GetResult(h[n], t[n + 1], limit)
    <2>1. n + 1 \in 1..Len(t) /\ (n + 1) - 1 = n BY <1>1
    <2>2. QED BY <1>3, <2>1 DEF ReadUpTo
<1>6. QED BY <1>1, <1>2, <1>3, <1>4, <1>5 DEF t

LEMMA LoopConcat ==
    ASSUME NEW A, NEW s \in Seq(A), NEW t \in Seq(A), NEW read, NEW limit
    PROVE  Loop(read, s \o t, limit) = Loop(Loop(read, s, limit), t, limit)
<1> DEFINE T == {n \in Nat : \A u \in Seq(A) : Len(u) = n =>
                     Loop(read, s \o u, limit) = Loop(Loop(read, s, limit), u, limit)}
<1>1. 0 \in T
    <2>1. ASSUME NEW u \in Seq(A), Len(u) = 0 PROVE u = <<>> /\ s \o u = s
        BY <2>1
    <2>2. QED BY <2>1, LoopEmpty
<1>2. ASSUME NEW n \in Nat, n \in T PROVE n + 1 \in T
    <2>1. SUFFICES ASSUME NEW u \in Seq(A), Len(u) = n + 1
                   PROVE  Loop(read, s \o u, limit) = Loop(Loop(read, s, limit), u, limit)
        OBVIOUS
    <2> DEFINE v == SubSeq(u, 1, n)
               e == u[n + 1]
    <2>2. v \in Seq(A) /\ Len(v) = n /\ e \in A /\ u = Append(v, e) BY <2>1
    <2> HIDE DEF v, e
    <2>3. s \o u = Append(s \o v, e) /\ s \o v \in Seq(A) BY <2>2
    <2>4. Loop(read, s \o v, limit) = Loop(Loop(read, s, limit), v, limit) BY <1>2, <2>2
    <2>5. Loop(read, s \o u, limit) = GetResult(Loop(read, s \o v, limit), e, limit)
        <3>1. PICK w : w = s \o v OBVIOUS
        <3>2. w \in Seq(A) /\ e \in A BY <2>2, <2>3, <3>1
        <3>3. Loop(read, Append(w, e), limit) = GetResult(Loop(read, w, limit), e, limit)
            BY <3>2, LoopAppend
        <3>4. QED BY <2>3, <3>1, <3>3
    <2>6. Loop(Loop(read, s, limit), u, limit)
              = GetResult(Loop(Loop(read, s, limit), v, limit), e, limit)
        BY <2>2, LoopAppend
    <2>7. QED BY <2>4, <2>5, <2>6
<1> HIDE DEF T
<1>3. Nat \subseteq T BY <1>1, <1>2, AllNumbers
<1>4. Len(t) \in Nat OBVIOUS
<1>5. QED BY <1>3, <1>4 DEF T

-----------------------------------------------------------------------------
(* The answers of one command                                              *)

Command == Nat \cup {Fail}

\* The results of the connection.
Reply == [row : {NoRow} \cup (Nat \X Nat), error : BOOLEAN]

\* What has been read when the commands before c have been answered whole, and j rows of c.
Part(text, c, j) ==
    [results |-> [k \in 1..c |-> IF k < c THEN RowsOf(k, text[k]) ELSE RowsOf(c, j)],
     error |-> FALSE, unread |-> FALSE]

\* ... and no more will be read.
CutOff(text, c, j) == [Part(text, c, j) EXCEPT !.unread = TRUE]

Rows(c, n) == [k \in 1..n |-> Answer(Row(c, k), FALSE)]

LEMMA PartShape ==
    ASSUME NEW text, NEW c \in Nat \ {0}, NEW j \in Nat
    PROVE  /\ Part(text, c, j).error = FALSE /\ Part(text, c, j).unread = FALSE
           /\ Len(Part(text, c, j).results) = c
           /\ Last(Part(text, c, j).results) = RowsOf(c, j)
           /\ Len(Last(Part(text, c, j).results)) = j
<1>1. Part(text, c, j).results =
          [k \in 1..c |-> IF k < c THEN RowsOf(k, text[k]) ELSE RowsOf(c, j)]
    BY DEF Part
<1>2. Len(Part(text, c, j).results) = c BY <1>1
<1>3. Last(Part(text, c, j).results) = RowsOf(c, j) BY <1>1, <1>2 DEF Last
<1>4. Len(RowsOf(c, j)) = j BY DEF RowsOf
<1>5. Len(Last(Part(text, c, j).results)) = j BY <1>3, <1>4
<1>6. QED BY <1>2, <1>3, <1>5 DEF Part

\* A row is put into the last list.
LEMMA RowRead ==
    ASSUME NEW text, NEW c \in Nat \ {0}, NEW j \in Nat, NEW limit \in Nat, j < limit
    PROVE  GetResult(Part(text, c, j), Answer(Row(c, j + 1), FALSE), limit) = Part(text, c, j + 1)
<1> DEFINE p == Part(text, c, j)
           a == Answer(Row(c, j + 1), FALSE)
<1>1. a.row = <<c, j + 1>> /\ a.error = FALSE /\ a.row # NoRow
    BY DEF Answer, Row, NoRow
<1>2. ~(p.unread \/ Len(Last(p.results)) >= limit)
    <2>1. p.unread = FALSE /\ Len(Last(p.results)) = j BY PartShape, Zenon
    <2>2. QED BY <2>1
<1>3. GetResult(p, a, limit) =
          [p EXCEPT !.results = [p.results EXCEPT ![Len(p.results)] = Append(@, a.row)]]
    BY <1>1, <1>2 DEF GetResult, Opens
<1>5. p.results = [k \in 1..c |-> IF k < c THEN RowsOf(k, text[k]) ELSE RowsOf(c, j)]
    BY DEF Part
<1>4. Len(p.results) = c BY <1>5
<1>6. Append(RowsOf(c, j), <<c, j + 1>>) = RowsOf(c, j + 1)
    BY DEF RowsOf, Row
<1>7. [p.results EXCEPT ![c] = Append(@, <<c, j + 1>>)] =
          [k \in 1..c |-> IF k < c THEN RowsOf(k, text[k]) ELSE RowsOf(c, j + 1)]
    <2>1. c \in 1..c /\ p.results[c] = RowsOf(c, j) BY <1>5
    <2>2. [p.results EXCEPT ![c] = Append(@, <<c, j + 1>>)] =
              [p.results EXCEPT ![c] = RowsOf(c, j + 1)]
        BY <1>6, <2>1
    <2>3. [p.results EXCEPT ![c] = RowsOf(c, j + 1)] =
              [k \in 1..c |-> IF k < c THEN RowsOf(k, text[k]) ELSE RowsOf(c, j + 1)]
        BY <1>5
    <2>4. QED BY <2>2, <2>3
<1>8. QED BY <1>1, <1>3, <1>4, <1>7 DEF Part

\* The end of a command opens the list of the next one.
LEMMA EndRead ==
    ASSUME NEW text, NEW c \in Nat \ {0}, NEW limit \in Nat, text[c] \in Nat, text[c] < limit
    PROVE  GetResult(Part(text, c, text[c]), Answer(NoRow, FALSE), limit) = Part(text, c + 1, 0)
<1> DEFINE p == Part(text, c, text[c])
           a == Answer(NoRow, FALSE)
<1>1. a.row = NoRow /\ a.error = FALSE BY DEF Answer
<1>2. ~(p.unread \/ Len(Last(p.results)) >= limit)
    <2>1. PICK j \in Nat : j = text[c] OBVIOUS
    <2>2. /\ Part(text, c, j).unread = FALSE
          /\ Len(Last(Part(text, c, j).results)) = j
        BY PartShape, Zenon
    <2>3. QED BY <2>1, <2>2
<1>3. GetResult(p, a, limit) = [p EXCEPT !.results = Append(p.results, <<>>)]
    BY <1>1, <1>2 DEF GetResult, Opens
<1>4. p.results = [k \in 1..c |-> IF k < c THEN RowsOf(k, text[k]) ELSE RowsOf(c, text[c])]
    BY DEF Part
<1>5. RowsOf(c + 1, 0) = <<>> BY DEF RowsOf
<1>6. Append(p.results, <<>>) =
          [k \in 1..(c + 1) |-> IF k < c + 1 THEN RowsOf(k, text[k]) ELSE RowsOf(c + 1, 0)]
    BY <1>4, <1>5
<1>7. QED BY <1>3, <1>6 DEF Part

\* A failure too, and is remembered.
LEMMA FailureRead ==
    ASSUME NEW text, NEW c \in Nat \ {0}, NEW limit \in Nat \ {0}
    PROVE  /\ GetResult(Part(text, c, 0), Answer(NoRow, TRUE), limit).error = TRUE
           /\ GetResult(Part(text, c, 0), Answer(NoRow, TRUE), limit).unread = FALSE
<1> DEFINE p == Part(text, c, 0)
           a == Answer(NoRow, TRUE)
<1>1. a.row = NoRow /\ a.error = TRUE BY DEF Answer
<1>2. ~(p.unread \/ Len(Last(p.results)) >= limit)
    <2>1. 0 \in Nat OBVIOUS
    <2>2. p.unread = FALSE /\ Len(Last(p.results)) = 0 BY <2>1, PartShape, Zenon
    <2>3. QED BY <2>2
<1>3. GetResult(p, a, limit) = [p EXCEPT !.results = Append(p.results, <<>>), !.error = TRUE]
    BY <1>1, <1>2 DEF GetResult, Opens
<1>4. QED BY <1>3 DEF Part

\* After the limit nothing is read any more.
LEMMA RestUnread ==
    ASSUME NEW A, NEW s \in Seq(A), s # <<>>, NEW text, NEW c \in Nat \ {0},
           NEW limit \in Nat, NEW j \in Nat, j >= limit
    PROVE  Loop(Part(text, c, j), s, limit) = CutOff(text, c, j)
<1> DEFINE p == Part(text, c, j)
           q == [p EXCEPT !.unread = TRUE]
           n == Len(s)
<1>1. PICK g : ReadUpTo(g, p, s, limit) /\ g[n] = Loop(p, s, limit) BY LoopReads
<1>2. n \in Nat \ {0} OBVIOUS
<1>3. p.unread \/ Len(Last(p.results)) >= limit BY PartShape
<1>4. \A a : GetResult(p, a, limit) = q BY <1>3 DEF GetResult
<1>5. q.unread BY DEF Part
<1>6. [q EXCEPT !.unread = TRUE] = q BY DEF Part
<1>7. \A a : GetResult(q, a, limit) = q BY <1>5, <1>6 DEF GetResult
<1> HIDE DEF p, q, n
<1> DEFINE T == {k \in Nat : k + 1 <= n => g[k + 1] = q}
<1>8. 0 \in T
    <2>1. g[1] = GetResult(g[0], s[1], limit) BY <1>1, <1>2 DEF ReadUpTo, n
    <2>2. QED BY <1>1, <1>4, <2>1 DEF ReadUpTo
<1>9. ASSUME NEW k \in Nat, k \in T PROVE k + 1 \in T
    <2>1. SUFFICES ASSUME (k + 1) + 1 <= n PROVE g[(k + 1) + 1] = q OBVIOUS
    <2>2. g[k + 1] = q BY <1>2, <1>9, <2>1
    <2>3. (k + 1) + 1 \in 1..Len(s) /\ ((k + 1) + 1) - 1 = k + 1 BY <1>2, <2>1 DEF n
    <2>4. g[(k + 1) + 1] = GetResult(g[k + 1], s[(k + 1) + 1], limit)
        BY <1>1, <2>3 DEF ReadUpTo
    <2>5. QED BY <1>7, <2>2, <2>4
<1> HIDE DEF T
<1>10. Nat \subseteq T BY <1>8, <1>9, AllNumbers
<1>11. n - 1 \in T /\ (n - 1) + 1 = n BY <1>2, <1>10
<1>12. g[n] = q BY <1>11, <1>2 DEF T
<1>13. QED BY <1>1, <1>12 DEF p, q, CutOff

\* ... whatever else is on the wire.
LEMMA UnreadStays ==
    ASSUME NEW A, NEW s \in Seq(A), NEW limit,
           NEW read, read.unread, [read EXCEPT !.unread = TRUE] = read
    PROVE  Loop(read, s, limit) = read
<1> DEFINE n == Len(s)
<1>1. PICK g : ReadUpTo(g, read, s, limit) /\ g[n] = Loop(read, s, limit) BY LoopReads
<1>2. \A a : GetResult(read, a, limit) = read BY DEF GetResult
<1>3. n \in Nat OBVIOUS
<1> HIDE DEF n
<1> DEFINE T == {k \in Nat : k <= n => g[k] = read}
<1>4. 0 \in T BY <1>1 DEF ReadUpTo
<1>5. ASSUME NEW k \in Nat, k \in T PROVE k + 1 \in T
    <2>1. SUFFICES ASSUME k + 1 <= n PROVE g[k + 1] = read OBVIOUS
    <2>2. g[k] = read BY <1>3, <1>5, <2>1
    <2>3. k + 1 \in 1..Len(s) /\ (k + 1) - 1 = k BY <1>3, <2>1 DEF n
    <2>4. g[k + 1] = GetResult(g[k], s[k + 1], limit) BY <1>1, <2>3 DEF ReadUpTo
    <2>5. QED BY <1>2, <2>2, <2>4
<1> HIDE DEF T
<1>6. Nat \subseteq T BY <1>4, <1>5, AllNumbers
<1>7. g[n] = read BY <1>3, <1>6 DEF T
<1>8. QED BY <1>1, <1>7

LEMMA RowIsReply ==
    ASSUME NEW c \in Nat, NEW k \in Nat
    PROVE  Answer(Row(c, k), FALSE) \in Reply
BY DEF Answer, Row, Reply

LEMMA RowsType ==
    ASSUME NEW c \in Nat, NEW n \in Nat
    PROVE  Rows(c, n) \in Seq(Reply) /\ Len(Rows(c, n)) = n
<1>1. PICK g \in [1..n -> Reply] : g = Rows(c, n)
    <2>1. ASSUME NEW k \in 1..n PROVE Answer(Row(c, k), FALSE) \in Reply
        <3>1. k \in Nat OBVIOUS
        <3>2. QED BY <3>1, RowIsReply, Zenon
    <2>2. QED BY <2>1, Zenon DEF Rows
<1>2. g \in Seq(Reply) /\ Len(g) = n OBVIOUS
<1>3. QED BY <1>1, <1>2

LEMMA EndsAreReplies == Answer(NoRow, FALSE) \in Reply /\ Answer(NoRow, TRUE) \in Reply
BY DEF Answer, Reply

LEMMA RowsGrow ==
    ASSUME NEW c \in Nat, NEW n \in Nat
    PROVE  Rows(c, n + 1) = Append(Rows(c, n), Answer(Row(c, n + 1), FALSE))
<1>1. PICK e \in Reply : e = Answer(Row(c, n + 1), FALSE)
    <2>1. n + 1 \in Nat OBVIOUS
    <2>2. QED BY <2>1, RowIsReply, Zenon
<1>2. PICK s \in Seq(Reply) : s = Rows(c, n) /\ Len(s) = n BY RowsType, Zenon
<1>3. PICK t \in Seq(Reply) : t = Rows(c, n + 1) /\ Len(t) = n + 1
    <2>1. n + 1 \in Nat OBVIOUS
    <2>2. QED BY <2>1, RowsType, Zenon
<1>4. \A k \in 1..n : s[k] = t[k]
    <2>1. \A k \in 1..n : k \in 1..(n + 1) OBVIOUS
    <2>2. \A k \in 1..(n + 1) : t[k] = Answer(Row(c, k), FALSE) BY <1>3, Zenon DEF Rows
    <2>3. \A k \in 1..n : s[k] = Answer(Row(c, k), FALSE) BY <1>2, Zenon DEF Rows
    <2>4. QED BY <2>1, <2>2, <2>3, Zenon
<1>5. t[n + 1] = e
    <2>1. n + 1 \in 1..(n + 1) OBVIOUS
    <2>2. QED BY <1>1, <1>3, <2>1, Zenon DEF Rows
<1>6. t = Append(s, e) BY <1>2, <1>3, <1>4, <1>5
<1>7. QED BY <1>1, <1>2, <1>3, <1>6

LEMMA RowsRead ==
    ASSUME NEW text, NEW c \in Nat \ {0}, NEW limit \in Nat, NEW n \in Nat, n <= limit
    PROVE  Loop(Part(text, c, 0), Rows(c, n), limit) = Part(text, c, n)
<1> DEFINE T == {k \in Nat : k <= limit =>
                     Loop(Part(text, c, 0), Rows(c, k), limit) = Part(text, c, k)}
<1>1. 0 \in T
    <2>1. Rows(c, 0) = <<>> BY DEF Rows
    <2>2. QED BY <2>1, LoopEmpty
<1>2. ASSUME NEW k \in Nat, k \in T PROVE k + 1 \in T
    <2>1. SUFFICES ASSUME k + 1 <= limit
                   PROVE  Loop(Part(text, c, 0), Rows(c, k + 1), limit) = Part(text, c, k + 1)
        OBVIOUS
    <2>2. PICK s \in Seq(Reply) : s = Rows(c, k) /\ Len(s) = k BY RowsType, Zenon
    <2>3. PICK e \in Reply : e = Answer(Row(c, k + 1), FALSE)
        <3>1. k + 1 \in Nat OBVIOUS
        <3>2. QED BY <3>1, RowIsReply, Zenon
    <2>4. Rows(c, k + 1) = Append(s, e) BY <2>2, <2>3, RowsGrow
    <2>5. Loop(Part(text, c, 0), Append(s, e), limit)
              = GetResult(Loop(Part(text, c, 0), s, limit), e, limit)
        BY LoopAppend
    <2>6. Loop(Part(text, c, 0), s, limit) = Part(text, c, k) BY <1>2, <2>1, <2>2
    <2>7. k < limit BY <2>1
    <2>8. GetResult(Part(text, c, k), e, limit) = Part(text, c, k + 1) BY <2>3, <2>7, RowRead
    <2>9. QED BY <2>4, <2>5, <2>6, <2>8
<1> HIDE DEF T
<1>3. Nat \subseteq T BY <1>1, <1>2, AllNumbers
<1>4. QED BY <1>3 DEF T

LEMMA StreamType ==
    ASSUME NEW c \in Nat, NEW n \in Command
    PROVE  Stream(c, n) \in Seq(Reply)
<1>1. CASE n = Fail
    <2>1. PICK e \in Reply : e = Answer(NoRow, TRUE) BY EndsAreReplies
    <2>2. Stream(c, n) = <<e>> BY <1>1, <2>1 DEF Stream
    <2>3. QED BY <2>2
<1>2. CASE n # Fail
    <2>1. n \in Nat BY <1>2 DEF Command
    <2>2. PICK s \in Seq(Reply) : s = Rows(c, n) BY <2>1, RowsType
    <2>3. PICK e \in Reply : e = Answer(NoRow, FALSE) BY EndsAreReplies
    <2>4. Stream(c, n) = Append(s, e) BY <1>2, <2>2, <2>3 DEF Stream, Rows
    <2>5. QED BY <2>4
<1>3. QED BY <1>1, <1>2

LEMMA StreamRead ==
    ASSUME NEW text, NEW c \in Nat \ {0}, NEW limit \in Nat, text[c] \in Nat, text[c] < limit
    PROVE  Loop(Part(text, c, 0), Stream(c, text[c]), limit) = Part(text, c + 1, 0)
<1>1. PICK n \in Nat : n = text[c] OBVIOUS
<1>2. PICK s \in Seq(Reply) : s = Rows(c, n) BY RowsType
<1>3. PICK e \in Reply : e = Answer(NoRow, FALSE) BY EndsAreReplies
<1>4. n # Fail BY RawResultsAssumption
<1>5. Stream(c, n) = Append(s, e) BY <1>2, <1>3, <1>4 DEF Stream, Rows
<1>6. Loop(Part(text, c, 0), s, limit) = Part(text, c, n) BY <1>1, <1>2, RowsRead
<1>7. Loop(Part(text, c, 0), Append(s, e), limit)
          = GetResult(Loop(Part(text, c, 0), s, limit), e, limit)
    BY LoopAppend
<1>8. QED BY <1>1, <1>3, <1>5, <1>6, <1>7, EndRead

LEMMA StreamCut ==
    ASSUME NEW text, NEW c \in Nat \ {0}, NEW limit \in Nat, text[c] \in Nat, text[c] >= limit
    PROVE  Loop(Part(text, c, 0), Stream(c, text[c]), limit)
               = CutOff(text, c, limit)
<1>1. PICK n \in Nat : n = text[c] OBVIOUS
<1>2. PICK s \in Seq(Reply) : s = Stream(c, n) BY StreamType DEF Command
<1>3. n # Fail BY RawResultsAssumption
<1>4. Rows(c, n) \in Seq(Reply) /\ Len(Rows(c, n)) = n BY RowsType
<1>5. s = Append(Rows(c, n), Answer(NoRow, FALSE)) BY <1>2, <1>3 DEF Stream, Rows
<1>6. Len(s) = n + 1 /\ \A k \in 1..n : s[k] = Rows(c, n)[k]
    <2>1. PICK w \in Seq(Reply) : w = Rows(c, n) /\ Len(w) = n BY <1>4
    <2>2. PICK e \in Reply : e = Answer(NoRow, FALSE) BY EndsAreReplies
    <2>3. s = Append(w, e) BY <1>5, <2>1, <2>2
    <2>4. Len(s) = n + 1 /\ \A k \in 1..n : s[k] = w[k] BY <2>1, <2>3
    <2>5. QED BY <2>1, <2>4
<1>7. n >= limit /\ limit < Len(s) BY <1>1, <1>6
<1>8. PICK first, rest \in Seq(Reply) :
          /\ s = first \o rest /\ Len(first) = limit /\ rest # <<>>
          /\ \A k \in 1..limit : first[k] = s[k]
    BY <1>7, Cut
<1>9. first = Rows(c, limit)
    <2>1. \A k \in 1..limit : k \in 1..n BY <1>1, <1>7
    <2>2. \A k \in 1..limit : first[k] = Answer(Row(c, k), FALSE)
        BY <1>6, <1>8, <2>1 DEF Rows
    <2>3. first = [k \in 1..limit |-> first[k]] BY <1>8
    <2>4. QED BY <2>2, <2>3 DEF Rows
<1>10. Loop(Part(text, c, 0), s, limit) = Loop(Loop(Part(text, c, 0), first, limit), rest, limit)
    BY <1>8, LoopConcat
<1>11. PICK j \in Nat : j = limit OBVIOUS
<1>12. j <= limit /\ j >= limit BY <1>11
<1>13. Loop(Part(text, c, 0), Rows(c, j), limit) = Part(text, c, j) BY <1>12, RowsRead
<1>14. Loop(Part(text, c, j), rest, limit) = CutOff(text, c, j)
    BY <1>8, <1>12, RestUnread
<1>15. QED BY <1>1, <1>2, <1>9, <1>10, <1>11, <1>13, <1>14

LEMMA StreamFails ==
    ASSUME NEW text, NEW c \in Nat \ {0}, NEW limit \in Nat \ {0}
    PROVE  /\ Loop(Part(text, c, 0), Stream(c, Fail), limit).error = TRUE
           /\ Loop(Part(text, c, 0), Stream(c, Fail), limit).unread = FALSE
<1>1. PICK e \in Reply : e = Answer(NoRow, TRUE) BY EndsAreReplies
<1>2. Stream(c, Fail) = Append(<<>>, e) BY <1>1 DEF Stream
<1>3. PICK t \in Seq(Reply) : t = <<>>
    <2>1. <<>> \in Seq(Reply) OBVIOUS
    <2>2. QED BY <2>1, Zenon
<1>4. PICK p : p = Part(text, c, 0) OBVIOUS
<1>5. Loop(p, Append(t, e), limit) = GetResult(Loop(p, t, limit), e, limit) BY LoopAppend
<1>6. Loop(p, t, limit) = p BY <1>3, LoopEmpty
<1>7. Loop(p, Stream(c, Fail), limit) = GetResult(p, e, limit) BY <1>2, <1>3, <1>5, <1>6
<1>8. GetResult(p, e, limit).error = TRUE /\ GetResult(p, e, limit).unread = FALSE
    BY <1>1, <1>4, FailureRead, Zenon
<1>9. QED BY <1>4, <1>7, <1>8

-----------------------------------------------------------------------------
(* The answers of a text                                                   *)

\* What is on the wire up to the end of each command of run.
Wired(f, run) ==
    /\ f \in [1..Len(run) -> Seq(Reply)]
    /\ f[1] = Stream(1, run[1])
    /\ \A i \in 1..Len(run) : i # 1 => f[i] = f[i - 1] \o Stream(i, run[i])

\* The function that FlattenSeq computes with.
Flat(f, seqs, n) ==
    f = [i \in 1..n |-> IF i = 1 THEN seqs[i] ELSE f[i - 1] \o seqs[i]]

LEMMA FlatExists ==
    ASSUME NEW seqs, NEW n \in Nat
    PROVE  \E f : Flat(f, seqs, n)
<1> DEFINE T == {k \in Nat : \E f : Flat(f, seqs, k)}
<1>1. 0 \in T
    <2>1. Flat([i \in 1..0 |-> 0], seqs, 0) BY DEF Flat
    <2>2. QED BY <2>1
<1>2. ASSUME NEW k \in Nat, k \in T PROVE k + 1 \in T
    <2>1. PICK f : Flat(f, seqs, k) BY <1>2
    <2> DEFINE g == [i \in 1..(k + 1) |-> IF i = 1 THEN seqs[i] ELSE f[i - 1] \o seqs[i]]
    <2>2. ASSUME NEW i \in 1..(k + 1), i # 1 PROVE g[i - 1] = f[i - 1]
        <3>1. i - 1 \in 1..k /\ i - 1 \in 1..(k + 1) BY <2>2
        <3>2. QED BY <2>1, <3>1 DEF Flat
    <2>3. g = [i \in 1..(k + 1) |-> IF i = 1 THEN seqs[i] ELSE g[i - 1] \o seqs[i]]
        BY <2>2
    <2> HIDE DEF g
    <2>4. Flat(g, seqs, k + 1) BY <2>3, Zenon DEF Flat
    <2>5. QED BY <2>4
<1> HIDE DEF T
<1>3. Nat \subseteq T BY <1>1, <1>2, AllNumbers
<1>4. QED BY <1>3 DEF T

LEMMA WireOf ==
    ASSUME NEW run \in Seq(Command), run # <<>>
    PROVE  \E f : /\ Wired(f, run)
                  /\ FlattenSeq([c \in DOMAIN run |-> Stream(c, run[c])]) = f[Len(run)]
<1> DEFINE n == Len(run)
           seqs == [c \in 1..n |-> Stream(c, run[c])]
           f == CHOOSE f : Flat(f, seqs, n)
<1>1. n \in Nat \ {0} /\ DOMAIN run = 1..n OBVIOUS
<1>2. seqs \in Seq(Seq(Reply)) /\ Len(seqs) = n
    <2>1. ASSUME NEW c \in 1..n PROVE Stream(c, run[c]) \in Seq(Reply)
        <3>1. PICK m \in Command : m = run[c] OBVIOUS
        <3>2. c \in Nat BY <1>1
        <3>3. QED BY <3>1, <3>2, StreamType, Zenon
    <2>2. PICK g \in [1..n -> Seq(Reply)] : g = seqs BY <2>1, Zenon
    <2>3. g \in Seq(Seq(Reply)) /\ Len(g) = n BY <1>1
    <2>4. QED BY <2>2, <2>3
<1> HIDE DEF n
<1>3. Flat(f, seqs, n) BY <1>1, FlatExists
<1>4. FlattenSeq(seqs) = f[n] BY <1>1, <1>2 DEF FlattenSeq, Flat
<1>5. f = [i \in 1..n |-> IF i = 1 THEN seqs[i] ELSE f[i - 1] \o seqs[i]]
    BY <1>3 DEF Flat
<1> HIDE DEF f
<1>6. \A i \in 1..n : seqs[i] = Stream(i, run[i]) /\ seqs[i] \in Seq(Reply)
    BY <1>1, <1>2
<1> HIDE DEF seqs
<1>7. f[1] = Stream(1, run[1]) /\ f[1] \in Seq(Reply)
    <2>1. 1 \in 1..n BY <1>1
    <2>2. QED BY <1>5, <1>6, <2>1
<1>8. ASSUME NEW i \in 1..n, i # 1 PROVE f[i] = f[i - 1] \o Stream(i, run[i])
    BY <1>5, <1>6, <1>8
<1> DEFINE T == {k \in Nat : k + 1 <= n => f[k + 1] \in Seq(Reply)}
<1>9. 0 \in T BY <1>7
<1>10. ASSUME NEW k \in Nat, k \in T PROVE k + 1 \in T
    <2>1. SUFFICES ASSUME (k + 1) + 1 <= n PROVE f[(k + 1) + 1] \in Seq(Reply)
        OBVIOUS
    <2>2. PICK s \in Seq(Reply) : s = f[k + 1] BY <1>1, <1>10, <2>1
    <2>3. PICK i \in 1..n : i = (k + 1) + 1 BY <1>1, <2>1
    <2>4. PICK t \in Seq(Reply) : t = Stream(i, run[i]) BY <1>6
    <2>5. i # 1 /\ i - 1 = k + 1 BY <2>3
    <2>6. f[i] = s \o t BY <1>8, <2>2, <2>4, <2>5
    <2>7. QED BY <2>3, <2>6
<1> HIDE DEF T
<1>11. Nat \subseteq T BY <1>9, <1>10, AllNumbers
<1>12. ASSUME NEW i \in 1..n PROVE f[i] \in Seq(Reply)
    <2>1. PICK k \in Nat : k + 1 = i /\ k + 1 <= n
        <3>1. i - 1 \in Nat /\ (i - 1) + 1 = i /\ (i - 1) + 1 <= n BY <1>1
        <3>2. QED BY <3>1
    <2>2. k \in T BY <1>11
    <2>3. QED BY <2>1, <2>2 DEF T
<1>13. DOMAIN f = 1..n BY <1>5
<1>14. f \in [1..n -> Seq(Reply)]
    <2>1. f = [i \in 1..n |-> f[i]] BY <1>5
    <2>2. QED BY <1>12, <2>1, Zenon
<1>15. Wired(f, run) BY <1>7, <1>8, <1>14 DEF Wired, n
<1>16. QED BY <1>1, <1>4, <1>15 DEF seqs, n

\* The loop reaches the answers of command d when no command before it stops it.
LEMMA ReadTo ==
    ASSUME NEW run \in Seq(Command), NEW f, Wired(f, run), NEW limit \in Nat,
           NEW d \in 1..Len(run), \A i \in 1..(d - 1) : run[i] \in Nat /\ run[i] < limit
    PROVE  Loop(Part(run, 1, 0), f[d], limit) = Loop(Part(run, d, 0), Stream(d, run[d]), limit)
<1> DEFINE n == Len(run)
           T == {k \in Nat : k + 1 <= d =>
                    Loop(Part(run, 1, 0), f[k + 1], limit)
                        = Loop(Part(run, k + 1, 0), Stream(k + 1, run[k + 1]), limit)}
<1>1. n \in Nat /\ d <= n /\ d \in Nat \ {0} OBVIOUS
<1> HIDE DEF n
<1>2. 0 \in T
    <2>1. f[1] = Stream(1, run[1]) BY DEF Wired
    <2>2. 0 + 1 = 1 OBVIOUS
    <2>3. QED BY <2>1, <2>2
<1>3. ASSUME NEW k \in Nat, k \in T PROVE k + 1 \in T
    <2>1. SUFFICES ASSUME (k + 1) + 1 <= d
                   PROVE  Loop(Part(run, 1, 0), f[(k + 1) + 1], limit)
                              = Loop(Part(run, (k + 1) + 1, 0),
                                     Stream((k + 1) + 1, run[(k + 1) + 1]), limit)
        OBVIOUS
    <2>2. PICK i \in Nat \ {0} : i = k + 1 /\ i <= d - 1 /\ i + 1 <= d BY <1>1, <2>1
    <2>3. run[i] \in Nat /\ run[i] < limit
        <3>1. i \in 1..(d - 1) BY <1>1, <2>2
        <3>2. QED BY <3>1
    <2>4. Loop(Part(run, 1, 0), f[i], limit) = Loop(Part(run, i, 0), Stream(i, run[i]), limit)
        <3>1. k + 1 <= d BY <2>2
        <3>2. QED BY <1>3, <2>2, <3>1
    <2>5. Loop(Part(run, i, 0), Stream(i, run[i]), limit) = Part(run, i + 1, 0)
        BY <2>3, StreamRead
    <2>6. i + 1 \in 1..n /\ i + 1 # 1 /\ (i + 1) - 1 = i /\ i \in 1..n BY <1>1, <2>2
    <2>7. f[i + 1] = f[i] \o Stream(i + 1, run[i + 1])
        BY <2>6 DEF Wired, n
    <2>8. PICK s \in Seq(Reply) : s = f[i] BY <2>6 DEF Wired, n
    <2>9. PICK t \in Seq(Reply) : t = Stream(i + 1, run[i + 1])
        <3>1. PICK m \in Command : m = run[i + 1] BY <2>6 DEF n
        <3>2. i + 1 \in Nat OBVIOUS
        <3>3. QED BY <3>1, <3>2, StreamType, Zenon
    <2>10. Loop(Part(run, 1, 0), s \o t, limit) = Loop(Loop(Part(run, 1, 0), s, limit), t, limit)
        BY LoopConcat
    <2>11. QED BY <2>2, <2>4, <2>5, <2>7, <2>8, <2>9, <2>10
<1> HIDE DEF T
<1>4. Nat \subseteq T BY <1>2, <1>3, AllNumbers
<1>5. PICK k \in Nat : k + 1 = d
    <2>1. d - 1 \in Nat /\ (d - 1) + 1 = d BY <1>1
    <2>2. QED BY <2>1
<1>6. k \in T /\ k + 1 <= d BY <1>1, <1>4, <1>5
<1>7. QED BY <1>5, <1>6 DEF T

\* A command that reaches the limit is the last one that is read.
LEMMA NothingReadAfter ==
    ASSUME NEW run \in Seq(Command), NEW f, Wired(f, run), NEW limit \in Nat,
           NEW d \in 1..Len(run), \A i \in 1..(d - 1) : run[i] \in Nat /\ run[i] < limit,
           run[d] \in Nat, run[d] >= limit
    PROVE  Loop(Part(run, 1, 0), f[Len(run)], limit) = CutOff(run, d, limit)
<1> DEFINE n == Len(run)
           T == {k \in Nat : d + k <= n =>
                    Loop(Part(run, 1, 0), f[d + k], limit) = CutOff(run, d, limit)}
<1>1. n \in Nat /\ d <= n /\ d \in Nat \ {0} OBVIOUS
<1>2. Loop(Part(run, 1, 0), f[d], limit) = CutOff(run, d, limit)
    <2>1. Loop(Part(run, 1, 0), f[d], limit) = Loop(Part(run, d, 0), Stream(d, run[d]), limit)
        BY ReadTo
    <2>2. Loop(Part(run, d, 0), Stream(d, run[d]), limit) = CutOff(run, d, limit)
        BY <1>1, StreamCut
    <2>3. QED BY <2>1, <2>2
<1>3. CutOff(run, d, limit).unread = TRUE
      /\ [CutOff(run, d, limit) EXCEPT !.unread = TRUE] = CutOff(run, d, limit)
    BY DEF CutOff, Part
<1> HIDE DEF n
<1>4. 0 \in T
    <2>1. d + 0 = d BY <1>1
    <2>2. QED BY <1>2, <2>1
<1>5. ASSUME NEW k \in Nat, k \in T PROVE k + 1 \in T
    <2>1. SUFFICES ASSUME d + (k + 1) <= n
                   PROVE  Loop(Part(run, 1, 0), f[d + (k + 1)], limit) = CutOff(run, d, limit)
        OBVIOUS
    <2>2. PICK i \in 1..n : i = d + k /\ i + 1 <= n /\ i + 1 = d + (k + 1) BY <1>1, <2>1
    <2>3. Loop(Part(run, 1, 0), f[i], limit) = CutOff(run, d, limit)
        <3>1. d + k <= n BY <1>1, <2>2
        <3>2. QED BY <1>5, <2>2, <3>1
    <2>4. i + 1 \in 1..n /\ i + 1 # 1 /\ (i + 1) - 1 = i BY <1>1, <2>2
    <2>5. f[i + 1] = f[i] \o Stream(i + 1, run[i + 1])
        BY <2>4 DEF Wired, n
    <2>6. PICK s \in Seq(Reply) : s = f[i] BY DEF Wired, n
    <2>7. PICK t \in Seq(Reply) : t = Stream(i + 1, run[i + 1])
        <3>1. PICK m \in Command : m = run[i + 1] BY <2>4 DEF n
        <3>2. i + 1 \in Nat BY <1>1
        <3>3. QED BY <3>1, <3>2, StreamType, Zenon
    <2>8. Loop(Part(run, 1, 0), s \o t, limit) = Loop(Loop(Part(run, 1, 0), s, limit), t, limit)
        BY LoopConcat
    <2>9. Loop(CutOff(run, d, limit), t, limit) = CutOff(run, d, limit)
        <3>1. PICK r : r = CutOff(run, d, limit) OBVIOUS
        <3>2. r.unread /\ [r EXCEPT !.unread = TRUE] = r BY <1>3, <3>1
        <3>3. Loop(r, t, limit) = r BY <3>2, UnreadStays, Zenon
        <3>4. QED BY <3>1, <3>3
    <2>10. QED BY <2>2, <2>3, <2>5, <2>6, <2>7, <2>8, <2>9
<1> HIDE DEF T
<1>6. Nat \subseteq T BY <1>4, <1>5, AllNumbers
<1>7. PICK k \in Nat : d + k = n
    <2>1. n - d \in Nat /\ d + (n - d) = n BY <1>1
    <2>2. QED BY <2>1
<1>8. k \in T /\ d + k <= n BY <1>1, <1>6, <1>7
<1>9. QED BY <1>7, <1>8 DEF T, n

-----------------------------------------------------------------------------
(* What the loop returns                                                   *)

LEMMA MinOfPlaces ==
    ASSUME NEW n \in Nat, NEW S \in SUBSET (1..n), S # {}
    PROVE  Min(S) \in S /\ \A m \in S : Min(S) <= m
<1>1. S \in SUBSET Nat OBVIOUS
<1>2. PICK k \in S : \A m \in S : k <= m BY <1>1, Least
<1>3. QED BY <1>2 DEF Min

LEMMA Beginning ==
    ASSUME NEW A, NEW s \in Seq(A), NEW e \in 1..Len(s)
    PROVE  /\ SubSeq(s, 1, e) \in Seq(A) /\ Len(SubSeq(s, 1, e)) = e
           /\ \A i \in 1..e : SubSeq(s, 1, e)[i] = s[i]
<1> DEFINE u == SubSeq(s, 1, e)
<1>1. e \in Int /\ 1 \in Int /\ 1 <= e OBVIOUS
<1>2. \A i \in 1..e : s[i] \in A OBVIOUS
<1>3. /\ u \in Seq(A) /\ Len(u) = IF 1 <= e THEN e - 1 + 1 ELSE 0
      /\ \A i \in 1..(e - 1 + 1) : u[i] = s[1 + i - 1]
    BY <1>1, <1>2, SubSeqProperties
<1> HIDE DEF u
<1>4. u \in Seq(A) /\ Len(u) = e /\ \A i \in 1..e : u[i] = s[i] BY <1>1, <1>3
<1>5. QED BY <1>4 DEF u

LEMMA CommandsType ==
    ASSUME NEW text \in Seq(Command)
    PROVE  Commands(text) \in Seq(Command) /\ Commands(text) # <<>>
<1>1. PICK z \in Command : z = 0 BY DEF Command
<1>2. <<z>> \in Seq(Command) /\ <<z>> # <<>> OBVIOUS
<1>3. QED BY <1>1, <1>2 DEF Commands

\* The server stops behind the first command that fails.
LEMMA ExecutedShape ==
    ASSUME NEW t \in Seq(Command), t # <<>>
    PROVE  /\ Executed(t) \in Seq(Command) /\ Len(Executed(t)) \in 1..Len(t)
           /\ \A i \in 1..Len(Executed(t)) : Executed(t)[i] = t[i]
           /\ \A i \in 1..(Len(Executed(t)) - 1) : t[i] # Fail
           /\ Len(Executed(t)) = Len(t) \/ t[Len(Executed(t))] = Fail
<1> DEFINE n == Len(t)
           e == Min(Ends(t))
<1>1. n \in Nat \ {0} /\ DOMAIN t = 1..n OBVIOUS
<1>2. Ends(t) \in SUBSET (1..n) /\ Ends(t) # {} BY <1>1 DEF Ends
<1>3. e \in Ends(t) /\ \A m \in Ends(t) : e <= m BY <1>1, <1>2, MinOfPlaces, Zenon
<1> HIDE DEF e, n
<1>4. e \in 1..n BY <1>2, <1>3
<1>5. PICK u \in Seq(Command) : /\ u = SubSeq(t, 1, e) /\ Len(u) = e
                                /\ \A i \in 1..e : u[i] = t[i]
    <2>1. e \in 1..Len(t) BY <1>4 DEF n
    <2>2. QED BY <2>1, Beginning
<1>6. u = Executed(t) BY <1>5 DEF Executed, e
<1>7. \A i \in 1..(e - 1) : t[i] # Fail
    <2>1. SUFFICES ASSUME NEW i \in 1..(e - 1), t[i] = Fail PROVE FALSE OBVIOUS
    <2>2. i \in 1..n /\ ~(e <= i) BY <1>1, <1>4
    <2>3. i \in Ends(t) BY <1>1, <2>1, <2>2 DEF Ends
    <2>4. QED BY <1>3, <2>2, <2>3
<1>8. e = n \/ t[e] = Fail BY <1>3 DEF Ends, n
<1>9. QED BY <1>4, <1>5, <1>6, <1>7, <1>8 DEF n

\* What is owed ends at the first command that reaches the limit.
LEMMA ServedShape ==
    ASSUME NEW t \in Seq(Command), t # <<>>, NEW limit
    PROVE  /\ Served(t, limit) \in Seq(Command) /\ Len(Served(t, limit)) \in 1..Len(t)
           /\ \A i \in 1..Len(Served(t, limit)) : Served(t, limit)[i] = t[i]
           /\ \A i \in 1..(Len(Served(t, limit)) - 1) : i \notin AtLimit(t, limit)
           /\ \/ Len(Served(t, limit)) = Len(t)
              \/ Len(Served(t, limit)) \in AtLimit(t, limit)
           /\ \A i \in AtLimit(t, limit) : Len(Served(t, limit)) <= i
<1> DEFINE n == Len(t)
           S == AtLimit(t, limit) \cup {n}
           e == Min(S)
<1>1. n \in Nat \ {0} /\ DOMAIN t = 1..n OBVIOUS
<1>2. S \in SUBSET (1..n) /\ S # {} BY <1>1 DEF AtLimit
<1>3. e \in S /\ \A m \in S : e <= m BY <1>1, <1>2, MinOfPlaces, Zenon
<1> HIDE DEF e
<1>4. e \in 1..n BY <1>2, <1>3
<1>5. PICK u \in Seq(Command) : /\ u = SubSeq(t, 1, e) /\ Len(u) = e
                                /\ \A i \in 1..e : u[i] = t[i]
    BY <1>4, Beginning
<1>6. u = Served(t, limit) BY <1>5 DEF Served, e
<1>7. \A i \in AtLimit(t, limit) : e <= i BY <1>3
<1>8. \A i \in 1..(e - 1) : i \notin AtLimit(t, limit)
    <2>1. \A i \in 1..(e - 1) : ~(e <= i) BY <1>4
    <2>2. QED BY <1>7, <2>1
<1>9. QED BY <1>3, <1>4, <1>5, <1>6, <1>7, <1>8

\* The loop starts with one empty list, and reads what the server sends.
LEMMA PsqlReadIs ==
    ASSUME NEW text, NEW limit, NEW run
    PROVE  PsqlRead(text, limit) =
               [Loop(Part(run, 1, 0), Wire(text), limit) EXCEPT
                   !.results = IF Last(@) = <<>> THEN Front(@) ELSE @]
<1>1. Part(run, 1, 0) = [results |-> << <<>> >>, error |-> FALSE, unread |-> FALSE]
    <2>1. RowsOf(1, 0) = <<>> BY DEF RowsOf
    <2>2. [k \in 1..1 |-> IF k < 1 THEN RowsOf(k, run[k]) ELSE RowsOf(1, 0)] = << <<>> >>
        BY <2>1
    <2>3. QED BY <2>2 DEF Part
<1>2. QED BY <1>1, Zenon DEF PsqlRead, Loop

\* A command that reaches the limit: its list is cut, and the rest stays unread.
LEMMA ResultCut ==
    ASSUME NEW text, NEW limit \in Nat \ {0}, NEW run, NEW d \in Nat \ {0},
           \A i \in 1..(d - 1) : run[i] \in Nat /\ run[i] < limit,
           run[d] \in Nat /\ run[d] >= limit,
           Loop(Part(run, 1, 0), Wire(text), limit) = CutOff(run, d, limit)
    PROVE  PsqlResult(text, limit) =
               [state |-> "success",
                result |-> [c \in 1..d |-> RowsOf(c, IF c < d THEN run[c] ELSE limit)],
                limit_reached |-> run[1] >= limit, unread |-> TRUE]
<1> DEFINE all == CutOff(run, d, limit)
           lists == [k \in 1..d |-> IF k < d THEN RowsOf(k, run[k]) ELSE RowsOf(d, limit)]
<1>1. all.results = lists /\ all.error = FALSE /\ all.unread = TRUE
    BY DEF CutOff, Part
<1>2. Len(lists) = d /\ lists # <<>> /\ lists[d] = RowsOf(d, limit) OBVIOUS
<1>3. \A c, n : n \in Nat => Len(RowsOf(c, n)) = n BY DEF RowsOf
<1>4. RowsOf(d, limit) # <<>>
    <2>1. Len(RowsOf(d, limit)) = limit BY <1>3
    <2>2. QED BY <2>1
<1>5. Last(lists) # <<>> BY <1>2, <1>4, Zenon DEF Last
<1>6. PsqlRead(text, limit) = [all EXCEPT !.results = IF Last(@) = <<>> THEN Front(@) ELSE @]
    BY PsqlReadIs
<1>7. /\ PsqlRead(text, limit).results = lists
      /\ PsqlRead(text, limit).error = FALSE
      /\ PsqlRead(text, limit).unread = TRUE
    <2>1. DOMAIN all = {"results", "error", "unread"} BY DEF CutOff, Part
    <2> HIDE DEF all, lists
    <2>2. QED BY <1>1, <1>5, <1>6, <2>1
<1>8. lists = [c \in 1..d |-> RowsOf(c, IF c < d THEN run[c] ELSE limit)]
    OBVIOUS
<1>9. (Len(lists[1]) >= limit) = (run[1] >= limit)
    <2>1. CASE d = 1
        <3>1. lists[1] = RowsOf(1, limit) BY <1>2, <2>1
        <3>2. Len(lists[1]) = limit BY <1>3, <3>1
        <3>3. QED BY <2>1, <3>2
    <2>2. CASE d # 1
        <3>1. 1 \in 1..d /\ 1 < d /\ 1 \in 1..(d - 1) BY <2>2
        <3>2. lists[1] = RowsOf(1, run[1]) BY <3>1
        <3>3. run[1] \in Nat BY <3>1
        <3>4. Len(lists[1]) = run[1] BY <1>3, <3>2, <3>3
        <3>5. QED BY <3>4
    <2>3. QED BY <2>1, <2>2
<1> HIDE DEF lists
<1>10. PsqlResult(text, limit) =
           [state |-> "success", result |-> lists,
            limit_reached |-> Len(lists[1]) >= limit, unread |-> TRUE]
    BY <1>2, <1>7 DEF PsqlResult
<1>11. QED BY <1>8, <1>9, <1>10

\* No command of run stops the loop.
Below(run, n, limit) == \A i \in 1..n : run[i] \in Nat /\ run[i] < limit

\* The results of commands that do not.
Whole(run, n) ==
    [state |-> "success", result |-> [c \in 1..n |-> RowsOf(c, run[c])],
     limit_reached |-> FALSE, unread |-> FALSE]

\* The list that the last end has opened is taken away.
LEMMA ResultWhole ==
    ASSUME NEW text, NEW limit \in Nat \ {0}, NEW run, NEW n \in Nat \ {0},
           Below(run, n, limit),
           Loop(Part(run, 1, 0), Wire(text), limit) = Part(run, n + 1, 0)
    PROVE  PsqlResult(text, limit) = Whole(run, n)
<1> DEFINE all == Part(run, n + 1, 0)
           more == [k \in 1..(n + 1) |-> IF k < n + 1 THEN RowsOf(k, run[k])
                                                    ELSE RowsOf(n + 1, 0)]
           lists == [c \in 1..n |-> RowsOf(c, run[c])]
<1>1. all.results = more /\ all.error = FALSE /\ all.unread = FALSE
    BY DEF Part
<1>2. Len(more) = n + 1 /\ more[n + 1] = <<>>
    <2>1. RowsOf(n + 1, 0) = <<>> BY DEF RowsOf
    <2>2. QED BY <2>1
<1>3. Last(more) = <<>> BY <1>2, Zenon DEF Last
<1>4. Front(more) = lists
    <2>1. SubSeq(more, 1, n) = [k \in 1..n |-> more[k]] OBVIOUS
    <2>2. [k \in 1..n |-> more[k]] = lists OBVIOUS
    <2>3. Len(more) - 1 = n BY <1>2
    <2>4. QED BY <2>1, <2>2, <2>3, Zenon DEF Front
<1>5. PsqlRead(text, limit) = [all EXCEPT !.results = IF Last(@) = <<>> THEN Front(@) ELSE @]
    BY PsqlReadIs
<1>6. /\ PsqlRead(text, limit).results = lists
      /\ PsqlRead(text, limit).error = FALSE
      /\ PsqlRead(text, limit).unread = FALSE
    <2>1. DOMAIN all = {"results", "error", "unread"} BY DEF Part
    <2> HIDE DEF all, lists, more
    <2>2. QED BY <1>1, <1>3, <1>4, <1>5, <2>1
<1>7. Len(lists) = n /\ lists # <<>> OBVIOUS
<1>8. (Len(lists[1]) >= limit) = FALSE
    <2>1. 1 \in 1..n /\ run[1] \in Nat /\ run[1] < limit BY DEF Below
    <2>2. lists[1] = RowsOf(1, run[1]) BY <2>1
    <2>3. Len(lists[1]) = run[1] BY <2>1, <2>2 DEF RowsOf
    <2>4. QED BY <2>1, <2>3
<1> HIDE DEF lists
<1>9. PsqlResult(text, limit) =
           [state |-> "success", result |-> lists,
            limit_reached |-> Len(lists[1]) >= limit, unread |-> FALSE]
    BY <1>6, <1>7 DEF PsqlResult
<1>10. QED BY <1>8, <1>9 DEF lists, Whole

LEMMA ResultFails ==
    ASSUME NEW text, NEW limit, NEW run,
           Loop(Part(run, 1, 0), Wire(text), limit).error = TRUE,
           Loop(Part(run, 1, 0), Wire(text), limit).unread = FALSE
    PROVE  PsqlResult(text, limit) = Failure(FALSE)
<1>1. PICK all : all = Loop(Part(run, 1, 0), Wire(text), limit) OBVIOUS
<1>2. PsqlRead(text, limit) = [all EXCEPT !.results = IF Last(@) = <<>> THEN Front(@) ELSE @]
    BY <1>1, PsqlReadIs
<1>3. PsqlRead(text, limit).error = TRUE /\ PsqlRead(text, limit).unread = FALSE
    BY <1>1, <1>2
<1>4. QED BY <1>3 DEF PsqlResult

LEMMA LesserOf ==
    ASSUME NEW a \in Nat, NEW b \in Nat
    PROVE  Min({a, b}) = IF a < b THEN a ELSE b
<1>1. {a, b} \in SUBSET Nat /\ {a, b} # {} OBVIOUS
<1>2. PICK k \in {a, b} : \A m \in {a, b} : k <= m BY <1>1, Least
<1>3. Min({a, b}) \in {a, b} /\ \A m \in {a, b} : Min({a, b}) <= m BY <1>2 DEF Min
<1>4. QED BY <1>3

\* A command that may be asked for is a number below the limit unless it ends the loop.
LEMMA NeitherEnd ==
    ASSUME NEW t \in Seq(Command), NEW limit \in Nat, NEW i \in 1..Len(t),
           t[i] # Fail, i \notin AtLimit(t, limit)
    PROVE  t[i] \in Nat /\ t[i] < limit
<1>1. t[i] \in Command /\ i \in DOMAIN t OBVIOUS
<1>2. t[i] \in Nat BY <1>1 DEF Command
<1>3. QED BY <1>1, <1>2 DEF AtLimit

\* Whatever mixture of empty, short and long results and of failures a text produces, the
\* loop over get_result answers what is owed: the rows of each command up to the first one
\* that reaches the limit, or the failure before it (db_server.rb 249-302).
THEOREM LoopKeepsPromise ==
    ASSUME NEW text \in Seq(Command), NEW limit \in Nat \ {0}
    PROVE  PsqlResult(text, limit) = Promised(text, limit)
<1> DEFINE t == Commands(text)
           run == Executed(t)
           served == Served(t, limit)
           n == Len(t)
           e == Len(run)
           m == Len(served)
<1>1. t \in Seq(Command) /\ t # <<>> BY CommandsType
<1>2. n \in Nat \ {0} BY <1>1
<1> HIDE DEF t
<1>3. /\ run \in Seq(Command) /\ e \in 1..n /\ \A i \in 1..e : run[i] = t[i]
      /\ \A i \in 1..(e - 1) : t[i] # Fail
      /\ e = n \/ t[e] = Fail
    BY <1>1, ExecutedShape
<1>4. /\ served \in Seq(Command) /\ m \in 1..n /\ \A i \in 1..m : served[i] = t[i]
      /\ \A i \in 1..(m - 1) : i \notin AtLimit(t, limit)
      /\ m = n \/ m \in AtLimit(t, limit)
      /\ \A i \in AtLimit(t, limit) : m <= i
    BY <1>1, ServedShape
<1>5. run # <<>> /\ DOMAIN run = 1..e /\ DOMAIN served = 1..m
    <2>1. Len(<<>>) = 0 OBVIOUS
    <2>2. QED BY <1>2, <1>3, <1>4, <2>1
<1> DEFINE base == Part(run, 1, 0)
<1>6. PICK f : Wired(f, run) /\ Wire(text) = f[e]
    <2>1. PICK f : /\ Wired(f, run)
                   /\ FlattenSeq([c \in DOMAIN run |-> Stream(c, run[c])]) = f[Len(run)]
        BY <1>3, <1>5, WireOf, Zenon
    <2>2. QED BY <2>1, Zenon DEF Wire, t
<1>7. PICK owed : owed = Promised(text, limit) OBVIOUS
<1>8. owed = IF Contains(served, Fail) THEN Failure(FALSE)
             ELSE [state |-> "success",
                   result |-> [c \in 1..m |-> RowsOf(c, Min({served[c], limit}))],
                   limit_reached |-> served[1] >= limit,
                   unread |-> AtLimit(served, limit) # {}]
    BY <1>5, <1>7 DEF Promised, t
<1>9. AtLimit(t, limit) \subseteq 1..n BY <1>1 DEF AtLimit
<1> HIDE DEF run, served, n, e, m
<1>10. CASE m \in AtLimit(t, limit) /\ m <= e
    <2>1. t[m] \in Nat /\ t[m] >= limit
        <3>1. t[m] # Fail /\ t[m] >= limit BY <1>10 DEF AtLimit
        <3>2. t[m] \in Command BY <1>1, <1>4 DEF n
        <3>3. QED BY <3>1, <3>2 DEF Command
    <2>2. ASSUME NEW i \in 1..(m - 1) PROVE t[i] \in Nat /\ t[i] < limit
        <3>1. i \in 1..(e - 1) /\ i \in 1..n BY <1>2, <1>3, <1>4, <1>10
        <3>2. t[i] # Fail /\ i \notin AtLimit(t, limit) BY <1>3, <1>4, <3>1
        <3>3. QED BY <1>1, <3>1, <3>2, NeitherEnd DEF n
    <2>3. \A i \in 1..m : run[i] = t[i]
        <3>1. \A i \in 1..m : i \in 1..e BY <1>2, <1>3, <1>4, <1>10
        <3>2. QED BY <1>3, <3>1
    <2>4. /\ \A i \in 1..(m - 1) : run[i] \in Nat /\ run[i] < limit
          /\ run[m] \in Nat /\ run[m] >= limit
        <3>1. m \in 1..m /\ \A i \in 1..(m - 1) : i \in 1..m BY <1>2, <1>4
        <3>2. QED BY <2>1, <2>2, <2>3, <3>1
    <2>5. Loop(base, Wire(text), limit) = CutOff(run, m, limit)
        <3>1. m \in 1..Len(run) /\ limit \in Nat BY <1>2, <1>3, <1>4, <1>10 DEF e
        <3>2. Loop(base, f[Len(run)], limit) = CutOff(run, m, limit)
            BY <1>3, <1>6, <2>4, <3>1, NothingReadAfter
        <3>3. QED BY <1>6, <3>2 DEF e
    <2>6. PsqlResult(text, limit) =
              [state |-> "success",
               result |-> [c \in 1..m |-> RowsOf(c, IF c < m THEN run[c] ELSE limit)],
               limit_reached |-> run[1] >= limit, unread |-> TRUE]
        <3>1. m \in Nat \ {0} BY <1>2, <1>4
        <3>2. QED BY <2>4, <2>5, <3>1, ResultCut
    <2>7. ~Contains(served, Fail)
        <3>1. ASSUME NEW i \in 1..m PROVE served[i] \in Nat
            <4>1. i = m \/ i \in 1..(m - 1) BY <1>2, <1>4
            <4>2. QED BY <1>4, <2>1, <2>2, <4>1
        <3>2. QED BY <3>1, RawResultsAssumption DEF Contains, m
    <2>8. [c \in 1..m |-> RowsOf(c, Min({served[c], limit}))] =
              [c \in 1..m |-> RowsOf(c, IF c < m THEN run[c] ELSE limit)]
        <3>1. ASSUME NEW c \in 1..m
              PROVE  Min({served[c], limit}) = IF c < m THEN run[c] ELSE limit
            <4>1. PICK a : a = served[c] OBVIOUS
            <4>2. a = t[c] /\ a = run[c] BY <1>4, <2>3, <4>1
            <4>3. CASE c = m
                <5>1. a \in Nat /\ a >= limit /\ limit \in Nat BY <2>1, <4>2, <4>3
                <5>2. Min({a, limit}) = IF a < limit THEN a ELSE limit
                    BY <5>1, LesserOf, Zenon
                <5>3. ~(a < limit) BY <5>1
                <5>4. ~(c < m) BY <1>2, <1>4, <4>3
                <5>5. QED BY <4>1, <5>2, <5>3, <5>4
            <4>4. CASE c # m
                <5>1. c \in 1..(m - 1) /\ c < m BY <1>2, <1>4, <4>4
                <5>2. a \in Nat /\ a < limit /\ limit \in Nat BY <2>2, <4>2, <5>1
                <5>3. Min({a, limit}) = IF a < limit THEN a ELSE limit
                    BY <5>2, LesserOf, Zenon
                <5>4. QED BY <4>1, <4>2, <5>1, <5>2, <5>3
            <4>5. QED BY <4>3, <4>4
        <3>2. QED BY <3>1, Zenon
    <2>9. (served[1] >= limit) = (run[1] >= limit)
        <3>1. 1 \in 1..m BY <1>2, <1>4
        <3>2. served[1] = run[1] BY <1>4, <2>3, <3>1
        <3>3. QED BY <3>2
    <2>10. (AtLimit(served, limit) # {}) = TRUE
        <3>1. m \in 1..m BY <1>2, <1>4
        <3>2. served[m] = t[m] /\ t[m] # Fail BY <1>4, <2>1, <3>1, RawResultsAssumption
        <3>3. m \in AtLimit(served, limit) BY <1>5, <2>1, <3>1, <3>2 DEF AtLimit, m
        <3>4. QED BY <3>3
    <2>11. QED BY <1>7, <1>8, <2>6, <2>7, <2>8, <2>9, <2>10
<1>11. CASE ~(m \in AtLimit(t, limit) /\ m <= e)
    <2>1. ASSUME NEW i \in 1..e PROVE i \notin AtLimit(t, limit)
        <3>1. SUFFICES ASSUME i \in AtLimit(t, limit) PROVE FALSE OBVIOUS
        <3>2. m <= i BY <1>4, <3>1
        <3>3. m <= e BY <1>2, <1>3, <1>4, <3>2
        <3>4. m = n BY <1>4, <1>11, <3>3
        <3>5. i = m BY <1>2, <1>3, <3>2, <3>4
        <3>6. QED BY <1>11, <3>1, <3>3, <3>5
    <2>2. ASSUME NEW i \in 1..(e - 1) PROVE run[i] \in Nat /\ run[i] < limit
        <3>1. i \in 1..e /\ i \in 1..n BY <1>2, <1>3
        <3>2. t[i] # Fail /\ i \notin AtLimit(t, limit) BY <1>3, <2>1, <3>1
        <3>3. t[i] \in Nat /\ t[i] < limit BY <1>1, <3>1, <3>2, NeitherEnd DEF n
        <3>4. QED BY <1>3, <3>1, <3>3
    <2>3. Loop(base, Wire(text), limit) = Loop(Part(run, e, 0), Stream(e, run[e]), limit)
        <3>1. e \in 1..Len(run) /\ limit \in Nat BY <1>2, <1>3 DEF e
        <3>2. Loop(base, f[e], limit) = Loop(Part(run, e, 0), Stream(e, run[e]), limit)
            BY <1>3, <1>6, <2>2, <3>1, ReadTo
        <3>3. QED BY <1>6, <3>2
    <2>4. e \in Nat \ {0} /\ e \in 1..e BY <1>2, <1>3
    <2>5. run[e] = t[e] BY <1>3, <2>4
    <2>6. CASE t[e] = Fail
        <3>1. /\ Loop(base, Wire(text), limit).error = TRUE
              /\ Loop(base, Wire(text), limit).unread = FALSE
            <4>1. Loop(base, Wire(text), limit) = Loop(Part(run, e, 0), Stream(e, Fail), limit)
                BY <2>3, <2>5, <2>6
            <4>2. /\ Loop(Part(run, e, 0), Stream(e, Fail), limit).error = TRUE
                  /\ Loop(Part(run, e, 0), Stream(e, Fail), limit).unread = FALSE
                BY <2>4, StreamFails
            <4>3. QED BY <4>1, <4>2, Zenon
        <3>2. PsqlResult(text, limit) = Failure(FALSE) BY <3>1, ResultFails
        <3>3. e <= m
            <4>1. SUFFICES ASSUME m < e PROVE FALSE BY <1>2, <1>3, <1>4
            <4>2. m \in 1..e /\ m # n BY <1>2, <1>3, <1>4, <4>1
            <4>3. QED BY <1>4, <2>1, <4>2
        <3>4. e \in 1..m BY <1>2, <1>3, <1>4, <3>3
        <3>5. served[e] = Fail BY <1>4, <2>6, <3>4
        <3>6. Contains(served, Fail) BY <3>4, <3>5 DEF Contains, m
        <3>7. QED BY <1>7, <1>8, <3>2, <3>6
    <2>7. CASE t[e] # Fail
        <3>1. e = n BY <1>3, <2>7
        <3>2. run[e] \in Nat /\ run[e] < limit
            <4>1. e \in 1..n /\ e \notin AtLimit(t, limit) BY <1>3, <2>1, <2>4
            <4>2. QED BY <1>1, <2>5, <2>7, <4>1, NeitherEnd DEF n
        <3>3. ASSUME NEW i \in 1..n PROVE run[i] \in Nat /\ run[i] < limit
            <4>1. i = e \/ i \in 1..(e - 1) BY <1>2, <3>1
            <4>2. QED BY <2>2, <3>2, <4>1
        <3>4. Loop(base, Wire(text), limit) = Part(run, n + 1, 0)
            <4>1. Loop(Part(run, e, 0), Stream(e, run[e]), limit) = Part(run, e + 1, 0)
                BY <2>4, <3>2, StreamRead
            <4>2. QED BY <2>3, <3>1, <4>1
        <3>5. PsqlResult(text, limit) =
                  [state |-> "success", result |-> [c \in 1..n |-> RowsOf(c, run[c])],
                   limit_reached |-> FALSE, unread |-> FALSE]
            <4>1. PICK k \in Nat \ {0} : k = n BY <1>2
            <4>2. Below(run, k, limit) BY <3>3, <4>1 DEF Below
            <4>3. Loop(Part(run, 1, 0), Wire(text), limit) = Part(run, k + 1, 0)
                BY <3>4, <4>1
            <4>4. PsqlResult(text, limit) = Whole(run, k) BY <4>2, <4>3, ResultWhole
            <4>5. QED BY <4>1, <4>4 DEF Whole
        <3>6. m = n
            <4>1. m \notin AtLimit(t, limit) BY <1>4, <2>1, <3>1
            <4>2. QED BY <1>4, <4>1
        <3>7. ASSUME NEW i \in 1..n PROVE served[i] = run[i]
            BY <1>3, <1>4, <3>1, <3>6
        <3>8. ~Contains(served, Fail)
            BY <3>3, <3>6, <3>7, RawResultsAssumption DEF Contains, m
        <3>9. [c \in 1..m |-> RowsOf(c, Min({served[c], limit}))] =
                  [c \in 1..n |-> RowsOf(c, run[c])]
            <4>1. ASSUME NEW c \in 1..n PROVE Min({served[c], limit}) = run[c]
                <5>1. PICK a : a = run[c] OBVIOUS
                <5>2. a \in Nat /\ a < limit /\ limit \in Nat BY <3>3, <5>1
                <5>3. Min({a, limit}) = IF a < limit THEN a ELSE limit
                    BY <5>2, LesserOf, Zenon
                <5>4. served[c] = a BY <3>7, <5>1
                <5>5. QED BY <5>1, <5>2, <5>3, <5>4
            <4>2. QED BY <3>6, <4>1, Zenon
        <3>10. (served[1] >= limit) = FALSE
            <4>1. 1 \in 1..n BY <1>2
            <4>2. PICK a : a = served[1] OBVIOUS
            <4>3. a \in Nat /\ a < limit BY <3>3, <3>7, <4>1, <4>2
            <4>4. QED BY <4>2, <4>3
        <3>11. (AtLimit(served, limit) # {}) = FALSE
            <4>1. SUFFICES ASSUME NEW i \in AtLimit(served, limit) PROVE FALSE OBVIOUS
            <4>2. i \in 1..n /\ served[i] >= limit BY <1>5, <3>6, <4>1 DEF AtLimit, m
            <4>3. PICK a : a = served[i] OBVIOUS
            <4>4. a \in Nat /\ a < limit /\ a >= limit BY <3>3, <3>7, <4>2, <4>3
            <4>5. QED BY <4>4
        <3>12. QED BY <1>7, <1>8, <3>5, <3>8, <3>9, <3>10, <3>11
    <2>8. QED BY <2>6, <2>7
<1>12. QED BY <1>10, <1>11

-----------------------------------------------------------------------------
(* What a caller sees of a result                                          *)

LEMMA WireType ==
    ASSUME NEW text \in Seq(Command)
    PROVE  Wire(text) \in Seq(Reply)
<1> DEFINE t == Commands(text)
           run == Executed(t)
<1>1. t \in Seq(Command) /\ t # <<>> BY CommandsType
<1> HIDE DEF t
<1>2. run \in Seq(Command) /\ Len(run) \in 1..Len(t) BY <1>1, ExecutedShape
<1> HIDE DEF run
<1>3. run # <<>>
    <2>1. Len(run) # 0 /\ Len(<<>>) = 0 BY <1>1, <1>2
    <2>2. QED BY <2>1
<1>4. PICK f : /\ Wired(f, run)
               /\ FlattenSeq([c \in DOMAIN run |-> Stream(c, run[c])]) = f[Len(run)]
    BY <1>2, <1>3, WireOf, Zenon
<1>5. Wire(text) = f[Len(run)] BY <1>4, Zenon DEF Wire, run, t
<1>6. Len(run) \in 1..Len(run) BY <1>2, <1>3
<1>7. f[Len(run)] \in Seq(Reply) BY <1>4, <1>6 DEF Wired
<1>8. QED BY <1>5, <1>7

\* With a limit of zero there is no first result.
LEMMA NothingWithinZero ==
    ASSUME NEW text \in Seq(Command)
    PROVE  PsqlResult(text, 0).state = "error"
<1>1. PICK w \in Seq(Reply) : w = Wire(text) BY WireType
<1>2. PICK run : run = <<>> OBVIOUS
<1>3. PICK all : all = Loop(Part(run, 1, 0), w, 0) OBVIOUS
<1>4. Part(run, 1, 0).results = << <<>> >>
    <2>1. RowsOf(1, 0) = <<>> BY DEF RowsOf
    <2>2. [k \in 1..1 |-> IF k < 1 THEN RowsOf(k, run[k]) ELSE RowsOf(1, 0)] = << <<>> >>
        BY <2>1
    <2>3. QED BY <2>2 DEF Part
<1>5. all = Part(run, 1, 0) \/ all = CutOff(run, 1, 0)
    <2>1. CASE w = <<>> BY <1>3, <2>1, LoopEmpty
    <2>2. CASE w # <<>>
        <3>1. 1 \in Nat \ {0} /\ 0 \in Nat /\ 0 >= 0 OBVIOUS
        <3>2. QED BY <1>3, <2>2, <3>1, RestUnread
    <2>3. QED BY <2>1, <2>2
<1>6. all.results = << <<>> >> /\ DOMAIN all = {"results", "error", "unread"}
    BY <1>4, <1>5 DEF CutOff, Part
<1>7. PsqlRead(text, 0) = [all EXCEPT !.results = IF Last(@) = <<>> THEN Front(@) ELSE @]
    BY <1>1, <1>3, PsqlReadIs
<1>8. Last(<< <<>> >>) = <<>> /\ Front(<< <<>> >>) = <<>>
    BY DEF Last, Front
<1>9. PsqlRead(text, 0).results = <<>> BY <1>6, <1>7, <1>8
<1>10. PsqlResult(text, 0) = Failure(PsqlRead(text, 0).unread) BY <1>9 DEF PsqlResult
<1>11. QED BY <1>10 DEF Failure

\* A failure is one of the text, and a result is that of the first command.
LEMMA PsqlTells ==
    ASSUME NEW text \in Seq(Command), NEW limit \in Nat
    PROVE  /\ PsqlResult(text, limit).state \in {"success", "error"}
           /\ PsqlResult(text, limit).state = "error" =>
                  limit = 0 \/ \E c \in DOMAIN text : text[c] = Fail
           /\ PsqlResult(text, limit).state = "success" /\ text # <<>> =>
                  PsqlResult(text, limit).result[1] = RowsOf(1, Min({limit, text[1]}))
<1>1. CASE limit = 0 BY <1>1, NothingWithinZero
<1>2. CASE limit # 0
    <2>1. PsqlResult(text, limit) = Promised(text, limit) BY <1>2, LoopKeepsPromise
    <2> DEFINE t == Commands(text)
               served == Served(t, limit)
               m == Len(served)
    <2>2. t \in Seq(Command) /\ t # <<>> BY CommandsType
    <2>3. text # <<>> => t = text BY DEF Commands
    <2>4. text = <<>> => t = <<0>> BY DEF Commands
    <2> HIDE DEF t
    <2>5. /\ served \in Seq(Command) /\ m \in 1..Len(t)
          /\ \A i \in 1..m : served[i] = t[i]
        BY <2>2, ServedShape
    <2>6. DOMAIN served = 1..m /\ 1 \in 1..m /\ Len(t) \in Nat /\ DOMAIN t = 1..Len(t)
        BY <2>2, <2>5
    <2>7. PICK owed : owed = Promised(text, limit) OBVIOUS
    <2>8. owed = IF Contains(served, Fail) THEN Failure(FALSE)
                 ELSE [state |-> "success",
                       result |-> [c \in 1..m |-> RowsOf(c, Min({served[c], limit}))],
                       limit_reached |-> served[1] >= limit,
                       unread |-> AtLimit(served, limit) # {}]
        BY <2>6, <2>7 DEF Promised, t
    <2> HIDE DEF served, m
    <2>9. CASE Contains(served, Fail)
        <3>1. owed.state = "error" BY <2>8, <2>9 DEF Failure
        <3>2. PICK i \in 1..m : served[i] = Fail BY <2>9 DEF Contains, m
        <3>3. i \in DOMAIN t /\ t[i] = Fail BY <2>5, <2>6, <3>2
        <3>4. text # <<>>
            <4>1. SUFFICES ASSUME text = <<>> PROVE FALSE OBVIOUS
            <4>2. t[i] = 0
                <5>1. t = <<0>> /\ DOMAIN t = {1} BY <2>4, <4>1
                <5>2. QED BY <3>3, <5>1
            <4>3. QED BY <3>3, <4>2, RawResultsAssumption
        <3>5. \E c \in DOMAIN text : text[c] = Fail BY <2>3, <3>3, <3>4
        <3>6. QED BY <2>1, <2>7, <3>1, <3>5
    <2>10. CASE ~Contains(served, Fail)
        <3>1. /\ owed.state = "success"
              /\ owed.result = [c \in 1..m |-> RowsOf(c, Min({served[c], limit}))]
            BY <2>8, <2>10
        <3>2. owed.result[1] = RowsOf(1, Min({served[1], limit})) BY <2>6, <3>1
        <3>3. served[1] = t[1] BY <2>5, <2>6
        <3>4. {served[1], limit} = {limit, t[1]} BY <3>3
        <3>5. owed.result[1] = RowsOf(1, Min({limit, t[1]})) BY <3>2, <3>4
        <3>6. QED BY <2>1, <2>3, <2>7, <3>1, <3>5
    <2>11. QED BY <2>9, <2>10
<1>3. QED BY <1>1, <1>2

LEMMA MysqlTells ==
    ASSUME NEW text \in Seq(Command)
    PROVE  /\ MysqlResult(text).state \in {"success", "error"}
           /\ MysqlResult(text).state = "error" =>
                  text = <<>> \/ \E c \in DOMAIN text : text[c] = Fail
           /\ MysqlResult(text).state = "success" =>
                  MysqlResult(text).result[1] = RowsOf(1, text[1])
<1>1. CASE text = <<>> \/ \E c \in DOMAIN text : text[c] = Fail
    BY <1>1 DEF MysqlResult, Failure
<1>2. CASE ~(text = <<>> \/ \E c \in DOMAIN text : text[c] = Fail)
    <2>1. MysqlResult(text) =
              [state |-> "success", result |-> [c \in DOMAIN text |-> RowsOf(c, text[c])],
               limit_reached |-> FALSE, unread |-> FALSE]
        BY <1>2 DEF MysqlResult
    <2>2. 1 \in DOMAIN text BY <1>2
    <2>3. QED BY <2>1, <2>2
<1>3. QED BY <1>1, <1>2

-----------------------------------------------------------------------------
(* The log.                                                                *)

RequestFields == {"op", "user", "phase", "queries", "proceed", "next", "connection",
                  "results", "error", "row", "victims", "loaded", "value", "overlapped"}

\* The values of request are records of one shape.
Shaped(req) == DOMAIN req = RequestFields /\ req = [k \in RequestFields |-> req[k]]

AreRequests == /\ request = [r \in Request |-> request[r]]
               /\ \A r \in Request : Shaped(request[r])

AreRows == \A x \in log :
    /\ x = [id |-> x.id, user |-> x.user, is_favorite |-> x.is_favorite,
            is_valid |-> x.is_valid, error |-> x.error]
    /\ x.id \in 1..saved

\* A row has one id, and a row that is being saved has an id that no other row has.
OneIdPerRow == \A x, y \in log : x.id = y.id => x = y
FreshRow(r) == /\ request[r].row \in 1..saved
               /\ \A x \in log : x.id # request[r].row
               /\ \A s \in Request \ {r} :
                     request[s].phase \in Saving => request[s].row # request[r].row
FreshRows == \A r \in Request : request[r].phase \in Saving => FreshRow(r)

RowIds == /\ saved \in Nat
          /\ IsFiniteSet(log)
          /\ AreRequests
          /\ AreRows
          /\ OneIdPerRow
          /\ FreshRows

\* A step that changes one request only, and leaves it outside its transaction.
LEMMA OutsideTransaction ==
    ASSUME RowIds, NEW r \in Request,
           request' = [s \in Request |-> request'[s]],
           \A s \in Request \ {r} : request'[s] = request[s],
           Shaped(request'[r]), request'[r].phase \notin Saving,
           log' = log, saved' = saved
    PROVE  RowIds'
<1>1. AreRequests' BY DEF RowIds, AreRequests
<1>2. AreRows' /\ OneIdPerRow' /\ saved' \in Nat /\ IsFiniteSet(log')
    BY DEF RowIds, AreRows, OneIdPerRow
<1>3. FreshRows' BY DEF RowIds, FreshRows, FreshRow, Saving
<1>4. QED BY <1>1, <1>2, <1>3 DEF RowIds

LEMMA IdleShaped == Shaped(Idle) /\ Idle.phase = "idle"
BY DEF Shaped, Idle, RequestFields

LEMMA RowIdsInit == Init => RowIds
<1> SUFFICES ASSUME Init PROVE RowIds
    OBVIOUS
<1>1. PICK u \in User, favorite \in SUBSET (1..Earlier) :
          log = {[id |-> i, user |-> u, is_favorite |-> i \in favorite,
                  is_valid |-> TRUE, error |-> {}] : i \in 1..Earlier}
    BY DEF Init
<1>2. saved = Earlier /\ Earlier \in Nat
    BY QueryRunsAssumption DEF Init
<1>3. IsFiniteSet(log)
    <2> DEFINE f == [i \in 1..Earlier |-> [id |-> i, user |-> u,
                        is_favorite |-> i \in favorite, is_valid |-> TRUE, error |-> {}]]
    <2>1. IsFiniteSet(1..Earlier) BY <1>2, FS_Interval
    <2>2. f \in Surjection(1..Earlier, log) BY <1>1 DEF Surjection
    <2>3. QED BY <2>1, <2>2, FS_Surjection
<1>4. AreRows BY <1>1, <1>2 DEF AreRows
<1>5. OneIdPerRow
    <2>1. ASSUME NEW x \in log, NEW y \in log, x.id = y.id PROVE x = y
        <3>1. PICK i \in 1..Earlier :
                  x = [id |-> i, user |-> u, is_favorite |-> i \in favorite,
                       is_valid |-> TRUE, error |-> {}]
            BY <1>1
        <3>2. PICK j \in 1..Earlier :
                  y = [id |-> j, user |-> u, is_favorite |-> j \in favorite,
                       is_valid |-> TRUE, error |-> {}]
            BY <1>1
        <3>3. x.id = i /\ y.id = j BY <3>1, <3>2
        <3>4. QED BY <2>1, <3>1, <3>2, <3>3
    <2>2. QED BY <2>1 DEF OneIdPerRow
<1>6. AreRequests
    <2>1. request = [r \in Request |-> Idle] BY DEF Init
    <2>2. QED BY <2>1, IdleShaped DEF AreRequests
<1>7. FreshRows BY IdleShaped DEF Init, FreshRows, Saving
<1>8. QED BY <1>2, <1>3, <1>4, <1>5, <1>6, <1>7 DEF RowIds

-----------------------------------------------------------------------------
(* The requests before they save                                           *)

LEMMA BeginKeepsRowIds ==
    ASSUME RowIds, NEW r \in Request, NEW u \in User, Begin(r, u) PROVE RowIds'
<1>1. PICK op, queries, proceed :
          request' = [request EXCEPT ![r] =
                  [Idle EXCEPT !.op = op, !.user = u, !.phase = "run",
                               !.queries = queries, !.proceed = proceed]]
    BY DEF Begin
<1>2. Shaped(request'[r]) /\ request'[r].phase = "run"
    BY <1>1 DEF Idle, Shaped, RequestFields, RowIds, AreRequests
<1>3. /\ request' = [s \in Request |-> request'[s]]
      /\ \A s \in Request \ {r} : request'[s] = request[s]
    BY <1>1 DEF RowIds, AreRequests
<1>4. log' = log /\ saved' = saved BY DEF Begin
<1>5. QED BY <1>2, <1>3, <1>4, OutsideTransaction DEF Saving

LEMMA MarkLoadKeepsRowIds ==
    ASSUME RowIds, NEW r \in Request, MarkLoad(r) PROVE RowIds'
<1>1. PICK x \in log, value \in BOOLEAN :
          request' = [request EXCEPT ![r] =
               [Idle EXCEPT !.op = "put", !.user = x.user, !.phase = "mark", !.row = x.id,
                            !.loaded = x.is_favorite, !.value = value]]
    BY DEF MarkLoad
<1>2. Shaped(request'[r]) /\ request'[r].phase = "mark"
    BY <1>1 DEF Idle, Shaped, RequestFields, RowIds, AreRequests
<1>3. /\ request' = [s \in Request |-> request'[s]]
      /\ \A s \in Request \ {r} : request'[s] = request[s]
    BY <1>1 DEF RowIds, AreRequests
<1>4. log' = log /\ saved' = saved BY DEF MarkLoad
<1>5. QED BY <1>2, <1>3, <1>4, OutsideTransaction DEF Saving

\* The steps of a request that runs its statements.
InTurn(r) == \/ CountQuery(r) \/ CountError(r) \/ MultiQuerySkip(r)
             \/ MultiQueryStatement(r) \/ QueryStatement(r) \/ RawQueryStatement(r)

\* What they do to the requests.
LEMMA TurnForms ==
    ASSUME NEW r \in Request, InTurn(r)
    PROVE  /\ log' = log /\ saved' = saved
           /\ request[r].phase \in InStatements
           /\ \/ \E entry, errors, connection : \E phase \in {"run", "error"} :
                     Report(r, entry, errors, connection, phase)
              \/ request' = [request EXCEPT ![r].next = @ + 1]
              \/ \E entry : request' = [request EXCEPT ![r].results = <<entry>>,
                                                       ![r].phase = "failed"]
              \/ \E phase \in {"run", "exec"} : request' = [request EXCEPT ![r].phase = phase]
<1>1. CASE CountQuery(r) BY <1>1 DEF CountQuery, InStatements
<1>2. CASE CountError(r) BY <1>2 DEF CountError, InStatements
<1>3. CASE MultiQuerySkip(r) BY <1>3 DEF MultiQuerySkip, InStatements
<1>4. CASE MultiQueryStatement(r)
    <2>1. log' = log /\ saved' = saved /\ request[r].phase \in InStatements
        BY <1>4 DEF MultiQueryStatement, Executing, InStatements
    <2>2. \E entry, errors, connection : \E phase \in {"run", "error"} :
              Report(r, entry, errors, connection, phase)
        BY <1>4 DEF MultiQueryStatement
    <2>3. QED BY <2>1, <2>2
<1>5. CASE QueryStatement(r)
    <2>1. log' = log /\ saved' = saved /\ request[r].phase \in InStatements
        BY <1>5 DEF QueryStatement, Executing, InStatements
    <2>2. \E entry, errors, connection : Report(r, entry, errors, connection, "run")
        BY <1>5 DEF QueryStatement
    <2>3. QED BY <2>1, <2>2
<1>6. CASE RawQueryStatement(r)
    <2>1. log' = log /\ saved' = saved /\ request[r].phase \in InStatements
        BY <1>6 DEF RawQueryStatement, Executing, InStatements
    <2>2. \/ \E entry, errors, connection : \E phase \in {"run", "error"} :
                 Report(r, entry, errors, connection, phase)
          \/ \E entry : request' = [request EXCEPT ![r].results = <<entry>>,
                                                   ![r].phase = "failed"]
        BY <1>6 DEF RawQueryStatement
    <2>3. QED BY <2>1, <2>2
<1>7. QED BY <1>1, <1>2, <1>3, <1>4, <1>5, <1>6 DEF InTurn

\* Only the phase, the place and the answers of the one request change.
LEMMA TurnShaped ==
    ASSUME RowIds, NEW r \in Request, InTurn(r)
    PROVE  /\ request' = [s \in Request |-> request'[s]]
           /\ \A s \in Request \ {r} : request'[s] = request[s]
           /\ Shaped(request'[r])
           /\ request'[r].phase \in InStatements \cup {"failed"}
           /\ request'[r].overlapped = request[r].overlapped
           /\ request'[r].victims = request[r].victims
<1> DEFINE Goal == /\ request' = [s \in Request |-> request'[s]]
                   /\ \A s \in Request \ {r} : request'[s] = request[s]
                   /\ Shaped(request'[r])
                   /\ request'[r].phase \in InStatements \cup {"failed"}
                   /\ request'[r].overlapped = request[r].overlapped
                   /\ request'[r].victims = request[r].victims
<1>1. ASSUME NEW entry, NEW errors, NEW connection, NEW phase \in {"run", "error"},
             Report(r, entry, errors, connection, phase)
      PROVE  Goal
    BY <1>1 DEF Report, Shaped, RequestFields, RowIds, AreRequests, InStatements
<1>2. ASSUME request' = [request EXCEPT ![r].next = @ + 1] PROVE Goal
    <2>1. request[r].phase \in InStatements BY TurnForms
    <2>2. QED BY <1>2, <2>1 DEF Shaped, RequestFields, RowIds, AreRequests
<1>3. ASSUME NEW entry, request' = [request EXCEPT ![r].results = <<entry>>,
                                                   ![r].phase = "failed"]
      PROVE  Goal
    BY <1>3 DEF Shaped, RequestFields, RowIds, AreRequests
<1>4. ASSUME NEW phase \in {"run", "exec"}, request' = [request EXCEPT ![r].phase = phase]
      PROVE  Goal
    BY <1>4 DEF Shaped, RequestFields, RowIds, AreRequests, InStatements
<1> HIDE DEF Goal
<1>5. \/ \E entry, errors, connection : \E phase \in {"run", "error"} :
             Report(r, entry, errors, connection, phase)
      \/ request' = [request EXCEPT ![r].next = @ + 1]
      \/ \E entry : request' = [request EXCEPT ![r].results = <<entry>>,
                                               ![r].phase = "failed"]
      \/ \E phase \in {"run", "exec"} : request' = [request EXCEPT ![r].phase = phase]
    BY TurnForms
<1>6. Goal BY <1>1, <1>2, <1>3, <1>4, <1>5
<1>7. QED BY <1>6 DEF Goal

\* The fields of a request whose statement gets a result, whose blank statement is passed,
\* which fails with a result, or whose phase alone changes.
LEMMA ReportFields ==
    ASSUME RowIds, NEW r \in Request, NEW entry, NEW errors, NEW connection, NEW phase,
           Report(r, entry, errors, connection, phase)
    PROVE  /\ \A s \in Request \ {r} : request'[s] = request[s]
           /\ request'[r].op = request[r].op /\ request'[r].user = request[r].user
           /\ request'[r].queries = request[r].queries
           /\ request'[r].proceed = request[r].proceed
           /\ request'[r].row = request[r].row /\ request'[r].victims = request[r].victims
           /\ request'[r].next = request[r].next + 1
           /\ request'[r].results = Append(request[r].results, entry)
           /\ request'[r].error = request[r].error \cup errors
           /\ request'[r].connection = connection /\ request'[r].phase = phase
<1> DEFINE more == Append(request[r].results, entry)
           new == [request[r] EXCEPT !.results = more, !.next = @ + 1, !.error = @ \cup errors,
                                     !.connection = connection, !.phase = phase]
<1>1. request' = [request EXCEPT ![r] = new]
    BY DEF Report
<1> HIDE DEF more
<1>2. /\ \A s \in Request \ {r} : request'[s] = request[s]
      /\ request'[r] = new /\ Shaped(request[r])
    <2> HIDE DEF new
    <2>1. QED BY <1>1 DEF RowIds, AreRequests
<1>3. /\ new.op = request[r].op /\ new.user = request[r].user
      /\ new.queries = request[r].queries /\ new.proceed = request[r].proceed
      /\ new.row = request[r].row /\ new.victims = request[r].victims
      /\ new.next = request[r].next + 1 /\ new.results = more
      /\ new.error = request[r].error \cup errors
      /\ new.connection = connection /\ new.phase = phase
    BY <1>2 DEF Shaped, RequestFields
<1> HIDE DEF new
<1>4. QED BY <1>2, <1>3 DEF more

LEMMA NextFields ==
    ASSUME RowIds, NEW r \in Request, request' = [request EXCEPT ![r].next = @ + 1]
    PROVE  /\ \A s \in Request \ {r} : request'[s] = request[s]
           /\ request'[r].op = request[r].op /\ request'[r].user = request[r].user
           /\ request'[r].queries = request[r].queries
           /\ request'[r].proceed = request[r].proceed
           /\ request'[r].row = request[r].row /\ request'[r].victims = request[r].victims
           /\ request'[r].next = request[r].next + 1
           /\ request'[r].results = request[r].results
           /\ request'[r].error = request[r].error
           /\ request'[r].connection = request[r].connection
           /\ request'[r].phase = request[r].phase
BY DEF RowIds, AreRequests, Shaped, RequestFields

LEMMA FailFields ==
    ASSUME RowIds, NEW r \in Request, NEW results,
           request' = [request EXCEPT ![r].results = results, ![r].phase = "failed"]
    PROVE  /\ \A s \in Request \ {r} : request'[s] = request[s]
           /\ request'[r].op = request[r].op /\ request'[r].user = request[r].user
           /\ request'[r].queries = request[r].queries
           /\ request'[r].proceed = request[r].proceed
           /\ request'[r].row = request[r].row /\ request'[r].victims = request[r].victims
           /\ request'[r].next = request[r].next
           /\ request'[r].results = results
           /\ request'[r].error = request[r].error
           /\ request'[r].connection = request[r].connection
           /\ request'[r].phase = "failed"
BY DEF RowIds, AreRequests, Shaped, RequestFields

LEMMA PhaseFields ==
    ASSUME RowIds, NEW r \in Request, NEW phase, request' = [request EXCEPT ![r].phase = phase]
    PROVE  /\ \A s \in Request \ {r} : request'[s] = request[s]
           /\ request'[r].op = request[r].op /\ request'[r].user = request[r].user
           /\ request'[r].queries = request[r].queries
           /\ request'[r].proceed = request[r].proceed
           /\ request'[r].row = request[r].row /\ request'[r].victims = request[r].victims
           /\ request'[r].next = request[r].next
           /\ request'[r].results = request[r].results
           /\ request'[r].error = request[r].error
           /\ request'[r].connection = request[r].connection
           /\ request'[r].phase = phase
BY DEF RowIds, AreRequests, Shaped, RequestFields

LEMMA TurnsKeepRowIds ==
    ASSUME RowIds, NEW r \in Request, InTurn(r)
    PROVE  RowIds'
<1>1. log' = log /\ saved' = saved BY TurnForms
<1>2. QED BY <1>1, TurnShaped, OutsideTransaction DEF Saving, InStatements

LEMMA CrashKeepsRowIds ==
    ASSUME RowIds, NEW r \in Request, Crash(r) PROVE RowIds'
<1>1. /\ request' = [s \in Request |-> request'[s]]
      /\ \A s \in Request \ {r} : request'[s] = request[s]
      /\ Shaped(request'[r])
      /\ request'[r].phase = "failed"
    BY DEF Crash, Shaped, RequestFields, RowIds, AreRequests
<1>2. log' = log /\ saved' = saved BY DEF Crash
<1>3. QED BY <1>1, <1>2, OutsideTransaction DEF Saving

-----------------------------------------------------------------------------
(* Saving                                                                  *)

LEMMA InsertKeepsRowIds ==
    ASSUME RowIds, NEW r \in Request, Insert(r) PROVE RowIds'
<1>1. CASE ~dbServer.exists
    <2>0. request' = [request EXCEPT ![r].phase = "failed", ![r].connection = "none"]
        BY <1>1 DEF Insert
    <2>1. /\ request' = [s \in Request |-> request'[s]]
          /\ \A s \in Request \ {r} : request'[s] = request[s]
          /\ Shaped(request'[r])
          /\ request'[r].phase = "failed"
        BY <2>0 DEF Shaped, RequestFields, RowIds, AreRequests
    <2>2. log' = log /\ saved' = saved BY <1>1 DEF Insert
    <2>3. QED BY <2>1, <2>2, OutsideTransaction DEF Saving
<1>2. CASE dbServer.exists
    <2>1. saved' = saved + 1 /\ log' = log BY <1>2 DEF Insert
    <2> DEFINE with == Overlapping(r)
               full == Cardinality(RowsOfUser(request[r].user)) + 1 > Cap
               inserted == [request EXCEPT ![r].row = saved + 1, ![r].connection = "none",
                                       ![r].phase = IF full THEN "trim" ELSE "commit"]
    <2>2. request' = [s \in Request |->
                          IF s \in with \/ (s = r /\ with # {})
                          THEN [inserted[s] EXCEPT !.overlapped = TRUE] ELSE inserted[s]]
        BY <1>2 DEF Insert
    <2> HIDE DEF with, full
    <2>3. \A s \in Request : Shaped(inserted[s])
        BY DEF RowIds, AreRequests, Shaped, RequestFields
    <2>4. /\ inserted[r].row = saved + 1
          /\ \A s \in Request \ {r} : inserted[s] = request[s]
        BY DEF RowIds, AreRequests, Shaped, RequestFields
    <2>5. \A s \in Request : request'[s] = inserted[s]
                             \/ request'[s] = [inserted[s] EXCEPT !.overlapped = TRUE]
        BY <2>2
    <2>6. request' = [s \in Request |-> request'[s]]
        BY <2>2
    <2> HIDE DEF inserted
    <2>7. \A s \in Request : /\ Shaped(request'[s])
                             /\ request'[s].row = inserted[s].row
                             /\ request'[s].phase = inserted[s].phase
        BY <2>3, <2>5 DEF Shaped, RequestFields
    <2>8. AreRequests' BY <2>6, <2>7 DEF AreRequests
    <2>9. AreRows' BY <2>1 DEF RowIds, AreRows
    <2>10. OneIdPerRow' BY <2>1 DEF RowIds, OneIdPerRow
    <2>11. FreshRows'
        <3>1. \A x \in log : x.id \in 1..saved BY DEF RowIds, AreRows
        <3>2. \A s \in Request : request[s].phase \in Saving => request[s].row \in 1..saved
            BY DEF RowIds, FreshRows, FreshRow
        <3>3. ASSUME NEW s \in Request, request'[s].phase \in Saving
              PROVE  FreshRow(s)'
            <4>1. CASE s = r
                <5>1. request'[s].row = saved + 1 BY <4>1, <2>7, <2>4
                <5>2. \A t \in Request \ {r} : request'[t].row = request[t].row
                                               /\ request'[t].phase = request[t].phase
                    BY <2>7, <2>4
                <5>3. QED BY <5>1, <5>2, <4>1, <3>1, <3>2, <2>1 DEF RowIds, FreshRow
            <4>2. CASE s # r
                <5>1. request'[s].row = request[s].row /\ request[s].phase \in Saving
                    BY <4>2, <3>3, <2>7, <2>4
                <5>2. FreshRow(s) BY <5>1 DEF RowIds, FreshRows
                <5>3. request'[r].row = saved + 1 BY <2>7, <2>4
                <5>4. \A t \in Request \ {r} : request'[t].row = request[t].row
                                               /\ request'[t].phase = request[t].phase
                    BY <2>7, <2>4
                <5>5. QED BY <5>1, <5>2, <5>3, <5>4, <2>1 DEF RowIds, FreshRow
            <4>3. QED BY <4>1, <4>2
        <3>4. QED BY <3>3 DEF FreshRows
    <2>12. QED BY <2>1, <2>8, <2>9, <2>10, <2>11 DEF RowIds
<1>3. QED BY <1>1, <1>2

LEMMA TrimKeepsRowIds ==
    ASSUME RowIds, NEW r \in Request, Trim(r) PROVE RowIds'
<1>1. /\ request' = [s \in Request |-> request'[s]]
      /\ \A s \in Request \ {r} : request'[s] = request[s]
      /\ Shaped(request'[r])
      /\ request'[r].row = request[r].row
      /\ request[r].phase \in Saving
    BY DEF Trim, Shaped, RequestFields, RowIds, AreRequests, Saving
<1>2. log' = log /\ saved' = saved BY DEF Trim
<1>3. AreRequests' BY <1>1 DEF RowIds, AreRequests
<1>4. FreshRows' BY <1>1, <1>2 DEF RowIds, FreshRows, FreshRow
<1>5. AreRows' /\ OneIdPerRow' /\ saved' \in Nat /\ IsFiniteSet(log')
    BY <1>2 DEF RowIds, AreRows, OneIdPerRow
<1>6. QED BY <1>3, <1>4, <1>5 DEF RowIds

LEMMA CommitKeepsRowIds ==
    ASSUME RowIds, NEW r \in Request, Commit(r) PROVE RowIds'
<1>1. /\ request' = [s \in Request |-> request'[s]]
      /\ \A s \in Request \ {r} : request'[s] = request[s]
      /\ Shaped(request'[r])
      /\ request'[r].phase = "done"
      /\ request[r].phase \in Saving
    BY DEF Commit, Shaped, RequestFields, RowIds, AreRequests, Saving
<1>2. log' \subseteq log \cup {RowOf(r)} /\ saved' = saved BY DEF Commit
<1>3. FreshRow(r) BY <1>1 DEF RowIds, FreshRows
<1>4. AreRequests' BY <1>1 DEF RowIds, AreRequests
<1>5. AreRows' BY <1>2, <1>3 DEF RowIds, AreRows, FreshRow, RowOf
<1>6. OneIdPerRow'
    <2>1. RowOf(r).id = request[r].row BY DEF RowOf
    <2>2. \A x \in log : x.id # RowOf(r).id BY <2>1, <1>3 DEF FreshRow
    <2>3. QED BY <1>2, <2>2 DEF RowIds, OneIdPerRow
<1>7. IsFiniteSet(log')
    <2>1. IsFiniteSet(log \cup {RowOf(r)}) BY FS_AddElement DEF RowIds
    <2>2. QED BY <2>1, <1>2, FS_Subset
<1>8. FreshRows'
    <2>1. ASSUME NEW s \in Request, request'[s].phase \in Saving PROVE FreshRow(s)'
        <3>1. s # r /\ request'[s] = request[s] BY <1>1, <2>1 DEF Saving
        <3>2. FreshRow(s) BY <3>1, <2>1 DEF RowIds, FreshRows
        <3>3. RowOf(r).id # request[s].row
            BY <1>1, <1>3, <2>1, <3>1 DEF FreshRow, RowOf
        <3>4. QED BY <1>1, <1>2, <3>1, <3>2, <3>3 DEF FreshRow, Saving
    <2>2. QED BY <2>1 DEF FreshRows
<1>9. QED BY <1>2, <1>4, <1>5, <1>6, <1>7, <1>8 DEF RowIds

-----------------------------------------------------------------------------
(* Favourites and deletion                                                 *)

LEMMA MarkWriteKeepsRowIds ==
    ASSUME RowIds, NEW r \in Request, MarkWrite(r) PROVE RowIds'
<1>1. /\ request' = [s \in Request |-> request'[s]]
      /\ \A s \in Request \ {r} : request'[s] = request[s]
      /\ Shaped(request'[r])
      /\ request'[r].phase = "done"
    BY DEF MarkWrite, Shaped, RequestFields, RowIds, AreRequests
<1> DEFINE Marked(x) == IF x.id = request[r].row /\ request[r].value # request[r].loaded
                        THEN [x EXCEPT !.is_favorite = request[r].value] ELSE x
           mark == [x \in log |-> Marked(x)]
<1>2. log' = {Marked(x) : x \in log} /\ saved' = saved
    BY DEF MarkWrite
<1>3. \A x \in log : /\ Marked(x).id = x.id
                     /\ Marked(x) = [id |-> Marked(x).id, user |-> Marked(x).user,
                                     is_favorite |-> Marked(x).is_favorite,
                                     is_valid |-> Marked(x).is_valid,
                                     error |-> Marked(x).error]
    <2>1. ASSUME NEW x \in log PROVE x = [id |-> x.id, user |-> x.user,
                  is_favorite |-> x.is_favorite, is_valid |-> x.is_valid, error |-> x.error]
        BY DEF RowIds, AreRows
    <2>2. QED BY <2>1
<1>4. IsFiniteSet(log')
    <2>1. mark \in Surjection(log, log') BY <1>2 DEF Surjection
    <2>2. QED BY <2>1, FS_Surjection DEF RowIds
<1> HIDE DEF Marked
<1>5. AreRows' BY <1>2, <1>3 DEF RowIds, AreRows
<1>6. OneIdPerRow' BY <1>2, <1>3 DEF RowIds, OneIdPerRow
<1>7. AreRequests' BY <1>1 DEF RowIds, AreRequests
<1>8. FreshRows'
    <2>1. ASSUME NEW s \in Request, request'[s].phase \in Saving PROVE FreshRow(s)'
        <3>1. s # r /\ request'[s] = request[s] BY <1>1, <2>1 DEF Saving
        <3>2. FreshRow(s) BY <3>1, <2>1 DEF RowIds, FreshRows
        <3>3. \A x \in log' : x.id # request'[s].row
            BY <1>2, <1>3, <3>1, <3>2 DEF FreshRow
        <3>4. QED BY <1>1, <1>2, <3>1, <3>2, <3>3 DEF FreshRow, Saving
    <2>2. QED BY <2>1 DEF FreshRows
<1>9. QED BY <1>2, <1>4, <1>5, <1>6, <1>7, <1>8 DEF RowIds

LEMMA DeleteServerKeepsRowIds ==
    ASSUME RowIds, DeleteServer PROVE RowIds'
<1>1. log' = {} /\ request' = request /\ saved' = saved BY DEF DeleteServer
<1>2. IsFiniteSet(log') BY <1>1, FS_EmptySet
<1>3. QED
    BY <1>1, <1>2 DEF RowIds, AreRequests, AreRows, OneIdPerRow, FreshRows, FreshRow

-----------------------------------------------------------------------------
(* The theorems                                                            *)

LEMMA NextKeepsRowIds == RowIds /\ [Next]_vars => RowIds'
<1> SUFFICES ASSUME RowIds, [Next]_vars PROVE RowIds'
    OBVIOUS
<1>1. ASSUME NEW r \in Request, NEW u \in User, Begin(r, u) PROVE RowIds'
    BY <1>1, BeginKeepsRowIds
<1>2. ASSUME NEW r \in Request, InTurn(r) PROVE RowIds'
    BY <1>2, TurnsKeepRowIds
<1>3. ASSUME NEW r \in Request, Insert(r) PROVE RowIds'
    BY <1>3, InsertKeepsRowIds
<1>4. ASSUME NEW r \in Request, Trim(r) PROVE RowIds'
    BY <1>4, TrimKeepsRowIds
<1>5. ASSUME NEW r \in Request, Commit(r) PROVE RowIds'
    BY <1>5, CommitKeepsRowIds
<1>6. ASSUME NEW r \in Request, MarkLoad(r) PROVE RowIds'
    BY <1>6, MarkLoadKeepsRowIds
<1>7. ASSUME NEW r \in Request, MarkWrite(r) PROVE RowIds'
    BY <1>7, MarkWriteKeepsRowIds
<1>8. ASSUME NEW r \in Request, Crash(r) PROVE RowIds'
    BY <1>8, CrashKeepsRowIds
<1>9. CASE DeleteServer BY <1>9, DeleteServerKeepsRowIds
<1>10. CASE UNCHANGED vars
    BY <1>10 DEF vars, RowIds, AreRequests, AreRows, OneIdPerRow, FreshRows, FreshRow
<1>11. QED
    BY <1>1, <1>2, <1>3, <1>4, <1>5, <1>6, <1>7, <1>8, <1>9, <1>10 DEF Next, InTurn

\* Every row of the log has an id of its own, also against the rows that transactions are
\* about to commit, and the log is finite: what the trimming by id rests on.
THEOREM RowIdsAlways == Spec => []RowIds
BY RowIdsInit, NextKeepsRowIds, PTL DEF Spec

\* The favourites that a trimming chooses have more rows before them than the cap allows,
\* none of which is the new row: the log was above its cap before.
LEMMA TrimSparesFavourites ==
    ASSUME RowIds, NEW r \in Request, Trim(r),
           NEW x \in log, x.is_favorite, x.id \in request'[r].victims
    PROVE  Cardinality(RowsOfUser(x.user)) > Cap
<1> DEFINE u == request[r].user
           better == {z \in Visible(r) : Before(z, x)}
<1>1. request'[r].victims = {y.id : y \in BeyondCap(Visible(r))}
    BY DEF Trim, RowIds, AreRequests, Shaped, RequestFields
<1>2. PICK y \in BeyondCap(Visible(r)) : y.id = x.id
    BY <1>1
<1>3. RowOf(r).id # x.id /\ RowOf(r).is_favorite = FALSE
    <2>1. request[r].phase \in Saving BY DEF Trim, Saving
    <2>2. QED BY <2>1 DEF RowIds, FreshRows, FreshRow, RowOf
<1>4. y = x /\ x.user = u
    <2>1. y \in RowsOfUser(u) BY <1>2, <1>3 DEF BeyondCap, Visible
    <2>2. QED BY <2>1, <1>2 DEF RowsOfUser, RowIds, OneIdPerRow
<1>5. Cardinality(better) >= Cap
    BY <1>2, <1>4 DEF BeyondCap
<1>6. better \subseteq RowsOfUser(u) \ {x}
    <2>1. ASSUME NEW z \in better PROVE z \in RowsOfUser(u) \ {x}
        <3>1. z # RowOf(r) BY <1>3 DEF Before
        <3>2. z # x
            <4>1. x.id \in Nat BY DEF RowIds, AreRows
            <4>2. QED BY <4>1 DEF Before
        <3>3. QED BY <3>1, <3>2 DEF Visible
    <2>2. QED BY <2>1
<1>7. IsFiniteSet(RowsOfUser(u)) /\ x \in RowsOfUser(u)
    <2>1. RowsOfUser(u) \subseteq log BY DEF RowsOfUser
    <2>2. QED BY <2>1, <1>4, FS_Subset DEF RowIds, RowsOfUser
<1>8. /\ IsFiniteSet(RowsOfUser(u) \ {x})
      /\ Cardinality(RowsOfUser(u) \ {x}) = Cardinality(RowsOfUser(u)) - 1
    BY <1>7, FS_RemoveElement
<1>9. IsFiniteSet(better) /\ Cardinality(better) <= Cardinality(RowsOfUser(u) \ {x})
    BY <1>6, <1>8, FS_Subset
<1>10. /\ Cardinality(RowsOfUser(u)) \in Nat
       /\ Cardinality(better) \in Nat
    BY <1>7, <1>9, FS_CardinalityType
<1>11. QED BY <1>4, <1>5, <1>8, <1>9, <1>10, QueryRunsAssumption

\* A favourite is lost only in a race: the rows that a trimming chooses hold a favourite
\* only when saves that overlapped had left the log above its cap.
THEOREM FavouriteLossNeedsRaceAlways == Spec => FavouriteLossNeedsRace
<1>1. RowIds /\ [Next]_vars =>
          [\A r \in Request : Trim(r) =>
              \A x \in log : x.is_favorite /\ x.id \in request'[r].victims =>
                  Cardinality(RowsOfUser(x.user)) > Cap]_vars
    BY TrimSparesFavourites
<1>2. QED BY <1>1, RowIdsAlways, PTL DEF Spec, FavouriteLossNeedsRace
-----------------------------------------------------------------------------
(* The cap of the log                                                      *)

\* The rows of a user by their ids, which outlive a change of the row; those that remain
\* when r commits; and the overlapped requests of a user that are over.
Ids(u) == {x.id : x \in RowsOfUser(u)}
Kept(r) == (Ids(request[r].user) \cup {request[r].row}) \ request[r].victims
Done(u) == {r \in Request : /\ request[r].user = u
                            /\ request[r].overlapped
                            /\ request[r].phase \notin Saving}
Allowed(u) == Cap + (IF Done(u) = {} THEN 0 ELSE Cardinality(Done(u)) - 1)

CapHolds == \A u \in User : Cardinality(Ids(u)) <= Allowed(u)

\* A transaction that commits alone leaves no more than the cap, and so does the first of
\* those that overlapped.
Trimmed == \A r \in Request :
    /\ request[r].phase = "commit"
    /\ Done(request[r].user) = {} \/ ~request[r].overlapped
    => Cardinality(Kept(r)) <= Cap

AllOverlapped == \A r, s \in Request :
    /\ r # s /\ request[r].user = request[s].user
    /\ request[r].phase \in Saving /\ request[s].phase \in Saving
    => request[r].overlapped

EarlyPhase == {"idle", "run", "exec", "error", "mark"}
EarlyClean == \A r \in Request :
    request[r].phase \in EarlyPhase => ~request[r].overlapped /\ request[r].victims = {}

\* A favourite is one or not.
Flags == /\ \A x \in log : x.is_favorite \in BOOLEAN
         /\ \A r \in Request : request[r].phase = "mark" => request[r].value \in BOOLEAN

CapInv == RowIds /\ CapHolds /\ Trimmed /\ AllOverlapped /\ EarlyClean /\ Flags

LEMMA SmallerSet ==
    ASSUME NEW S, NEW T, IsFiniteSet(T), S \subseteq T
    PROVE  /\ IsFiniteSet(S)
           /\ Cardinality(S) \in Nat /\ Cardinality(T) \in Nat
           /\ Cardinality(S) <= Cardinality(T)
BY FS_Subset, FS_CardinalityType

LEMMA FiniteIds ==
    ASSUME RowIds, NEW u
    PROVE  /\ IsFiniteSet(Ids(u))
           /\ Cardinality(Ids(u)) = Cardinality(RowsOfUser(u))
           /\ IsFiniteSet(RowsOfUser(u))
<1> DEFINE f == [x \in RowsOfUser(u) |-> x.id]
<1>1. IsFiniteSet(RowsOfUser(u))
    BY FS_Subset DEF RowIds, RowsOfUser
<1>2. f \in Surjection(RowsOfUser(u), Ids(u))
    BY DEF Surjection, Ids
<1>3. f \in Injection(RowsOfUser(u), Ids(u))
    BY <1>2 DEF Surjection, Injection, IsInjective, RowIds, OneIdPerRow, RowsOfUser
<1>4. QED BY <1>1, <1>2, <1>3, FS_Surjection

LEMMA FiniteKept ==
    ASSUME RowIds, NEW r \in Request
    PROVE  IsFiniteSet(Kept(r))
<1>1. IsFiniteSet(Ids(request[r].user) \cup {request[r].row})
    BY FiniteIds, FS_AddElement
<1>2. QED BY <1>1, FS_Subset DEF Kept

LEMMA FiniteDone ==
    ASSUME NEW u
    PROVE  IsFiniteSet(Done(u)) /\ Cardinality(Done(u)) \in Nat
           /\ (Done(u) # {} => Cardinality(Done(u)) >= 1)
<1>1. IsFiniteSet(Done(u)) BY QueryRunsAssumption, FS_Subset DEF Done
<1>2. QED BY <1>1, FS_CardinalityType, FS_EmptySet

\* Trimming keeps no more rows than the cap: the rows kept have different numbers of rows
\* before them, all below the cap.
LEMMA TrimmedToCap ==
    ASSUME NEW rows, IsFiniteSet(rows),
           \A x \in rows : x.id \in Nat /\ x.is_favorite \in BOOLEAN,
           \A x, y \in rows : x.id = y.id => x = y
    PROVE  /\ IsFiniteSet(rows \ BeyondCap(rows))
           /\ Cardinality(rows \ BeyondCap(rows)) <= Cap
<1> DEFINE Better(x) == {y \in rows : Before(y, x)}
           keep == rows \ BeyondCap(rows)
           rank == [x \in keep |-> Cardinality(Better(x))]
<1>1. \A x \in rows : IsFiniteSet(Better(x)) /\ Cardinality(Better(x)) \in Nat
    BY FS_Subset, FS_CardinalityType
<1>2. rank \in [keep -> 0..(Cap - 1)]
    <2>1. ASSUME NEW x \in keep PROVE Cardinality(Better(x)) \in 0..(Cap - 1)
        <3>1. ~(Cardinality(Better(x)) >= Cap) BY DEF BeyondCap
        <3>2. Cardinality(Better(x)) \in Nat BY <1>1
        <3> HIDE DEF Better
        <3>3. QED BY <3>1, <3>2, QueryRunsAssumption
    <2>2. QED BY <2>1
<1>3. ASSUME NEW x \in keep, NEW y \in keep, Before(x, y)
      PROVE  Cardinality(Better(x)) < Cardinality(Better(y))
    <2>1. x.id \in Nat /\ y.id \in Nat OBVIOUS
    <2>2. x \notin Better(x) BY <2>1 DEF Before
    <2>3. Better(x) \cup {x} \subseteq Better(y)
        <3>1. ASSUME NEW z \in Better(x) PROVE Before(z, y)
            <4>1. z.id \in Nat /\ Before(z, x) OBVIOUS
            <4>2. QED BY <4>1, <2>1, <1>3 DEF Before
        <3>2. QED BY <3>1, <1>3
    <2>4. /\ IsFiniteSet(Better(x) \cup {x})
          /\ Cardinality(Better(x) \cup {x}) = Cardinality(Better(x)) + 1
        BY <1>1, <2>2, FS_AddElement
    <2>5. Cardinality(Better(x) \cup {x}) <= Cardinality(Better(y))
        BY <1>1, <2>3, SmallerSet
    <2>6. QED BY <2>4, <2>5, <1>1
<1>4. rank \in Injection(keep, 0..(Cap - 1))
    <2>1. ASSUME NEW x \in keep, NEW y \in keep, x # y PROVE rank[x] # rank[y]
        <3>1. /\ x.id # y.id /\ x.id \in Nat /\ y.id \in Nat
              /\ x.is_favorite \in BOOLEAN /\ y.is_favorite \in BOOLEAN
            BY <2>1
        <3>2. Before(x, y) \/ Before(y, x) BY <3>1 DEF Before
        <3>3. Cardinality(Better(x)) \in Nat /\ Cardinality(Better(y)) \in Nat BY <1>1
        <3>4. Cardinality(Better(x)) # Cardinality(Better(y))
            <4>1. \/ Cardinality(Better(x)) < Cardinality(Better(y))
                  \/ Cardinality(Better(y)) < Cardinality(Better(x))
                BY <3>2, <1>3
            <4> HIDE DEF Better
            <4>2. QED BY <3>3, <4>1
        <3>5. QED BY <3>4
    <2>2. QED BY <2>1, <1>2 DEF Injection, IsInjective
<1>5. IsFiniteSet(0..(Cap - 1)) /\ Cardinality(0..(Cap - 1)) = Cap
    BY QueryRunsAssumption, FS_Interval
<1>6. QED BY <1>4, <1>5, FS_Injection

\* What a request has to do with the cap stays, or the request stays outside.
SameForCap(s) == /\ request'[s].user = request[s].user
                 /\ request'[s].phase = request[s].phase
                 /\ request'[s].overlapped = request[s].overlapped
                 /\ request'[s].row = request[s].row
                 /\ request'[s].victims = request[s].victims
StaysOutside(s) == /\ request[s].phase \in EarlyPhase
                   /\ request'[s].phase \notin Saving
                   /\ ~request'[s].overlapped
                   /\ request'[s].victims = {}

LEMMA OutsideKeepsCap ==
    ASSUME CapInv, RowIds',
           \A s \in Request : SameForCap(s) \/ StaysOutside(s),
           \A u : Ids(u)' \subseteq Ids(u), Flags'
    PROVE  CapInv'
<1>1. \A u : Done(u)' = Done(u)
    BY DEF Done, SameForCap, StaysOutside, CapInv, EarlyClean
<1>2. CapHolds'
    <2>1. ASSUME NEW u \in User PROVE Cardinality(Ids(u))' <= Allowed(u)'
        <3>1. Allowed(u)' = Allowed(u) BY <1>1 DEF Allowed
        <3>2. Cardinality(Ids(u)) <= Allowed(u) BY DEF CapInv, CapHolds
        <3>3. /\ Cardinality(Ids(u)) \in Nat /\ Cardinality(Ids(u)') \in Nat
              /\ Cardinality(Ids(u)') <= Cardinality(Ids(u))
            BY FiniteIds, SmallerSet DEF CapInv
        <3>4. Allowed(u) \in Int BY FiniteDone, QueryRunsAssumption DEF Allowed
        <3>5. QED BY <3>1, <3>2, <3>3, <3>4
    <2>2. QED BY <2>1 DEF CapHolds
<1>3. Trimmed'
    <2>1. ASSUME NEW r \in Request, request'[r].phase = "commit",
                 Done(request[r].user)' = {} \/ ~request'[r].overlapped,
                 SameForCap(r)
          PROVE  Cardinality(Kept(r)') <= Cap
        <3>1. Cardinality(Kept(r)) <= Cap
            BY <1>1, <2>1 DEF SameForCap, CapInv, Trimmed
        <3>2. Kept(r)' \subseteq Kept(r) BY <2>1 DEF Kept, SameForCap
        <3>3. QED BY <3>1, <3>2, FiniteKept, SmallerSet, QueryRunsAssumption DEF CapInv
    <2>2. ASSUME NEW r \in Request, request'[r].phase = "commit" PROVE SameForCap(r)
        BY <2>2 DEF StaysOutside, Saving
    <2>3. QED BY <2>1, <2>2 DEF Trimmed, SameForCap
<1>4. AllOverlapped' /\ EarlyClean'
    BY DEF CapInv, AllOverlapped, EarlyClean, SameForCap, StaysOutside
<1>5. QED BY <1>2, <1>3, <1>4 DEF CapInv

\* A request leaves its transaction: it fails and the log stays, or it commits.
LEMMA LeavingKeepsCap ==
    ASSUME CapInv, RowIds', NEW r \in Request,
           request[r].phase \in Saving, request'[r].phase \in {"done", "failed"},
           request'[r].user = request[r].user,
           request'[r].overlapped = request[r].overlapped,
           \A s \in Request \ {r} : request'[s] = request[s],
           \/ \A u : Ids(u)' \subseteq Ids(u)
           \/ /\ request[r].phase = "commit"
              /\ \A u : u # request[r].user => Ids(u)' \subseteq Ids(u)
              /\ Ids(request[r].user)' \subseteq Kept(r),
           Flags'
    PROVE  CapInv'
<1> DEFINE v == request[r].user
<1>0. RowIds BY DEF CapInv
<1>1. \A u : Done(u)' = IF u = v /\ request[r].overlapped THEN Done(u) \cup {r} ELSE Done(u)
    BY DEF Done, Saving
<1>2. r \notin Done(v) BY DEF Done
<1>3. \A s \in Request \ {r} :
          request[s].user = v /\ request[s].phase \in Saving =>
              request[r].overlapped /\ request[s].overlapped
    BY DEF CapInv, AllOverlapped
<1>4. \A u : u # v => Ids(u)' \subseteq Ids(u)
    OBVIOUS
<1>5. CapHolds'
    <2>1. ASSUME NEW u \in User PROVE Cardinality(Ids(u)') <= Allowed(u)'
        <3>1. /\ Cardinality(Ids(u)) \in Nat /\ Cardinality(Ids(u)) <= Allowed(u)
              /\ IsFiniteSet(Ids(u) \cup {request[r].row})
              /\ Cardinality(Ids(u) \cup {request[r].row}) =
                    IF request[r].row \in Ids(u) THEN Cardinality(Ids(u))
                    ELSE Cardinality(Ids(u)) + 1
            BY <1>0, FiniteIds, FS_CardinalityType, FS_AddElement DEF CapInv, CapHolds
        <3>2. Ids(u)' \subseteq Ids(u) \cup {request[r].row}
            BY <1>4 DEF Kept
        <3>3. /\ Cardinality(Ids(u)) \in Nat /\ Cardinality(Ids(u)') \in Nat
              /\ Cardinality(Ids(u)) <= Allowed(u)
              /\ Cardinality(Ids(u)') <= Cardinality(Ids(u)) + 1
            <4>1. /\ Cardinality(Ids(u)') \in Nat
                  /\ Cardinality(Ids(u)') <= Cardinality(Ids(u) \cup {request[r].row})
                BY <3>1, <3>2, SmallerSet
            <4>2. QED BY <3>1, <4>1
        <3>4. /\ Allowed(u) \in Nat /\ Allowed(u)' \in Nat /\ Allowed(u) <= Allowed(u)'
              /\ u = v /\ request[r].overlapped => 
                    /\ Done(u) = {} => Allowed(u)' = Cap
                    /\ Done(u) # {} => Allowed(u)' = Allowed(u) + 1
              /\ Cap <= Allowed(u)'
              /\ Done(u) = {} => Allowed(u) = Cap
            <4>1. CASE u = v /\ request[r].overlapped
                <5>1. Done(u)' = Done(u) \cup {r} /\ r \notin Done(u) BY <4>1, <1>1, <1>2
                <5>2. Cardinality(Done(u)') = Cardinality(Done(u)) + 1
                    BY <5>1, FiniteDone, FS_AddElement
                <5>3. Done(u) = {} => Cardinality(Done(u)) = 0 BY FS_EmptySet
                <5>4. Done(u)' # {} BY <5>1
                <5>5. QED BY <4>1, <5>2, <5>3, <5>4, FiniteDone, QueryRunsAssumption DEF Allowed
            <4>2. CASE ~(u = v /\ request[r].overlapped)
                <5>1. Done(u)' = Done(u) BY <4>2, <1>1
                <5>2. QED BY <4>2, <5>1, FiniteDone, QueryRunsAssumption DEF Allowed
            <4>3. QED BY <4>1, <4>2
        <3>5. CASE Ids(u)' \subseteq Ids(u)
            <4>1. Cardinality(Ids(u)') <= Cardinality(Ids(u))
                BY <3>5, <1>0, FiniteIds, SmallerSet
            <4>2. QED BY <4>1, <3>3, <3>4
        <3>6. CASE u = v /\ request[r].phase = "commit" /\ Ids(v)' \subseteq Kept(r)
            <4>1. CASE Done(v) = {} \/ ~request[r].overlapped
                <5>1. Cardinality(Kept(r)) <= Cap BY <3>6, <4>1 DEF CapInv, Trimmed
                <5>2. /\ Cardinality(Ids(u)') <= Cardinality(Kept(r))
                      /\ Cardinality(Kept(r)) \in Nat
                    BY <3>6, <1>0, FiniteKept, SmallerSet
                <5>3. QED BY <5>1, <5>2, <3>3, <3>4, QueryRunsAssumption
            <4>2. CASE Done(v) # {} /\ request[r].overlapped
                <5>1. QED BY <3>6, <4>2, <3>3, <3>4
            <4>3. QED BY <4>1, <4>2
        <3>7. QED BY <3>5, <3>6, <1>4
    <2>2. QED BY <2>1 DEF CapHolds
<1>6. Trimmed'
    <2>1. ASSUME NEW s \in Request, request'[s].phase = "commit",
                 Done(request[s].user)' = {} \/ ~request'[s].overlapped
          PROVE  Cardinality(Kept(s)') <= Cap
        <3>1. s # r /\ request'[s] = request[s] BY <2>1
        <3>2. request[s].user # v
            <4>1. SUFFICES ASSUME request[s].user = v PROVE FALSE
                OBVIOUS
            <4>2. request[r].overlapped /\ request[s].overlapped
                BY <1>3, <2>1, <3>1, <4>1 DEF Saving
            <4>3. r \in Done(v)' BY <1>1, <4>2
            <4>4. QED BY <2>1, <3>1, <4>1, <4>2, <4>3
        <3>3. Done(request[s].user)' = Done(request[s].user) BY <1>1, <3>2
        <3>4. Cardinality(Kept(s)) <= Cap
            BY <2>1, <3>1, <3>3 DEF CapInv, Trimmed
        <3>5. Kept(s)' \subseteq Kept(s) BY <1>4, <3>1, <3>2 DEF Kept
        <3>6. QED BY <3>4, <3>5, <1>0, FiniteKept, SmallerSet, QueryRunsAssumption
    <2>2. QED BY <2>1 DEF Trimmed
<1>7. AllOverlapped' BY DEF CapInv, AllOverlapped, Saving
<1>8. EarlyClean' BY DEF CapInv, EarlyClean, EarlyPhase
<1>9. QED BY <1>5, <1>6, <1>7, <1>8 DEF CapInv

LEMMA TrimKeepsCap ==
    ASSUME CapInv, RowIds', NEW r \in Request, Trim(r)
    PROVE  CapInv'
<1> DEFINE rows == Visible(r)
<1>0. RowIds BY DEF CapInv
<1>1. /\ request[r].phase = "trim" /\ request'[r].phase = "commit"
      /\ request'[r].user = request[r].user
      /\ request'[r].overlapped = request[r].overlapped
      /\ request'[r].row = request[r].row
      /\ request'[r].victims = {x.id : x \in BeyondCap(rows)}
      /\ \A s \in Request \ {r} : request'[s] = request[s]
    BY <1>0 DEF Trim, Shaped, RequestFields, RowIds, AreRequests
<1>2. log' = log BY DEF Trim
<1>3. \A u : Ids(u)' = Ids(u) /\ Done(u)' = Done(u)
    BY <1>1, <1>2 DEF Ids, RowsOfUser, Done, Saving
<1>4. CapHolds' BY <1>3 DEF CapInv, CapHolds, Allowed
<1>5. FreshRow(r) BY <1>0, <1>1 DEF RowIds, FreshRows, Saving
<1>6. Cardinality(Kept(r)') <= Cap
    <2>1. IsFiniteSet(rows)
        BY <1>0, FiniteIds, FS_AddElement DEF Visible
    <2>2. RowOf(r).id = request[r].row BY DEF RowOf
    <2>3. \A x \in rows : x.id \in Nat /\ x.is_favorite \in BOOLEAN
        <3>1. RowOf(r).is_favorite = FALSE BY DEF RowOf
        <3>2. \A x \in log : x.id \in Nat /\ x.is_favorite \in BOOLEAN
            BY <1>0 DEF RowIds, AreRows, CapInv, Flags
        <3>3. RowOf(r).id \in Nat BY <1>0, <1>5, <2>2 DEF FreshRow, RowIds
        <3>4. QED BY <3>1, <3>2, <3>3 DEF Visible, RowsOfUser
    <2>4. \A x, y \in rows : x.id = y.id => x = y
        BY <1>0, <1>5, <2>2 DEF Visible, RowsOfUser, RowIds, OneIdPerRow, FreshRow
    <2> DEFINE keep == rows \ BeyondCap(rows)
               f == [x \in keep |-> x.id]
               kept == {x.id : x \in keep}
    <2>5. IsFiniteSet(keep) /\ Cardinality(keep) <= Cap
        BY <2>1, <2>3, <2>4, TrimmedToCap
    <2>6. f \in Surjection(keep, kept) BY DEF Surjection
    <2>7. IsFiniteSet(kept) /\ Cardinality(kept) <= Cardinality(keep)
        BY <2>5, <2>6, FS_Surjection
    <2>8. Kept(r)' \subseteq kept
        <3>1. Kept(r)' = (Ids(request[r].user) \cup {request[r].row})
                            \ {x.id : x \in BeyondCap(rows)}
            BY <1>1, <1>3 DEF Kept
        <3>2. \A i \in Ids(request[r].user) \cup {request[r].row} : \E x \in rows : x.id = i
            BY <2>2 DEF Ids, Visible
        <3>3. QED BY <3>1, <3>2
    <2> HIDE DEF keep, kept, f
    <2>9. /\ Cardinality(Kept(r)') <= Cardinality(kept)
          /\ Cardinality(Kept(r)') \in Nat /\ Cardinality(kept) \in Nat
        BY <2>7, <2>8, SmallerSet
    <2>10. Cardinality(keep) \in Nat BY <2>5, FS_CardinalityType
    <2>11. QED BY <2>5, <2>7, <2>9, <2>10, QueryRunsAssumption
<1>7. Trimmed'
    <2>1. ASSUME NEW s \in Request, s # r, request'[s].phase = "commit",
                 Done(request[s].user)' = {} \/ ~request'[s].overlapped
          PROVE  Cardinality(Kept(s)') <= Cap
        <3>1. request'[s] = request[s] BY <1>1, <2>1
        <3>2. Kept(s)' = Kept(s) BY <1>3, <3>1 DEF Kept
        <3>3. QED BY <1>3, <2>1, <3>1, <3>2 DEF CapInv, Trimmed
    <2>2. QED BY <1>6, <2>1 DEF Trimmed
<1>8. AllOverlapped' BY <1>1 DEF CapInv, AllOverlapped, Saving
<1>9. EarlyClean' BY <1>1 DEF CapInv, EarlyClean, EarlyPhase
<1>10. Flags' BY <1>1, <1>2 DEF CapInv, Flags
<1>11. QED BY <1>4, <1>7, <1>8, <1>9, <1>10 DEF CapInv

LEMMA InsertKeepsCap ==
    ASSUME CapInv, RowIds', NEW r \in Request, Insert(r), dbServer.exists
    PROVE  CapInv'
<1> DEFINE v == request[r].user
           with == Overlapping(r)
           full == Cardinality(RowsOfUser(v)) + 1 > Cap
           inserted == [request EXCEPT ![r].row = saved + 1, ![r].connection = "none",
                                   ![r].phase = IF full THEN "trim" ELSE "commit"]
<1>0. RowIds BY DEF CapInv
<1>1. request' = [s \in Request |->
                      IF s \in with \/ (s = r /\ with # {})
                      THEN [inserted[s] EXCEPT !.overlapped = TRUE] ELSE inserted[s]]
    BY DEF Insert
<1>2. log' = log /\ request[r].phase = "run" BY DEF Insert
<1>3. ~request[r].overlapped /\ request[r].victims = {} /\ r \notin with
    BY <1>2 DEF CapInv, EarlyClean, EarlyPhase, Overlapping
<1> HIDE DEF with, full
<1>4. /\ inserted[r].user = v /\ inserted[r].victims = {} /\ ~inserted[r].overlapped
      /\ inserted[r].phase = IF full THEN "trim" ELSE "commit"
      /\ inserted[r].row = saved + 1
      /\ \A s \in Request \ {r} : inserted[s] = request[s]
      /\ \A s \in Request : Shaped(inserted[s])
    BY <1>0, <1>3 DEF RowIds, AreRequests, Shaped, RequestFields
<1> HIDE DEF inserted
<1>5. \A s \in Request :
          /\ request'[s].user = inserted[s].user
          /\ request'[s].victims = inserted[s].victims
          /\ request'[s].phase = inserted[s].phase
          /\ request'[s].row = inserted[s].row
          /\ s \in with \/ (s = r /\ with # {}) => request'[s].overlapped
          /\ ~(s \in with \/ (s = r /\ with # {})) =>
                request'[s].overlapped = inserted[s].overlapped
    BY <1>1, <1>4 DEF Shaped, RequestFields
<1>6. /\ request'[r].user = v /\ request'[r].victims = {}
      /\ request'[r].phase = IF full THEN "trim" ELSE "commit"
      /\ with = {} => ~request'[r].overlapped
      /\ with # {} => request'[r].overlapped
      /\ \A s \in Request \ {r} :
            /\ request'[s].user = request[s].user
            /\ request'[s].victims = request[s].victims
            /\ request'[s].phase = request[s].phase
            /\ request'[s].row = request[s].row
            /\ s \in with => request'[s].overlapped
            /\ s \notin with => request'[s].overlapped = request[s].overlapped
    BY <1>3, <1>4, <1>5
<1>7. \A s \in Request \ {r} :
          s \in with <=> request[s].phase \in Saving /\ request[s].user = v
    BY DEF with, Overlapping
<1>8. request'[r].phase \in Saving BY <1>6 DEF Saving
<1>9. \A u : Ids(u)' = Ids(u) BY <1>2 DEF Ids, RowsOfUser
<1>10. \A u : Done(u)' = Done(u)
    <2>1. ASSUME NEW u, NEW s \in Request PROVE s \in Done(u)' <=> s \in Done(u)
        <3>1. CASE s = r BY <3>1, <1>3, <1>8 DEF Done
        <3>2. CASE s # r BY <3>2, <1>6, <1>7 DEF Done
        <3>3. QED BY <3>1, <3>2
    <2>2. QED BY <2>1 DEF Done
<1>11. CapHolds' BY <1>9, <1>10 DEF CapInv, CapHolds, Allowed
<1>12. Trimmed'
    <2>1. ASSUME NEW s \in Request, s # r, request'[s].phase = "commit",
                 Done(request[s].user)' = {} \/ ~request'[s].overlapped
          PROVE  Cardinality(Kept(s)') <= Cap
        <3>1. Kept(s)' = Kept(s) BY <1>6, <1>9, <2>1 DEF Kept
        <3>2. ~request'[s].overlapped => ~request[s].overlapped BY <1>6, <2>1
        <3>3. QED BY <1>6, <1>10, <2>1, <3>1, <3>2 DEF CapInv, Trimmed
    <2>2. ASSUME request'[r].phase = "commit"
          PROVE  Cardinality(Kept(r)') <= Cap
        <3>1. Cardinality(RowsOfUser(v)) + 1 <= Cap
            <4>1. ~full BY <2>2, <1>6
            <4>2. Cardinality(RowsOfUser(v)) \in Nat
                BY <1>0, FiniteIds, FS_CardinalityType
            <4>3. QED BY <4>1, <4>2, QueryRunsAssumption DEF full
        <3>2. Kept(r)' = Ids(v) \cup {request'[r].row} BY <1>6, <1>9 DEF Kept
        <3>3. Cardinality(Kept(r)') = IF request'[r].row \in Ids(v) THEN Cardinality(Ids(v))
                                      ELSE Cardinality(Ids(v)) + 1
            BY <3>2, <1>0, FiniteIds, FS_AddElement
        <3>4. /\ Cardinality(Ids(v)) = Cardinality(RowsOfUser(v))
              /\ Cardinality(Ids(v)) \in Nat
            BY <1>0, FiniteIds, FS_CardinalityType
        <3>5. IsFiniteSet(Kept(r)')
            BY <3>2, <1>0, FiniteIds, FS_AddElement
        <3>6. Cardinality(Kept(r)') \in Nat BY <3>5, FS_CardinalityType
        <3>7. QED BY <3>1, <3>3, <3>4, <3>6, QueryRunsAssumption
    <2>3. QED BY <2>1, <2>2 DEF Trimmed
<1>13. AllOverlapped'
    <2>1. ASSUME NEW s \in Request, NEW t \in Request, s # t,
                 request'[s].user = request'[t].user,
                 request'[s].phase \in Saving, request'[t].phase \in Saving
          PROVE  request'[s].overlapped
        <3>1. CASE s = r
            <4>1. t \in with BY <2>1, <3>1, <1>6, <1>7
            <4>2. QED BY <3>1, <4>1, <1>6
        <3>2. CASE t = r
            <4>1. s \in with BY <2>1, <3>2, <1>6, <1>7
            <4>2. QED BY <2>1, <3>2, <4>1, <1>6
        <3>3. CASE s # r /\ t # r
            <4>1. request[s].overlapped
                BY <2>1, <3>3, <1>6 DEF CapInv, AllOverlapped
            <4>2. QED BY <3>3, <4>1, <1>6
        <3>4. QED BY <3>1, <3>2, <3>3
    <2>2. QED BY <2>1 DEF AllOverlapped
<1>14. EarlyClean'
    <2>1. ASSUME NEW s \in Request, request'[s].phase \in EarlyPhase
          PROVE  ~request'[s].overlapped /\ request'[s].victims = {}
        <3>1. s # r BY <2>1, <1>8 DEF EarlyPhase, Saving
        <3>2. request[s].phase \in EarlyPhase /\ s \notin with
            BY <2>1, <3>1, <1>6, <1>7 DEF EarlyPhase, Saving
        <3>3. QED BY <3>1, <3>2, <1>6 DEF CapInv, EarlyClean
    <2>2. QED BY <2>1 DEF EarlyClean
<1>15. Flags'
    <2>1. ASSUME NEW s \in Request, request'[s].phase = "mark"
          PROVE  request'[s].value \in BOOLEAN
        <3>1. s # r BY <2>1, <1>8 DEF Saving
        <3>2. request'[s].value = request[s].value
            BY <1>1, <1>4, <3>1 DEF Shaped, RequestFields
        <3>3. QED BY <2>1, <3>1, <3>2, <1>6 DEF CapInv, Flags
    <2>2. QED BY <2>1, <1>2 DEF CapInv, Flags
<1>16. QED BY <1>11, <1>12, <1>13, <1>14, <1>15 DEF CapInv

\* The steps of a request outside its transaction.
LEMMA EarlyKeepsCap ==
    ASSUME CapInv, RowIds', NEW r \in Request,
           \/ \E u \in User : Begin(r, u)
           \/ InTurn(r)
           \/ Insert(r) /\ ~dbServer.exists
           \/ MarkLoad(r)
           \/ Crash(r) /\ request[r].phase \notin Saving
    PROVE  CapInv'
<1>0. RowIds BY DEF CapInv
<1>1. log' = log /\ request[r].phase \in EarlyPhase
    BY TurnForms DEF Begin, InStatements, Insert, MarkLoad, Crash, EarlyPhase, Saving
<1>2. ~request[r].overlapped /\ request[r].victims = {}
    BY <1>1 DEF CapInv, EarlyClean
<1>3. \A s \in Request \ {r} : request'[s] = request[s]
    <2>1. CASE \E u \in User : Begin(r, u)
        BY <2>1, <1>0 DEF Begin, RowIds, AreRequests
    <2>2. CASE InTurn(r) BY <2>2, <1>0, TurnShaped
    <2>3. CASE (Insert(r) /\ ~dbServer.exists) \/ MarkLoad(r) \/ Crash(r)
        BY <2>3, <1>0 DEF Insert, MarkLoad, Crash, RowIds, AreRequests
    <2>4. QED BY <2>1, <2>2, <2>3
<1> DEFINE Outside == /\ request'[r].phase \in EarlyPhase \cup {"failed"}
                      /\ ~request'[r].overlapped /\ request'[r].victims = {}
                      /\ request'[r].phase = "mark" => request'[r].value \in BOOLEAN
<1>4. ASSUME \E u \in User : Begin(r, u) PROVE Outside
    <2>1. PICK u \in User : Begin(r, u) BY <1>4
    <2>2. PICK op, queries, proceed :
              request' = [request EXCEPT ![r] =
                  [Idle EXCEPT !.op = op, !.user = u, !.phase = "run",
                               !.queries = queries, !.proceed = proceed]]
        BY <2>1 DEF Begin
    <2>3. request'[r] = [Idle EXCEPT !.op = op, !.user = u, !.phase = "run",
                                     !.queries = queries, !.proceed = proceed]
        BY <2>2, <1>0 DEF RowIds, AreRequests
    <2>4. request'[r].phase = "run" /\ request'[r].overlapped = FALSE
          /\ request'[r].victims = {}
        BY <2>3 DEF Idle
    <2>5. QED BY <2>4 DEF EarlyPhase
<1>5. ASSUME MarkLoad(r) PROVE Outside
    <2>1. PICK x \in log, value \in BOOLEAN :
              request' = [request EXCEPT ![r] =
                  [Idle EXCEPT !.op = "put", !.user = x.user, !.phase = "mark", !.row = x.id,
                               !.loaded = x.is_favorite, !.value = value]]
        BY <1>5 DEF MarkLoad
    <2>2. request'[r] = [Idle EXCEPT !.op = "put", !.user = x.user, !.phase = "mark",
                                     !.row = x.id, !.loaded = x.is_favorite, !.value = value]
        BY <2>1, <1>0 DEF RowIds, AreRequests
    <2>3. /\ request'[r].phase = "mark" /\ request'[r].overlapped = FALSE
          /\ request'[r].victims = {} /\ request'[r].value = value
        BY <2>2 DEF Idle
    <2>4. QED BY <2>3 DEF EarlyPhase
<1>6. ASSUME InTurn(r) PROVE Outside
    BY <1>6, <1>0, <1>2, TurnShaped DEF InStatements, EarlyPhase
<1>7. ASSUME (Insert(r) /\ ~dbServer.exists) \/ Crash(r) PROVE Outside
    <2>1. request' = [request EXCEPT ![r].phase = "failed", ![r].connection = "none"]
        BY <1>7 DEF Insert, Crash
    <2>2. /\ request'[r].phase = "failed"
          /\ request'[r].overlapped = request[r].overlapped
          /\ request'[r].victims = request[r].victims
        BY <2>1, <1>0 DEF RowIds, AreRequests, Shaped, RequestFields
    <2>3. QED BY <2>2, <1>2
<1>8. Outside
    <2> HIDE DEF Outside
    <2>1. QED BY <1>4, <1>5, <1>6, <1>7
<1>9. \A s \in Request : SameForCap(s) \/ StaysOutside(s)
    BY <1>1, <1>3, <1>8 DEF SameForCap, StaysOutside, Saving, EarlyPhase
<1>10. \A u : Ids(u)' \subseteq Ids(u) BY <1>1 DEF Ids, RowsOfUser
<1>11. Flags' BY <1>1, <1>3, <1>8 DEF CapInv, Flags
<1>12. QED BY <1>9, <1>10, <1>11, OutsideKeepsCap

LEMMA MarkWriteKeepsCap ==
    ASSUME CapInv, RowIds', NEW r \in Request, MarkWrite(r)
    PROVE  CapInv'
<1>0. RowIds BY DEF CapInv
<1>1. /\ request[r].phase = "mark"
      /\ request'[r].phase = "done"
      /\ request'[r].overlapped = request[r].overlapped
      /\ request'[r].victims = request[r].victims
      /\ \A s \in Request \ {r} : request'[s] = request[s]
    BY <1>0 DEF MarkWrite, Shaped, RequestFields, RowIds, AreRequests
<1> DEFINE Marked(x) == IF x.id = request[r].row /\ request[r].value # request[r].loaded
                        THEN [x EXCEPT !.is_favorite = request[r].value] ELSE x
<1>2. log' = {Marked(x) : x \in log}
    BY DEF MarkWrite
<1>3. ASSUME NEW x \in log PROVE Marked(x).id = x.id /\ Marked(x).user = x.user
    <2>1. x = [id |-> x.id, user |-> x.user, is_favorite |-> x.is_favorite,
               is_valid |-> x.is_valid, error |-> x.error]
        BY <1>0 DEF RowIds, AreRows
    <2>2. QED BY <2>1
<1> HIDE DEF Marked
<1>4. \A u : Ids(u)' \subseteq Ids(u)
    BY <1>2, <1>3 DEF Ids, RowsOfUser
<1>5. ~request[r].overlapped /\ request[r].victims = {}
    BY <1>1 DEF CapInv, EarlyClean, EarlyPhase
<1>6. \A s \in Request : SameForCap(s) \/ StaysOutside(s)
    BY <1>1, <1>5 DEF SameForCap, StaysOutside, Saving, EarlyPhase
<1>7. Flags'
    <2>1. \A x \in log : Marked(x).is_favorite \in {x.is_favorite, request[r].value}
        <3>1. ASSUME NEW x \in log
              PROVE  x = [id |-> x.id, user |-> x.user, is_favorite |-> x.is_favorite,
                          is_valid |-> x.is_valid, error |-> x.error]
            BY <1>0 DEF RowIds, AreRows
        <3>2. QED BY <3>1 DEF Marked
    <2>2. request[r].value \in BOOLEAN /\ \A x \in log : x.is_favorite \in BOOLEAN
        BY <1>1 DEF CapInv, Flags
    <2>3. \A x \in log : Marked(x).is_favorite \in BOOLEAN
        BY <2>1, <2>2
    <2>4. QED BY <1>1, <1>2, <2>3 DEF CapInv, Flags
<1>8. QED BY <1>4, <1>6, <1>7, OutsideKeepsCap

LEMMA NextKeepsCap == CapInv /\ [Next]_vars => CapInv'
<1> SUFFICES ASSUME CapInv, [Next]_vars PROVE CapInv'
    OBVIOUS
<1>0. RowIds /\ RowIds' BY NextKeepsRowIds DEF CapInv
<1>1. ASSUME NEW r \in Request,
             \/ \E u \in User : Begin(r, u)
             \/ InTurn(r)
             \/ MarkLoad(r)
      PROVE  CapInv'
    BY <1>0, <1>1, EarlyKeepsCap
<1>2. ASSUME NEW r \in Request, Insert(r) PROVE CapInv'
    BY <1>0, <1>2, EarlyKeepsCap, InsertKeepsCap
<1>3. ASSUME NEW r \in Request, Trim(r) PROVE CapInv'
    BY <1>0, <1>3, TrimKeepsCap
<1>4. ASSUME NEW r \in Request, Commit(r) PROVE CapInv'
    <2>1. /\ request[r].phase = "commit" /\ request'[r].phase = "done"
          /\ request'[r].user = request[r].user
          /\ request'[r].overlapped = request[r].overlapped
          /\ \A s \in Request \ {r} : request'[s] = request[s]
        BY <1>0, <1>4 DEF Commit, Shaped, RequestFields, RowIds, AreRequests
    <2>2. log' = {x \in log \cup {RowOf(r)} : x.id \notin request[r].victims}
        BY <1>4 DEF Commit
    <2>3. RowOf(r).user = request[r].user /\ RowOf(r).id = request[r].row
        BY DEF RowOf
    <2>4. \A u : u # request[r].user => Ids(u)' \subseteq Ids(u)
        BY <2>2, <2>3 DEF Ids, RowsOfUser
    <2>5. Ids(request[r].user)' \subseteq Kept(r)
        <3>1. Ids(request[r].user)' = {x.id : x \in {y \in log' : y.user = request[r].user}}
            BY <2>1 DEF Ids, RowsOfUser
        <3>2. QED BY <2>2, <2>3, <3>1 DEF Kept, Ids, RowsOfUser
    <2>6. Flags'
        <3>1. RowOf(r).is_favorite = FALSE BY DEF RowOf
        <3>2. QED BY <2>1, <2>2, <3>1 DEF CapInv, Flags
    <2>7. QED BY <1>0, <2>1, <2>4, <2>5, <2>6, LeavingKeepsCap DEF Saving
<1>5. ASSUME NEW r \in Request, MarkWrite(r) PROVE CapInv'
    BY <1>0, <1>5, MarkWriteKeepsCap
<1>6. ASSUME NEW r \in Request, Crash(r) PROVE CapInv'
    <2>1. CASE request[r].phase \notin Saving
        BY <1>0, <1>6, <2>1, EarlyKeepsCap
    <2>2. CASE request[r].phase \in Saving
        <3>1. /\ request'[r].phase = "failed"
              /\ request'[r].user = request[r].user
              /\ request'[r].overlapped = request[r].overlapped
              /\ \A s \in Request \ {r} : request'[s] = request[s]
              /\ log' = log
            BY <1>0, <1>6 DEF Crash, Shaped, RequestFields, RowIds, AreRequests
        <3>2. \A u : Ids(u)' \subseteq Ids(u) BY <3>1 DEF Ids, RowsOfUser
        <3>3. Flags' BY <3>1 DEF CapInv, Flags
        <3>4. QED BY <1>0, <2>2, <3>1, <3>2, <3>3, LeavingKeepsCap
    <2>3. QED BY <2>1, <2>2
<1>7. CASE DeleteServer
    <2>1. log' = {} /\ request' = request BY <1>7 DEF DeleteServer
    <2>2. \A u : Ids(u)' \subseteq Ids(u) BY <2>1 DEF Ids, RowsOfUser
    <2>3. \A s \in Request : SameForCap(s) BY <2>1 DEF SameForCap
    <2>4. Flags' BY <2>1 DEF CapInv, Flags
    <2>5. QED BY <1>0, <2>2, <2>3, <2>4, OutsideKeepsCap
<1>8. CASE UNCHANGED vars
    <2>1. \A u : Ids(u)' \subseteq Ids(u) BY <1>8 DEF vars, Ids, RowsOfUser
    <2>2. \A s \in Request : SameForCap(s) BY <1>8 DEF vars, SameForCap
    <2>3. Flags' BY <1>8 DEF vars, CapInv, Flags
    <2>4. QED BY <1>0, <2>1, <2>2, <2>3, OutsideKeepsCap
<1>9. QED BY <1>1, <1>2, <1>3, <1>4, <1>5, <1>6, <1>7, <1>8 DEF Next, InTurn

LEMMA CapInvInit == Init => CapInv
<1> SUFFICES ASSUME Init PROVE CapInv
    OBVIOUS
<1>1. RowIds BY RowIdsInit
<1>2. \A r \in Request : request[r].phase = "idle" /\ ~request[r].overlapped
                         /\ request[r].victims = {}
    BY DEF Init, Idle
<1>3. \A u : Done(u) = {} BY <1>2 DEF Done
<1>4. CapHolds
    <2>1. ASSUME NEW u \in User PROVE Cardinality(Ids(u)) <= Allowed(u)
        <3>1. Ids(u) \subseteq 1..Earlier BY DEF Init, Ids, RowsOfUser
        <3>2. IsFiniteSet(1..Earlier) /\ Cardinality(1..Earlier) = Earlier
            BY QueryRunsAssumption, FS_Interval
        <3>3. Cardinality(Ids(u)) <= Earlier /\ Cardinality(Ids(u)) \in Nat
            BY <3>1, <3>2, SmallerSet
        <3>4. Allowed(u) = Cap BY <1>3, QueryRunsAssumption DEF Allowed
        <3>5. QED BY <3>3, <3>4, QueryRunsAssumption
    <2>2. QED BY <2>1 DEF CapHolds
<1>5. Trimmed /\ AllOverlapped /\ EarlyClean
    BY <1>2 DEF Trimmed, AllOverlapped, EarlyClean, Saving
<1>6. Flags
    <2>1. PICK u \in User, favorite \in SUBSET (1..Earlier) :
              log = {[id |-> i, user |-> u, is_favorite |-> i \in favorite,
                      is_valid |-> TRUE, error |-> {}] : i \in 1..Earlier}
        BY DEF Init
    <2>2. ASSUME NEW x \in log PROVE x.is_favorite \in BOOLEAN
        <3>1. PICK i \in 1..Earlier :
                  x = [id |-> i, user |-> u, is_favorite |-> i \in favorite,
                       is_valid |-> TRUE, error |-> {}]
            BY <2>1
        <3>2. x.is_favorite = (i \in favorite) BY <3>1
        <3>3. (i \in favorite) \in BOOLEAN OBVIOUS
        <3>4. QED BY <3>2, <3>3
    <2>3. QED BY <1>2, <2>2 DEF Flags
<1>7. QED BY <1>1, <1>4, <1>5, <1>6 DEF CapInv

LEMMA CapInvAlways == Spec => []CapInv
BY CapInvInit, NextKeepsCap, PTL DEF Spec

\* However saves overlap, crash and are trimmed while favourites change, the log of a user
\* exceeds its cap by fewer rows than requests that overlapped, for any cap.
THEOREM CapExceededOnlyByOverlapAlways == Spec => []CapExceededOnlyByOverlap
<1>1. CapInv => CapExceededOnlyByOverlap
    <2> SUFFICES ASSUME CapInv, NEW u \in User
                 PROVE  LET overlapped == {r \in Request : request[r].user = u /\ request[r].overlapped}
                        IN  Cardinality(RowsOfUser(u))
                              <= Cap + (IF overlapped = {} THEN 0 ELSE Cardinality(overlapped) - 1)
        BY DEF CapExceededOnlyByOverlap
    <2> DEFINE overlapped == {r \in Request : request[r].user = u /\ request[r].overlapped}
    <2>1. /\ Cardinality(RowsOfUser(u)) <= Allowed(u)
          /\ Cardinality(RowsOfUser(u)) \in Nat
        BY FiniteIds, FS_CardinalityType DEF CapInv, CapHolds
    <2>2. Done(u) \subseteq overlapped BY DEF Done
    <2>3. IsFiniteSet(overlapped) BY QueryRunsAssumption, FS_Subset
    <2>4. /\ Cardinality(overlapped) \in Nat /\ Cardinality(Done(u)) \in Nat
          /\ Cardinality(Done(u)) <= Cardinality(overlapped)
        BY <2>2, <2>3, SmallerSet
    <2>5. overlapped # {} => Cardinality(overlapped) >= 1
        BY <2>3, <2>4, FS_EmptySet
    <2> HIDE DEF overlapped
    <2>6. Cardinality(RowsOfUser(u))
              <= Cap + (IF overlapped = {} THEN 0 ELSE Cardinality(overlapped) - 1)
        BY <2>1, <2>2, <2>4, <2>5, QueryRunsAssumption DEF Allowed
    <2>7. QED BY <2>6 DEF overlapped
<1>2. QED BY <1>1, CapInvAlways, PTL

-----------------------------------------------------------------------------
(* The results of a request                                                *)

\* The place of statement i among the results.
Rank(r, i) == Cardinality({j \in Answered(r) : j <= i})

\* The results are those of the statements answered so far, one each, and the errors are
\* the places of the statements whose result is an error.
Matches(r) ==
    /\ request[r].next \in Nat \ {0}
    /\ request[r].results \in Seq(Entries(r))
    /\ Len(request[r].results) = Cardinality(Answered(r))
    /\ \A k \in DOMAIN request[r].results : \E i \in Answered(r) : Rank(r, i) = k
    /\ \A i \in Answered(r) : Rank(r, i) \in DOMAIN request[r].results
    /\ request[r].error = {i - 1 : i \in {j \in Answered(r) : ResultOf(r, j).state = "error"}}

\* What a request has to do with its results stays.
SameAnswers(r) == /\ request'[r].op = request[r].op
                  /\ request'[r].queries = request[r].queries
                  /\ request'[r].next = request[r].next
                  /\ request'[r].results = request[r].results
                  /\ request'[r].error = request[r].error

LEMMA Appended ==
    ASSUME NEW S, NEW s \in Seq(S), NEW e
    PROVE  /\ Append(s, e) \in Seq(S \cup {e})
           /\ Len(Append(s, e)) = Len(s) + 1
           /\ Len(s) \in Nat /\ DOMAIN s = 1..Len(s)
           /\ DOMAIN Append(s, e) = 1..(Len(s) + 1)
           /\ \A k \in 1..Len(s) : Append(s, e)[k] = s[k]
           /\ Append(s, e)[Len(s) + 1] = e
<1>1. s \in Seq(S \cup {e})
    OBVIOUS
<1>2. e \in S \cup {e}
    OBVIOUS
<1>3. QED BY <1>1, <1>2

LEMMA FiniteAnswered ==
    ASSUME NEW r, request[r].next \in Nat
    PROVE  /\ IsFiniteSet(Answered(r))
           /\ Cardinality(Answered(r)) \in Nat
           /\ Answered(r) \subseteq 1..(request[r].next - 1)
<1>1. Answered(r) \subseteq 1..(request[r].next - 1) BY DEF Answered
<1>2. IsFiniteSet(1..(request[r].next - 1)) BY FS_Interval
<1>3. QED BY <1>1, <1>2, SmallerSet

LEMMA SameAnswersMatch ==
    ASSUME NEW r \in Request, Matches(r), SameAnswers(r)
    PROVE  Matches(r)'
<1>1. Answered(r)' = Answered(r) /\ Entries(r)' = Entries(r)
    BY DEF SameAnswers, Answered, Entries
<1>2. \A i : Rank(r, i)' = Rank(r, i)
    BY <1>1 DEF Rank
<1>3. \A i : ResultOf(r, i)' = ResultOf(r, i)
    BY <1>1 DEF ResultOf, SameAnswers
<1>4. QED BY <1>1, <1>2, <1>3 DEF Matches, SameAnswers

\* A statement that is answered gets the next place.
LEMMA ReportMatches ==
    ASSUME NEW r \in Request, Matches(r), NEW entry, NEW errors,
           errors = IF entry.state = "error" THEN {request[r].next - 1} ELSE {},
           request[r].op = "multi_query" => ~Blank(request[r].queries[request[r].next]),
           request'[r].op = request[r].op,
           request'[r].queries = request[r].queries,
           request'[r].next = request[r].next + 1,
           request'[r].results = Append(request[r].results, entry),
           request'[r].error = request[r].error \cup errors
    PROVE  Matches(r)'
<1>0. PICK n : n = request[r].next
    OBVIOUS
<1> DEFINE s == request[r].results
           t == request'[r].results
           A == Answered(r)
<1>1. n \in Nat \ {0} /\ s \in Seq(Entries(r)) /\ Len(s) = Cardinality(A)
    BY <1>0 DEF Matches
<1>2. Answered(r)' = A \cup {n}
    <2>1. Answered(r)' = {i \in 1..n : request[r].op = "multi_query"
                                        => ~Blank(request[r].queries[i])}
        BY <1>0, <1>1 DEF Answered
    <2>2. 1..n = 1..(n - 1) \cup {n} BY <1>1
    <2>3. QED BY <1>0, <2>1, <2>2 DEF Answered
<1>3. IsFiniteSet(A) /\ Cardinality(A) \in Nat /\ A \subseteq 1..(n - 1)
    BY <1>0, <1>1, FiniteAnswered
<1>4. n \notin A BY <1>1, <1>3
<1>5. /\ t \in Seq(Entries(r) \cup {entry})
      /\ Len(t) = Len(s) + 1 /\ Len(s) \in Nat
      /\ DOMAIN s = 1..Len(s) /\ DOMAIN t = 1..(Len(s) + 1)
      /\ \A k \in 1..Len(s) : t[k] = s[k]
      /\ t[Len(s) + 1] = entry
    BY <1>1, Appended
<1>6. Entries(r)' = Entries(r) \cup {entry}
    <2>1. Entries(r)' = {t[k] : k \in 1..(Len(s) + 1)} BY <1>5 DEF Entries
    <2>2. Entries(r) = {s[k] : k \in 1..Len(s)} BY <1>5 DEF Entries
    <2> HIDE DEF t, s
    <2>3. 1..(Len(s) + 1) = 1..Len(s) \cup {Len(s) + 1} BY <1>5
    <2>4. QED BY <2>1, <2>2, <2>3, <1>5
<1>7. ASSUME NEW i \in A PROVE Rank(r, i)' = Rank(r, i)
    <2>1. {j \in A \cup {n} : j <= i} = {j \in A : j <= i}
        BY <1>1, <1>3
    <2>2. QED BY <1>2, <2>1 DEF Rank
<1>8. Rank(r, n)' = Len(s) + 1
    <2>1. {j \in A \cup {n} : j <= n} = A \cup {n}
        BY <1>1, <1>3
    <2>2. Cardinality(A \cup {n}) = Cardinality(A) + 1
        BY <1>3, <1>4, FS_AddElement
    <2>3. Rank(r, n)' = Cardinality(A \cup {n})
        BY <1>2, <2>1 DEF Rank
    <2>4. QED BY <1>1, <2>2, <2>3
<1>9. /\ \A k \in 1..Len(s) : \E i \in A : Rank(r, i) = k
      /\ \A i \in A : Rank(r, i) \in 1..Len(s)
      /\ request[r].error = {i - 1 : i \in {j \in A : ResultOf(r, j).state = "error"}}
    BY <1>5 DEF Matches
<1> HIDE DEF A, s, t
<1>10. \A i \in A : ResultOf(r, i)' = ResultOf(r, i)
    <2>1. ASSUME NEW i \in A PROVE ResultOf(r, i)' = ResultOf(r, i)
        <3>1. ResultOf(r, i)' = t[Rank(r, i)'] BY DEF ResultOf, Rank, t
        <3>2. ResultOf(r, i) = s[Rank(r, i)] BY DEF ResultOf, Rank, s
        <3>3. QED BY <3>1, <3>2, <1>5, <1>7, <1>9, <2>1
    <2>2. QED BY <2>1
<1>11. ResultOf(r, n)' = entry
    <2>1. ResultOf(r, n)' = t[Rank(r, n)'] BY DEF ResultOf, Rank, t
    <2>2. QED BY <2>1, <1>5, <1>8
<1>12. request'[r].next \in Nat \ {0}
    BY <1>0, <1>1
<1>13. request'[r].results \in Seq(Entries(r)')
    BY <1>5, <1>6 DEF t
<1>14. Len(request'[r].results) = Cardinality(Answered(r)')
    <2>1. Cardinality(A \cup {n}) = Cardinality(A) + 1
        BY <1>3, <1>4, FS_AddElement
    <2>2. QED BY <1>1, <1>2, <1>5, <2>1 DEF t
<1>15. \A k \in DOMAIN request'[r].results : \E i \in Answered(r)' : Rank(r, i)' = k
    <2>1. ASSUME NEW k \in 1..(Len(s) + 1) PROVE \E i \in A \cup {n} : Rank(r, i)' = k
        <3>1. CASE k = Len(s) + 1 BY <3>1, <1>8
        <3>2. CASE k \in 1..Len(s) BY <3>2, <1>7, <1>9
        <3>3. QED BY <3>1, <3>2, <1>5
    <2>2. QED BY <2>1, <1>2, <1>5 DEF t
<1>16. \A i \in Answered(r)' : Rank(r, i)' \in DOMAIN request'[r].results
    <2>1. \A i \in A \cup {n} : Rank(r, i)' \in 1..(Len(s) + 1)
        BY <1>5, <1>7, <1>8, <1>9
    <2>2. QED BY <2>1, <1>2, <1>5 DEF t
<1>17. request'[r].error =
           {i - 1 : i \in {j \in Answered(r)' : ResultOf(r, j)'.state = "error"}}
    <2>1. {j \in A \cup {n} : ResultOf(r, j)'.state = "error"} =
              {j \in A : ResultOf(r, j).state = "error"}
              \cup (IF entry.state = "error" THEN {n} ELSE {})
        BY <1>4, <1>10, <1>11
    <2>2. errors = {i - 1 : i \in IF entry.state = "error" THEN {n} ELSE {}}
        BY <1>0
    <2>3. QED BY <1>2, <1>9, <2>1, <2>2
<1>18. QED BY <1>12, <1>13, <1>14, <1>15, <1>16, <1>17 DEF Matches

\* A blank statement of multi_query gets none.
LEMMA BlankMatches ==
    ASSUME NEW r \in Request, Matches(r),
           request[r].op = "multi_query",
           Blank(request[r].queries[request[r].next]),
           request'[r].op = request[r].op,
           request'[r].queries = request[r].queries,
           request'[r].next = request[r].next + 1,
           request'[r].results = request[r].results,
           request'[r].error = request[r].error
    PROVE  Matches(r)'
<1> DEFINE n == request[r].next
<1>1. n \in Nat \ {0} BY DEF Matches
<1>2. Answered(r)' = Answered(r)
    <2>1. Answered(r)' = {i \in 1..n : request[r].op = "multi_query"
                                        => ~Blank(request[r].queries[i])}
        BY <1>1 DEF Answered
    <2>2. 1..n = 1..(n - 1) \cup {n} BY <1>1
    <2>3. QED BY <2>1, <2>2 DEF Answered
<1>3. Entries(r)' = Entries(r) BY DEF Entries
<1>4. \A i : Rank(r, i)' = Rank(r, i) BY <1>2 DEF Rank
<1>5. \A i : ResultOf(r, i)' = ResultOf(r, i) BY <1>2 DEF ResultOf
<1>6. QED BY <1>1, <1>2, <1>3, <1>4, <1>5 DEF Matches

-----------------------------------------------------------------------------
(* The rows of the log                                                     *)

Answering(r) ==
    /\ request[r].phase = "idle" => request[r] = Idle
    /\ request[r].phase \in InStatements \cup Saving => request[r].op \in Run
    /\ request[r].op \in {"query", "raw_query"} => Len(request[r].queries) = 1
    /\ request[r].op \in Run =>
          Matches(r) \/ (request[r].phase = "failed" /\ request[r].row = NoRowId)
    /\ request[r].phase \in InStatements => request[r].row = NoRowId

\* A row belongs to one request only, and tells its errors.
OwnRow(r) == request[r].op \in Run =>
    /\ request[r].row \in 0..saved
    /\ \A s \in Request \ {r} :
          request[s].op \in Run /\ request[r].row # NoRowId => request[s].row # request[r].row
RowTells(r) == request[r].op \in Run =>
    \A x \in log : x.id = request[r].row =>
        x.error = request[r].error /\ (x.is_valid <=> request[r].error = {})

LogInv == /\ RowIds
          /\ \A r \in Request : Answering(r) /\ OwnRow(r) /\ RowTells(r)

\* What a step may do to the rows of the requests, when it commits none.
RowKept(r) == /\ request'[r].op = request[r].op
              /\ request'[r].row = request[r].row
              /\ request'[r].error = request[r].error
NoRowYet(r) == request'[r].op \in Run => request'[r].row = NoRowId

LEMMA RowsKept ==
    ASSUME LogInv, saved' = saved,
           \A x \in log' : \E y \in log :
               x.id = y.id /\ x.error = y.error /\ x.is_valid = y.is_valid,
           \A s \in Request : RowKept(s) \/ NoRowYet(s)
    PROVE  \A r \in Request : OwnRow(r)' /\ RowTells(r)'
<1>1. \A x \in log' : x.id # NoRowId
    BY DEF LogInv, RowIds, AreRows, NoRowId
<1>2. saved \in Nat BY DEF LogInv, RowIds
<1>3. ASSUME NEW r \in Request PROVE OwnRow(r)'
    <2>1. SUFFICES ASSUME request'[r].op \in Run
                   PROVE  /\ request'[r].row \in 0..saved
                          /\ \A s \in Request \ {r} :
                                request'[s].op \in Run /\ request'[r].row # NoRowId
                                => request'[s].row # request'[r].row
        BY DEF OwnRow
    <2>2. CASE NoRowYet(r)
        BY <1>2, <2>1, <2>2 DEF NoRowYet, NoRowId
    <2>3. CASE RowKept(r)
        <3>1. OwnRow(r) /\ request[r].op \in Run BY <2>1, <2>3 DEF LogInv, RowKept
        <3>2. QED BY <2>1, <2>3, <3>1 DEF OwnRow, RowKept, NoRowYet
    <2>4. QED BY <2>2, <2>3
<1>4. ASSUME NEW r \in Request PROVE RowTells(r)'
    <2>1. SUFFICES ASSUME request'[r].op \in Run,
                          NEW x \in log', x.id = request'[r].row
                   PROVE  x.error = request'[r].error
                          /\ (x.is_valid <=> request'[r].error = {})
        BY DEF RowTells
    <2>2. RowKept(r) BY <1>1, <2>1 DEF NoRowYet
    <2>3. PICK y \in log : x.id = y.id /\ x.error = y.error /\ x.is_valid = y.is_valid
        OBVIOUS
    <2>4. RowTells(r) /\ request[r].op \in Run BY <2>1, <2>2 DEF LogInv, RowKept
    <2>5. y.id = request[r].row BY <2>1, <2>2, <2>3 DEF RowKept
    <2>6. y.error = request[r].error /\ (y.is_valid <=> request[r].error = {})
        BY <2>4, <2>5 DEF RowTells
    <2>7. QED BY <2>2, <2>3, <2>6 DEF RowKept
<1>5. QED BY <1>3, <1>4

\* The other requests stay as they are.
LEMMA OthersAnswer ==
    ASSUME LogInv, NEW r \in Request,
           \A s \in Request \ {r} : request'[s] = request[s]
    PROVE  \A s \in Request \ {r} : Answering(s)' /\ RowKept(s)
<1>1. ASSUME NEW s \in Request \ {r} PROVE Answering(s)' /\ RowKept(s)
    <2>1. request'[s] = request[s] OBVIOUS
    <2>2. Matches(s) => Matches(s)'
        BY <2>1, SameAnswersMatch DEF SameAnswers
    <2>3. QED BY <2>1, <2>2 DEF Answering, LogInv, RowKept
<1>2. QED BY <1>1

\* What a run that begins puts in its request.
Starts(r, u, op, queries, proceed) ==
    /\ request' = [request EXCEPT ![r] =
            [Idle EXCEPT !.op = op, !.user = u, !.phase = "run",
                         !.queries = queries, !.proceed = proceed]]
    /\ op # "multi_query" => Len(queries) = 1

LEMMA BeginStarts ==
    ASSUME NEW r \in Request, NEW u \in User, Begin(r, u)
    PROVE  \E op \in Run : \E queries, proceed : Starts(r, u, op, queries, proceed)
<1>1. \A text : Len(<<text>>) = 1 OBVIOUS
<1>2. \/ \E batch \in Batches, proceed \in BOOLEAN : Starts(r, u, "multi_query", batch, proceed)
      \/ \E text \in Texts : Starts(r, u, "raw_query", <<text>>, TRUE)
      \/ \E text \in Texts : Starts(r, u, "query", <<text>>, TRUE)
    BY <1>1 DEF Begin, Starts
<1>3. "multi_query" \in Run /\ "raw_query" \in Run /\ "query" \in Run BY DEF Run
<1>4. QED BY <1>2, <1>3

LEMMA BeginAnswers ==
    ASSUME LogInv, RowIds', NEW r \in Request, NEW u \in User, Begin(r, u)
    PROVE  LogInv'
<1>1. RowIds BY DEF LogInv
<1>0. PICK op \in Run : \E queries, proceed : Starts(r, u, op, queries, proceed)
    BY BeginStarts
<1>2. PICK queries, proceed : Starts(r, u, op, queries, proceed)
    BY <1>0
<1>3. /\ \A s \in Request \ {r} : request'[s] = request[s]
      /\ request'[r] = [Idle EXCEPT !.op = op, !.user = u, !.phase = "run",
                                    !.queries = queries, !.proceed = proceed]
    BY <1>1, <1>2 DEF RowIds, AreRequests, Starts
<1>4. /\ request'[r].phase = "run" /\ request'[r].op = op /\ request'[r].queries = queries
      /\ request'[r].next = 1 /\ request'[r].results = <<>> /\ request'[r].error = {}
      /\ request'[r].row = NoRowId
    BY <1>3 DEF Idle
<1>5. Matches(r)'
    <2>1. Answered(r)' = {}
        <3>1. 1..(request'[r].next - 1) = {} BY <1>4
        <3>2. QED BY <3>1 DEF Answered
    <2>2. Cardinality(Answered(r)') = 0 BY <2>1, FS_EmptySet
    <2>3. request'[r].results \in Seq(Entries(r)') BY <1>4
    <2>4. Len(request'[r].results) = 0 /\ DOMAIN request'[r].results = {}
        BY <1>4
    <2>5. QED BY <1>4, <2>1, <2>2, <2>3, <2>4 DEF Matches
<1>6. Answering(r)'
    BY <1>2, <1>4, <1>5 DEF Answering, InStatements, Saving, Starts
<1>7. log' = log /\ saved' = saved BY DEF Begin
<1>8. NoRowYet(r) BY <1>4 DEF NoRowYet
<1>9. QED BY <1>3, <1>6, <1>7, <1>8, RowsKept, OthersAnswer DEF LogInv

LEMMA MarkLoadAnswers ==
    ASSUME LogInv, RowIds', NEW r \in Request, MarkLoad(r)
    PROVE  LogInv'
<1>1. RowIds BY DEF LogInv
<1>2. PICK x \in log, value \in BOOLEAN :
          request' = [request EXCEPT ![r] =
              [Idle EXCEPT !.op = "put", !.user = x.user, !.phase = "mark", !.row = x.id,
                           !.loaded = x.is_favorite, !.value = value]]
    BY DEF MarkLoad
<1>3. /\ \A s \in Request \ {r} : request'[s] = request[s]
      /\ request'[r] = [Idle EXCEPT !.op = "put", !.user = x.user, !.phase = "mark",
                           !.row = x.id, !.loaded = x.is_favorite, !.value = value]
    BY <1>1, <1>2 DEF RowIds, AreRequests
<1>4. request'[r].phase = "mark" /\ request'[r].op = "put"
    BY <1>3 DEF Idle
<1>5. Answering(r)' /\ NoRowYet(r)
    BY <1>4 DEF Answering, InStatements, Saving, Run, NoRowYet
<1>6. log' = log /\ saved' = saved BY DEF MarkLoad
<1>7. QED BY <1>3, <1>5, <1>6, RowsKept, OthersAnswer DEF LogInv

\* The entry of an answer is a record with a state.
LEMMA AnswerShape ==
    ASSUME NEW connection, NEW result, NEW a \in Answers(connection, result)
    PROVE  /\ a.entry = Entry(a.entry.state, a.entry.rows, a.entry.limit_reached, a.entry.cause)
           /\ a.entry.state \in {"error", "success"}
           /\ a.after \in {"none", "open", "unread", "lost"}
           /\ a.fault \in {0, 1}
           /\ a.fault = 1 => faults < MaxFaults
<1> DEFINE Good(b) ==
        /\ b.entry = Entry(b.entry.state, b.entry.rows, b.entry.limit_reached, b.entry.cause)
        /\ b.entry.state \in {"error", "success"}
        /\ b.after \in {"none", "open", "unread", "lost"}
        /\ b.fault \in {0, 1}
<1>1. \A state, rows, limited, cause, after :
          /\ Outcome(state, rows, limited, cause, after).fault = 0
          /\ state \in {"error", "success"} /\ after \in {"none", "open", "unread", "lost"}
             => Good(Outcome(state, rows, limited, cause, after))
    BY DEF Outcome, Entry
<1> HIDE DEF Good
<1>2. \A cause, after : after \in {"none", "open", "unread", "lost"} =>
          Good(Error(cause, after)) /\ Error(cause, after).fault = 0
    BY <1>1 DEF Error
<1>3. \A cause, after : after \in {"none", "open", "unread", "lost"} => Good(Fault(cause, after))
    BY DEF Good, Fault, Error, Outcome, Entry
<1>4. a \in {Error("lost", "lost"), Error("unread", "unread"), Error("statement", "open"),
             Error("statement", "unread"),
             Outcome("success", result.result, result.limit_reached, "none", "open"),
             Outcome("success", result.result, result.limit_reached, "none", "unread")}
      \/ (a \in {Fault("connect", "none"), Fault("lost", "lost")} /\ faults < MaxFaults)
    BY DEF Answers
<1>5. Good(a) /\ (a.fault = 1 => faults < MaxFaults)
    BY <1>1, <1>2, <1>3, <1>4
<1>6. QED BY <1>5 DEF Good

\* What the statements do to their request.
LEMMA StatementAnswers ==
    ASSUME LogInv, RowIds', NEW r \in Request, InTurn(r)
    PROVE  LogInv'
<1> DEFINE n == request[r].next
<1>1. RowIds /\ Answering(r) BY DEF LogInv
<1>2. /\ request[r].phase \in InStatements /\ request[r].op \in Run
      /\ log' = log /\ saved' = saved
    <2>1. request[r].phase \in InStatements /\ log' = log /\ saved' = saved BY TurnForms
    <2>2. QED BY <1>1, <2>1 DEF Answering
<1>3. Matches(r) /\ request[r].row = NoRowId /\ n \in Nat \ {0}
    BY <1>1, <1>2 DEF Answering, Matches, InStatements
<1>4. ASSUME NEW entry, NEW errors, NEW connection, NEW phase \in {"run", "error"},
             Report(r, entry, errors, connection, phase),
             errors = IF entry.state = "error" THEN {request[r].next - 1} ELSE {},
             request[r].op = "multi_query" => ~Blank(request[r].queries[request[r].next])
      PROVE  LogInv'
    <2>1. /\ \A s \in Request \ {r} : request'[s] = request[s]
          /\ request'[r].op = request[r].op
          /\ request'[r].phase \in InStatements
          /\ request'[r].queries = request[r].queries
          /\ request'[r].row = request[r].row
          /\ request'[r].next = request[r].next + 1
          /\ request'[r].results = Append(request[r].results, entry)
          /\ request'[r].error = request[r].error \cup errors
        BY <1>1, <1>4, ReportFields DEF InStatements
    <2>2. Matches(r)' BY <1>3, <1>4, <2>1, ReportMatches
    <2>3. Answering(r)' BY <1>1, <1>2, <1>3, <2>1, <2>2 DEF Answering, InStatements
    <2>4. NoRowYet(r) BY <1>3, <2>1 DEF NoRowYet
    <2>5. QED BY <1>2, <2>1, <2>3, <2>4, RowsKept, OthersAnswer DEF LogInv
<1>5. ASSUME MultiQuerySkip(r) PROVE LogInv'
    <2>1. request[r].op = "multi_query" BY <1>5 DEF MultiQuerySkip
    <2>2. CASE Blank(request[r].queries[request[r].next])
        <3>1. request' = [request EXCEPT ![r].next = @ + 1]
            BY <1>5, <2>2 DEF MultiQuerySkip
        <3>2. /\ \A s \in Request \ {r} : request'[s] = request[s]
              /\ request'[r].op = request[r].op
              /\ request'[r].phase = request[r].phase
              /\ request'[r].queries = request[r].queries
              /\ request'[r].row = request[r].row
              /\ request'[r].next = request[r].next + 1
              /\ request'[r].results = request[r].results
              /\ request'[r].error = request[r].error
            BY <1>1, <3>1, NextFields
        <3>3. Matches(r)' BY <1>3, <2>1, <2>2, <3>2, BlankMatches
        <3>4. Answering(r)' BY <1>1, <1>2, <1>3, <3>2, <3>3 DEF Answering, InStatements
        <3>5. NoRowYet(r) BY <1>3, <3>2 DEF NoRowYet
        <3>6. QED BY <1>2, <3>2, <3>4, <3>5, RowsKept, OthersAnswer DEF LogInv
    <2>3. CASE ~Blank(request[r].queries[request[r].next])
        <3>1. Report(r, Skipped, {}, request[r].connection, "run")
            BY <1>5, <2>3 DEF MultiQuerySkip
        <3>2. Skipped.state # "error" BY DEF Skipped, Entry
        <3>3. QED BY <1>4, <2>3, <3>1, <3>2
    <2>4. QED BY <2>2, <2>3
<1>6. ASSUME MultiQueryStatement(r) PROVE LogInv'
    <2>1. ~Blank(request[r].queries[request[r].next])
        BY <1>6 DEF MultiQueryStatement, Executing, Due
    <2>2. ASSUME NEW a \in RawAnswers(request[r].connection,
                                      request[r].queries[request[r].next]),
                 NEW rows,
                 Report(r, [a.entry EXCEPT !.rows = rows],
                        IF a.entry.state = "error" THEN {request[r].next - 1} ELSE {}, a.after,
                        IF a.entry.state = "error" THEN "error" ELSE "run")
          PROVE  LogInv'
        <3>1. a.entry = Entry(a.entry.state, a.entry.rows, a.entry.limit_reached, a.entry.cause)
            BY <2>2, AnswerShape DEF RawAnswers
        <3>2. [a.entry EXCEPT !.rows = rows].state = a.entry.state
            BY <3>1 DEF Entry
        <3>3. QED BY <1>4, <2>1, <2>2, <3>2
    <2>3. QED BY <1>6, <2>2 DEF MultiQueryStatement
<1>7. ASSUME QueryStatement(r) \/ RawQueryStatement(r)
      PROVE  request[r].op # "multi_query" /\ n = 1
    <2>1. request[r].op \in {"query", "raw_query"} /\ n <= Len(request[r].queries)
        BY <1>7 DEF QueryStatement, RawQueryStatement, Executing, Due
    <2>2. Len(request[r].queries) = 1 BY <1>1, <2>1 DEF Answering
    <2>3. QED BY <1>3, <2>1, <2>2
<1>8. ASSUME QueryStatement(r) PROVE LogInv'
    <2>1. PICK a : Report(r, a.entry, IF a.entry.state = "error" THEN {0} ELSE {}, "none", "run")
        BY <1>8 DEF QueryStatement
    <2>2. request[r].next - 1 = 0 BY <1>7, <1>8
    <2>3. QED BY <1>4, <1>7, <1>8, <2>1, <2>2
<1>9. ASSUME RawQueryStatement(r) PROVE LogInv'
    <2>1. PICK a :
              \/ Report(r, a.entry, IF a.entry.state = "error" THEN {0} ELSE {}, "none",
                        IF a.entry.state = "error" THEN "error" ELSE "run")
              \/ request' = [request EXCEPT ![r].results = <<a.entry>>,
                                            ![r].phase = "failed"]
        BY <1>9 DEF RawQueryStatement
    <2>2. request[r].next - 1 = 0 BY <1>7, <1>9
    <2>3. CASE Report(r, a.entry, IF a.entry.state = "error" THEN {0} ELSE {}, "none",
                      IF a.entry.state = "error" THEN "error" ELSE "run")
        BY <1>4, <1>7, <1>9, <2>2, <2>3
    <2>4. CASE request' = [request EXCEPT ![r].results = <<a.entry>>, ![r].phase = "failed"]
        <3>1. /\ \A s \in Request \ {r} : request'[s] = request[s]
              /\ request'[r].op = request[r].op
              /\ request'[r].phase = "failed"
              /\ request'[r].queries = request[r].queries
              /\ request'[r].row = request[r].row
            BY <1>1, <2>4, FailFields
        <3>2. Answering(r)' BY <1>1, <1>3, <3>1 DEF Answering, Saving, InStatements
        <3>3. NoRowYet(r) BY <1>3, <3>1 DEF NoRowYet
        <3>4. QED BY <1>2, <3>1, <3>2, <3>3, RowsKept, OthersAnswer DEF LogInv
    <2>5. QED BY <2>1, <2>3, <2>4
<1>10. ASSUME CountQuery(r) \/ CountError(r) PROVE LogInv'
    <2>1. PICK phase \in {"run", "exec"} : request' = [request EXCEPT ![r].phase = phase]
        BY <1>10 DEF CountQuery, CountError
    <2>2. /\ \A s \in Request \ {r} : request'[s] = request[s]
          /\ SameAnswers(r) /\ request'[r].row = request[r].row
          /\ request'[r].phase \in InStatements
        BY <1>1, <2>1, PhaseFields DEF SameAnswers, InStatements
    <2>3. Matches(r)' BY <1>3, <2>2, SameAnswersMatch
    <2>4. Answering(r)' BY <1>1, <1>2, <1>3, <2>2, <2>3 DEF Answering, SameAnswers, InStatements
    <2>5. RowKept(r) BY <2>2 DEF RowKept, SameAnswers
    <2>6. QED BY <1>2, <2>2, <2>4, <2>5, RowsKept, OthersAnswer DEF LogInv
<1>11. QED BY <1>5, <1>6, <1>8, <1>9, <1>10 DEF InTurn

\* A step after the statements, which changes none of the answers of r.
LEMMA KeepsAnswering ==
    ASSUME LogInv, NEW r \in Request, SameAnswers(r),
           request[r].phase # "idle",
           request'[r].phase \in Saving \cup {"done", "failed"},
           request[r].phase # "failed",
           request'[r].phase \in Saving => request[r].op \in Run
    PROVE  Answering(r)'
<1>1. Answering(r) BY DEF LogInv
<1>2. request[r].op \in Run => Matches(r)'
    BY <1>1, SameAnswersMatch DEF Answering
<1>3. QED BY <1>1, <1>2 DEF Answering, SameAnswers, Saving, InStatements

LEMMA InsertAnswers ==
    ASSUME LogInv, RowIds', NEW r \in Request, Insert(r)
    PROVE  LogInv'
<1>1. RowIds /\ saved \in Nat BY DEF LogInv, RowIds
<1>2. /\ request[r].phase = "run" /\ request[r].op \in Run /\ request[r].row = NoRowId
      /\ log' = log
    <2>1. request[r].phase = "run" /\ log' = log BY DEF Insert
    <2>2. QED BY <2>1 DEF LogInv, Answering, InStatements
<1>3. CASE ~dbServer.exists
    <2>1. request' = [request EXCEPT ![r].phase = "failed", ![r].connection = "none"]
          /\ saved' = saved
        BY <1>3 DEF Insert
    <2>2. /\ \A s \in Request \ {r} : request'[s] = request[s]
          /\ request'[r].phase = "failed"
          /\ SameAnswers(r) /\ request'[r].row = request[r].row
        BY <1>1, <2>1 DEF RowIds, AreRequests, Shaped, RequestFields, SameAnswers
    <2>3. Answering(r)' BY <1>2, <2>2, KeepsAnswering DEF Saving
    <2>4. RowKept(r) BY <2>2 DEF RowKept, SameAnswers
    <2>5. QED BY <1>2, <2>1, <2>2, <2>3, <2>4, RowsKept, OthersAnswer DEF LogInv
<1>4. CASE dbServer.exists
    <2> DEFINE with == Overlapping(r)
               full == Cardinality(RowsOfUser(request[r].user)) + 1 > Cap
               inserted == [request EXCEPT ![r].row = saved + 1, ![r].connection = "none",
                                       ![r].phase = IF full THEN "trim" ELSE "commit"]
    <2>1. /\ saved' = saved + 1
          /\ request' = [s \in Request |->
                            IF s \in with \/ (s = r /\ with # {})
                            THEN [inserted[s] EXCEPT !.overlapped = TRUE] ELSE inserted[s]]
        BY <1>4 DEF Insert
    <2> HIDE DEF with, full
    <2>2. /\ inserted[r].row = saved + 1
          /\ inserted[r].phase = IF full THEN "trim" ELSE "commit"
          /\ inserted[r].op = request[r].op /\ inserted[r].queries = request[r].queries
          /\ inserted[r].next = request[r].next /\ inserted[r].results = request[r].results
          /\ inserted[r].error = request[r].error
          /\ \A s \in Request \ {r} : inserted[s] = request[s]
          /\ \A s \in Request : Shaped(inserted[s])
        BY <1>1 DEF RowIds, AreRequests, Shaped, RequestFields
    <2> HIDE DEF inserted
    <2>3. \A s \in Request :
              /\ request'[s].op = inserted[s].op /\ request'[s].queries = inserted[s].queries
              /\ request'[s].next = inserted[s].next
              /\ request'[s].results = inserted[s].results
              /\ request'[s].error = inserted[s].error
              /\ request'[s].row = inserted[s].row /\ request'[s].phase = inserted[s].phase
        BY <2>1, <2>2 DEF Shaped, RequestFields
    <2>4. /\ \A s \in Request : SameAnswers(s)
          /\ \A s \in Request \ {r} : /\ request'[s].row = request[s].row
                                      /\ request'[s].phase = request[s].phase
          /\ request'[r].row = saved + 1
          /\ request'[r].phase \in {"trim", "commit"}
        BY <2>2, <2>3 DEF SameAnswers
    <2>5. Answering(r)' BY <1>2, <2>4, KeepsAnswering DEF Saving
    <2>6. ASSUME NEW s \in Request \ {r} PROVE Answering(s)'
        <3>1. Matches(s) => Matches(s)' BY <2>4, SameAnswersMatch
        <3>2. Answering(s) BY DEF LogInv
        <3>3. request[s].phase # "idle" => request'[s].phase # "idle" BY <2>4
        <3>4. s \notin with \/ request[s].phase # "idle"
            BY DEF with, Overlapping, Saving
        <3>5. request[s].phase = "idle" => request'[s] = Idle
            BY <2>1, <2>2, <3>2, <3>4 DEF Answering
        <3>6. QED BY <2>4, <3>1, <3>2, <3>5 DEF Answering, SameAnswers
    <2>7. ASSUME NEW s \in Request PROVE OwnRow(s)'
        <3>1. \A t \in Request : request[t].op \in Run => request[t].row \in 0..saved
            BY DEF LogInv, OwnRow
        <3>2. CASE s = r
            <4>1. \A t \in Request \ {r} : request[t].op \in Run => request[t].row # saved + 1
                BY <1>1, <3>1
            <4>2. QED BY <1>1, <2>1, <2>4, <3>2, <4>1 DEF OwnRow, SameAnswers
        <3>3. CASE s # r
            <4>1. OwnRow(s) BY DEF LogInv
            <4>2. request[s].op \in Run => request[s].row # saved + 1 BY <1>1, <3>1
            <4>3. QED BY <1>1, <2>1, <2>4, <3>3, <4>1, <4>2 DEF OwnRow, SameAnswers
        <3>4. QED BY <3>2, <3>3
    <2>8. ASSUME NEW s \in Request PROVE RowTells(s)'
        <3>1. CASE s = r
            <4>1. \A x \in log : x.id # saved + 1 BY <1>1 DEF RowIds, AreRows
            <4>2. QED BY <1>2, <2>4, <3>1, <4>1 DEF RowTells
        <3>2. CASE s # r
            BY <1>2, <2>4, <3>2 DEF LogInv, RowTells, SameAnswers
        <3>3. QED BY <3>1, <3>2
    <2>9. QED BY <2>5, <2>6, <2>7, <2>8 DEF LogInv
<1>5. QED BY <1>3, <1>4

LEMMA TrimOrCrashAnswers ==
    ASSUME LogInv, RowIds', NEW r \in Request, Trim(r) \/ Crash(r)
    PROVE  LogInv'
<1>1. RowIds /\ Answering(r) BY DEF LogInv
<1>2. /\ \A s \in Request \ {r} : request'[s] = request[s]
      /\ request[r].phase \in Saving \cup InStatements \cup {"mark"}
      /\ request'[r].phase \in {"commit", "failed"}
      /\ request'[r].phase = "commit" => request[r].phase \in Saving
      /\ SameAnswers(r) /\ request'[r].row = request[r].row
    <2>1. CASE Trim(r)
        BY <1>1, <2>1 DEF Trim, RowIds, AreRequests, Shaped, RequestFields, SameAnswers, Saving, InStatements
    <2>2. CASE Crash(r)
        BY <1>1, <2>2 DEF Crash, RowIds, AreRequests, Shaped, RequestFields, SameAnswers, Saving, InStatements
    <2>3. QED BY <2>1, <2>2
<1>3. Answering(r)' BY <1>1, <1>2, KeepsAnswering DEF Saving, InStatements, Answering
<1>4. RowKept(r) BY <1>2 DEF RowKept, SameAnswers
<1>5. log' = log /\ saved' = saved BY DEF Trim, Crash
<1>6. QED BY <1>2, <1>3, <1>4, <1>5, RowsKept, OthersAnswer DEF LogInv

LEMMA CommitAnswers ==
    ASSUME LogInv, RowIds', NEW r \in Request, Commit(r)
    PROVE  LogInv'
<1>1. RowIds /\ Answering(r) BY DEF LogInv
<1>2. /\ \A s \in Request \ {r} : request'[s] = request[s]
      /\ request[r].phase = "commit" /\ request'[r].phase = "done"
      /\ SameAnswers(r) /\ request'[r].row = request[r].row
    BY <1>1 DEF Commit, RowIds, AreRequests, Shaped, RequestFields, SameAnswers
<1>3. log' \subseteq log \cup {RowOf(r)} /\ saved' = saved BY DEF Commit
<1>4. request[r].op \in Run BY <1>1, <1>2 DEF Answering, Saving
<1>5. Answering(r)' BY <1>2, <1>4, KeepsAnswering DEF Saving
<1>6. FreshRow(r) BY <1>1, <1>2 DEF RowIds, FreshRows, Saving
<1>7. \A s \in Request : request'[s].op = request[s].op /\ request'[s].row = request[s].row
                         /\ request'[s].error = request[s].error
    BY <1>2 DEF SameAnswers
<1>8. \A s \in Request : OwnRow(s)'
    BY <1>3, <1>7 DEF LogInv, OwnRow
<1>9. /\ RowOf(r).id = request[r].row /\ RowOf(r).error = request[r].error
      /\ RowOf(r).is_valid <=> request[r].error = {}
    BY DEF RowOf, ErrorOccured
<1>10. ASSUME NEW s \in Request, request[s].op \in Run, NEW x \in log',
              x.id = request[s].row
       PROVE  x.error = request[s].error /\ (x.is_valid <=> request[s].error = {})
    <2>1. CASE x \in log BY <1>10, <2>1 DEF LogInv, RowTells
    <2>2. CASE x = RowOf(r) /\ s = r BY <1>9, <2>2
    <2>3. CASE x = RowOf(r) /\ s # r
        <3>1. request[r].row # NoRowId BY <1>6, <1>1 DEF FreshRow, RowIds, NoRowId
        <3>2. OwnRow(r) BY DEF LogInv
        <3>3. request[s].row # request[r].row BY <1>4, <1>10, <2>3, <3>1, <3>2 DEF OwnRow
        <3>4. QED BY <1>9, <1>10, <2>3, <3>3
    <2>4. QED BY <1>3, <2>1, <2>2, <2>3
<1>11. \A s \in Request : RowTells(s)'
    BY <1>7, <1>10 DEF RowTells
<1>12. QED BY <1>2, <1>5, <1>8, <1>11, OthersAnswer DEF LogInv

LEMMA MarkWriteAnswers ==
    ASSUME LogInv, RowIds', NEW r \in Request, MarkWrite(r)
    PROVE  LogInv'
<1>1. RowIds /\ Answering(r) BY DEF LogInv
<1>2. /\ \A s \in Request \ {r} : request'[s] = request[s]
      /\ request[r].phase = "mark" /\ request'[r].phase = "done"
      /\ SameAnswers(r) /\ request'[r].row = request[r].row
    BY <1>1 DEF MarkWrite, RowIds, AreRequests, Shaped, RequestFields, SameAnswers
<1> DEFINE Marked(x) == IF x.id = request[r].row /\ request[r].value # request[r].loaded
                        THEN [x EXCEPT !.is_favorite = request[r].value] ELSE x
<1>3. log' = {Marked(x) : x \in log} /\ saved' = saved
    BY DEF MarkWrite
<1>4. ASSUME NEW x \in log
      PROVE  /\ Marked(x).id = x.id /\ Marked(x).error = x.error
             /\ Marked(x).is_valid = x.is_valid
    <2>1. x = [id |-> x.id, user |-> x.user, is_favorite |-> x.is_favorite,
               is_valid |-> x.is_valid, error |-> x.error]
        BY <1>1 DEF RowIds, AreRows
    <2>2. QED BY <2>1
<1> HIDE DEF Marked
<1>5. \A x \in log' : \E y \in log :
          x.id = y.id /\ x.error = y.error /\ x.is_valid = y.is_valid
    BY <1>3, <1>4
<1>6. Answering(r)' BY <1>2, KeepsAnswering DEF Saving
<1>7. RowKept(r) BY <1>2 DEF RowKept, SameAnswers
<1>8. QED BY <1>2, <1>3, <1>5, <1>6, <1>7, RowsKept, OthersAnswer DEF LogInv

LEMMA NextKeepsLog == LogInv /\ [Next]_vars => LogInv'
<1> SUFFICES ASSUME LogInv, [Next]_vars PROVE LogInv'
    OBVIOUS
<1>1. RowIds' BY NextKeepsRowIds DEF LogInv
<1>2. ASSUME NEW r \in Request,
             \/ \E u \in User : Begin(r, u)
             \/ InTurn(r)
             \/ Insert(r) \/ Trim(r) \/ Commit(r)
             \/ MarkLoad(r) \/ MarkWrite(r)
             \/ Crash(r)
      PROVE  LogInv'
    BY <1>1, <1>2, BeginAnswers, StatementAnswers, InsertAnswers, TrimOrCrashAnswers,
       CommitAnswers, MarkLoadAnswers, MarkWriteAnswers
<1>3. CASE DeleteServer \/ UNCHANGED vars
    <2>1. request' = request /\ saved' = saved /\ log' \subseteq log
        BY <1>3 DEF DeleteServer, vars
    <2>2. \A s \in Request : RowKept(s) /\ SameAnswers(s)
        BY <2>1 DEF RowKept, SameAnswers
    <2>3. \A s \in Request : Answering(s)'
        BY <2>1, <2>2, SameAnswersMatch DEF LogInv, Answering
    <2>4. QED BY <1>1, <2>1, <2>2, <2>3, RowsKept DEF LogInv
<1>4. QED BY <1>2, <1>3 DEF Next, InTurn

LEMMA LogInvInit == Init => LogInv
<1> SUFFICES ASSUME Init PROVE LogInv
    OBVIOUS
<1>1. RowIds BY RowIdsInit
<1>2. \A r \in Request : request[r] = Idle BY DEF Init
<1>3. Idle.op = "none" /\ Idle.phase = "idle" BY DEF Idle
<1>4. \A r \in Request : Answering(r) /\ OwnRow(r) /\ RowTells(r)
    BY <1>2, <1>3 DEF Answering, OwnRow, RowTells, Run, Saving, InStatements
<1>5. QED BY <1>1, <1>4 DEF LogInv

LEMMA LogInvAlways == Spec => []LogInv
BY LogInvInit, NextKeepsLog, PTL DEF Spec

\* Whatever statements a request runs, and whatever else happens to the log, the row it
\* leaves is valid exactly if no result is an error, and names the statements that failed.
THEOREM LogTellsResultsAlways == Spec => []LogTellsResults
<1>1. LogInv => LogTellsResults
    <2> SUFFICES ASSUME LogInv, NEW r \in Request, NEW x \in log,
                        request[r].op \in Run, x.id = request[r].row
                 PROVE  /\ x.is_valid <=> \A entry \in Entries(r) : entry.state # "error"
                        /\ x.error = {i - 1 : i \in {j \in Answered(r) :
                                                        ResultOf(r, j).state = "error"}}
        BY DEF LogTellsResults
    <2> DEFINE Bad == {j \in Answered(r) : ResultOf(r, j).state = "error"}
    <2>1. x.error = request[r].error /\ (x.is_valid <=> request[r].error = {})
        BY DEF LogInv, RowTells
    <2>2. x.id # NoRowId BY DEF LogInv, RowIds, AreRows, NoRowId
    <2>3. Matches(r)
        BY <2>2 DEF LogInv, Answering
    <2>4. x.error = {i - 1 : i \in Bad} BY <2>1, <2>3 DEF Matches
    <2>5. (\A entry \in Entries(r) : entry.state # "error") <=> Bad = {}
        <3>1. ASSUME NEW entry \in Entries(r), entry.state = "error" PROVE Bad # {}
            <4>1. PICK k \in DOMAIN request[r].results : entry = request[r].results[k]
                BY DEF Entries
            <4>2. PICK i \in Answered(r) : Rank(r, i) = k BY <2>3 DEF Matches
            <4>3. ResultOf(r, i) = entry BY <4>1, <4>2 DEF ResultOf, Rank
            <4>4. QED BY <3>1, <4>3
        <3>2. ASSUME NEW i \in Answered(r) PROVE ResultOf(r, i) \in Entries(r)
            <4>1. Rank(r, i) \in DOMAIN request[r].results BY <2>3 DEF Matches
            <4>2. QED BY <4>1 DEF ResultOf, Rank, Entries
        <3>3. QED BY <3>1, <3>2
    <2>6. request[r].error = {} <=> Bad = {}
        <3>1. request[r].error = {i - 1 : i \in Bad} BY <2>3 DEF Matches
        <3>2. QED BY <3>1
    <2>7. QED BY <2>1, <2>4, <2>5, <2>6
<1>2. QED BY <1>1, LogInvAlways, PTL

-----------------------------------------------------------------------------
(* Types                                                                   *)

\* The requests that have inserted a row; their number bounds the ids.
Inserted == {r \in Request : request[r].op \in Run /\ request[r].row # NoRowId}
Numbered == saved = Earlier + Cardinality(Inserted)

ServerTyped == dbServer \in [exists : BOOLEAN, db_type : {"psql", "mysql"},
                             default_sql_limit : Limits, query_count : Nat,
                             error_query_count : Nat]
LogTyped == \A x \in log : x.user \in User /\ x.is_valid \in BOOLEAN /\ x.error \subseteq Nat
RequestTyped(r) ==
    /\ request[r].op \in Run \cup {"none", "put"}
    /\ request[r].user \in User \cup {NoUser}
    /\ request[r].phase \in Phase
    /\ request[r].connection \in {"none", "open", "unread", "lost"}
    /\ request[r].row \in 0..saved
    /\ request[r].victims \subseteq RowId
    /\ request[r].error \subseteq Nat
    /\ request[r].phase \in Saving \cup InStatements => request[r].user \in User

TypeInv == /\ Numbered /\ ServerTyped /\ LogTyped
           /\ faults \in 0..MaxFaults
           /\ \A r \in Request : RequestTyped(r)

LEMMA SavedBound ==
    ASSUME Numbered
    PROVE  saved \in 0..(Earlier + Cardinality(Request)) /\ Cardinality(Request) \in Nat
<1>1. /\ Cardinality(Inserted) \in Nat /\ Cardinality(Request) \in Nat
      /\ Cardinality(Inserted) <= Cardinality(Request)
    BY QueryRunsAssumption, SmallerSet DEF Inserted
<1>2. Earlier \in Nat BY QueryRunsAssumption
<1>3. QED BY <1>1, <1>2 DEF Numbered

\* A step of r that numbers no row.
LEMMA TypesKept ==
    ASSUME TypeInv, NEW r \in Request, saved' = saved,
           \A s \in Request \ {r} : request'[s] = request[s],
           RequestTyped(r)',
           r \in Inserted' <=> r \in Inserted
    PROVE  Numbered' /\ \A s \in Request : RequestTyped(s)'
<1>1. Inserted' = Inserted
    <2>1. \A s \in Request \ {r} : s \in Inserted' <=> s \in Inserted
        BY DEF Inserted
    <2>2. Inserted \subseteq Request /\ Inserted' \subseteq Request BY DEF Inserted
    <2> HIDE DEF Inserted
    <2>3. QED BY <2>1, <2>2
<1>2. \A s \in Request \ {r} : RequestTyped(s)'
    BY DEF TypeInv, RequestTyped
<1>3. QED BY <1>1, <1>2 DEF TypeInv, Numbered

LEMMA CountedTyped ==
    ASSUME ServerTyped, NEW queries \in {0, 1}, NEW errors \in {0, 1}, Counted(queries, errors)
    PROVE  ServerTyped'
<1>1. CASE dbServer' = dbServer BY <1>1 DEF ServerTyped
<1>2. CASE dbServer' = [dbServer EXCEPT !.query_count = @ + queries,
                                        !.error_query_count = @ + errors]
    <2>1. /\ dbServer.query_count + queries \in Nat
          /\ dbServer.error_query_count + errors \in Nat
          /\ dbServer.query_count \in Nat /\ dbServer.error_query_count \in Nat
        BY DEF ServerTyped
    <2>2. QED BY <1>2, <2>1 DEF ServerTyped
<1>3. QED BY <1>1, <1>2 DEF Counted

LEMMA StatementsTyped ==
    ASSUME TypeInv, LogInv, NEW r \in Request, InTurn(r)
    PROVE  TypeInv'
<1>1. RowIds /\ Answering(r) /\ RequestTyped(r) /\ ServerTyped
    BY DEF LogInv, TypeInv
<1>2. /\ request[r].phase \in InStatements /\ request[r].op \in Run
      /\ log' = log /\ saved' = saved
    <2>1. request[r].phase \in InStatements /\ log' = log /\ saved' = saved BY TurnForms
    <2>2. QED BY <1>1, <2>1 DEF Answering
<1>3. Matches(r) /\ request[r].row = NoRowId /\ request[r].next \in Nat \ {0}
    BY <1>1, <1>2 DEF Answering, Matches, InStatements
<1>4. LogTyped' BY <1>2 DEF TypeInv, LogTyped
<1> DEFINE Kept1 == /\ \A s \in Request \ {r} : request'[s] = request[s]
                    /\ RequestTyped(r)' /\ (r \in Inserted' <=> r \in Inserted)
           Stays == dbServer' = dbServer /\ faults' = faults
<1>5. ASSUME NEW entry, NEW errors \in SUBSET Nat,
             NEW connection \in {"none", "open", "unread", "lost"},
             NEW phase \in {"run", "error"},
             Report(r, entry, errors, connection, phase)
      PROVE  Kept1
    <2>1. /\ \A s \in Request \ {r} : request'[s] = request[s]
          /\ request'[r].op = request[r].op /\ request'[r].phase = phase
          /\ request'[r].user = request[r].user /\ request'[r].row = request[r].row
          /\ request'[r].victims = request[r].victims
          /\ request'[r].connection = connection
          /\ request'[r].error = request[r].error \cup errors
        BY <1>1, <1>5, ReportFields
    <2>2. RequestTyped(r)' BY <1>1, <1>2, <2>1 DEF RequestTyped, Phase, Saving
    <2>3. r \in Inserted' <=> r \in Inserted BY <2>1 DEF Inserted
    <2>4. QED BY <2>1, <2>2, <2>3
<1>6. ASSUME NEW phase \in Phase \ Saving,
             \A s \in Request \ {r} : request'[s] = request[s],
             request'[r].op = request[r].op, request'[r].phase = phase,
             request'[r].user = request[r].user, request'[r].row = request[r].row,
             request'[r].victims = request[r].victims,
             request'[r].connection = request[r].connection,
             request'[r].error = request[r].error
      PROVE  Kept1
    <2>1. RequestTyped(r)' BY <1>1, <1>2, <1>6 DEF RequestTyped
    <2>2. r \in Inserted' <=> r \in Inserted BY <1>6 DEF Inserted
    <2>3. QED BY <1>6, <2>1, <2>2
<1>7. ASSUME NEW a, a.fault \in {0, 1},
             a.fault = 1 => faults < MaxFaults, faults' = faults + a.fault
      PROVE  faults' \in 0..MaxFaults
    <2>1. faults \in 0..MaxFaults /\ MaxFaults \in Nat BY QueryRunsAssumption DEF TypeInv
    <2>2. QED BY <1>7, <2>1
<1>8. ASSUME Stays PROVE ServerTyped' /\ faults' \in 0..MaxFaults
    BY <1>1, <1>8 DEF ServerTyped, TypeInv
<1>9. ASSUME dbServer' = dbServer PROVE ServerTyped'
    BY <1>1, <1>9 DEF ServerTyped
<1>10. "run" \in Phase \ Saving /\ "exec" \in Phase \ Saving /\ "failed" \in Phase \ Saving
       /\ InStatements \subseteq Phase \ Saving
    BY DEF Phase, Saving, InStatements
<1>11. ASSUME MultiQuerySkip(r)
       PROVE  Kept1 /\ ServerTyped' /\ faults' \in 0..MaxFaults
    <2>1. Stays BY <1>11 DEF MultiQuerySkip
    <2>2. CASE request' = [request EXCEPT ![r].next = @ + 1]
        BY <1>1, <1>2, <1>6, <1>8, <1>10, <2>1, <2>2, NextFields
    <2>3. CASE Report(r, Skipped, {}, request[r].connection, "run")
        <3>1. Kept1 BY <1>1, <1>5, <2>3 DEF RequestTyped
        <3>2. QED BY <1>8, <2>1, <3>1
    <2>4. QED BY <1>11, <2>2, <2>3 DEF MultiQuerySkip
<1>12. ASSUME MultiQueryStatement(r)
       PROVE  Kept1 /\ ServerTyped' /\ faults' \in 0..MaxFaults
    <2> DEFINE text == request[r].queries[request[r].next]
    <2>1. ASSUME NEW a \in RawAnswers(request[r].connection, text), NEW rows,
                 Report(r, [a.entry EXCEPT !.rows = rows],
                        IF a.entry.state = "error" THEN {request[r].next - 1} ELSE {}, a.after,
                        IF a.entry.state = "error" THEN "error" ELSE "run"),
                 faults' = faults + a.fault
          PROVE  Kept1 /\ faults' \in 0..MaxFaults
        <3>1. /\ a.after \in {"none", "open", "unread", "lost"}
              /\ a.fault \in {0, 1} /\ (a.fault = 1 => faults < MaxFaults)
            BY <2>1, AnswerShape DEF RawAnswers
        <3>2. (IF a.entry.state = "error" THEN {request[r].next - 1} ELSE {}) \in SUBSET Nat
            BY <1>3
        <3>3. Kept1 BY <1>5, <2>1, <3>1, <3>2
        <3>4. QED BY <1>7, <2>1, <3>1, <3>3
    <2>2. Kept1 /\ faults' \in 0..MaxFaults BY <1>12, <2>1 DEF MultiQueryStatement
    <2>3. dbServer' = dbServer BY <1>12 DEF MultiQueryStatement
    <2>4. QED BY <1>9, <2>2, <2>3
<1>13. ASSUME QueryStatement(r)
       PROVE  Kept1 /\ ServerTyped' /\ faults' \in 0..MaxFaults
    <2>1. PICK a \in QueryAnswers(request[r].queries[1]) :
              /\ Report(r, a.entry, IF a.entry.state = "error" THEN {0} ELSE {}, "none", "run")
              /\ faults' = faults + a.fault
        BY <1>13 DEF QueryStatement
    <2>2. /\ a.after \in {"none", "open", "unread", "lost"}
          /\ a.fault \in {0, 1} /\ (a.fault = 1 => faults < MaxFaults)
        BY <2>1, AnswerShape DEF QueryAnswers
    <2>3. Kept1 BY <1>5, <2>1
    <2>4. dbServer' = dbServer BY <1>13 DEF QueryStatement
    <2>5. QED BY <1>7, <1>9, <2>1, <2>2, <2>3, <2>4
<1>14. ASSUME RawQueryStatement(r)
       PROVE  Kept1 /\ ServerTyped' /\ faults' \in 0..MaxFaults
    <2>1. PICK a \in RawAnswers("none", request[r].queries[1]) :
              /\ faults' = faults + a.fault
              /\ \/ Report(r, a.entry, IF a.entry.state = "error" THEN {0} ELSE {}, "none",
                           IF a.entry.state = "error" THEN "error" ELSE "run")
                 \/ request' = [request EXCEPT ![r].results = <<a.entry>>,
                                               ![r].phase = "failed"]
        BY <1>14 DEF RawQueryStatement
    <2>2. /\ a.after \in {"none", "open", "unread", "lost"}
          /\ a.fault \in {0, 1} /\ (a.fault = 1 => faults < MaxFaults)
        BY <2>1, AnswerShape DEF RawAnswers
    <2>3. Kept1
        <3>1. CASE Report(r, a.entry, IF a.entry.state = "error" THEN {0} ELSE {}, "none",
                          IF a.entry.state = "error" THEN "error" ELSE "run")
            BY <1>5, <3>1
        <3>2. CASE request' = [request EXCEPT ![r].results = <<a.entry>>, ![r].phase = "failed"]
            BY <1>1, <1>6, <1>10, <3>2, FailFields
        <3>3. QED BY <2>1, <3>1, <3>2
    <2>4. dbServer' = dbServer BY <1>14 DEF RawQueryStatement
    <2>5. QED BY <1>7, <1>9, <2>1, <2>2, <2>3, <2>4
<1>15. ASSUME CountQuery(r) \/ CountError(r)
       PROVE  Kept1 /\ ServerTyped' /\ faults' \in 0..MaxFaults
    <2>1. PICK phase \in {"run", "exec"} : request' = [request EXCEPT ![r].phase = phase]
        BY <1>15 DEF CountQuery, CountError
    <2>2. Kept1 BY <1>1, <1>6, <1>10, <2>1, PhaseFields
    <2>3. Counted(1, 0) \/ Counted(0, 1) BY <1>15 DEF CountQuery, CountError
    <2>4. ServerTyped' BY <1>1, <2>3, CountedTyped
    <2>5. faults' = faults BY <1>15 DEF CountQuery, CountError
    <2>6. QED BY <2>2, <2>4, <2>5 DEF TypeInv
<1>16. Kept1 /\ ServerTyped' /\ faults' \in 0..MaxFaults
    BY <1>11, <1>12, <1>13, <1>14, <1>15 DEF InTurn
<1>17. QED BY <1>2, <1>4, <1>16, TypesKept DEF TypeInv

LEMMA BeginTyped ==
    ASSUME TypeInv, LogInv, NEW r \in Request, (\E u \in User : Begin(r, u)) \/ MarkLoad(r)
    PROVE  TypeInv'
<1>1. RowIds BY DEF LogInv
<1>2. log' = log /\ saved' = saved /\ dbServer' = dbServer /\ faults' = faults
      /\ request[r].phase = "idle"
    BY DEF Begin, MarkLoad
<1>3. r \notin Inserted
    BY <1>2 DEF LogInv, Answering, Inserted, Idle, Run
<1> DEFINE Kept1 == /\ \A s \in Request \ {r} : request'[s] = request[s]
                    /\ RequestTyped(r)' /\ r \notin Inserted'
<1>4. saved \in Nat BY <1>1 DEF RowIds
<1>5. ASSUME NEW u \in User, Begin(r, u) PROVE Kept1
    <2>0. PICK op \in Run : \E queries, proceed : Starts(r, u, op, queries, proceed)
        BY <1>5, BeginStarts
    <2>1. PICK queries, proceed : Starts(r, u, op, queries, proceed)
        BY <2>0
    <2>2. /\ \A s \in Request \ {r} : request'[s] = request[s]
          /\ request'[r] = [Idle EXCEPT !.op = op, !.user = u, !.phase = "run",
                                        !.queries = queries, !.proceed = proceed]
        BY <1>1, <2>1 DEF RowIds, AreRequests, Starts
    <2>3. /\ request'[r].op = op /\ request'[r].user = u /\ request'[r].phase = "run"
          /\ request'[r].connection = "none" /\ request'[r].row = NoRowId
          /\ request'[r].victims = {} /\ request'[r].error = {}
        BY <2>2 DEF Idle
    <2>4. RequestTyped(r)' BY <1>2, <1>4, <2>3 DEF RequestTyped, Phase, NoRowId
    <2>5. r \notin Inserted' BY <2>3 DEF Inserted
    <2>6. QED BY <2>2, <2>4, <2>5
<1>6. ASSUME MarkLoad(r) PROVE Kept1
    <2>1. PICK x \in log, value \in BOOLEAN :
              request' = [request EXCEPT ![r] =
                  [Idle EXCEPT !.op = "put", !.user = x.user, !.phase = "mark", !.row = x.id,
                               !.loaded = x.is_favorite, !.value = value]]
        BY <1>6 DEF MarkLoad
    <2>2. /\ \A s \in Request \ {r} : request'[s] = request[s]
          /\ request'[r] = [Idle EXCEPT !.op = "put", !.user = x.user, !.phase = "mark",
                               !.row = x.id, !.loaded = x.is_favorite, !.value = value]
        BY <1>1, <2>1 DEF RowIds, AreRequests
    <2>3. /\ request'[r].op = "put" /\ request'[r].user = x.user /\ request'[r].phase = "mark"
          /\ request'[r].connection = "none" /\ request'[r].row = x.id
          /\ request'[r].victims = {} /\ request'[r].error = {}
        BY <2>2 DEF Idle
    <2>4. x.id \in 1..saved /\ x.user \in User
        BY <1>1 DEF RowIds, AreRows, TypeInv, LogTyped
    <2>5. RequestTyped(r)' BY <1>2, <1>4, <2>3, <2>4 DEF RequestTyped, Phase, Saving, InStatements
    <2>6. r \notin Inserted' BY <2>3 DEF Inserted, Run
    <2>7. QED BY <2>2, <2>5, <2>6
<1>7. Kept1 BY <1>5, <1>6
<1>8. QED BY <1>2, <1>3, <1>7, TypesKept DEF TypeInv, LogTyped, ServerTyped

LEMMA InsertTyped ==
    ASSUME TypeInv, LogInv, NEW r \in Request, Insert(r)
    PROVE  TypeInv'
<1>1. RowIds /\ RequestTyped(r) /\ saved \in Nat BY DEF LogInv, TypeInv, RowIds
<1>2. /\ request[r].phase = "run" /\ request[r].op \in Run /\ request[r].row = NoRowId
      /\ log' = log /\ dbServer' = dbServer /\ faults' = faults
    <2>1. /\ request[r].phase = "run"
          /\ log' = log /\ dbServer' = dbServer /\ faults' = faults
        BY DEF Insert
    <2>2. QED BY <2>1 DEF LogInv, Answering, InStatements
<1>3. LogTyped' /\ ServerTyped' /\ faults' \in 0..MaxFaults
    BY <1>2 DEF TypeInv, LogTyped, ServerTyped
<1>4. CASE ~dbServer.exists
    <2>1. request' = [request EXCEPT ![r].phase = "failed", ![r].connection = "none"]
          /\ saved' = saved
        BY <1>4 DEF Insert
    <2>2. /\ \A s \in Request \ {r} : request'[s] = request[s]
          /\ request'[r].op = request[r].op /\ request'[r].phase = "failed"
          /\ request'[r].user = request[r].user /\ request'[r].row = request[r].row
          /\ request'[r].victims = request[r].victims
          /\ request'[r].connection = "none"
          /\ request'[r].error = request[r].error
        BY <1>1, <2>1 DEF RowIds, AreRequests, Shaped, RequestFields
    <2>3. RequestTyped(r)' BY <1>1, <2>1, <2>2 DEF RequestTyped, Phase, Saving, InStatements
    <2>4. r \in Inserted' <=> r \in Inserted BY <2>2 DEF Inserted
    <2>5. QED BY <1>3, <2>1, <2>2, <2>3, <2>4, TypesKept DEF TypeInv
<1>5. CASE dbServer.exists
    <2> DEFINE with == Overlapping(r)
               full == Cardinality(RowsOfUser(request[r].user)) + 1 > Cap
               inserted == [request EXCEPT ![r].row = saved + 1, ![r].connection = "none",
                                       ![r].phase = IF full THEN "trim" ELSE "commit"]
    <2>1. /\ saved' = saved + 1
          /\ request' = [s \in Request |->
                            IF s \in with \/ (s = r /\ with # {})
                            THEN [inserted[s] EXCEPT !.overlapped = TRUE] ELSE inserted[s]]
        BY <1>5 DEF Insert
    <2> HIDE DEF with, full
    <2>2. /\ inserted[r].row = saved + 1 /\ inserted[r].connection = "none"
          /\ inserted[r].phase = IF full THEN "trim" ELSE "commit"
          /\ inserted[r].op = request[r].op /\ inserted[r].user = request[r].user
          /\ inserted[r].victims = request[r].victims /\ inserted[r].error = request[r].error
          /\ \A s \in Request \ {r} : inserted[s] = request[s]
          /\ \A s \in Request : Shaped(inserted[s])
        BY <1>1 DEF RowIds, AreRequests, Shaped, RequestFields
    <2> HIDE DEF inserted
    <2>3. \A s \in Request :
              /\ request'[s].op = inserted[s].op /\ request'[s].user = inserted[s].user
              /\ request'[s].phase = inserted[s].phase
              /\ request'[s].connection = inserted[s].connection
              /\ request'[s].row = inserted[s].row
              /\ request'[s].victims = inserted[s].victims
              /\ request'[s].error = inserted[s].error
        BY <2>1, <2>2 DEF Shaped, RequestFields
    <2>4. RequestTyped(r)'
        BY <1>1, <1>2, <2>1, <2>2, <2>3 DEF RequestTyped, Phase, InStatements
    <2>5. ASSUME NEW s \in Request \ {r} PROVE RequestTyped(s)'
        <3>1. RequestTyped(s) BY DEF TypeInv
        <3>2. QED BY <1>1, <2>1, <2>2, <2>3, <3>1 DEF RequestTyped
    <2>6. Inserted' = Inserted \cup {r} /\ r \notin Inserted
        <3>1. \A s \in Request : s \in Inserted' <=> s \in Inserted \cup {r}
            BY <1>1, <1>2, <2>2, <2>3 DEF Inserted, NoRowId
        <3>2. Inserted \subseteq Request /\ Inserted' \subseteq Request BY DEF Inserted
        <3>3. r \notin Inserted BY <1>2 DEF Inserted
        <3> HIDE DEF Inserted
        <3>4. QED BY <3>1, <3>2, <3>3
    <2>7. Numbered'
        <3>1. IsFiniteSet(Inserted) /\ Cardinality(Inserted) \in Nat
            BY QueryRunsAssumption, SmallerSet DEF Inserted
        <3>2. Cardinality(Inserted') = Cardinality(Inserted) + 1
            BY <2>6, <3>1, FS_AddElement
        <3>3. saved = Earlier + Cardinality(Inserted) /\ Earlier \in Nat
            BY QueryRunsAssumption DEF TypeInv, Numbered
        <3>4. QED BY <2>1, <3>1, <3>2, <3>3 DEF Numbered
    <2>8. QED BY <1>3, <2>4, <2>5, <2>7 DEF TypeInv
<1>6. QED BY <1>4, <1>5

LEMMA SavingTyped ==
    ASSUME TypeInv, LogInv, LogInv', NEW r \in Request, Trim(r) \/ Commit(r) \/ MarkWrite(r) \/ Crash(r)
    PROVE  TypeInv'
<1>1. RowIds /\ RequestTyped(r) BY DEF LogInv, TypeInv
<1>2. saved' = saved /\ dbServer' = dbServer
    BY DEF Trim, Commit, MarkWrite, Crash
<1>3. faults' \in 0..MaxFaults
    <2>1. faults \in 0..MaxFaults /\ MaxFaults \in Nat BY QueryRunsAssumption DEF TypeInv
    <2>2. faults' = faults \/ (faults < MaxFaults /\ faults' = faults + 1)
        BY DEF Trim, Commit, MarkWrite, Crash
    <2>3. QED BY <2>1, <2>2
<1>4. /\ \A s \in Request \ {r} : request'[s] = request[s]
      /\ request'[r].op = request[r].op
      /\ request'[r].phase \in {"commit", "done", "failed"}
      /\ request'[r].phase = "commit" => request[r].phase \in Saving
      /\ request'[r].user = request[r].user /\ request'[r].row = request[r].row
      /\ request'[r].connection \in {request[r].connection, "none"}
      /\ request'[r].error = request[r].error
      /\ request'[r].victims = request[r].victims \/ Trim(r)
    <2>1. CASE Trim(r)
        BY <1>1, <2>1 DEF Trim, RowIds, AreRequests, Shaped, RequestFields, Saving
    <2>2. CASE Commit(r)
        BY <1>1, <2>2 DEF Commit, RowIds, AreRequests, Shaped, RequestFields, Saving
    <2>3. CASE MarkWrite(r)
        BY <1>1, <2>3 DEF MarkWrite, RowIds, AreRequests, Shaped, RequestFields, Saving
    <2>4. CASE Crash(r)
        BY <1>1, <2>4 DEF Crash, RowIds, AreRequests, Shaped, RequestFields, Saving
    <2>5. QED BY <2>1, <2>2, <2>3, <2>4
<1>5. request'[r].victims \subseteq RowId
    <2>1. CASE ~Trim(r) BY <1>1, <1>4, <2>1 DEF RequestTyped
    <2>2. CASE Trim(r)
        <3>1. request'[r].victims = {x.id : x \in BeyondCap(Visible(r))}
            BY <1>1, <2>2 DEF Trim, RowIds, AreRequests, Shaped, RequestFields
        <3>2. request[r].phase \in Saving BY <2>2 DEF Trim, Saving
        <3>3. RowOf(r).id \in 1..saved BY <1>1, <3>2 DEF RowIds, FreshRows, FreshRow, RowOf
        <3>4. \A x \in Visible(r) : x.id \in 1..saved
            BY <1>1, <3>3 DEF Visible, RowsOfUser, RowIds, AreRows
        <3>5. 1..saved \subseteq RowId
            <4>1. /\ saved \in 0..(Earlier + Cardinality(Request)) /\ Cardinality(Request) \in Nat
                  /\ Earlier \in Nat
                BY SavedBound, QueryRunsAssumption DEF TypeInv
            <4>2. QED BY <4>1 DEF RowId
        <3>6. QED BY <3>1, <3>4, <3>5 DEF BeyondCap
    <2>3. QED BY <2>1, <2>2
<1>6. RequestTyped(r)'
    BY <1>1, <1>2, <1>4, <1>5 DEF RequestTyped, Phase, Saving, InStatements
<1>7. r \in Inserted' <=> r \in Inserted BY <1>4 DEF Inserted
<1>8. LogTyped'
    <2>1. CASE Trim(r) \/ Crash(r)
        <3>1. log' = log BY <2>1 DEF Trim, Crash
        <3>2. QED BY <3>1 DEF TypeInv, LogTyped
    <2>2. CASE Commit(r)
        <3>1. log' \subseteq log \cup {RowOf(r)} BY <2>2 DEF Commit
        <3>2. request[r].phase \in Saving BY <2>2 DEF Commit, Saving
        <3>3. RowOf(r).user \in User /\ RowOf(r).error \subseteq Nat
            BY <1>1, <3>2 DEF RequestTyped, RowOf
        <3>4. RowOf(r).is_valid \in BOOLEAN
            <4>1. RowOf(r).is_valid = ~ErrorOccured(r) BY DEF RowOf
            <4>2. (~ErrorOccured(r)) \in BOOLEAN OBVIOUS
            <4>3. QED BY <4>1, <4>2
        <3>5. QED BY <3>1, <3>3, <3>4 DEF TypeInv, LogTyped
    <2>3. CASE MarkWrite(r)
        <3> DEFINE Marked(x) == IF x.id = request[r].row /\ request[r].value # request[r].loaded
                                THEN [x EXCEPT !.is_favorite = request[r].value] ELSE x
        <3>1. log' = {Marked(x) : x \in log} BY <2>3 DEF MarkWrite
        <3>2. ASSUME NEW x \in log
              PROVE  /\ Marked(x).user = x.user /\ Marked(x).error = x.error
                     /\ Marked(x).is_valid = x.is_valid
            <4>1. x = [id |-> x.id, user |-> x.user, is_favorite |-> x.is_favorite,
                       is_valid |-> x.is_valid, error |-> x.error]
                BY <1>1 DEF RowIds, AreRows
            <4>2. QED BY <4>1
        <3> HIDE DEF Marked
        <3>3. QED BY <3>1, <3>2 DEF TypeInv, LogTyped
    <2>4. QED BY <2>1, <2>2, <2>3
<1>9. ServerTyped' BY <1>2 DEF TypeInv, ServerTyped
<1>10. QED BY <1>2, <1>3, <1>4, <1>6, <1>7, <1>8, <1>9, TypesKept DEF TypeInv

LEMMA NextKeepsTypes == TypeInv /\ LogInv /\ LogInv' /\ [Next]_vars => TypeInv'
<1> SUFFICES ASSUME TypeInv, LogInv, LogInv', [Next]_vars PROVE TypeInv'
    OBVIOUS
<1>1. ASSUME NEW r \in Request,
             \/ \E u \in User : Begin(r, u)
             \/ InTurn(r)
             \/ Insert(r) \/ Trim(r) \/ Commit(r)
             \/ MarkLoad(r) \/ MarkWrite(r)
             \/ Crash(r)
      PROVE  TypeInv'
    BY <1>1, BeginTyped, StatementsTyped, InsertTyped, SavingTyped
<1>2. CASE DeleteServer
    <2>1. /\ request' = request /\ saved' = saved /\ faults' = faults /\ log' = {}
          /\ dbServer' = [dbServer EXCEPT !.exists = FALSE]
        BY <1>2 DEF DeleteServer
    <2>2. ServerTyped' BY <2>1 DEF TypeInv, ServerTyped
    <2>3. Numbered' BY <2>1 DEF TypeInv, Numbered, Inserted
    <2>4. LogTyped' BY <2>1 DEF LogTyped
    <2>5. \A r \in Request : RequestTyped(r)' BY <2>1 DEF TypeInv, RequestTyped
    <2>6. QED BY <2>1, <2>2, <2>3, <2>4, <2>5 DEF TypeInv
<1>3. CASE UNCHANGED vars
    BY <1>3 DEF vars, TypeInv, Numbered, Inserted, ServerTyped, LogTyped, RequestTyped
<1>4. QED BY <1>1, <1>2, <1>3 DEF Next, InTurn

LEMMA TypeInvInit == Init => TypeInv
<1> SUFFICES ASSUME Init PROVE TypeInv
    OBVIOUS
<1>1. \A r \in Request : request[r] = Idle BY DEF Init
<1>2. /\ Idle.op = "none" /\ Idle.user = NoUser /\ Idle.phase = "idle"
      /\ Idle.connection = "none" /\ Idle.row = NoRowId /\ Idle.victims = {}
      /\ Idle.error = {}
    BY DEF Idle
<1>3. saved = Earlier /\ Earlier \in Nat /\ faults = 0 /\ MaxFaults \in Nat
    BY QueryRunsAssumption DEF Init
<1>4. Numbered
    <2>1. Inserted = {} BY <1>1, <1>2 DEF Inserted
    <2>2. QED BY <1>3, <2>1, FS_EmptySet DEF Numbered
<1>5. ServerTyped
    <2>1. dbServer \in [exists : {TRUE}, db_type : {"psql", "mysql"},
                        default_sql_limit : Limits, query_count : {0},
                        error_query_count : {0}]
        BY DEF Init
    <2>2. {TRUE} \subseteq BOOLEAN /\ {0} \subseteq Nat OBVIOUS
    <2>3. QED BY <2>1, <2>2, Zenon DEF ServerTyped
<1>6. LogTyped
    <2>1. PICK u \in User, favorite \in SUBSET (1..Earlier) :
              log = {[id |-> i, user |-> u, is_favorite |-> i \in favorite,
                      is_valid |-> TRUE, error |-> {}] : i \in 1..Earlier}
        BY DEF Init
    <2>2. ASSUME NEW x \in log PROVE x.user = u /\ x.is_valid = TRUE /\ x.error = {}
        BY <2>1
    <2>3. QED BY <2>2 DEF LogTyped
<1>7. \A r \in Request : RequestTyped(r)
    BY <1>1, <1>2, <1>3 DEF RequestTyped, Phase, Saving, InStatements, NoRowId
<1>8. QED BY <1>3, <1>4, <1>5, <1>6, <1>7 DEF TypeInv

\* Every state is well typed: no counter, id or list of rows to destroy leaves its range.
THEOREM TypeCorrect == Spec => []TypeOK
<1>1. TypeInv /\ LogInv /\ CapInv => TypeOK
    <2> SUFFICES ASSUME TypeInv, LogInv, CapInv PROVE TypeOK
        OBVIOUS
    <2>1. saved \in 0..(Earlier + Cardinality(Request)) /\ Cardinality(Request) \in Nat
          /\ Earlier \in Nat
        BY SavedBound, QueryRunsAssumption DEF TypeInv
    <2>2. log \subseteq SqlQuery
        <3>1. ASSUME NEW x \in log PROVE x \in SqlQuery
            <4>1. /\ x = [id |-> x.id, user |-> x.user, is_favorite |-> x.is_favorite,
                          is_valid |-> x.is_valid, error |-> x.error]
                  /\ x.id \in 1..saved
                BY DEF LogInv, RowIds, AreRows
            <4>2. x.id \in RowId BY <2>1, <4>1 DEF RowId
            <4>3. x.user \in User /\ x.is_valid \in BOOLEAN /\ x.error \in SUBSET Nat
                BY DEF TypeInv, LogTyped
            <4>4. x.is_favorite \in BOOLEAN BY DEF CapInv, Flags
            <4>5. QED BY <4>1, <4>2, <4>3, <4>4 DEF SqlQuery
        <3>2. QED BY <3>1
    <2>3. DOMAIN request = Request BY DEF LogInv, RowIds, AreRequests
    <2>4. IsFiniteSet(log) /\ \A a, b \in log : a.id = b.id => a = b
        BY DEF LogInv, RowIds, OneIdPerRow
    <2>5. QED BY <2>1, <2>2, <2>3, <2>4 DEF TypeOK, TypeInv, ServerTyped, RequestTyped
<1>2. QED BY <1>1, TypeInvInit, NextKeepsTypes, LogInvAlways, CapInvAlways, PTL DEF Spec

-----------------------------------------------------------------------------
(* What the results say                                                    *)

\* The error is the statement's own, or one of the connection.
OwnError(text, cause) ==
    \/ cause \in {"connect", "lost"}
    \/ /\ cause = "statement"
       /\ \/ \E c \in DOMAIN text : text[c] = Fail
          \/ Blank(text) /\ dbServer.db_type = "mysql"
          \/ dbServer.default_sql_limit = 0

\* The rows that the first command of a statement yields.
FirstRows(text) ==
    RowsOf(1, IF dbServer.db_type = "psql" THEN Min({dbServer.default_sql_limit, text[1]})
                                           ELSE text[1])

Sound(r, i, entry) ==
    /\ entry.state \in {"success", "error", "skipped"}
    /\ entry.state = "error" => OwnError(request[r].queries[i], entry.cause)
    /\ request[r].op = "multi_query" /\ entry.state = "success" =>
           entry.rows = FirstRows(request[r].queries[i])

FailedBefore(r, i) == \E j \in Answered(r) : j < i /\ ResultOf(r, j).state = "error"
SkipsRight(r, i, entry) == request[r].op = "multi_query" =>
    ((entry.state = "skipped") <=> (FailedBefore(r, i) /\ ~request[r].proceed))

Told(r) == \A i \in Answered(r) : /\ Sound(r, i, ResultOf(r, i))
                                  /\ SkipsRight(r, i, ResultOf(r, i))

\* What a request was asked for is a list of texts.
Asked(r) == request[r].op \in Run => request[r].queries \in Seq(AnyText)

\* What multi_query has answered is complete, also when it fails.
Complete(r) == request[r].op = "multi_query" => Matches(r)

TellInv == \A r \in Request : Told(r) /\ Asked(r) /\ Complete(r)

\* What the results are judged by stays.
SameJudge == /\ dbServer'.db_type = dbServer.db_type
             /\ dbServer'.default_sql_limit = dbServer.default_sql_limit

LEMMA ServerStays ==
    ASSUME ServerTyped, [Next]_vars
    PROVE  SameJudge
<1>1. ASSUME NEW queries, NEW errors, Counted(queries, errors) PROVE SameJudge
    BY <1>1 DEF Counted, ServerTyped, SameJudge
<1>2. CASE dbServer' = dbServer BY <1>2 DEF SameJudge
<1>3. CASE DeleteServer BY <1>3 DEF DeleteServer, ServerTyped, SameJudge
<1>4. ASSUME NEW r \in Request, InTurn(r)
      PROVE  dbServer' = dbServer \/ \E queries, errors : Counted(queries, errors)
    BY <1>4 DEF InTurn, CountQuery, CountError, MultiQuerySkip, MultiQueryStatement,
                QueryStatement, RawQueryStatement
<1>5. ASSUME NEW r \in Request,
             \/ \E u \in User : Begin(r, u)
             \/ Insert(r) \/ Trim(r) \/ Commit(r) \/ MarkLoad(r) \/ MarkWrite(r) \/ Crash(r)
      PROVE  dbServer' = dbServer
    BY <1>5 DEF Begin, Insert, Trim, Commit, MarkLoad, MarkWrite, Crash
<1>6. CASE UNCHANGED vars BY <1>2, <1>6 DEF vars
<1>7. QED BY <1>1, <1>2, <1>3, <1>4, <1>5, <1>6 DEF Next, InTurn

\* A request whose answers stay tells what it told.
LEMMA SameTold ==
    ASSUME NEW r \in Request, SameJudge, Told(r), Asked(r), Complete(r), SameAnswers(r),
           request'[r].proceed = request[r].proceed
    PROVE  Told(r)' /\ Asked(r)' /\ Complete(r)'
<1>1. Answered(r)' = Answered(r) BY DEF SameAnswers, Answered
<1>2. \A i : ResultOf(r, i)' = ResultOf(r, i)
    BY <1>1 DEF ResultOf, SameAnswers
<1>3. \A text, cause : OwnError(text, cause)' <=> OwnError(text, cause)
    BY DEF SameJudge, OwnError
<1>4. \A text : FirstRows(text)' = FirstRows(text)
    BY DEF SameJudge, FirstRows
<1>5. \A i : FailedBefore(r, i)' <=> FailedBefore(r, i)
    BY <1>1, <1>2 DEF FailedBefore
<1>6. ASSUME NEW i \in Answered(r)
      PROVE  Sound(r, i, ResultOf(r, i))' /\ SkipsRight(r, i, ResultOf(r, i))'
    BY <1>2, <1>3, <1>4, <1>5 DEF Told, Sound, SkipsRight, SameAnswers
<1>7. Complete(r)' BY SameAnswersMatch DEF Complete, SameAnswers
<1>8. QED BY <1>1, <1>6, <1>7 DEF Told, Asked, SameAnswers

\* A request that has answered nothing yet.
LEMMA NothingTold ==
    ASSUME NEW r, request[r].next = 1
    PROVE  Told(r)
<1>1. 1..(1 - 1) = {} OBVIOUS
<1>2. Answered(r) = {} BY <1>1 DEF Answered
<1>3. QED BY <1>2 DEF Told

-----------------------------------------------------------------------------
(* A statement that is answered                                            *)

\* The next statement of r gets a result, or, when it is blank, none.
Turn(r, entry) ==
    /\ request'[r].op = request[r].op
    /\ request'[r].queries = request[r].queries
    /\ request'[r].proceed = request[r].proceed
    /\ request'[r].next = request[r].next + 1
    /\ request'[r].results = Append(request[r].results, entry)
    /\ request'[r].error = request[r].error
           \cup (IF entry.state = "error" THEN {request[r].next - 1} ELSE {})
    /\ request[r].op = "multi_query" => ~Blank(request[r].queries[request[r].next])

NoTurn(r) ==
    /\ request'[r].op = request[r].op
    /\ request'[r].queries = request[r].queries
    /\ request'[r].proceed = request[r].proceed
    /\ request'[r].next = request[r].next + 1
    /\ request'[r].results = request[r].results
    /\ request'[r].error = request[r].error
    /\ request[r].op = "multi_query" /\ Blank(request[r].queries[request[r].next])

LEMMA TurnResults ==
    ASSUME NEW r \in Request, Matches(r), NEW entry, Turn(r, entry)
    PROVE  /\ Answered(r)' = Answered(r) \cup {request[r].next}
           /\ \A i \in Answered(r) : i < request[r].next /\ ResultOf(r, i)' = ResultOf(r, i)
           /\ \A i : i = request[r].next => ResultOf(r, i)' = entry
<1>0. PICK n : n = request[r].next OBVIOUS
<1> DEFINE s == request[r].results
           t == request'[r].results
           A == Answered(r)
<1>1. n \in Nat \ {0} /\ s \in Seq(Entries(r)) /\ Len(s) = Cardinality(A)
    BY <1>0 DEF Matches
<1>2. Answered(r)' = A \cup {n}
    <2>1. Answered(r)' = {i \in 1..n : request[r].op = "multi_query"
                                        => ~Blank(request[r].queries[i])}
        BY <1>0, <1>1 DEF Answered, Turn
    <2>2. 1..n = 1..(n - 1) \cup {n} BY <1>1
    <2>3. QED BY <1>0, <2>1, <2>2 DEF Answered, Turn
<1>3. IsFiniteSet(A) /\ Cardinality(A) \in Nat /\ A \subseteq 1..(n - 1)
    BY <1>0, <1>1, FiniteAnswered
<1>4. n \notin A BY <1>1, <1>3
<1>5. /\ Len(t) = Len(s) + 1 /\ Len(s) \in Nat /\ DOMAIN s = 1..Len(s)
      /\ \A k \in 1..Len(s) : t[k] = s[k]
      /\ t[Len(s) + 1] = entry
    <2>1. t = Append(s, entry) BY DEF Turn
    <2>2. QED BY <1>1, <2>1, Appended
<1>6. \A i \in A : Rank(r, i) \in 1..Len(s) BY <1>5 DEF Matches
<1>7. ASSUME NEW i \in A PROVE Rank(r, i)' = Rank(r, i)
    <2>1. {j \in A \cup {n} : j <= i} = {j \in A : j <= i} BY <1>1, <1>3
    <2>2. QED BY <1>2, <2>1 DEF Rank
<1>8. Rank(r, n)' = Len(s) + 1
    <2>1. {j \in A \cup {n} : j <= n} = A \cup {n} BY <1>1, <1>3
    <2>2. Cardinality(A \cup {n}) = Cardinality(A) + 1 BY <1>3, <1>4, FS_AddElement
    <2>3. Rank(r, n)' = Cardinality(A \cup {n}) BY <1>2, <2>1 DEF Rank
    <2>4. QED BY <1>1, <2>2, <2>3
<1> HIDE DEF A, s, t
<1>9. ASSUME NEW i \in A PROVE ResultOf(r, i)' = ResultOf(r, i)
    <2>1. ResultOf(r, i)' = t[Rank(r, i)'] BY DEF ResultOf, Rank, t
    <2>2. ResultOf(r, i) = s[Rank(r, i)] BY DEF ResultOf, Rank, s
    <2>3. QED BY <2>1, <2>2, <1>5, <1>6, <1>7
<1>10. ResultOf(r, n)' = entry
    <2>1. ResultOf(r, n)' = t[Rank(r, n)'] BY DEF ResultOf, Rank, t
    <2>2. QED BY <2>1, <1>5, <1>8
<1>11. \A i \in A : i < n BY <1>1, <1>3
<1>12. QED BY <1>0, <1>2, <1>9, <1>10, <1>11 DEF A

LEMMA NoTurnResults ==
    ASSUME NEW r \in Request, Matches(r), NoTurn(r)
    PROVE  Answered(r)' = Answered(r) /\ \A i : ResultOf(r, i)' = ResultOf(r, i)
<1>0. PICK n : n = request[r].next OBVIOUS
<1>1. n \in Nat \ {0} BY <1>0 DEF Matches
<1>2. Answered(r)' = Answered(r)
    <2>1. Answered(r)' = {i \in 1..n : request[r].op = "multi_query"
                                        => ~Blank(request[r].queries[i])}
        BY <1>0, <1>1 DEF Answered, NoTurn
    <2>2. 1..n = 1..(n - 1) \cup {n} BY <1>1
    <2>3. QED BY <1>0, <2>1, <2>2 DEF Answered, NoTurn
<1>3. \A i : ResultOf(r, i)' = ResultOf(r, i) BY <1>2 DEF ResultOf, NoTurn
<1>4. QED BY <1>2, <1>3

\* A sound result of the next statement keeps a request telling the truth.
LEMMA TurnTells ==
    ASSUME NEW r \in Request, Matches(r), Told(r), SameJudge,
           NEW entry, Turn(r, entry),
           Sound(r, request[r].next, entry),
           request[r].op = "multi_query" =>
               (entry.state = "skipped" <=> request[r].error # {} /\ ~request[r].proceed)
    PROVE  Told(r)'
<1>0. PICK n : n = request[r].next OBVIOUS
<1>1. /\ Answered(r)' = Answered(r) \cup {n}
      /\ \A i \in Answered(r) : i < n /\ ResultOf(r, i)' = ResultOf(r, i)
      /\ ResultOf(r, n)' = entry
    BY <1>0, TurnResults
<1>2. n \in Nat \ {0} /\ Answered(r) \subseteq Nat BY <1>0 DEF Matches, Answered
<1>3. \A text, cause : OwnError(text, cause)' <=> OwnError(text, cause)
    BY DEF SameJudge, OwnError
<1>4. \A text : FirstRows(text)' = FirstRows(text) BY DEF SameJudge, FirstRows
<1>5. ASSUME NEW i \in Answered(r) PROVE FailedBefore(r, i)' <=> FailedBefore(r, i)
    <2>1. i < n /\ ~(n < i) BY <1>1, <1>2
    <2>2. QED BY <1>1, <2>1 DEF FailedBefore
<1>6. FailedBefore(r, n)' <=> request[r].error # {}
    <2>1. ~(n < n) BY <1>2
    <2>2. FailedBefore(r, n)' <=> \E j \in Answered(r) : ResultOf(r, j).state = "error"
        BY <1>1, <2>1 DEF FailedBefore
    <2>3. request[r].error = {i - 1 : i \in {j \in Answered(r) : ResultOf(r, j).state = "error"}}
        BY DEF Matches
    <2>4. QED BY <2>2, <2>3
<1>7. ASSUME NEW i \in Answered(r)
      PROVE  Sound(r, i, ResultOf(r, i))' /\ SkipsRight(r, i, ResultOf(r, i))'
    <2>1. Sound(r, i, ResultOf(r, i)) /\ SkipsRight(r, i, ResultOf(r, i)) BY DEF Told
    <2>2. Sound(r, i, ResultOf(r, i))' BY <1>1, <1>3, <1>4, <2>1 DEF Sound, Turn
    <2>3. SkipsRight(r, i, ResultOf(r, i))' BY <1>1, <1>5, <2>1 DEF SkipsRight, Turn
    <2>4. QED BY <2>2, <2>3
<1>8. Sound(r, n, ResultOf(r, n))' BY <1>0, <1>1, <1>3, <1>4 DEF Sound, Turn
<1>9. SkipsRight(r, n, ResultOf(r, n))' BY <1>1, <1>6 DEF SkipsRight, Turn
<1>10. QED BY <1>1, <1>7, <1>8, <1>9 DEF Told

LEMMA NoTurnTells ==
    ASSUME NEW r \in Request, Matches(r), Told(r), SameJudge, NoTurn(r)
    PROVE  Told(r)'
<1>1. Answered(r)' = Answered(r) /\ \A i : ResultOf(r, i)' = ResultOf(r, i)
    BY NoTurnResults
<1>2. \A text, cause : OwnError(text, cause)' <=> OwnError(text, cause)
    BY DEF SameJudge, OwnError
<1>3. \A text : FirstRows(text)' = FirstRows(text) BY DEF SameJudge, FirstRows
<1>4. \A i : FailedBefore(r, i)' <=> FailedBefore(r, i) BY <1>1 DEF FailedBefore
<1>5. ASSUME NEW i \in Answered(r)
      PROVE  Sound(r, i, ResultOf(r, i))' /\ SkipsRight(r, i, ResultOf(r, i))'
    BY <1>1, <1>2, <1>3, <1>4 DEF Told, Sound, SkipsRight, NoTurn
<1>6. QED BY <1>1, <1>5 DEF Told

-----------------------------------------------------------------------------
(* The answers of the connection                                           *)

\* What is left unread in a connection never answers a statement.
LEMMA AnswersOwn ==
    ASSUME NEW connection \in {"none", "open", "unread", "lost"}, NEW result,
           NEW a \in Answers(connection, result)
    PROVE  /\ a.entry.state \in {"success", "error"}
           /\ a.entry.state = "error" =>
                 \/ a.entry.cause \in {"connect", "lost"}
                 \/ a.entry.cause = "statement" /\ result.state # "success"
           /\ a.entry.state = "success" =>
                 result.state = "success" /\ a.entry.rows = result.result
<1>1. Connected(connection) # "unread" BY DEF Connected
<1>2. \A state, rows, limited, cause, after :
          /\ Outcome(state, rows, limited, cause, after).entry.state = state
          /\ Outcome(state, rows, limited, cause, after).entry.rows = rows
          /\ Outcome(state, rows, limited, cause, after).entry.cause = cause
    BY DEF Outcome, Entry
<1>3. \A cause, after : /\ Error(cause, after).entry.state = "error"
                        /\ Error(cause, after).entry.cause = cause
    BY DEF Error, Outcome, Entry
<1>4. \A cause, after : /\ Fault(cause, after).entry.state = "error"
                        /\ Fault(cause, after).entry.cause = cause
    BY DEF Fault, Error, Outcome, Entry
<1>5. \/ a \in {Error("lost", "lost"), Fault("connect", "none"), Fault("lost", "lost")}
      \/ /\ result.state = "success"
         /\ \E after : a = Outcome("success", result.result, result.limit_reached, "none", after)
      \/ result.state # "success" /\ \E after : a = Error("statement", after)
    BY <1>1 DEF Answers
<1>6. QED BY <1>2, <1>3, <1>4, <1>5

LEMMA TextsAreCommands == \A text \in AnyText : text \in Seq(Command)
BY QueryRunsAssumption DEF Command

LEMMA RawTells ==
    ASSUME ServerTyped, NEW text \in AnyText,
           NEW connection \in {"none", "open", "unread", "lost"},
           NEW a \in RawAnswers(connection, text)
    PROVE  /\ a.entry.state \in {"success", "error"}
           /\ a.entry.state = "error" => OwnError(text, a.entry.cause)
           /\ a.entry.state = "success" /\ ~Blank(text) =>
                 a.entry.rows[1] = FirstRows(text)
<1> DEFINE limit == dbServer.default_sql_limit
           result == RawResult(dbServer.db_type, text, limit)
<1>1. text \in Seq(Command) BY TextsAreCommands
<1>2. limit \in Nat /\ dbServer.db_type \in {"psql", "mysql"}
    BY QueryRunsAssumption DEF ServerTyped
<1>3. a \in Answers(connection, result) BY DEF RawAnswers
<1>4. /\ result.state \in {"success", "error"}
      /\ result.state = "error" => OwnError(text, "statement")
      /\ result.state = "success" /\ ~Blank(text) => result.result[1] = FirstRows(text)
    <2>1. CASE dbServer.db_type = "psql"
        <3>1. result = PsqlResult(text, limit) BY <2>1 DEF RawResult
        <3>2. PICK most \in Nat : most = limit BY <1>2
        <3>3. /\ PsqlResult(text, most).state \in {"success", "error"}
              /\ PsqlResult(text, most).state = "error" =>
                     most = 0 \/ \E c \in DOMAIN text : text[c] = Fail
              /\ PsqlResult(text, most).state = "success" /\ text # <<>> =>
                     PsqlResult(text, most).result[1] = RowsOf(1, Min({most, text[1]}))
            BY <1>1, PsqlTells
        <3> HIDE DEF result, limit
        <3>4. QED BY <2>1, <3>1, <3>2, <3>3 DEF OwnError, FirstRows, Blank, limit
    <2>2. CASE dbServer.db_type = "mysql"
        <3>1. result = MysqlResult(text) BY <2>2 DEF RawResult
        <3> HIDE DEF result, limit
        <3>2. QED BY <1>1, <2>2, <3>1, MysqlTells DEF OwnError, FirstRows, Blank
    <2>3. QED BY <1>2, <2>1, <2>2
<1> HIDE DEF result
<1>5. /\ a.entry.state \in {"success", "error"}
      /\ a.entry.state = "error" =>
            \/ a.entry.cause \in {"connect", "lost"}
            \/ a.entry.cause = "statement" /\ result.state # "success"
      /\ a.entry.state = "success" =>
            result.state = "success" /\ a.entry.rows = result.result
    BY <1>3, AnswersOwn
<1>6. a.entry.state = "error" => OwnError(text, a.entry.cause)
    BY <1>4, <1>5 DEF OwnError
<1>7. QED BY <1>4, <1>5, <1>6

LEMMA QueryTells ==
    ASSUME ServerTyped, NEW text \in AnyText, NEW a \in QueryAnswers(text)
    PROVE  /\ a.entry.state \in {"success", "error"}
           /\ a.entry.state = "error" => OwnError(text, a.entry.cause)
<1> DEFINE result == IF text = <<>> /\ dbServer.db_type = "mysql" THEN Failure(FALSE)
                     ELSE MysqlResult(Commands(text))
<1>1. text \in Seq(Command) BY TextsAreCommands
<1>2. a \in Answers("none", result) BY DEF QueryAnswers
<1>3. result.state = "error" \/ result.state = "success"
    <2>1. Commands(text) \in Seq(Command) BY <1>1, CommandsType
    <2>2. QED BY <2>1, MysqlTells DEF Failure
<1>4. ASSUME result.state # "success" PROVE OwnError(text, "statement")
    <2>1. CASE text = <<>> /\ dbServer.db_type = "mysql" BY <2>1 DEF OwnError, Blank
    <2>2. CASE ~(text = <<>> /\ dbServer.db_type = "mysql")
        <3>1. Commands(text) \in Seq(Command) /\ Commands(text) # <<>> BY <1>1, CommandsType
        <3>2. \E c \in DOMAIN Commands(text) : Commands(text)[c] = Fail
            BY <1>3, <1>4, <2>2, <3>1, MysqlTells
        <3>3. text # <<>>
            <4>1. SUFFICES ASSUME text = <<>> PROVE FALSE OBVIOUS
            <4>2. Commands(text) = <<0>> BY <4>1 DEF Commands
            <4>3. \A c \in DOMAIN <<0>> : <<0>>[c] = 0 OBVIOUS
            <4>4. QED BY <3>2, <4>2, <4>3, RawResultsAssumption
        <3>4. Commands(text) = text BY <3>3 DEF Commands
        <3>5. QED BY <3>2, <3>4 DEF OwnError
    <2>3. QED BY <2>1, <2>2
<1> HIDE DEF result
<1>5. "none" \in {"none", "open", "unread", "lost"} OBVIOUS
<1>6. /\ a.entry.state \in {"success", "error"}
      /\ a.entry.state = "error" =>
            \/ a.entry.cause \in {"connect", "lost"}
            \/ a.entry.cause = "statement" /\ result.state # "success"
    BY <1>2, <1>5, AnswersOwn
<1>7. QED BY <1>4, <1>6 DEF OwnError

\* What a turn does to its request: a blank statement is passed, a statement is skipped, is
\* answered, or makes the request fail.
Phases(r, before, after) == request[r].phase = before /\ request'[r].phase = after
Noted(r) ==
    \/ NoTurn(r) /\ Phases(r, "run", "run")
    \/ \E entry :
          /\ Turn(r, entry) /\ Sound(r, request[r].next, entry)
          /\ IF entry.state = "skipped" THEN Phases(r, "run", "run")
             ELSE Phases(r, "exec",
                         IF entry.state = "error" /\ request[r].op # "query" THEN "error" ELSE "run")
          /\ request[r].op = "multi_query" =>
                (entry.state = "skipped" <=> request[r].error # {} /\ ~request[r].proceed)
    \/ /\ \E entry : entry.state # "skipped" /\ request'[r].results = <<entry>>
       /\ request'[r].op = request[r].op /\ request'[r].op = "raw_query"
       /\ request'[r].queries = request[r].queries
       /\ request[r].next = 1 /\ request'[r].next = 1
       /\ request'[r].error = {} /\ request[r].error = {}
       /\ request[r].results = <<>>
       /\ Phases(r, "exec", "failed")

Noting(r) == MultiQuerySkip(r) \/ MultiQueryStatement(r) \/ QueryStatement(r) \/ RawQueryStatement(r)

LEMMA ReportTurns ==
    ASSUME RowIds, NEW r \in Request, NEW entry, NEW errors, NEW connection, NEW phase,
           Report(r, entry, errors, connection, phase),
           errors = IF entry.state = "error" THEN {request[r].next - 1} ELSE {},
           request[r].op = "multi_query" => ~Blank(request[r].queries[request[r].next])
    PROVE  /\ \A s \in Request \ {r} : request'[s] = request[s]
           /\ Turn(r, entry) /\ request'[r].phase = phase
BY ReportFields DEF Turn

LEMMA SkipNoted ==
    ASSUME LogInv, TypeInv, TellInv, NEW r \in Request, MultiQuerySkip(r)
    PROVE  Noted(r) /\ \A s \in Request \ {r} : request'[s] = request[s]
<1> DEFINE text == request[r].queries[request[r].next]
<1>1. RowIds BY DEF LogInv
<1>2. request[r].phase = "run" /\ request[r].op = "multi_query"
    BY DEF MultiQuerySkip
<1>3. CASE Blank(text)
    <2>1. request' = [request EXCEPT ![r].next = @ + 1]
        BY <1>3 DEF MultiQuerySkip
    <2>2. /\ \A s \in Request \ {r} : request'[s] = request[s]
          /\ request'[r].op = request[r].op
          /\ request'[r].queries = request[r].queries
          /\ request'[r].proceed = request[r].proceed
          /\ request'[r].next = request[r].next + 1
          /\ request'[r].results = request[r].results
          /\ request'[r].error = request[r].error
          /\ request'[r].phase = request[r].phase
        BY <1>1, <2>1, NextFields
    <2>3. NoTurn(r) BY <1>2, <1>3, <2>2 DEF NoTurn
    <2>4. QED BY <1>2, <2>2, <2>3 DEF Noted, Phases
<1>4. CASE ~Blank(text)
    <2>1. /\ Report(r, Skipped, {}, request[r].connection, "run")
          /\ ErrorOccured(r) /\ ~request[r].proceed
        BY <1>4 DEF MultiQuerySkip
    <2>2. Skipped.state = "skipped" BY DEF Skipped, Entry
    <2>3. /\ \A s \in Request \ {r} : request'[s] = request[s]
          /\ Turn(r, Skipped) /\ request'[r].phase = "run"
        BY <1>1, <1>4, <2>1, <2>2, ReportTurns
    <2>4. Sound(r, request[r].next, Skipped) BY <2>2 DEF Sound
    <2>5. QED BY <1>2, <2>1, <2>2, <2>3, <2>4 DEF Noted, ErrorOccured, Phases
<1>5. QED BY <1>3, <1>4

LEMMA MultiQueryNoted ==
    ASSUME LogInv, TypeInv, TellInv, NEW r \in Request, MultiQueryStatement(r)
    PROVE  Noted(r) /\ \A s \in Request \ {r} : request'[s] = request[s]
<1> DEFINE n == request[r].next
           text == request[r].queries[request[r].next]
<1>1. RowIds /\ Answering(r) /\ RequestTyped(r) /\ ServerTyped /\ Asked(r)
    BY DEF LogInv, TypeInv, TellInv
<1>2. /\ request[r].phase = "exec" /\ request[r].op = "multi_query"
      /\ n <= Len(request[r].queries)
      /\ ~Blank(text) /\ ~(ErrorOccured(r) /\ ~request[r].proceed)
    BY DEF MultiQueryStatement, Executing, Due
<1>3. Matches(r) /\ n \in Nat \ {0} BY <1>1, <1>2 DEF Answering, Matches, Run
<1>4. text \in AnyText
    <2>1. request[r].queries \in Seq(AnyText) BY <1>1, <1>2 DEF Asked, Run
    <2>2. n \in 1..Len(request[r].queries) BY <1>2, <1>3, <2>1
    <2>3. QED BY <2>1, <2>2
<1>5. PICK a \in RawAnswers(request[r].connection, text) :
          LET bad == a.entry.state = "error"
              rows == IF bad THEN <<>> ELSE a.entry.rows[1]
          IN  Report(r, [a.entry EXCEPT !.rows = rows],
                     IF bad THEN {n - 1} ELSE {}, a.after, IF bad THEN "error" ELSE "run")
    BY DEF MultiQueryStatement
<1>6. PICK connection \in {"none", "open", "unread", "lost"} : connection = request[r].connection
    BY <1>1 DEF RequestTyped
<1>7. /\ a.entry.state \in {"success", "error"}
      /\ a.entry.state = "error" => OwnError(text, a.entry.cause)
      /\ a.entry.state = "success" /\ ~Blank(text) => a.entry.rows[1] = FirstRows(text)
    BY <1>1, <1>4, <1>5, <1>6, RawTells
<1>8. a.entry = Entry(a.entry.state, a.entry.rows, a.entry.limit_reached, a.entry.cause)
    BY <1>5, AnswerShape DEF RawAnswers
<1>9. PICK entry : entry = [a.entry EXCEPT !.rows =
                               IF a.entry.state = "error" THEN <<>> ELSE a.entry.rows[1]]
    OBVIOUS
<1>10. /\ entry.state = a.entry.state /\ entry.cause = a.entry.cause
       /\ entry.rows = IF a.entry.state = "error" THEN <<>> ELSE a.entry.rows[1]
    BY <1>8, <1>9 DEF Entry
<1>11. Report(r, entry, IF entry.state = "error" THEN {n - 1} ELSE {}, a.after,
              IF entry.state = "error" THEN "error" ELSE "run")
    BY <1>5, <1>9, <1>10
<1>12. /\ \A s \in Request \ {r} : request'[s] = request[s]
       /\ Turn(r, entry)
       /\ request'[r].phase = IF entry.state = "error" THEN "error" ELSE "run"
    BY <1>1, <1>2, <1>11, ReportTurns
<1>13. Sound(r, n, entry) BY <1>2, <1>7, <1>10 DEF Sound
<1>14. entry.state # "skipped" BY <1>7, <1>10
<1>15. request[r].op # "query" BY <1>2
<1>16. QED BY <1>2, <1>12, <1>13, <1>14, <1>15 DEF Noted, ErrorOccured, Phases

LEMMA OtherQueriesNoted ==
    ASSUME LogInv, TypeInv, TellInv, NEW r \in Request, QueryStatement(r) \/ RawQueryStatement(r)
    PROVE  Noted(r) /\ \A s \in Request \ {r} : request'[s] = request[s]
<1> DEFINE text == request[r].queries[1]
<1>1. RowIds /\ Answering(r) /\ RequestTyped(r) /\ ServerTyped /\ Asked(r)
    BY DEF LogInv, TypeInv, TellInv
<1>2. /\ request[r].phase = "exec" /\ request[r].op \in {"query", "raw_query"}
      /\ request[r].next <= Len(request[r].queries)
    BY DEF QueryStatement, RawQueryStatement, Executing, Due
<1>3. Matches(r) /\ request[r].next = 1
    <2>1. Matches(r) BY <1>1, <1>2 DEF Answering, Run
    <2>2. Len(request[r].queries) = 1 BY <1>1, <1>2 DEF Answering
    <2>3. QED BY <1>2, <2>1, <2>2 DEF Matches
<1>4. text \in AnyText
    <2>1. request[r].queries \in Seq(AnyText) BY <1>1, <1>2 DEF Asked, Run
    <2>2. 1 \in 1..Len(request[r].queries) BY <1>2, <1>3, <2>1
    <2>3. QED BY <2>1, <2>2
<1>5. request[r].results = <<>> /\ request[r].error = {}
    <2>1. 1..(1 - 1) = {} OBVIOUS
    <2>2. Answered(r) = {} BY <1>3, <2>1 DEF Answered
    <2>3. request[r].error = {} BY <1>3, <2>2 DEF Matches
    <2>4. Len(request[r].results) = 0 /\ request[r].results \in Seq(Entries(r))
        BY <1>3, <2>2, FS_EmptySet DEF Matches
    <2>5. QED BY <2>3, <2>4
<1>6. CASE QueryStatement(r)
    <2>1. PICK a \in QueryAnswers(text) :
              Report(r, a.entry, IF a.entry.state = "error" THEN {0} ELSE {}, "none", "run")
        BY <1>6 DEF QueryStatement
    <2>2. /\ a.entry.state \in {"success", "error"}
          /\ a.entry.state = "error" => OwnError(text, a.entry.cause)
        BY <1>1, <1>4, <2>1, QueryTells
    <2>3. /\ \A s \in Request \ {r} : request'[s] = request[s]
          /\ Turn(r, a.entry) /\ request'[r].phase = "run"
        <3>1. request[r].next - 1 = 0 BY <1>3
        <3>2. QED BY <1>1, <1>2, <2>1, <3>1, ReportTurns
    <2>4. Sound(r, request[r].next, a.entry) BY <1>2, <1>3, <2>2 DEF Sound
    <2>5. request[r].op = "query" BY <1>6 DEF QueryStatement, Executing
    <2>6. a.entry.state # "skipped" BY <2>2
    <2>7. QED BY <1>2, <2>3, <2>4, <2>5, <2>6 DEF Noted, Phases
<1>7. CASE RawQueryStatement(r)
    <2>0. request[r].op = "raw_query" BY <1>7 DEF RawQueryStatement, Executing
    <2>1. PICK a \in RawAnswers("none", text) :
              \/ Report(r, a.entry, IF a.entry.state = "error" THEN {0} ELSE {}, "none",
                        IF a.entry.state = "error" THEN "error" ELSE "run")
              \/ request' = [request EXCEPT ![r].results = <<a.entry>>,
                                            ![r].phase = "failed"]
        BY <1>7 DEF RawQueryStatement
    <2>2. /\ a.entry.state \in {"success", "error"}
          /\ a.entry.state = "error" => OwnError(text, a.entry.cause)
        <3>1. PICK connection \in {"none", "open", "unread", "lost"} : connection = "none"
            OBVIOUS
        <3>2. QED BY <1>1, <1>4, <2>1, <3>1, RawTells
    <2>3. a.entry.state # "skipped" BY <2>2
    <2>4. CASE Report(r, a.entry, IF a.entry.state = "error" THEN {0} ELSE {}, "none",
                      IF a.entry.state = "error" THEN "error" ELSE "run")
        <3>1. /\ \A s \in Request \ {r} : request'[s] = request[s]
              /\ Turn(r, a.entry)
              /\ request'[r].phase = IF a.entry.state = "error" THEN "error" ELSE "run"
            <4>1. request[r].next - 1 = 0 BY <1>3
            <4>2. QED BY <1>1, <1>2, <2>4, <4>1, ReportTurns
        <3>2. Sound(r, request[r].next, a.entry) BY <2>0, <1>3, <2>2 DEF Sound
        <3>3. QED BY <1>2, <2>0, <2>3, <3>1, <3>2 DEF Noted, Phases
    <2>5. CASE request' = [request EXCEPT ![r].results = <<a.entry>>, ![r].phase = "failed"]
        <3> DEFINE one == <<a.entry>>
        <3>1. request' = [request EXCEPT ![r].results = one, ![r].phase = "failed"]
            BY <2>5
        <3> HIDE DEF one
        <3>2. /\ \A s \in Request \ {r} : request'[s] = request[s]
              /\ request'[r].op = request[r].op
              /\ request'[r].queries = request[r].queries
              /\ request'[r].next = request[r].next
              /\ request'[r].results = one
              /\ request'[r].error = request[r].error
              /\ request'[r].phase = "failed"
            BY <1>1, <3>1, FailFields
        <3>3. QED BY <1>2, <1>3, <1>5, <2>0, <2>3, <3>2 DEF Noted, Phases, one
    <2>6. QED BY <2>1, <2>4, <2>5
<1>8. QED BY <1>6, <1>7

-----------------------------------------------------------------------------
(* The invariant                                                           *)

LEMMA StatementNoted ==
    ASSUME LogInv, TypeInv, TellInv, NEW r \in Request, Noting(r)
    PROVE  Noted(r) /\ \A s \in Request \ {r} : request'[s] = request[s]
BY SkipNoted, MultiQueryNoted, OtherQueriesNoted DEF Noting

\* The steps that change no answer.
LEMMA AnswersKept ==
    ASSUME LogInv, NEW r \in Request,
           \/ CountQuery(r) \/ CountError(r)
           \/ Insert(r) \/ Trim(r) \/ Commit(r) \/ MarkWrite(r) \/ Crash(r)
    PROVE  \A s \in Request : SameAnswers(s) /\ request'[s].proceed = request[s].proceed
<1>1. RowIds BY DEF LogInv
<1>2. ASSUME Trim(r) \/ Commit(r) \/ MarkWrite(r) \/ Crash(r)
      PROVE  \A s \in Request : SameAnswers(s) /\ request'[s].proceed = request[s].proceed
    <2>1. \/ \E victims : request' = [request EXCEPT ![r].phase = "commit",
                                                     ![r].victims = victims]
          \/ request' = [request EXCEPT ![r].phase = "done"]
          \/ request' = [request EXCEPT ![r].phase = "failed", ![r].connection = "none"]
        BY <1>2 DEF Trim, Commit, MarkWrite, Crash
    <2>2. CASE \E victims : request' = [request EXCEPT ![r].phase = "commit",
                                                      ![r].victims = victims]
        BY <1>1, <2>2 DEF RowIds, AreRequests, Shaped, RequestFields, SameAnswers
    <2>3. CASE request' = [request EXCEPT ![r].phase = "done"]
        BY <1>1, <2>3 DEF RowIds, AreRequests, Shaped, RequestFields, SameAnswers
    <2>4. CASE request' = [request EXCEPT ![r].phase = "failed", ![r].connection = "none"]
        BY <1>1, <2>4 DEF RowIds, AreRequests, Shaped, RequestFields, SameAnswers
    <2>5. QED BY <2>1, <2>2, <2>3, <2>4
<1>3. CASE Insert(r)
    <2>1. CASE ~dbServer.exists
        <3>1. request' = [request EXCEPT ![r].phase = "failed", ![r].connection = "none"]
            BY <1>3, <2>1 DEF Insert
        <3>2. QED BY <1>1, <3>1 DEF RowIds, AreRequests, Shaped, RequestFields, SameAnswers
    <2>2. CASE dbServer.exists
        <3> DEFINE with == Overlapping(r)
                   full == Cardinality(RowsOfUser(request[r].user)) + 1 > Cap
                   inserted == [request EXCEPT ![r].row = saved + 1, ![r].connection = "none",
                                       ![r].phase = IF full THEN "trim" ELSE "commit"]
        <3>1. request' = [s \in Request |->
                            IF s \in with \/ (s = r /\ with # {})
                            THEN [inserted[s] EXCEPT !.overlapped = TRUE] ELSE inserted[s]]
            BY <1>3, <2>2 DEF Insert
        <3> HIDE DEF with, full
        <3>2. \A s \in Request :
                  /\ inserted[s].op = request[s].op /\ inserted[s].queries = request[s].queries
                  /\ inserted[s].next = request[s].next
                  /\ inserted[s].results = request[s].results
                  /\ inserted[s].error = request[s].error
                  /\ inserted[s].proceed = request[s].proceed
                  /\ Shaped(inserted[s])
            <4>1. /\ \A s \in Request \ {r} : inserted[s] = request[s]
                  /\ \A s \in Request : Shaped(inserted[s]) /\ Shaped(request[s])
                BY <1>1 DEF RowIds, AreRequests, Shaped, RequestFields
            <4>2. /\ inserted[r].op = request[r].op /\ inserted[r].queries = request[r].queries
                  /\ inserted[r].next = request[r].next
                  /\ inserted[r].results = request[r].results
                  /\ inserted[r].error = request[r].error
                  /\ inserted[r].proceed = request[r].proceed
                BY <1>1 DEF RowIds, AreRequests, Shaped, RequestFields
            <4> HIDE DEF inserted
            <4>3. QED BY <4>1, <4>2
        <3> HIDE DEF inserted
        <3>3. QED BY <3>1, <3>2 DEF Shaped, RequestFields, SameAnswers
    <2>3. QED BY <2>1, <2>2
<1>4. CASE CountQuery(r) \/ CountError(r)
    <2>1. PICK phase : request' = [request EXCEPT ![r].phase = phase]
        BY <1>4 DEF CountQuery, CountError
    <2>2. QED BY <1>1, <2>1, PhaseFields DEF SameAnswers
<1>5. QED BY <1>2, <1>3, <1>4

\* What a run that begins has been asked for.
LEMMA BeginAsked ==
    ASSUME LogInv, NEW r \in Request, NEW u \in User, Begin(r, u)
    PROVE  /\ \A s \in Request \ {r} : request'[s] = request[s]
           /\ request'[r].op \in Run /\ request'[r].phase = "run"
           /\ request'[r].queries \in Seq(AnyText)
           /\ request'[r].next = 1 /\ request'[r].results = <<>> /\ request'[r].error = {}
<1>1. RowIds BY DEF LogInv
<1>2. \/ \E batch \in Batches, proceed \in BOOLEAN : Starts(r, u, "multi_query", batch, proceed)
      \/ \E text \in Texts : Starts(r, u, "raw_query", <<text>>, TRUE)
      \/ \E text \in Texts : Starts(r, u, "query", <<text>>, TRUE)
    <2>1. \A text : Len(<<text>>) = 1 OBVIOUS
    <2>2. QED BY <2>1 DEF Begin, Starts
<1>3. \A batch \in Batches : batch \in Seq(AnyText)
    BY QueryRunsAssumption
<1>4. \A text \in Texts : <<text>> \in Seq(AnyText)
    BY QueryRunsAssumption
<1>5. PICK op \in Run, queries \in Seq(AnyText), proceed \in BOOLEAN : Starts(r, u, op, queries, proceed)
    <2>1. "multi_query" \in Run /\ "raw_query" \in Run /\ "query" \in Run BY DEF Run
    <2>2. TRUE \in BOOLEAN OBVIOUS
    <2>3. QED BY <1>2, <1>3, <1>4, <2>1, <2>2, Zenon
<1>6. /\ \A s \in Request \ {r} : request'[s] = request[s]
      /\ request'[r] = [Idle EXCEPT !.op = op, !.user = u, !.phase = "run",
                                    !.queries = queries, !.proceed = proceed]
    BY <1>1, <1>5 DEF RowIds, AreRequests, Starts
<1>7. /\ request'[r].op = op /\ request'[r].queries = queries /\ request'[r].phase = "run"
      /\ request'[r].next = 1 /\ request'[r].results = <<>> /\ request'[r].error = {}
    BY <1>6 DEF Idle
<1>8. QED BY <1>6, <1>7

LEMMA MarkLoadAsked ==
    ASSUME LogInv, NEW r \in Request, MarkLoad(r)
    PROVE  /\ \A s \in Request \ {r} : request'[s] = request[s]
           /\ request'[r].op = "put"
           /\ request'[r].next = 1 /\ request'[r].results = <<>> /\ request'[r].error = {}
<1>1. RowIds BY DEF LogInv
<1>2. PICK x \in log, value \in BOOLEAN :
          request' = [request EXCEPT ![r] =
              [Idle EXCEPT !.op = "put", !.user = x.user, !.phase = "mark", !.row = x.id,
                           !.loaded = x.is_favorite, !.value = value]]
    BY DEF MarkLoad
<1>3. /\ \A s \in Request \ {r} : request'[s] = request[s]
      /\ request'[r] = [Idle EXCEPT !.op = "put", !.user = x.user, !.phase = "mark",
                           !.row = x.id, !.loaded = x.is_favorite, !.value = value]
    BY <1>1, <1>2 DEF RowIds, AreRequests
<1>4. QED BY <1>3 DEF Idle

LEMMA NextKeepsTold == TellInv /\ LogInv /\ LogInv' /\ TypeInv /\ [Next]_vars => TellInv'
<1> SUFFICES ASSUME TellInv, LogInv, LogInv', TypeInv, [Next]_vars PROVE TellInv'
    OBVIOUS
<1>1. SameJudge BY ServerStays DEF TypeInv
<1>2. ASSUME NEW s \in Request, SameAnswers(s), request'[s].proceed = request[s].proceed
      PROVE  Told(s)' /\ Asked(s)' /\ Complete(s)'
    BY <1>1, <1>2, SameTold DEF TellInv
<1>3. ASSUME NEW r \in Request, \A s \in Request \ {r} : request'[s] = request[s],
             Told(r)' /\ Asked(r)' /\ Complete(r)'
      PROVE  TellInv'
    <2>1. \A s \in Request \ {r} : SameAnswers(s) /\ request'[s].proceed = request[s].proceed
        BY <1>3 DEF SameAnswers
    <2>2. QED BY <1>2, <1>3, <2>1 DEF TellInv
<1>4. ASSUME NEW r \in Request, Noting(r)
      PROVE  TellInv'
    <2>1. Noted(r) /\ \A s \in Request \ {r} : request'[s] = request[s]
        BY <1>4, StatementNoted
    <2>2. request[r].phase \in InStatements /\ request[r].op \in Run
        <3>1. request[r].phase \in InStatements BY <1>4, TurnForms DEF Noting, InTurn
        <3>2. QED BY <3>1 DEF LogInv, Answering
    <2>3. Matches(r) BY <2>2 DEF LogInv, Answering, InStatements
    <2>4. Told(r) /\ Asked(r) BY DEF TellInv
    <2>5. request'[r].op = request[r].op /\ request'[r].queries = request[r].queries
        BY <2>1 DEF Noted, Turn, NoTurn
    <2>6. Asked(r)' BY <2>2, <2>4, <2>5 DEF Asked
    <2>7. CASE NoTurn(r)
        <3>1. Told(r)' BY <1>1, <2>3, <2>4, <2>7, NoTurnTells
        <3>2. Complete(r)' BY <2>3, <2>7, BlankMatches DEF Complete, NoTurn
        <3>3. QED BY <1>3, <2>1, <2>6, <3>1, <3>2
    <2>8. ASSUME NEW entry, Turn(r, entry), Sound(r, request[r].next, entry),
                 request[r].op = "multi_query" =>
                    (entry.state = "skipped" <=> request[r].error # {} /\ ~request[r].proceed)
          PROVE  TellInv'
        <3>1. Told(r)' BY <1>1, <2>3, <2>4, <2>8, TurnTells
        <3>2. Complete(r)'
            <4>1. PICK errors : errors = IF entry.state = "error" THEN {request[r].next - 1} ELSE {}
                OBVIOUS
            <4>2. Matches(r)' BY <2>3, <2>8, <4>1, ReportMatches DEF Turn
            <4>3. QED BY <4>2 DEF Complete
        <3>3. QED BY <1>3, <2>1, <2>6, <3>1, <3>2
    <2>9. CASE request'[r].next = 1 /\ request'[r].op = "raw_query"
        <3>1. 1..(1 - 1) = {} OBVIOUS
        <3>2. Answered(r)' = {} BY <2>9, <3>1 DEF Answered
        <3>3. Told(r)' BY <3>2 DEF Told
        <3>4. Complete(r)' BY <2>9 DEF Complete
        <3>5. QED BY <1>3, <2>1, <2>6, <3>3, <3>4
    <2>10. QED BY <2>1, <2>7, <2>8, <2>9 DEF Noted
<1>5. ASSUME NEW r \in Request, (\E u \in User : Begin(r, u)) \/ MarkLoad(r)
      PROVE  TellInv'
    <2>1. /\ \A s \in Request \ {r} : request'[s] = request[s]
          /\ request'[r].next = 1
          /\ Asked(r)' /\ Complete(r)'
        <3>1. CASE \E u \in User : Begin(r, u)
            <4>1. /\ \A s \in Request \ {r} : request'[s] = request[s]
                  /\ request'[r].op \in Run /\ request'[r].phase = "run"
                  /\ request'[r].queries \in Seq(AnyText)
                  /\ request'[r].next = 1
                BY <3>1, BeginAsked
            <4>2. Matches(r)' BY <4>1 DEF LogInv, Answering
            <4>3. QED BY <4>1, <4>2 DEF Asked, Complete
        <3>2. CASE MarkLoad(r)
            BY <3>2, MarkLoadAsked DEF Asked, Complete, Run
        <3>3. QED BY <1>5, <3>1, <3>2
    <2>2. Told(r)'
        <3>1. 1..(1 - 1) = {} OBVIOUS
        <3>2. Answered(r)' = {} BY <2>1, <3>1 DEF Answered
        <3>3. QED BY <3>2 DEF Told
    <2>3. QED BY <1>3, <2>1, <2>2
<1>6. ASSUME NEW r \in Request,
             \/ CountQuery(r) \/ CountError(r)
             \/ Insert(r) \/ Trim(r) \/ Commit(r) \/ MarkWrite(r) \/ Crash(r)
      PROVE  TellInv'
    BY <1>2, <1>6, AnswersKept DEF TellInv
<1>7. CASE DeleteServer \/ UNCHANGED vars
    <2>1. request' = request BY <1>7 DEF DeleteServer, vars
    <2>2. QED BY <1>2, <2>1 DEF TellInv, SameAnswers
<1>8. QED BY <1>4, <1>5, <1>6, <1>7 DEF Next, Noting

LEMMA TellInvInit == Init => TellInv
<1> SUFFICES ASSUME Init, NEW r \in Request PROVE Told(r) /\ Asked(r) /\ Complete(r)
    BY DEF TellInv
<1>1. request[r] = Idle BY DEF Init
<1>2. request[r].next = 1 /\ request[r].op = "none" BY <1>1 DEF Idle
<1>3. QED BY <1>2, NothingTold DEF Asked, Complete, Run

LEMMA TellInvAlways == Spec => [](TellInv /\ LogInv /\ TypeInv)
<1>1. Init => TellInv /\ LogInv /\ TypeInv BY TellInvInit, LogInvInit, TypeInvInit
<1>2. TellInv /\ LogInv /\ TypeInv /\ [Next]_vars => (TellInv /\ LogInv /\ TypeInv)'
    BY NextKeepsTold, NextKeepsLog, NextKeepsTypes
<1>3. QED BY <1>1, <1>2, PTL DEF Spec

\* Whatever statements are run, and whatever a truncated one left unread in the connection
\* that the next one reuses: an error is the statement's own, or the connection could not
\* be made or was lost (db_server.rb 158-193, 249-302).
THEOREM ErrorsAreOwnAlways == Spec => []ErrorsAreOwn
<1>1. TellInv => ErrorsAreOwn
    BY DEF TellInv, Told, Sound, OwnError, ErrorsAreOwn
<1>2. QED BY <1>1, TellInvAlways, PTL

\* Every statement of multi_query that is not blank has one result, in order; none is
\* skipped but after an error without proceed_after_error, and then all are; a success
\* carries the rows of the statement's own first command, cut to the limit
\* (db_servers.rb 288-344).
THEOREM ResultsMatchStatementsAlways == Spec => []ResultsMatchStatements
<1>1. TellInv /\ LogInv /\ TypeInv => ResultsMatchStatements
    <2> SUFFICES ASSUME TellInv, LogInv, TypeInv, NEW r \in Request,
                        request[r].op = "multi_query"
                 PROVE  /\ Len(request[r].results) = Cardinality(Answered(r))
                        /\ \A i \in Answered(r) :
                             LET failed == \E j \in Answered(r) :
                                               j < i /\ ResultOf(r, j).state = "error"
                                 text == request[r].queries[i]
                                 limit == dbServer.default_sql_limit
                             IN  /\ ResultOf(r, i).state = "skipped"
                                        <=> failed /\ ~request[r].proceed
                                 /\ ResultOf(r, i).state = "success" =>
                                       ResultOf(r, i).rows =
                                           RowsOf(1, IF dbServer.db_type = "psql"
                                                     THEN Min({limit, text[1]}) ELSE text[1])
        BY DEF ResultsMatchStatements
    <2>1. Matches(r) BY DEF TellInv, Complete
    <2>2. QED BY <2>1 DEF TellInv, Told, Sound, SkipsRight, FailedBefore, FirstRows, Matches
<1>2. QED BY <1>1, TellInvAlways, PTL

\* The loop pairs the commands of every text with their rows, whatever the limit.
THEOREM RawResultsRightAlways == Spec => []RawResultsRight
<1>1. RawResultsRight
    <2>1. ASSUME NEW most \in Limits, NEW text \in AnyText, NEW limit \in 1..most
          PROVE  PsqlResult(text, limit) = Promised(text, limit)
        <3>1. text \in Seq(Command) BY TextsAreCommands
        <3>2. limit \in Nat \ {0} BY QueryRunsAssumption
        <3>3. QED BY <3>1, <3>2, LoopKeepsPromise
    <2>2. QED BY <2>1 DEF RawResultsRight, PairsCommandsWithRows
<1>2. QED BY <1>1, PTL

-----------------------------------------------------------------------------
(* The sum of a function                                                   *)

\* One element of a set, and the recursion that SumFunction folds with.
One(s) == CHOOSE x \in s : TRUE
SumOf(it, f, s) == IF s = {} THEN 0 ELSE f[One(s)] + it[s \ {One(s)}]
IsSum(it, f, S) == it = [s \in SUBSET S |-> SumOf(it, f, s)]

\* The parts of S with at most n elements add up.
SumsUpTo(it, f, S, n) ==
    \A s \in SUBSET S : Cardinality(s) <= n => it[s] = SumOf(it, f, s)

LEMMA OneLess ==
    ASSUME NEW S, IsFiniteSet(S), NEW s \in SUBSET S, s # {}
    PROVE  /\ One(s) \in s /\ s \ {One(s)} \in SUBSET S
           /\ Cardinality(s) \in Nat \ {0} /\ Cardinality(s \ {One(s)}) = Cardinality(s) - 1
<1>1. One(s) \in s BY DEF One
<1>2. IsFiniteSet(s) BY FS_Subset
<1>3. Cardinality(s) \in Nat /\ Cardinality(s) # 0 BY <1>2, FS_CardinalityType, FS_EmptySet
<1>4. Cardinality(s \ {One(s)}) = Cardinality(s) - 1 BY <1>1, <1>2, FS_RemoveElement
<1>5. QED BY <1>1, <1>3, <1>4

LEMMA SumExists ==
    ASSUME NEW S, IsFiniteSet(S), NEW f
    PROVE  \E it : IsSum(it, f, S)
<1> DEFINE T == {n \in Nat : \E it : SumsUpTo(it, f, S, n)}
<1>1. \A s \in SUBSET S : Cardinality(s) \in Nat /\ (Cardinality(s) = 0 <=> s = {})
    BY FS_Subset, FS_CardinalityType, FS_EmptySet
<1>2. 0 \in T
    <2>1. PICK it : it = [s \in SUBSET S |-> 0] OBVIOUS
    <2>2. ASSUME NEW s \in SUBSET S, Cardinality(s) <= 0 PROVE it[s] = SumOf(it, f, s)
        <3>1. s = {} BY <1>1, <2>2
        <3>2. QED BY <2>1, <3>1 DEF SumOf
    <2>3. SumsUpTo(it, f, S, 0) BY <2>2 DEF SumsUpTo
    <2>4. QED BY <2>3
<1>3. ASSUME NEW n \in Nat, n \in T PROVE n + 1 \in T
    <2>1. PICK it : SumsUpTo(it, f, S, n) BY <1>3
    <2>2. PICK jt : jt = [s \in SUBSET S |-> IF Cardinality(s) = n + 1 THEN SumOf(it, f, s) ELSE it[s]]
        OBVIOUS
    <2>3. ASSUME NEW s \in SUBSET S, Cardinality(s) <= n + 1 PROVE jt[s] = SumOf(jt, f, s)
        <3>1. jt[s] = SumOf(it, f, s)
            <4>1. CASE Cardinality(s) = n + 1 BY <2>2, <4>1
            <4>2. CASE Cardinality(s) <= n
                <5>1. Cardinality(s) # n + 1 BY <1>1, <4>2
                <5>2. jt[s] = it[s] BY <2>2, <5>1
                <5>3. QED BY <2>1, <4>2, <5>2 DEF SumsUpTo
            <4>3. QED BY <1>1, <2>3, <4>1, <4>2
        <3>2. SumOf(it, f, s) = SumOf(jt, f, s)
            <4>1. CASE s = {} BY <4>1 DEF SumOf
            <4>2. CASE s # {}
                <5>1. /\ s \ {One(s)} \in SUBSET S /\ Cardinality(s) \in Nat
                      /\ Cardinality(s \ {One(s)}) = Cardinality(s) - 1
                    BY <4>2, OneLess
                <5>2. Cardinality(s \ {One(s)}) # n + 1 BY <2>3, <5>1
                <5>3. jt[s \ {One(s)}] = it[s \ {One(s)}] BY <2>2, <5>1, <5>2
                <5>4. QED BY <5>3 DEF SumOf
            <4>3. QED BY <4>1, <4>2
        <3>3. QED BY <3>1, <3>2
    <2>4. SumsUpTo(jt, f, S, n + 1) BY <2>3 DEF SumsUpTo
    <2>5. QED BY <2>4
<1> HIDE DEF T
<1>4. Nat \subseteq T BY <1>2, <1>3, AllNumbers
<1>5. PICK n \in Nat : n = Cardinality(S) BY FS_CardinalityType
<1>6. PICK it : SumsUpTo(it, f, S, n) BY <1>4, <1>5 DEF T
<1>7. \A s \in SUBSET S : it[s] = SumOf(it, f, s)
    <2>1. \A s \in SUBSET S : Cardinality(s) <= n BY <1>5, FS_Subset
    <2>2. QED BY <1>6, <2>1 DEF SumsUpTo
<1>8. PICK jt : jt = [s \in SUBSET S |-> it[s]] OBVIOUS
<1>9. ASSUME NEW s \in SUBSET S PROVE SumOf(jt, f, s) = it[s]
    <2>1. CASE s = {} BY <1>7, <2>1 DEF SumOf
    <2>2. CASE s # {}
        <3>1. s \ {One(s)} \in SUBSET S BY <2>2, OneLess
        <3>2. jt[s \ {One(s)}] = it[s \ {One(s)}] BY <1>8, <3>1
        <3>3. SumOf(jt, f, s) = SumOf(it, f, s) BY <2>2, <3>2 DEF SumOf
        <3>4. QED BY <1>7, <3>3
    <2>3. QED BY <2>1, <2>2
<1>10. IsSum(jt, f, S) BY <1>8, <1>9 DEF IsSum
<1>11. QED BY <1>10

\* What SumFunction folds is the sum over the whole domain.
LEMMA SumUnfolds ==
    ASSUME NEW S, IsFiniteSet(S), NEW f \in [S -> Nat]
    PROVE  \E it : IsSum(it, f, S) /\ SumFunction(f) = it[S]
<1>1. \E it : IsSum(it, f, S) BY SumExists
<1>2. PICK it : it = CHOOSE jt : IsSum(jt, f, S) OBVIOUS
<1>3. IsSum(it, f, S) BY <1>1, <1>2
<1>4. SumFunction(f) = (CHOOSE jt : jt = [s \in SUBSET S |->
          IF s = {} THEN 0 ELSE f[CHOOSE x \in s : TRUE] + jt[s \ {CHOOSE x \in s : TRUE}]])[S]
    BY DEF SumFunction, SumFunctionOnSet, FoldFunctionOnSet, MapThenFoldSet
<1>5. SumFunction(f) = it[S] BY <1>2, <1>4 DEF IsSum, SumOf, One
<1>6. QED BY <1>3, <1>5

\* Sums are numbers.
LEMMA SumsAreNumbers ==
    ASSUME NEW S, IsFiniteSet(S), NEW f \in [S -> Nat], NEW it, IsSum(it, f, S)
    PROVE  \A s \in SUBSET S : it[s] \in Nat
<1> DEFINE T == {n \in Nat : \A s \in SUBSET S : Cardinality(s) = n => it[s] \in Nat}
<1>1. \A s \in SUBSET S : it[s] = SumOf(it, f, s) BY DEF IsSum
<1>2. 0 \in T
    <2>1. \A s \in SUBSET S : Cardinality(s) = 0 => s = {} BY FS_Subset, FS_EmptySet
    <2>2. \A s \in SUBSET S : s = {} => it[s] = 0 BY <1>1 DEF SumOf
    <2>3. QED BY <2>1, <2>2
<1>3. ASSUME NEW n \in Nat, n \in T PROVE n + 1 \in T
    <2>1. ASSUME NEW s \in SUBSET S, Cardinality(s) = n + 1 PROVE it[s] \in Nat
        <3>1. s # {} BY <2>1, FS_EmptySet
        <3>2. /\ One(s) \in S /\ s \ {One(s)} \in SUBSET S
              /\ Cardinality(s \ {One(s)}) = Cardinality(s) - 1
            BY <3>1, OneLess
        <3>3. Cardinality(s \ {One(s)}) = n BY <2>1, <3>2
        <3>4. it[s \ {One(s)}] \in Nat BY <1>3, <3>2, <3>3
        <3>5. f[One(s)] \in Nat BY <3>2
        <3>6. it[s] = f[One(s)] + it[s \ {One(s)}] BY <1>1, <3>1 DEF SumOf
        <3>7. QED BY <3>4, <3>5, <3>6
    <2>2. QED BY <2>1
<1> HIDE DEF T
<1>4. Nat \subseteq T BY <1>2, <1>3, AllNumbers
<1>5. QED BY <1>4, FS_Subset, FS_CardinalityType DEF T

\* A function that differs from another in one value, by d.
LEMMA SumGrows ==
    ASSUME NEW S, IsFiniteSet(S), NEW f \in [S -> Nat], NEW h \in [S -> Nat],
           NEW x \in S, NEW d \in Nat,
           h[x] = f[x] + d, \A y \in S \ {x} : h[y] = f[y]
    PROVE  SumFunction(h) = SumFunction(f) + d
<1>1. PICK it : IsSum(it, f, S) /\ SumFunction(f) = it[S] BY SumUnfolds
<1>2. PICK jt : IsSum(jt, h, S) /\ SumFunction(h) = jt[S] BY SumUnfolds
<1>3. \A s \in SUBSET S : it[s] \in Nat BY <1>1, SumsAreNumbers
<1> DEFINE More(s) == IF x \in s THEN d ELSE 0
           T == {n \in Nat : \A s \in SUBSET S : Cardinality(s) = n => jt[s] = it[s] + More(s)}
<1>4. \A s \in SUBSET S : it[s] = SumOf(it, f, s) /\ jt[s] = SumOf(jt, h, s)
    BY <1>1, <1>2 DEF IsSum
<1>5. 0 \in T
    <2>1. \A s \in SUBSET S : Cardinality(s) = 0 => s = {} BY FS_Subset, FS_EmptySet
    <2>2. \A s \in SUBSET S : s = {} => it[s] = 0 /\ jt[s] = 0 BY <1>4 DEF SumOf
    <2>3. \A s \in SUBSET S : s = {} => More(s) = 0 OBVIOUS
    <2>4. QED BY <2>1, <2>2, <2>3
<1>6. ASSUME NEW n \in Nat, n \in T PROVE n + 1 \in T
    <2>1. ASSUME NEW s \in SUBSET S, Cardinality(s) = n + 1 PROVE jt[s] = it[s] + More(s)
        <3>1. s # {} BY <2>1, FS_EmptySet
        <3>2. PICK y : y = One(s) OBVIOUS
        <3>3. /\ y \in s /\ y \in S /\ s \ {y} \in SUBSET S
              /\ Cardinality(s \ {y}) = Cardinality(s) - 1
            BY <3>1, <3>2, OneLess
        <3>4. Cardinality(s \ {y}) = n BY <2>1, <3>3
        <3>5. jt[s \ {y}] = it[s \ {y}] + More(s \ {y}) BY <1>6, <3>3, <3>4
        <3>6. it[s] = f[y] + it[s \ {y}] /\ jt[s] = h[y] + jt[s \ {y}]
            BY <1>4, <3>1, <3>2 DEF SumOf
        <3>7. h[y] + More(s \ {y}) = f[y] + More(s)
            <4>1. CASE y = x
                <5>1. More(s \ {y}) = 0 /\ More(s) = d BY <3>3, <4>1
                <5>2. QED BY <4>1, <5>1
            <4>2. CASE y # x
                <5>1. More(s \ {y}) = More(s) BY <4>2
                <5>2. h[y] = f[y] BY <3>3, <4>2
                <5>3. QED BY <5>1, <5>2
            <4>3. QED BY <4>1, <4>2
        <3>8. f[y] \in Nat /\ h[y] \in Nat /\ it[s \ {y}] \in Nat BY <1>3, <3>3
        <3>9. More(s \ {y}) \in Nat /\ More(s) \in Nat OBVIOUS
        <3> HIDE DEF More
        <3>10. QED BY <3>5, <3>6, <3>7, <3>8, <3>9
    <2>2. QED BY <2>1
<1>7. More(S) = d OBVIOUS
<1> HIDE DEF T, More
<1>8. Nat \subseteq T BY <1>5, <1>6, AllNumbers
<1>9. jt[S] = it[S] + More(S) BY <1>8, FS_CardinalityType DEF T
<1>10. QED BY <1>1, <1>2, <1>7, <1>9

LEMMA SumOfNothing ==
    ASSUME NEW S, IsFiniteSet(S), NEW f \in [S -> Nat], \A x \in S : f[x] = 0
    PROVE  SumFunction(f) = 0
<1>1. PICK it : IsSum(it, f, S) /\ SumFunction(f) = it[S] BY SumUnfolds
<1> DEFINE T == {n \in Nat : \A s \in SUBSET S : Cardinality(s) = n => it[s] = 0}
<1>2. \A s \in SUBSET S : it[s] = SumOf(it, f, s) BY <1>1 DEF IsSum
<1>3. 0 \in T
    <2>1. \A s \in SUBSET S : Cardinality(s) = 0 => s = {} BY FS_Subset, FS_EmptySet
    <2>2. \A s \in SUBSET S : s = {} => it[s] = 0 BY <1>2 DEF SumOf
    <2>3. QED BY <2>1, <2>2
<1>4. ASSUME NEW n \in Nat, n \in T PROVE n + 1 \in T
    <2>1. ASSUME NEW s \in SUBSET S, Cardinality(s) = n + 1 PROVE it[s] = 0
        <3>1. s # {} BY <2>1, FS_EmptySet
        <3>2. /\ One(s) \in S /\ s \ {One(s)} \in SUBSET S
              /\ Cardinality(s \ {One(s)}) = Cardinality(s) - 1
            BY <3>1, OneLess
        <3>3. Cardinality(s \ {One(s)}) = n BY <2>1, <3>2
        <3>4. it[s \ {One(s)}] = 0 /\ f[One(s)] = 0 BY <1>4, <3>2, <3>3
        <3>5. it[s] = f[One(s)] + it[s \ {One(s)}] BY <1>2, <3>1 DEF SumOf
        <3>6. QED BY <3>4, <3>5
    <2>2. QED BY <2>1
<1> HIDE DEF T
<1>5. Nat \subseteq T BY <1>3, <1>4, AllNumbers
<1>6. it[S] = 0 BY <1>5, FS_CardinalityType DEF T
<1>7. QED BY <1>1, <1>6

-----------------------------------------------------------------------------
(* The counters                                                            *)

\* Whether r is in a phase, as a number.
At(r, phase) == IF request[r].phase = phase THEN 1 ELSE 0

Countable(r) == Sent(r) \in Nat /\ Failed(r) \in Nat
CountInv == CountersExact /\ \A r \in Request : Countable(r)

\* What a step adds to what r has sent, and to what of it has failed.
Adds(r, sent, failed) ==
    /\ Sent(r)' = Sent(r) + sent /\ Failed(r)' = Failed(r) + failed

\* What the server counts.
ServerCounts(sent, failed) ==
    dbServer'.exists => /\ dbServer.exists
                        /\ dbServer'.query_count = dbServer.query_count + sent
                        /\ dbServer'.error_query_count = dbServer.error_query_count + failed

\* The number of requests in a phase follows the one request that moves.
LEMMA PhaseMoves ==
    ASSUME NEW r \in Request, NEW p,
           \A s \in Request \ {r} : request'[s].phase = request[s].phase
    PROVE  /\ InPhase(p) \in Nat /\ InPhase(p)' \in Nat
           /\ InPhase(p)' + At(r, p) = InPhase(p) + At(r, p)'
<1> DEFINE Others == {s \in Request \ {r} : request[s].phase = p}
           Now == {s \in Request : request[s].phase = p}
           Then == {s \in Request : request'[s].phase = p}
<1>1. IsFiniteSet(Others) /\ r \notin Others
    BY QueryRunsAssumption, FS_Subset
<1>2. Cardinality(Others) \in Nat BY <1>1, FS_CardinalityType
<1>3. Now = IF request[r].phase = p THEN Others \cup {r} ELSE Others
    OBVIOUS
<1>4. Then = IF request'[r].phase = p THEN Others \cup {r} ELSE Others
    OBVIOUS
<1>5. Cardinality(Others \cup {r}) = Cardinality(Others) + 1
    BY <1>1, FS_AddElement
<1>6. InPhase(p) = Cardinality(Now) /\ InPhase(p)' = Cardinality(Then)
    BY DEF InPhase
<1> HIDE DEF Others, Now, Then
<1>7. InPhase(p) = Cardinality(Others) + At(r, p)
    BY <1>2, <1>3, <1>5, <1>6 DEF At
<1>8. InPhase(p)' = Cardinality(Others) + At(r, p)'
    BY <1>2, <1>4, <1>5, <1>6 DEF At
<1>9. At(r, p) \in Nat /\ At(r, p)' \in Nat BY DEF At
<1>10. QED BY <1>2, <1>7, <1>8, <1>9

LEMMA SumIsNumber ==
    ASSUME NEW f \in [Request -> Nat]
    PROVE  SumFunction(f) \in Nat
<1>1. IsFiniteSet(Request) BY QueryRunsAssumption
<1>2. PICK it : IsSum(it, f, Request) /\ SumFunction(f) = it[Request]
    BY <1>1, SumUnfolds
<1>3. \A s \in SUBSET Request : it[s] \in Nat BY <1>1, <1>2, SumsAreNumbers
<1>4. QED BY <1>2, <1>3

\* The counts of a step are in order: what it counts is in step with what it sends and with
\* the phase it moves its request to, but for a request that stops.
InStep(r, queries, errors, sent, failed) ==
    /\ sent + At(r, "exec")' <= queries + At(r, "exec")
    /\ queries + At(r, "exec") + At(r, "failed") <= sent + At(r, "exec")' + At(r, "failed")'
    /\ errors + At(r, "error")' <= failed + At(r, "error")
    /\ failed + At(r, "error") + At(r, "failed") <= errors + At(r, "error")' + At(r, "failed")'

LEMMA CountsFollow ==
    ASSUME CountInv, ServerTyped, NEW r \in Request,
           NEW queries \in Nat, NEW errors \in Nat, NEW sent \in Nat, NEW failed \in Nat,
           Adds(r, sent, failed), ServerCounts(queries, errors),
           InStep(r, queries, errors, sent, failed),
           \A s \in Request \ {r} : /\ request'[s].phase = request[s].phase
                                    /\ Sent(s)' = Sent(s) /\ Failed(s)' = Failed(s)
    PROVE  CountInv'
<1> DEFINE S1 == [s \in Request |-> Sent(s)]
           S2 == [s \in Request |-> Sent(s)']
           F1 == [s \in Request |-> Failed(s)]
           F2 == [s \in Request |-> Failed(s)']
<1>1. \A s \in Request : Sent(s) \in Nat /\ Failed(s) \in Nat BY DEF CountInv, Countable
<1>2. \A s \in Request : Sent(s)' \in Nat /\ Failed(s)' \in Nat
    <2>1. Sent(r)' \in Nat /\ Failed(r)' \in Nat BY <1>1 DEF Adds
    <2>2. QED BY <1>1, <2>1
<1>3. IsFiniteSet(Request) BY QueryRunsAssumption
<1>4. SumFunction(S2) = SumFunction(S1) + sent /\ SumFunction(S1) \in Nat
    <2>1. S1 \in [Request -> Nat] /\ S2 \in [Request -> Nat] BY <1>1, <1>2
    <2>2. S2[r] = S1[r] + sent /\ \A s \in Request \ {r} : S2[s] = S1[s]
        BY DEF Adds
    <2> HIDE DEF S1, S2
    <2>3. QED BY <1>3, <2>1, <2>2, SumGrows, SumIsNumber
<1>5. SumFunction(F2) = SumFunction(F1) + failed /\ SumFunction(F1) \in Nat
    <2>1. F1 \in [Request -> Nat] /\ F2 \in [Request -> Nat] BY <1>1, <1>2
    <2>2. F2[r] = F1[r] + failed /\ \A s \in Request \ {r} : F2[s] = F1[s]
        BY DEF Adds
    <2> HIDE DEF F1, F2
    <2>3. QED BY <1>3, <2>1, <2>2, SumGrows, SumIsNumber
<1>6. \A p : /\ InPhase(p) \in Nat /\ InPhase(p)' \in Nat
             /\ InPhase(p)' + At(r, p) = InPhase(p) + At(r, p)'
             /\ At(r, p) \in Nat /\ At(r, p)' \in Nat
    BY PhaseMoves DEF At
<1>7. ASSUME dbServer'.exists
      PROVE  /\ SumFunction(S2) + InPhase("exec")' <= dbServer'.query_count
             /\ dbServer'.query_count
                    <= SumFunction(S2) + InPhase("exec")' + InPhase("failed")'
             /\ dbServer'.error_query_count + InPhase("error")' <= SumFunction(F2)
             /\ SumFunction(F2)
                    <= dbServer'.error_query_count + InPhase("error")' + InPhase("failed")'
    <2>1. /\ SumFunction(S1) + InPhase("exec") <= dbServer.query_count
          /\ dbServer.query_count <= SumFunction(S1) + InPhase("exec") + InPhase("failed")
          /\ dbServer.error_query_count + InPhase("error") <= SumFunction(F1)
          /\ SumFunction(F1) <= dbServer.error_query_count + InPhase("error") + InPhase("failed")
        BY <1>7 DEF CountInv, CountersExact, ServerCounts
    <2>2. /\ dbServer'.query_count = dbServer.query_count + queries
          /\ dbServer'.error_query_count = dbServer.error_query_count + errors
        BY <1>7 DEF ServerCounts
    <2>3. dbServer.query_count \in Nat /\ dbServer.error_query_count \in Nat
        BY DEF ServerTyped
    <2> HIDE DEF S1, S2, F1, F2
    <2>4. PICK x1, x2, y1, y2, z1, z2 :
              /\ x1 = At(r, "exec") /\ x2 = At(r, "exec")'
              /\ y1 = At(r, "error") /\ y2 = At(r, "error")'
              /\ z1 = At(r, "failed") /\ z2 = At(r, "failed")'
        OBVIOUS
    <2>5. PICK X1, X2, Y1, Y2, Z1, Z2 :
              /\ X1 = InPhase("exec") /\ X2 = InPhase("exec")'
              /\ Y1 = InPhase("error") /\ Y2 = InPhase("error")'
              /\ Z1 = InPhase("failed") /\ Z2 = InPhase("failed")'
        OBVIOUS
    <2>6. /\ X1 \in Nat /\ X2 \in Nat /\ Y1 \in Nat /\ Y2 \in Nat /\ Z1 \in Nat /\ Z2 \in Nat
          /\ x1 \in Nat /\ x2 \in Nat /\ y1 \in Nat /\ y2 \in Nat /\ z1 \in Nat /\ z2 \in Nat
          /\ X2 + x1 = X1 + x2 /\ Y2 + y1 = Y1 + y2 /\ Z2 + z1 = Z1 + z2
        BY <1>6, <2>4, <2>5
    <2>7. /\ sent + x2 <= queries + x1
          /\ queries + x1 + z1 <= sent + x2 + z2
          /\ errors + y2 <= failed + y1
          /\ failed + y1 + z1 <= errors + y2 + z2
        BY <2>4 DEF InStep
    <2>8. /\ SumFunction(S1) + X1 <= dbServer.query_count
          /\ dbServer.query_count <= SumFunction(S1) + X1 + Z1
          /\ dbServer.error_query_count + Y1 <= SumFunction(F1)
          /\ SumFunction(F1) <= dbServer.error_query_count + Y1 + Z1
        BY <2>1, <2>5
    <2>9. /\ SumFunction(S2) + X2 <= dbServer'.query_count
          /\ dbServer'.query_count <= SumFunction(S2) + X2 + Z2
        BY <1>4, <2>2, <2>3, <2>6, <2>7, <2>8
    <2>10. /\ dbServer'.error_query_count + Y2 <= SumFunction(F2)
           /\ SumFunction(F2) <= dbServer'.error_query_count + Y2 + Z2
        BY <1>5, <2>2, <2>3, <2>6, <2>7, <2>8
    <2>11. QED BY <2>5, <2>9, <2>10
<1>8. CountersExact' BY <1>7 DEF CountersExact
<1>9. QED BY <1>2, <1>8 DEF CountInv, Countable

LEMMA CountedCounts ==
    ASSUME ServerTyped, NEW queries \in Nat, NEW errors \in Nat, Counted(queries, errors)
    PROVE  ServerCounts(queries, errors)
BY DEF Counted, ServerTyped, ServerCounts

\* Without a request there is nothing to count.
LEMMA NothingMoves ==
    ASSUME CountInv, ServerTyped, ServerCounts(0, 0), request' = request
    PROVE  CountInv'
<1>1. \A s \in Request : Sent(s)' = Sent(s) /\ Failed(s)' = Failed(s)
    BY DEF Sent, Failed
<1>2. CASE Request = {}
    <2>1. /\ [s \in Request |-> Sent(s)'] = [s \in Request |-> Sent(s)]
          /\ [s \in Request |-> Failed(s)'] = [s \in Request |-> Failed(s)]
        BY <1>1
    <2>2. \A p : InPhase(p)' = InPhase(p) BY DEF InPhase
    <2>3. dbServer'.exists =>
              /\ dbServer.exists
              /\ dbServer'.query_count = dbServer.query_count
              /\ dbServer'.error_query_count = dbServer.error_query_count
        BY DEF ServerCounts, ServerTyped
    <2>4. CountersExact' BY <2>1, <2>2, <2>3 DEF CountInv, CountersExact
    <2>5. QED BY <1>2, <2>4 DEF CountInv, Countable
<1>3. ASSUME NEW r \in Request PROVE CountInv'
    <2>1. Adds(r, 0, 0) BY <1>1 DEF Adds, CountInv, Countable
    <2>2. InStep(r, 0, 0, 0, 0) BY DEF InStep, At
    <2>3. QED BY <1>1, <2>1, <2>2, CountsFollow
<1>4. QED BY <1>2, <1>3

\* A result that is appended counts once, unless it was skipped.
LEMMA TurnCounts ==
    ASSUME NEW r \in Request, Matches(r), NEW entry, Turn(r, entry)
    PROVE  Adds(r, IF entry.state = "skipped" THEN 0 ELSE 1,
                   IF entry.state = "error" /\ request[r].op # "query" THEN 1 ELSE 0)
<1>0. PICK n : n = request[r].next OBVIOUS
<1> DEFINE s == request[r].results
           t == request'[r].results
           A == {k \in DOMAIN s : s[k].state # "skipped"}
           B == {k \in DOMAIN t : t[k].state # "skipped"}
           e == request[r].error
<1>1. n \in Nat \ {0} /\ s \in Seq(Entries(r)) BY <1>0 DEF Matches
<1>2. /\ Len(s) \in Nat /\ DOMAIN s = 1..Len(s) /\ DOMAIN t = 1..(Len(s) + 1)
      /\ \A k \in 1..Len(s) : t[k] = s[k]
      /\ t[Len(s) + 1] = entry
    <2>1. t = Append(s, entry) BY DEF Turn
    <2>2. QED BY <1>1, <2>1, Appended
<1>3. IsFiniteSet(A) /\ Len(s) + 1 \notin A
    <2>1. IsFiniteSet(1..Len(s)) BY <1>2, FS_Interval
    <2>2. A \subseteq 1..Len(s) BY <1>2
    <2>3. QED BY <1>2, <2>1, <2>2, FS_Subset
<1>4. B = A \cup (IF entry.state = "skipped" THEN {} ELSE {Len(s) + 1})
    <2>1. 1..(Len(s) + 1) = 1..Len(s) \cup {Len(s) + 1} BY <1>2
    <2>2. QED BY <1>2, <2>1
<1>5. Sent(r) = Cardinality(A) /\ Sent(r)' = Cardinality(B) BY DEF Sent
<1>6. IsFiniteSet(e) /\ n - 1 \notin e
    <2>1. Answered(r) \subseteq 1..(n - 1) BY <1>0 DEF Answered
    <2>2. e \subseteq 0..(n - 2)
        <3>1. e = {i - 1 : i \in {j \in Answered(r) : ResultOf(r, j).state = "error"}}
            BY DEF Matches
        <3>2. QED BY <1>1, <2>1, <3>1
    <2>3. IsFiniteSet(0..(n - 2)) BY <1>1, FS_Interval
    <2>4. IsFiniteSet(e) BY <2>2, <2>3, FS_Subset
    <2>5. n - 1 \notin 0..(n - 2) BY <1>1
    <2>6. QED BY <2>2, <2>4, <2>5
<1>7. /\ Failed(r) = IF request[r].op = "query" THEN 0 ELSE Cardinality(e)
      /\ Failed(r)' = IF request[r].op = "query" THEN 0
                      ELSE Cardinality(e \cup (IF entry.state = "error" THEN {n - 1} ELSE {}))
    BY <1>0 DEF Failed, Turn
<1> HIDE DEF A, B, s, t, e
<1>8. Cardinality(B) = Cardinality(A) + (IF entry.state = "skipped" THEN 0 ELSE 1)
    <2>1. Cardinality(A) \in Nat BY <1>3, FS_CardinalityType
    <2>2. CASE entry.state = "skipped"
        <3>1. B = A BY <1>4, <2>2
        <3>2. QED BY <2>1, <2>2, <3>1
    <2>3. CASE entry.state # "skipped"
        <3>1. B = A \cup {Len(s) + 1} BY <1>4, <2>3
        <3>2. QED BY <1>3, <2>3, <3>1, FS_AddElement
    <2>4. QED BY <2>2, <2>3
<1>9. Failed(r)' = Failed(r) + (IF entry.state = "error" /\ request[r].op # "query" THEN 1 ELSE 0)
    <2>1. Cardinality(e) \in Nat BY <1>6, FS_CardinalityType
    <2>2. CASE request[r].op = "query" BY <1>7, <2>2
    <2>3. CASE request[r].op # "query" /\ entry.state # "error"
        <3>1. e \cup (IF entry.state = "error" THEN {n - 1} ELSE {}) = e BY <2>3
        <3>2. QED BY <1>7, <2>1, <2>3, <3>1
    <2>4. CASE request[r].op # "query" /\ entry.state = "error"
        <3>1. e \cup (IF entry.state = "error" THEN {n - 1} ELSE {}) = e \cup {n - 1} BY <2>4
        <3>2. Cardinality(e \cup {n - 1}) = Cardinality(e) + 1 BY <1>6, FS_AddElement
        <3>3. QED BY <1>7, <2>4, <3>1, <3>2
    <2>5. QED BY <2>2, <2>3, <2>4
<1>10. QED BY <1>5, <1>8, <1>9 DEF Adds

\* Nothing has been sent by a request without results.
LEMMA NothingSent ==
    ASSUME NEW results
    PROVE  results = <<>> => Cardinality({k \in DOMAIN results : results[k].state # "skipped"}) = 0
<1>1. DOMAIN <<>> = {} OBVIOUS
<1>2. results = <<>> => {k \in DOMAIN results : results[k].state # "skipped"} = {}
    BY <1>1
<1>3. QED BY <1>2, FS_EmptySet

\* The phases of a request that counts, saves, marks or stops.
Saves(r) == Insert(r) \/ Trim(r) \/ Commit(r) \/ MarkWrite(r) \/ Crash(r)

LEMMA PhasesKept ==
    ASSUME RowIds, NEW r \in Request, CountQuery(r) \/ CountError(r) \/ Saves(r)
    PROVE  /\ \A s \in Request \ {r} : request'[s].phase = request[s].phase
           /\ Saves(r) =>
                 /\ request[r].phase # "failed"
                 /\ request'[r].phase \notin {"exec", "error"}
                 /\ request[r].phase \in {"exec", "error"} => request'[r].phase = "failed"
<1>1. ASSUME CountQuery(r) \/ CountError(r)
      PROVE  \A s \in Request \ {r} : request'[s].phase = request[s].phase
    BY <1>1, PhaseFields DEF CountQuery, CountError
<1> DEFINE Goal == /\ \A s \in Request \ {r} : request'[s].phase = request[s].phase
                   /\ request[r].phase # "failed"
                   /\ request'[r].phase \notin {"exec", "error"}
                   /\ request[r].phase \in {"exec", "error"} => request'[r].phase = "failed"
<1>3. ASSUME Trim(r) \/ Commit(r) \/ MarkWrite(r) \/ Crash(r) PROVE Goal
    <2>1. CASE Trim(r)
        BY <2>1 DEF Trim, RowIds, AreRequests, Shaped, RequestFields
    <2>2. CASE Commit(r)
        BY <2>2 DEF Commit, RowIds, AreRequests, Shaped, RequestFields
    <2>3. CASE MarkWrite(r)
        BY <2>3 DEF MarkWrite, RowIds, AreRequests, Shaped, RequestFields
    <2>4. CASE Crash(r)
        BY <2>4 DEF Crash, RowIds, AreRequests, Shaped, RequestFields, Saving, InStatements
    <2>5. QED BY <1>3, <2>1, <2>2, <2>3, <2>4
<1>4. ASSUME Insert(r) PROVE Goal
    <2>1. request[r].phase = "run" BY <1>4 DEF Insert
    <2>2. CASE ~dbServer.exists
        BY <1>4, <2>1, <2>2 DEF Insert, RowIds, AreRequests, Shaped, RequestFields
    <2>3. CASE dbServer.exists
        <3> DEFINE with == Overlapping(r)
                   full == Cardinality(RowsOfUser(request[r].user)) + 1 > Cap
                   inserted == [request EXCEPT ![r].row = saved + 1, ![r].connection = "none",
                                       ![r].phase = IF full THEN "trim" ELSE "commit"]
        <3>1. request' = [s \in Request |->
                            IF s \in with \/ (s = r /\ with # {})
                            THEN [inserted[s] EXCEPT !.overlapped = TRUE] ELSE inserted[s]]
            BY <1>4, <2>3 DEF Insert
        <3> HIDE DEF with, full
        <3>2. /\ inserted[r].phase \in {"trim", "commit"}
              /\ \A s \in Request \ {r} : inserted[s] = request[s]
              /\ \A s \in Request : Shaped(inserted[s])
            BY DEF RowIds, AreRequests, Shaped, RequestFields
        <3> HIDE DEF inserted
        <3>3. \A s \in Request : request'[s].phase = inserted[s].phase
            BY <3>1, <3>2 DEF Shaped, RequestFields
        <3>4. QED BY <2>1, <3>2, <3>3
    <2>4. QED BY <2>2, <2>3
<1>5. QED BY <1>1, <1>3, <1>4 DEF Saves

LEMMA NextKeepsCounts ==
    CountInv /\ TellInv /\ LogInv /\ TypeInv /\ [Next]_vars => CountInv'
<1> SUFFICES ASSUME CountInv, TellInv, LogInv, TypeInv, [Next]_vars PROVE CountInv'
    OBVIOUS
<1>0. ServerTyped BY DEF TypeInv
<1>1. ASSUME NEW r \in Request, Noting(r)
      PROVE  CountInv'
    <2>1. Noted(r) /\ \A s \in Request \ {r} : request'[s] = request[s]
        BY <1>1, StatementNoted
    <2>2. Matches(r)
        <3>1. request[r].phase \in InStatements BY <1>1, TurnForms DEF Noting, InTurn
        <3>2. QED BY <3>1 DEF LogInv, Answering, InStatements
    <2>3. Sent(r) \in Nat /\ Failed(r) \in Nat BY DEF CountInv, Countable
    <2>4. \A s \in Request \ {r} : /\ request'[s].phase = request[s].phase
                                   /\ Sent(s)' = Sent(s) /\ Failed(s)' = Failed(s)
        BY <2>1 DEF Sent, Failed
    <2>5. ServerCounts(0, 0)
        <3>1. dbServer' = dbServer
            BY <1>1 DEF Noting, MultiQuerySkip, MultiQueryStatement, QueryStatement,
                        RawQueryStatement
        <3>2. QED BY <1>0, <3>1 DEF ServerCounts, ServerTyped
    <2>6. CASE NoTurn(r) /\ Phases(r, "run", "run")
        <3>1. Sent(r)' = Sent(r) /\ Failed(r)' = Failed(r) BY <2>6 DEF NoTurn, Sent, Failed
        <3>2. Adds(r, 0, 0) BY <2>3, <3>1 DEF Adds
        <3>3. InStep(r, 0, 0, 0, 0) BY <2>6 DEF InStep, At, Phases
        <3>4. QED BY <1>0, <2>4, <2>5, <3>2, <3>3, CountsFollow
    <2>7. ASSUME NEW entry, Turn(r, entry),
                 IF entry.state = "skipped" THEN Phases(r, "run", "run")
                 ELSE Phases(r, "exec",
                             IF entry.state = "error" /\ request[r].op # "query"
                             THEN "error" ELSE "run")
          PROVE  CountInv'
        <3>1. PICK sent \in {0, 1} : sent = IF entry.state = "skipped" THEN 0 ELSE 1
            OBVIOUS
        <3>2. PICK failed \in {0, 1} :
                  failed = IF entry.state = "error" /\ request[r].op # "query" THEN 1 ELSE 0
            OBVIOUS
        <3>3. Adds(r, sent, failed) BY <2>2, <2>7, <3>1, <3>2, TurnCounts
        <3>4. InStep(r, 0, 0, sent, failed)
            <4>1. CASE entry.state = "skipped"
                <5>1. sent = 0 /\ failed = 0 BY <3>1, <3>2, <4>1
                <5>2. Phases(r, "run", "run") BY <2>7, <4>1
                <5>3. QED BY <5>1, <5>2 DEF InStep, At, Phases
            <4>2. CASE entry.state # "skipped" /\ failed = 1
                <5>1. sent = 1 BY <3>1, <4>2
                <5>2. Phases(r, "exec", "error") BY <2>7, <3>2, <4>2
                <5>3. QED BY <4>2, <5>1, <5>2 DEF InStep, At, Phases
            <4>3. CASE entry.state # "skipped" /\ failed = 0
                <5>1. sent = 1 BY <3>1, <4>3
                <5>2. Phases(r, "exec", "run") BY <2>7, <3>2, <4>3
                <5>3. QED BY <4>3, <5>1, <5>2 DEF InStep, At, Phases
            <4>4. QED BY <4>1, <4>2, <4>3
        <3>5. sent \in Nat /\ failed \in Nat OBVIOUS
        <3>6. QED BY <1>0, <2>4, <2>5, <3>3, <3>4, <3>5, CountsFollow
    <2>8. ASSUME NEW entry, entry.state # "skipped", request'[r].results = <<entry>>,
                 request[r].results = <<>>, request'[r].op = request[r].op,
                 request'[r].error = {}, request[r].error = {}, Phases(r, "exec", "failed")
          PROVE  CountInv'
        <3>1. Sent(r) = 0 BY <2>8, NothingSent DEF Sent
        <3>2. Sent(r)' = 1
            <4>1. {k \in DOMAIN <<entry>> : <<entry>>[k].state # "skipped"} = {1} BY <2>8
            <4>2. Cardinality({1}) = 1 BY FS_Singleton
            <4>3. Sent(r)' = Cardinality({k \in DOMAIN <<entry>> : <<entry>>[k].state # "skipped"})
                BY <2>8 DEF Sent
            <4>4. QED BY <4>1, <4>2, <4>3
        <3>3. Failed(r)' = Failed(r) BY <2>8 DEF Failed
        <3>4. Adds(r, 1, 0) BY <2>3, <3>1, <3>2, <3>3 DEF Adds
        <3>5. InStep(r, 0, 0, 1, 0) BY <2>8 DEF InStep, At, Phases
        <3>6. QED BY <1>0, <2>4, <2>5, <3>4, <3>5, CountsFollow
    <2>9. QED BY <2>1, <2>6, <2>7, <2>8 DEF Noted
<1>2. ASSUME NEW r \in Request, (\E u \in User : Begin(r, u)) \/ MarkLoad(r)
      PROVE  CountInv'
    <2>1. /\ \A s \in Request \ {r} : request'[s] = request[s]
          /\ request'[r].results = <<>> /\ request'[r].error = {}
        BY <1>2, BeginAsked, MarkLoadAsked
    <2>2. request[r].phase = "idle" /\ request[r].results = <<>> /\ request[r].error = {}
        <3>1. request[r].phase = "idle" BY <1>2 DEF Begin, MarkLoad
        <3>2. request[r] = Idle BY <3>1 DEF LogInv, Answering
        <3>3. QED BY <3>1, <3>2 DEF Idle
    <2>3. request'[r].phase \in {"run", "mark"}
        <3>1. CASE \E u \in User : Begin(r, u) BY <3>1, BeginAsked
        <3>2. CASE MarkLoad(r)
            <4>1. RowIds BY DEF LogInv
            <4>2. QED BY <3>2, <4>1 DEF MarkLoad, RowIds, AreRequests, Idle
        <3>3. QED BY <1>2, <3>1, <3>2
    <2>4. Sent(r) = 0 /\ Sent(r)' = 0 BY <2>1, <2>2, NothingSent DEF Sent
    <2>5. Failed(r) = 0 /\ Failed(r)' = 0 BY <2>1, <2>2, FS_EmptySet DEF Failed
    <2>6. \A s \in Request \ {r} : /\ request'[s].phase = request[s].phase
                                   /\ Sent(s)' = Sent(s) /\ Failed(s)' = Failed(s)
        BY <2>1 DEF Sent, Failed
    <2>7. ServerCounts(0, 0)
        <3>1. dbServer' = dbServer BY <1>2 DEF Begin, MarkLoad
        <3>2. QED BY <1>0, <3>1 DEF ServerCounts, ServerTyped
    <2>8. Adds(r, 0, 0) BY <2>4, <2>5 DEF Adds
    <2>9. InStep(r, 0, 0, 0, 0) BY <2>2, <2>3 DEF InStep, At
    <2>10. QED BY <1>0, <2>6, <2>7, <2>8, <2>9, CountsFollow
<1>3. ASSUME NEW r \in Request,
             \/ CountQuery(r) \/ CountError(r)
             \/ Insert(r) \/ Trim(r) \/ Commit(r) \/ MarkWrite(r) \/ Crash(r)
      PROVE  CountInv'
    <2>1. \A s \in Request : SameAnswers(s) BY <1>3, AnswersKept
    <2>2. \A s \in Request : Sent(s)' = Sent(s) /\ Failed(s)' = Failed(s)
        BY <2>1 DEF SameAnswers, Sent, Failed
    <2>3. Adds(r, 0, 0) BY <2>2 DEF Adds, CountInv, Countable
    <2> RowIds BY DEF LogInv
    <2>4. \A s \in Request \ {r} : request'[s].phase = request[s].phase
        BY <1>3, PhasesKept DEF Saves
    <2>5. CASE CountQuery(r)
        <3>1. Phases(r, "run", "exec") /\ Counted(1, 0)
            BY <2>5, PhaseFields DEF LogInv, CountQuery, Phases
        <3>2. InStep(r, 1, 0, 0, 0) BY <3>1 DEF InStep, At, Phases
        <3>3. ServerCounts(1, 0) BY <1>0, <3>1, CountedCounts
        <3>4. QED BY <1>0, <2>2, <2>3, <2>4, <3>2, <3>3, CountsFollow
    <2>6. CASE CountError(r)
        <3>1. Phases(r, "error", "run") /\ Counted(0, 1)
            BY <2>6, PhaseFields DEF LogInv, CountError, Phases
        <3>2. InStep(r, 0, 1, 0, 0) BY <3>1 DEF InStep, At, Phases
        <3>3. ServerCounts(0, 1) BY <1>0, <3>1, CountedCounts
        <3>4. QED BY <1>0, <2>2, <2>3, <2>4, <3>2, <3>3, CountsFollow
    <2>7. CASE Insert(r) \/ Trim(r) \/ Commit(r) \/ MarkWrite(r) \/ Crash(r)
        <3>1. dbServer' = dbServer BY <2>7 DEF Insert, Trim, Commit, MarkWrite, Crash
        <3>2. ServerCounts(0, 0) BY <1>0, <3>1 DEF ServerCounts, ServerTyped
        <3>3. /\ request[r].phase # "failed"
              /\ request'[r].phase \notin {"exec", "error"}
              /\ request[r].phase \in {"exec", "error"} => request'[r].phase = "failed"
            BY <2>7, PhasesKept DEF Saves
        <3>4. InStep(r, 0, 0, 0, 0) BY <3>3 DEF InStep, At
        <3>5. QED BY <1>0, <2>2, <2>3, <2>4, <3>2, <3>4, CountsFollow
    <2>8. QED BY <1>3, <2>5, <2>6, <2>7
<1>4. CASE DeleteServer \/ UNCHANGED vars
    <2>1. request' = request BY <1>4 DEF DeleteServer, vars
    <2>2. ServerCounts(0, 0)
        <3>1. (dbServer'.exists = FALSE) \/ dbServer' = dbServer
            BY <1>0, <1>4 DEF DeleteServer, vars, ServerTyped
        <3>2. QED BY <1>0, <3>1 DEF ServerCounts, ServerTyped
    <2>3. QED BY <1>0, <2>1, <2>2, NothingMoves
<1>5. QED BY <1>1, <1>2, <1>3, <1>4 DEF Next, Noting

LEMMA CountInvInit == Init => CountInv
<1> SUFFICES ASSUME Init PROVE CountInv OBVIOUS
<1>1. ASSUME NEW r \in Request PROVE Sent(r) = 0 /\ Failed(r) = 0
    <2>1. request[r] = Idle BY DEF Init
    <2>2. request[r].results = <<>> /\ request[r].error = {} BY <2>1 DEF Idle
    <2>3. QED BY <2>2, NothingSent, FS_EmptySet DEF Sent, Failed
<1>2. IsFiniteSet(Request) BY QueryRunsAssumption
<1>3. SumFunction([r \in Request |-> Sent(r)]) = 0
    <2>1. PICK f : f = [r \in Request |-> Sent(r)] OBVIOUS
    <2>2. f \in [Request -> Nat] /\ \A r \in Request : f[r] = 0 BY <1>1, <2>1
    <2>3. QED BY <1>2, <2>1, <2>2, SumOfNothing
<1>4. SumFunction([r \in Request |-> Failed(r)]) = 0
    <2>1. PICK f : f = [r \in Request |-> Failed(r)] OBVIOUS
    <2>2. f \in [Request -> Nat] /\ \A r \in Request : f[r] = 0 BY <1>1, <2>1
    <2>3. QED BY <1>2, <2>1, <2>2, SumOfNothing
<1>5. dbServer.query_count = 0 /\ dbServer.error_query_count = 0 BY DEF Init
<1>6. ASSUME NEW p \in {"exec", "error", "failed"} PROVE InPhase(p) = 0
    <2>1. \A r \in Request : request[r].phase = "idle" BY DEF Init, Idle
    <2>2. {r \in Request : request[r].phase = p} = {} BY <2>1
    <2>3. QED BY <2>2, FS_EmptySet DEF InPhase
<1>7. PICK a, b, x, y, z :
          /\ a = SumFunction([r \in Request |-> Sent(r)])
          /\ b = SumFunction([r \in Request |-> Failed(r)])
          /\ x = InPhase("exec") /\ y = InPhase("error") /\ z = InPhase("failed")
    OBVIOUS
<1>8. a = 0 /\ b = 0 /\ x = 0 /\ y = 0 /\ z = 0 BY <1>3, <1>4, <1>6, <1>7, Zenon
<1>9. /\ a + x <= dbServer.query_count /\ dbServer.query_count <= a + x + z
      /\ dbServer.error_query_count + y <= b /\ b <= dbServer.error_query_count + y + z
    BY <1>5, <1>8
<1>10. CountersExact BY <1>7, <1>9, Zenon DEF CountersExact
<1>11. QED BY <1>1, <1>10 DEF CountInv, Countable

\* However many requests count at once, between the counting of a statement, its running
\* and the counting of its error, the counters of the server are the numbers of the
\* statements sent and of those that failed, but for one of each request that stopped
\* (db_servers.rb 223, 302-337, 370-379).
THEOREM CountersExactAlways == Spec => []CountersExact
<1>1. Init => CountInv /\ TellInv /\ LogInv /\ TypeInv
    BY CountInvInit, TellInvInit, LogInvInit, TypeInvInit
<1>2. CountInv /\ TellInv /\ LogInv /\ TypeInv /\ [Next]_vars
          => (CountInv /\ TellInv /\ LogInv /\ TypeInv)'
    BY NextKeepsCounts, NextKeepsTold, NextKeepsLog, NextKeepsTypes
<1>3. CountInv => CountersExact BY DEF CountInv
<1>4. QED BY <1>1, <1>2, <1>3, PTL DEF Spec
=============================================================================
