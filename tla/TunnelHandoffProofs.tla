------------------------ MODULE TunnelHandoffProofs ------------------------
(* One socket, for streams of any length cut into chunks of any size: the  *)
(* line reader hands over each control line once and in order, and the     *)
(* local service gets the bytes after OPEN.                                *)
EXTENDS TunnelHandoff, FiniteSetTheorems, SequenceTheorems, WellFoundedInduction, TLAPS

(* A set of numbers that is not empty has a least one.                     *)
LEMMA LeastExists ==
  ASSUME NEW T, T \subseteq Nat, T # {}
  PROVE  \E m \in T : \A y \in T : m <= y
<1> DEFINE R == OpToRel(<, Nat)
<1>1. IsWellFoundedOn(R, Nat)
  BY NatLessThanWellFounded, Zenon
<1>2. \A x, y \in Nat : x < y => <<x, y>> \in R
  BY DEF OpToRel
<1> HIDE DEF R
<1>3. PICK x \in T : \A y \in T : ~ (<<y, x>> \in R)
  BY <1>1, WFMin
<1>4. ASSUME NEW y \in T
      PROVE  x <= y
  <2>1. x \in Nat /\ y \in Nat /\ ~(y < x)
    BY <1>2, <1>3
  <2> QED
    BY <2>1
<1> QED
  BY <1>4

LEMMA MinIs ==
  ASSUME NEW T, T \subseteq Nat, T # {}
  PROVE  Min(T) \in T /\ \A y \in T : Min(T) <= y
BY LeastExists DEF Min

-----------------------------------------------------------------------------
(* The loop of onData                                                      *)

(* The loop stops at OPEN, or when no whole line is left.                  *)
Done(q) == q.detached \/ LineEnds(q.buffer) = {}

(* The ways to go from q to z in n rounds.                                 *)
Rounds(q, n, z) ==
  {run \in [0 .. n -> Reader] :
     /\ run[0] = q /\ run[n] = z
     /\ \A i \in 1 .. n : ~Done(run[i - 1]) /\ run[i] = NextLine(run[i - 1])}

(* Where the loop ends that starts with q.                                 *)
Ends(q) == {z \in Reader : Done(z) /\ \E n \in Nat : Rounds(q, n, z) # {}}

(* A line is cut off the buffer, its newline with it.                      *)
LEMMA NextLineIs ==
  ASSUME NEW q \in Reader, LineEnds(q.buffer) # {}
  PROVE  /\ NextLine(q) \in Reader
         /\ Len(q.buffer) \in Nat /\ Len(NextLine(q).buffer) \in Nat
         /\ Len(NextLine(q).buffer) < Len(q.buffer)
         /\ Min(LineEnds(q.buffer)) \in LineEnds(q.buffer)
         /\ \A j \in LineEnds(q.buffer) : Min(LineEnds(q.buffer)) <= j
<1> DEFINE b == q.buffer
           index == Min(LineEnds(b))
           line  == SubSeq(b, 1, index - 1)
           rest  == SubSeq(b, index + 1, Len(b))
<1>1. /\ q = [buffer |-> q.buffer, frames |-> q.frames, detached |-> q.detached]
      /\ b \in Seq(STRING) /\ q.frames \in Seq(Seq(STRING)) /\ q.detached \in BOOLEAN
  BY DEF Reader
<1>2. DOMAIN b = 1 .. Len(b) /\ Len(b) \in Nat /\ \A i \in 1 .. Len(b) : b[i] \in STRING
  BY <1>1, LenProperties, ElementOfSeq
<1>3. index \in LineEnds(b) /\ \A j \in LineEnds(b) : index <= j
  <2>1. LineEnds(b) \subseteq Nat
    BY <1>2 DEF LineEnds
  <2> QED
    BY <2>1, MinIs
<1>4. index \in 1 .. Len(b)
  BY <1>2, <1>3 DEF LineEnds
<1> HIDE DEF index
<1>5. line \in Seq(STRING)
  BY <1>2, <1>4, SubSeqProperties
<1>6. rest \in Seq(STRING) /\ Len(rest) = IF index + 1 <= Len(b) THEN Len(b) - index ELSE 0
  BY <1>2, <1>4, SubSeqProperties
<1>7. Len(rest) \in Nat /\ Len(rest) < Len(b)
  BY <1>2, <1>4, <1>6
<1>8. Append(q.frames, line) \in Seq(Seq(STRING))
  BY <1>1, <1>5, AppendProperties
<1>9. NextLine(q) = [buffer |-> rest, frames |-> Append(q.frames, line),
                     detached |-> q.detached \/ IsOpen(line)]
  BY DEF NextLine, index
<1>10. (q.detached \/ IsOpen(line)) \in BOOLEAN
  OBVIOUS
<1> HIDE DEF b, line, rest
<1>11. NextLine(q) \in Reader /\ NextLine(q).buffer = rest
  BY <1>6, <1>8, <1>9, <1>10 DEF Reader
<1> QED
  BY <1>2, <1>3, <1>7, <1>11 DEF index, b

LEMMA EndsOfDone ==
  ASSUME NEW q \in Reader, Done(q)
  PROVE  Ends(q) = {q}
<1>1. ASSUME NEW z \in Ends(q)
      PROVE  z = q
  <2>0. PICK n \in Nat : Rounds(q, n, z) # {}
    BY <1>1 DEF Ends
  <2>1. PICK run \in [0 .. n -> Reader] :
          /\ run[0] = q /\ run[n] = z
          /\ \A i \in 1 .. n : ~Done(run[i - 1]) /\ run[i] = NextLine(run[i - 1])
    BY <2>0 DEF Rounds
  <2>2. n = 0
    <3>1. n # 0 => 1 \in 1 .. n /\ 1 - 1 = 0
      OBVIOUS
    <3> QED
      BY <2>1, <3>1
  <2> QED
    BY <2>1, <2>2
<1>2. q \in Ends(q)
  <2> DEFINE run == [i \in 0 .. 0 |-> q]
  <2>1. run \in [0 .. 0 -> Reader] /\ run[0] = q
    OBVIOUS
  <2>2. \A i \in 1 .. 0 : FALSE
    OBVIOUS
  <2> HIDE DEF run
  <2>3. 0 \in Nat
    OBVIOUS
  <2> QED
    <3>1. run \in Rounds(q, 0, q)
      BY <2>1, <2>2 DEF Rounds
    <3> QED
      BY <2>3, <3>1 DEF Ends
<1> QED
  BY <1>1, <1>2

LEMMA EndsAfterOne ==
  ASSUME NEW q \in Reader, ~Done(q)
  PROVE  Ends(q) = Ends(NextLine(q))
<1>1. NextLine(q) \in Reader
  BY NextLineIs DEF Done
<1>2. ASSUME NEW z \in Ends(q)
      PROVE  z \in Ends(NextLine(q))
  <2>0. PICK n \in Nat : Rounds(q, n, z) # {}
    BY <1>2 DEF Ends
  <2>1. PICK run \in [0 .. n -> Reader] :
          /\ run[0] = q /\ run[n] = z
          /\ \A i \in 1 .. n : ~Done(run[i - 1]) /\ run[i] = NextLine(run[i - 1])
    BY <2>0 DEF Rounds
  <2>2. z \in Reader /\ Done(z)
    BY <1>2 DEF Ends
  <2>3. PICK m \in Nat : n = m + 1
    <3>1. n # 0
      BY <2>1, <2>2
    <3>2. n - 1 \in Nat /\ n = (n - 1) + 1
      BY <3>1
    <3> QED
      BY <3>2
  <2> DEFINE rest == [i \in 0 .. m |-> run[i + 1]]
  <2>4. rest \in [0 .. m -> Reader]
    BY <2>3
  <2>5. rest[0] = NextLine(q) /\ rest[m] = z
    <3>1. 1 \in 1 .. n /\ 1 - 1 = 0 /\ 0 + 1 = 1 /\ 0 \in 0 .. m /\ m \in 0 .. m
      BY <2>3
    <3> QED
      BY <2>1, <2>3, <3>1
  <2>6. ASSUME NEW i \in 1 .. m
        PROVE  ~Done(rest[i - 1]) /\ rest[i] = NextLine(rest[i - 1])
    <3>1. /\ i + 1 \in 1 .. n /\ (i + 1) - 1 = i /\ (i - 1) + 1 = i
          /\ i \in 0 .. m /\ i - 1 \in 0 .. m
      BY <2>3
    <3>2. rest[i - 1] = run[i] /\ rest[i] = run[i + 1]
      BY <3>1
    <3>3. ~Done(run[i]) /\ run[i + 1] = NextLine(run[i])
      BY <2>1, <3>1
    <3> QED
      BY <3>2, <3>3
  <2> HIDE DEF rest
  <2> QED
    <3>1. rest \in Rounds(NextLine(q), m, z)
      BY <2>4, <2>5, <2>6 DEF Rounds
    <3> QED
      BY <2>2, <3>1 DEF Ends
<1>3. ASSUME NEW z \in Ends(NextLine(q))
      PROVE  z \in Ends(q)
  <2>0. PICK m \in Nat : Rounds(NextLine(q), m, z) # {}
    BY <1>3 DEF Ends
  <2>1. PICK rest \in [0 .. m -> Reader] :
          /\ rest[0] = NextLine(q) /\ rest[m] = z
          /\ \A i \in 1 .. m : ~Done(rest[i - 1]) /\ rest[i] = NextLine(rest[i - 1])
    BY <2>0 DEF Rounds
  <2>2. z \in Reader /\ Done(z)
    BY <1>3 DEF Ends
  <2> DEFINE run == [i \in 0 .. m + 1 |-> IF i = 0 THEN q ELSE rest[i - 1]]
  <2>3. \A i \in 1 .. m + 1 : i \in 0 .. m + 1 /\ i # 0 /\ i - 1 \in 0 .. m
    OBVIOUS
  <2>4. run[0] = q /\ \A i \in 1 .. m + 1 : run[i] = rest[i - 1]
    BY <2>3
  <2>5. run \in [0 .. m + 1 -> Reader]
    <3>1. ASSUME NEW i \in 0 .. m + 1
          PROVE  (IF i = 0 THEN q ELSE rest[i - 1]) \in Reader
      <4>1. i # 0 => i - 1 \in 0 .. m
        OBVIOUS
      <4> QED
        BY <2>1, <4>1
    <3> QED
      BY <3>1
  <2> HIDE DEF run
  <2>6. run[m + 1] = z
    <3>1. m + 1 \in 1 .. m + 1 /\ (m + 1) - 1 = m
      OBVIOUS
    <3> QED
      BY <2>1, <2>4, <3>1
  <2>7. ASSUME NEW i \in 1 .. m + 1
        PROVE  ~Done(run[i - 1]) /\ run[i] = NextLine(run[i - 1])
    <3>1. CASE i = 1
      <4>1. 1 - 1 = 0
        OBVIOUS
      <4> QED
        BY <2>1, <2>4, <3>1, <4>1
    <3>2. CASE i # 1
      <4>1. i - 1 \in 1 .. m /\ i - 1 \in 1 .. m + 1
        BY <3>2
      <4>2. run[i - 1] = rest[(i - 1) - 1] /\ run[i] = rest[i - 1]
        BY <2>4, <4>1
      <4> QED
        BY <2>1, <4>1, <4>2
    <3> QED
      BY <3>1, <3>2
  <2>8. m + 1 \in Nat
    OBVIOUS
  <2> QED
    <3>1. run \in Rounds(q, m + 1, z)
      BY <2>4, <2>5, <2>6, <2>7 DEF Rounds
    <3> QED
      BY <2>2, <2>8, <3>1 DEF Ends
<1> QED
  BY <1>2, <1>3

(* The loop is what its definition says.                                   *)
LEMMA LoopIs ==
  ASSUME NEW q \in Reader
  PROVE  Loop[q] = IF Done(q) THEN q ELSE Loop[NextLine(q)]
<1> DEFINE Result(r) == CHOOSE z \in Ends(r) : TRUE
           f == [r \in Reader |-> Result(r)]
           Body(g) == [r \in Reader |-> IF r.detached \/ LineEnds(r.buffer) = {} THEN r
                                        ELSE g[NextLine(r)]]
<1>1. ASSUME NEW r \in Reader
      PROVE  Result(r) = IF r.detached \/ LineEnds(r.buffer) = {} THEN r
                         ELSE f[NextLine(r)]
  <2>1. CASE Done(r)
    <3>1. Ends(r) = {r}
      BY <2>1, EndsOfDone
    <3> QED
      BY <2>1, <3>1 DEF Done
  <2>2. CASE ~Done(r)
    <3>1. Ends(r) = Ends(NextLine(r)) /\ NextLine(r) \in Reader
      BY <2>2, EndsAfterOne, NextLineIs DEF Done
    <3> QED
      BY <2>2, <3>1 DEF Done
  <2> QED
    BY <2>1, <2>2
<1>2. f = Body(f)
  BY <1>1
<1>3. Loop = CHOOSE g : g = Body(g)
  BY DEF Loop
<1> HIDE DEF f, Body
<1>4. Loop = Body(Loop)
  BY <1>2, <1>3
<1> QED
  BY <1>4 DEF Body, Done
-----------------------------------------------------------------------------
(* Counting the lines of a stream                                          *)

(* How many positions of a set come before one of them tells it apart.     *)
LEMMA RankIs ==
  ASSUME NEW N \in Nat, NEW S, S \subseteq 1 .. N
  PROVE  /\ Cardinality(S) \in Nat
         /\ \A c \in Nat : Rank(S, c) \in 0 .. Cardinality(S)
         /\ Rank(S, 0) = 0
         /\ \A c, d \in Nat : c <= d => Rank(S, c) <= Rank(S, d)
         /\ \A c \in Nat : (\A j \in S : j <= c) => Rank(S, c) = Cardinality(S)
         /\ \A i, j \in S : Rank(S, i) = Rank(S, j) => i = j
<1> DEFINE Upto(c) == {j \in S : j <= c}
<1>0. S \subseteq Nat /\ \A j \in S : j >= 1
  OBVIOUS
<1>1. IsFiniteSet(S)
  <2>1. IsFiniteSet(1 .. N)
    BY FS_Interval
  <2>2. S \in SUBSET (1 .. N)
    OBVIOUS
  <2> QED
    BY <2>1, <2>2, FS_Subset
<1>2. /\ Cardinality(S) \in Nat
      /\ \A T \in SUBSET S : IsFiniteSet(T) /\ Cardinality(T) \in Nat
                               /\ Cardinality(T) <= Cardinality(S)
  BY <1>1, FS_Subset, FS_CardinalityType
<1>3. \A c : Rank(S, c) = Cardinality(Upto(c)) /\ Upto(c) \in SUBSET S
  BY DEF Rank
<1>4. ASSUME NEW c \in Nat
      PROVE  Rank(S, c) \in 0 .. Cardinality(S)
  <2>1. /\ Cardinality(Upto(c)) \in Nat /\ Cardinality(Upto(c)) <= Cardinality(S)
        /\ Rank(S, c) = Cardinality(Upto(c))
    BY <1>2, <1>3
  <2> QED
    BY <1>2, <2>1
<1>5. Rank(S, 0) = 0
  <2>1. Upto(0) = {}
    <3>1. ASSUME NEW j \in S, j <= 0
          PROVE  FALSE
      BY <1>0, <3>1
    <3> QED
      BY <3>1
  <2> QED
    BY <1>3, <2>1, FS_EmptySet
<1>6. ASSUME NEW c \in Nat, NEW d \in Nat, c <= d
      PROVE  Rank(S, c) <= Rank(S, d)
  <2>1. Upto(c) \in SUBSET Upto(d)
    <3>1. ASSUME NEW j \in S, j <= c
          PROVE  j <= d
      BY <1>0, <1>6, <3>1
    <3> QED
      BY <3>1
  <2>2. IsFiniteSet(Upto(d))
    BY <1>2, <1>3
  <2>3. Cardinality(Upto(c)) <= Cardinality(Upto(d))
    BY <2>1, <2>2, FS_Subset
  <2> QED
    BY <1>3, <2>3
<1>7. ASSUME NEW c \in Nat, \A j \in S : j <= c
      PROVE  Rank(S, c) = Cardinality(S)
  <2>1. Upto(c) = S
    BY <1>7
  <2> QED
    BY <1>3, <2>1
<1>8. ASSUME NEW i \in S, NEW j \in S, i < j
      PROVE  Rank(S, i) # Rank(S, j)
  <2>1. /\ Upto(i) \in SUBSET Upto(j) /\ j \in Upto(j) /\ j \notin Upto(i)
    <3>1. i \in Nat /\ j \in Nat /\ j <= j /\ ~(j <= i)
      BY <1>0, <1>8
    <3>2. ASSUME NEW k \in S, k <= i
          PROVE  k <= j
      BY <1>0, <1>8, <3>2
    <3> QED
      BY <3>1, <3>2
  <2>2. IsFiniteSet(Upto(j))
    BY <1>2, <1>3
  <2>3. Upto(i) # Upto(j)
    BY <2>1
  <2> QED
    BY <1>3, <2>1, <2>2, <2>3, FS_Subset
<1>9. ASSUME NEW i \in S, NEW j \in S, Rank(S, i) = Rank(S, j)
       PROVE  i = j
  <2>1. i \in Nat /\ j \in Nat /\ (i < j \/ j < i \/ i = j)
    BY <1>0
  <2> QED
    BY <1>8, <1>9, <2>1
<1> QED
  BY <1>2, <1>4, <1>5, <1>6, <1>7, <1>9

(* The next position has the next rank.                                    *)
LEMMA RankNext ==
  ASSUME NEW N \in Nat, NEW S, S \subseteq 1 .. N, NEW c \in Nat, NEW d \in S,
         c < d, \A j \in S : j <= c \/ d <= j
  PROVE  Rank(S, d) = Rank(S, c) + 1
<1> DEFINE Upto(a) == {j \in S : j <= a}
<1>1. S \subseteq Nat /\ d \in Nat /\ ~(d <= c)
  OBVIOUS
<1>2. ASSUME NEW j \in S
      PROVE  j <= d <=> (j <= c \/ j = d)
  <2>1. j \in Nat /\ (j <= c \/ d <= j)
    BY <1>1
  <2> QED
    BY <1>1, <2>1
<1>3. d \notin Upto(c) /\ Upto(d) = Upto(c) \cup {d}
  BY <1>1, <1>2
<1>4. IsFiniteSet(Upto(c))
  <2>1. IsFiniteSet(1 .. N)
    BY FS_Interval
  <2>2. Upto(c) \in SUBSET (1 .. N)
    OBVIOUS
  <2> QED
    BY <2>1, <2>2, FS_Subset
<1> HIDE DEF Upto
<1>5. Cardinality(Upto(c) \cup {d}) = Cardinality(Upto(c)) + 1
  BY <1>3, <1>4, FS_AddElement
<1> QED
  BY <1>3, <1>5 DEF Rank, Upto

LEMMA MaxIs ==
  ASSUME NEW T, T \subseteq Int, NEW c \in T, \A y \in T : c >= y
  PROVE  Max(T) = c
<1>1. \A x \in T : (\A y \in T : x >= y) => x = c
  OBVIOUS
<1> QED
  BY <1>1 DEF Max

LEMMA EndsAre ==
  ASSUME NEW s \in Seq(STRING)
  PROVE  /\ Len(s) \in Nat /\ DOMAIN s = 1 .. Len(s)
         /\ \A i \in 1 .. Len(s) : s[i] \in STRING
         /\ LineEnds(s) = {i \in 1 .. Len(s) : s[i] = "nl"}
         /\ OpenEnds(s) \subseteq LineEnds(s) /\ ControlEnds(s) \subseteq LineEnds(s)
         /\ ControlEnds(s) \subseteq 1 .. Len(s)
BY LenProperties, ElementOfSeq DEF LineEnds, OpenEnds, ControlEnds

(* The control lines, counted by their ends.                               *)
LEMMA LinesAre ==
  ASSUME NEW s \in Seq(STRING)
  PROVE  /\ \E V : Lines(s) \in Seq(V)
         /\ Len(Lines(s)) = Cardinality(ControlEnds(s))
         /\ \A d \in ControlEnds(s) :
              Lines(s)[Rank(ControlEnds(s), d)] = LineUpTo(s, d)
<1> DEFINE ends == ControlEnds(s)
           size == Cardinality(ends)
           End(k) == CHOOSE i \in ends : Rank(ends, i) = k
           L == Lines(s)
           V == {LineUpTo(s, End(k)) : k \in 1 .. size}
<1>1. Len(s) \in Nat /\ ends \subseteq 1 .. Len(s)
  BY EndsAre
<1>2. L = [k \in 1 .. size |-> LineUpTo(s, End(k))]
  BY DEF Lines
<1> HIDE DEF ends
<1>3. size \in Nat /\ (\A c \in Nat : Rank(ends, c) \in 0 .. size) /\ Rank(ends, 0) = 0
      /\ \A i, j \in ends : Rank(ends, i) = Rank(ends, j) => i = j
  BY <1>1, RankIs
<1> HIDE DEF size, L
<1>4. L \in [1 .. size -> V]
  BY <1>2
<1>5. L \in Seq(V)
  <2>1. L \in UNION {[1 .. n -> V] : n \in Nat}
    BY <1>3, <1>4
  <2> QED
    BY <2>1, SeqDef
<1>6. Len(L) = size
  <2>1. DOMAIN L = 1 .. size /\ DOMAIN L = 1 .. Len(L) /\ Len(L) \in Nat
    BY <1>4, <1>5, LenProperties
  <2> QED
    BY <1>3, <2>1
<1>7. ASSUME NEW d \in ends
      PROVE  L[Rank(ends, d)] = LineUpTo(s, d)
  <2>1. End(Rank(ends, d)) = d
    BY <1>3
  <2>2. Rank(ends, d) \in 1 .. size
    <3>1. d \in Nat /\ d >= 1
      BY <1>1
    <3>2. Rank(ends, d) \in 0 .. size
      BY <1>3, <3>1
    <3>3. Rank(ends, d) # 0
      <4>1. IsFiniteSet({j \in ends : j <= d}) /\ d \in {j \in ends : j <= d}
        <5>1. IsFiniteSet(1 .. Len(s))
          BY <1>1, FS_Interval
        <5>2. {j \in ends : j <= d} \in SUBSET (1 .. Len(s))
          BY <1>1
        <5> QED
          BY <3>1, <5>1, <5>2, FS_Subset
      <4> QED
        BY <4>1, FS_EmptySet DEF Rank
    <3> QED
      BY <1>3, <3>2, <3>3
  <2> QED
    BY <1>2, <2>1, <2>2
<1> QED
  BY <1>5, <1>6, <1>7 DEF L, size, ends
-----------------------------------------------------------------------------
(* The loop on the bytes of a stream                                       *)

(* The first e bytes of s have arrived, the lines up to position c are     *)
(* handled, and the rest is in the buffer.                                 *)
At(s, e, c, q) ==
  /\ c \in 0 .. e /\ (c = 0 \/ c \in ControlEnds(s))
  /\ q.buffer = SubSeq(s, c + 1, e)
  /\ q.frames = SubSeq(Lines(s), 1, Rank(ControlEnds(s), c))
  /\ q.detached <=> c \in OpenEnds(s)

(* The first positions of a piece of a sequence.                           *)
LEMMA PieceIs ==
  ASSUME NEW S, NEW s \in Seq(S), NEW c \in Nat, NEW e \in Nat, c <= e, e <= Len(s)
  PROVE  /\ SubSeq(s, c + 1, e) \in Seq(S) /\ Len(SubSeq(s, c + 1, e)) = e - c
         /\ \A i \in 1 .. e - c : SubSeq(s, c + 1, e)[i] = s[c + i]
<1> DEFINE t == SubSeq(s, c + 1, e)
<1>1. Len(s) \in Nat /\ \A i \in c + 1 .. e : s[i] \in S
  BY LenProperties, ElementOfSeq
<1>2. /\ t \in Seq(S) /\ Len(t) = IF c + 1 <= e THEN e - (c + 1) + 1 ELSE 0
      /\ \A i \in 1 .. e - (c + 1) + 1 : t[i] = s[c + 1 + i - 1]
  BY <1>1, SubSeqProperties
<1> HIDE DEF t
<1>3. Len(t) = e - c /\ \A i \in 1 .. e - c : t[i] = s[c + i]
  <2>1. e - (c + 1) + 1 = e - c /\ (~(c + 1 <= e) => e - c = 0)
    OBVIOUS
  <2>2. \A i \in 1 .. e - c : c + 1 + i - 1 = c + i
    OBVIOUS
  <2> QED
    BY <1>2, <2>1, <2>2
<1> QED
  BY <1>2, <1>3 DEF t

LEMMA PieceOfPiece ==
  ASSUME NEW S, NEW s \in Seq(S), NEW c \in Nat, NEW e \in Nat, c <= e, e <= Len(s),
         NEW m \in Nat, NEW n \in Nat, m <= n, n <= e - c
  PROVE  SubSeq(SubSeq(s, c + 1, e), m + 1, n) = SubSeq(s, c + m + 1, c + n)
<1>1. Len(s) \in Nat
  BY LenProperties
<1>2. CASE m = n
  <2>1. n < m + 1 /\ c + n < c + m + 1 /\ {m + 1, n, c + n, c + m + 1} \subseteq Int
    BY <1>2
  <2> QED
    BY <2>1, SubSeqEmpty
<1>3. CASE m < n
  <2>1. /\ c + 1 \in 1 .. Len(s) /\ e \in 1 .. Len(s)
        /\ m + 1 \in 1 .. e - (c + 1) + 1 /\ n \in 1 .. e - (c + 1) + 1
        /\ (c + 1) + (m + 1) - 1 = c + m + 1 /\ (c + 1) + n - 1 = c + n
    BY <1>1, <1>3
  <2>2. SubSeq(SubSeq(s, c + 1, e), m + 1, n)
          = SubSeq(s, (c + 1) + (m + 1) - 1, (c + 1) + n - 1)
    BY <2>1, SubSeqOfSubSeq
  <2> QED
    BY <2>1, <2>2
<1> QED
  BY <1>2, <1>3

(* One more element of a sequence.                                         *)
LEMMA OneMore ==
  ASSUME NEW V, NEW L \in Seq(V), NEW k \in Nat, k + 1 <= Len(L)
  PROVE  Append(SubSeq(L, 1, k), L[k + 1]) = SubSeq(L, 1, k + 1)
<1>1. Len(L) \in Nat /\ \A i \in 1 .. k + 1 : L[i] \in V
  BY LenProperties, ElementOfSeq
<1>2. 1 \in 1 .. Len(L) /\ k + 1 \in 1 .. Len(L) /\ (k + 1) - 1 = k
  BY <1>1
<1>3. SubSeq(L, 1, k) \in Seq(V) /\ L[k + 1] \in V
  BY <1>1, SubSeqProperties
<1>4. SubSeq(L, 1, k + 1) = SubSeq(L, 1, (k + 1) - 1) \o <<L[k + 1]>>
  BY <1>2, SubSeqRecursiveSecond
<1> QED
  BY <1>2, <1>3, <1>4, AppendIsConcat

(* One round of the loop goes on to the end of the next line.              *)
LEMMA NextLineGoesOn ==
  ASSUME NEW s \in Seq(STRING), NEW e \in Nat, e <= Len(s), NEW q \in Reader, NEW c,
         At(s, e, c, q), ~Done(q)
  PROVE  \E d \in Nat : c < d /\ At(s, e, d, NextLine(q))
<1> DEFINE b == q.buffer
           index == Min(LineEnds(b))
           d == c + index
           line == SubSeq(b, 1, index - 1)
           rest == SubSeq(b, index + 1, Len(b))
           ends == ControlEnds(s)
           k == Rank(ends, c)
<1>1. /\ c \in Nat /\ c <= e /\ (c = 0 \/ c \in ends) /\ c \notin OpenEnds(s)
      /\ b = SubSeq(s, c + 1, e) /\ ~q.detached
      /\ q.frames = SubSeq(Lines(s), 1, k)
  BY DEF At, Done
<1>2. /\ Len(s) \in Nat /\ LineEnds(s) = {i \in 1 .. Len(s) : s[i] = "nl"}
      /\ OpenEnds(s) \subseteq LineEnds(s) /\ ends \subseteq LineEnds(s)
      /\ ends \subseteq 1 .. Len(s)
  BY EndsAre
<1>3. /\ b \in Seq(STRING) /\ Len(b) = e - c
      /\ \A i \in 1 .. e - c : b[i] = s[c + i]
  BY <1>1, PieceIs
<1>4. /\ index \in 1 .. e - c /\ b[index] = "nl"
      /\ \A j \in 1 .. e - c : b[j] = "nl" => index <= j
  <2>1. index \in LineEnds(b) /\ \A j \in LineEnds(b) : index <= j
    BY NextLineIs DEF Done
  <2>2. LineEnds(b) = {i \in 1 .. e - c : b[i] = "nl"}
    BY <1>3, EndsAre
  <2> QED
    BY <2>1, <2>2
<1> HIDE DEF b, index, ends
<1>5. d \in 1 .. e /\ d \in Nat /\ c < d /\ d \in LineEnds(s) /\ index \in Nat /\ d - 1 \in Nat
  <2>1. index \in Nat /\ d \in 1 .. e /\ d \in Nat /\ c < d /\ d - 1 \in Nat /\ d \in 1 .. Len(s)
    BY <1>1, <1>2, <1>4
  <2>2. s[d] = "nl"
    BY <1>3, <1>4
  <2> QED
    BY <1>2, <2>1, <2>2
<1>6. ASSUME NEW j \in LineEnds(s)
      PROVE  j <= c \/ d <= j
  <2>1. SUFFICES ASSUME ~(j <= c), j <= e
                 PROVE  d <= j
    BY <1>1, <1>2, <1>5
  <2>2. j - c \in 1 .. e - c /\ c + (j - c) = j /\ j \in Nat
    BY <1>1, <1>2, <2>1
  <2>3. b[j - c] = "nl"
    BY <1>2, <1>3, <2>2
  <2>4. index <= j - c
    BY <1>4, <2>2, <2>3
  <2> QED
    BY <1>1, <1>5, <2>2, <2>4
<1> HIDE DEF d
<1>7. \A o \in OpenEnds(s) : d <= o
  <2>1. ASSUME NEW o \in OpenEnds(s), o <= c
        PROVE  FALSE
    <3>1. o \in Nat /\ o >= 1
      BY <1>2
    <3>2. c \in ends /\ c <= o
      BY <1>1, <2>1, <3>1 DEF ends, ControlEnds
    <3>3. o = c
      BY <1>1, <2>1, <3>1, <3>2
    <3> QED
      BY <1>1, <2>1, <3>3
  <2> QED
    BY <1>2, <1>6, <2>1
<1>8. d \in ends
  BY <1>5, <1>7 DEF ends, ControlEnds
<1>9. LineUpTo(s, d) = SubSeq(s, c + 1, d - 1)
  <2> DEFINE T == {0} \cup {j \in LineEnds(s) : j < d}
  <2>1. T \subseteq Int
    BY <1>2
  <2>2. c \in T
    BY <1>1, <1>2, <1>5
  <2>3. \A y \in T : c >= y
    <3>1. ASSUME NEW y \in LineEnds(s), y < d
          PROVE  c >= y
      <4>1. y \in Nat /\ (y <= c \/ d <= y)
        BY <1>2, <1>6
      <4> QED
        BY <1>1, <1>5, <3>1, <4>1
    <3> QED
      BY <1>1, <3>1
  <2>4. Max(T) = c
    BY <2>1, <2>2, <2>3, MaxIs
  <2> QED
    BY <2>4 DEF LineUpTo
<1>10. line = LineUpTo(s, d)
  <2>1. /\ 0 \in Nat /\ index - 1 \in Nat /\ 0 <= index - 1 /\ index - 1 <= e - c
        /\ 0 + 1 = 1 /\ c + 0 + 1 = c + 1 /\ c + (index - 1) = d - 1
    BY <1>1, <1>4, <1>5 DEF d
  <2>2. PICK m \in Nat, n \in Nat : m = 0 /\ n = index - 1
    BY <2>1
  <2>3. SubSeq(SubSeq(s, c + 1, e), m + 1, n) = SubSeq(s, c + m + 1, c + n)
    BY <1>1, <2>1, <2>2, PieceOfPiece
  <2> QED
    BY <1>1, <1>9, <2>1, <2>2, <2>3
<1>11. rest = SubSeq(s, d + 1, e)
  <2>1. /\ index \in Nat /\ e - c \in Nat /\ index <= e - c
        /\ c + index + 1 = d + 1 /\ c + (e - c) = e
    BY <1>1, <1>4, <1>5 DEF d
  <2>2. PICK m \in Nat, n \in Nat : m = index /\ n = e - c
    BY <2>1
  <2>3. SubSeq(SubSeq(s, c + 1, e), m + 1, n) = SubSeq(s, c + m + 1, c + n)
    BY <1>1, <2>1, <2>2, PieceOfPiece
  <2> QED
    BY <1>1, <1>3, <2>1, <2>2, <2>3
<1>12. Append(q.frames, line) = SubSeq(Lines(s), 1, Rank(ends, d))
  <2>1. /\ Rank(ends, d) = k + 1 /\ k \in Nat /\ k + 1 <= Cardinality(ends)
    <3>1. \A j \in ends : j <= c \/ d <= j
      BY <1>2, <1>6
    <3>2. Rank(ends, d) = k + 1
      BY <1>1, <1>2, <1>5, <1>8, <3>1, RankNext
    <3>3. Rank(ends, d) \in 0 .. Cardinality(ends) /\ k \in 0 .. Cardinality(ends)
            /\ Cardinality(ends) \in Nat
      BY <1>1, <1>2, <1>5, RankIs
    <3> QED
      BY <3>2, <3>3
  <2>2. PICK V : Lines(s) \in Seq(V)
    BY LinesAre
  <2>3. Len(Lines(s)) = Cardinality(ends) /\ Lines(s)[Rank(ends, d)] = LineUpTo(s, d)
    BY <1>8, LinesAre DEF ends
  <2> HIDE DEF k, line
  <2>4. Append(SubSeq(Lines(s), 1, k), Lines(s)[k + 1]) = SubSeq(Lines(s), 1, k + 1)
    BY <2>1, <2>2, <2>3, OneMore
  <2> QED
    BY <1>1, <1>10, <2>1, <2>3, <2>4
<1>13. NextLine(q) = [buffer |-> rest, frames |-> Append(q.frames, line),
                      detached |-> q.detached \/ IsOpen(line)]
  BY DEF NextLine, b, index
<1>14. IsOpen(line) <=> d \in OpenEnds(s)
  BY <1>5, <1>10 DEF OpenEnds
<1> HIDE DEF line, rest
<1>15. At(s, e, d, NextLine(q))
  <2>1. NextLine(q).buffer = rest /\ NextLine(q).frames = Append(q.frames, line)
    BY <1>13
  <2>2. NextLine(q).detached <=> d \in OpenEnds(s)
    <3>0. PICK over : over = (q.detached \/ IsOpen(line))
      OBVIOUS
    <3>1. NextLine(q).detached = over
      BY <1>13, <3>0
    <3> QED
      BY <1>1, <1>14, <3>0, <3>1, Zenon
  <2>3. d \in 0 .. e /\ d \in ControlEnds(s)
    BY <1>5, <1>8 DEF ends
  <2> QED
    BY <1>11, <1>12, <2>1, <2>2, <2>3 DEF At, ends
<1> QED
  BY <1>5, <1>15

(* The loop ends, and stops at the end of a line, OPEN or the last that    *)
(* has arrived.                                                            *)
LEMMA LoopGoesOn ==
  ASSUME NEW s \in Seq(STRING), NEW e \in Nat, e <= Len(s), NEW q \in Reader, NEW c,
         At(s, e, c, q)
  PROVE  /\ Loop[q] \in Reader
         /\ \E d \in Nat : c <= d /\ At(s, e, d, Loop[q])
<1> DEFINE Good(p, a) == Loop[p] \in Reader /\ \E d \in Nat : a <= d /\ At(s, e, d, Loop[p])
           Bad == {n \in Nat : \E p \in Reader : \E a \in Nat :
                     At(s, e, a, p) /\ Len(p.buffer) = n /\ ~Good(p, a)}
<1>1. c \in Nat /\ Len(q.buffer) \in Nat
  BY LenProperties DEF At, Reader
<1> HIDE DEF Good
<1>2. SUFFICES ASSUME Bad # {}
               PROVE  FALSE
  <2>1. Good(q, c)
    BY <1>1, <1>2
  <2> QED
    BY <2>1 DEF Good
<1>3. PICK n \in Bad : \A m \in Bad : n <= m
  BY <1>2, LeastExists
<1>4. PICK p \in Reader : \E a \in Nat : At(s, e, a, p) /\ Len(p.buffer) = n /\ ~Good(p, a)
  BY <1>3
<1>5. PICK a \in Nat : At(s, e, a, p) /\ Len(p.buffer) = n /\ ~Good(p, a)
  BY <1>4
<1>6. ~Done(p)
  <2>1. SUFFICES ASSUME Done(p)
                 PROVE  Good(p, a)
    BY <1>5
  <2>2. Loop[p] = p
    BY <2>1, LoopIs
  <2>3. a <= a
    OBVIOUS
  <2> QED
    BY <1>5, <2>2, <2>3 DEF Good
<1>7. PICK d \in Nat : a < d /\ At(s, e, d, NextLine(p))
  BY <1>5, <1>6, NextLineGoesOn
<1>8. /\ NextLine(p) \in Reader /\ Len(NextLine(p).buffer) \in Nat
      /\ Len(NextLine(p).buffer) < n
  BY <1>5, <1>6, NextLineIs DEF Done
<1>9. Good(NextLine(p), d)
  <2>1. Len(NextLine(p).buffer) \notin Bad
    <3>1. n \in Nat
      BY <1>3
    <3> QED
      BY <1>3, <1>8, <3>1
  <2> QED
    BY <1>7, <1>8, <2>1
<1>10. Good(p, a)
  <2>1. Loop[p] = Loop[NextLine(p)]
    BY <1>6, LoopIs
  <2>2. \A x \in Nat : d <= x => a <= x
    BY <1>7
  <2> QED
    BY <1>9, <2>1, <2>2 DEF Good
<1> QED
  BY <1>5, <1>10
-----------------------------------------------------------------------------
(* The socket                                                              *)

(* The bytes that have been read off the socket.                           *)
Arrived == Len(stream) - Len(wire)

(* The lines up to position c are handled; what has arrived behind it is   *)
(* in the buffer, or with the local service.                               *)
HandledTo(c) ==
  /\ c \in 0 .. Arrived /\ (c = 0 \/ c \in ControlEnds(stream))
  /\ frames = SubSeq(Lines(stream), 1, Rank(ControlEnds(stream), c))
  /\ detached <=> c \in OpenEnds(stream)
  /\ local \in {"none", "connecting"} =>
       buffer = SubSeq(stream, c + 1, Arrived) /\ delivered = <<>>
  /\ local = "piped" => delivered = SubSeq(stream, c + 1, Arrived)
  /\ local \in {"connecting", "piped"} => detached /\ PortUsable(LineUpTo(stream, c))

(* No byte is lost between the wire, the buffer and the local service.     *)
NothingLost ==
  /\ Arrived \in Nat /\ wire = SubSeq(stream, Arrived + 1, Len(stream))
  /\ ~detached => local = "none"
  /\ \E c \in Nat : HandledTo(c)

IInv == TypeOK /\ NothingLost

LEMMA BytesAre ==
  ASSUME IInv
  PROVE  /\ stream \in Seq(STRING) /\ Len(stream) \in Nat /\ Len(wire) \in Nat
         /\ Arrived \in Nat /\ Arrived <= Len(stream)
         /\ Len(stream) - Arrived = Len(wire)
         /\ wire = SubSeq(stream, Arrived + 1, Len(stream))
<1>1. stream \in Seq(STRING) /\ wire \in Seq(STRING)
  BY StreamAssumption DEF IInv, TypeOK
<1>2. Len(stream) \in Nat /\ Len(wire) \in Nat
  BY <1>1, LenProperties
<1>3. Arrived \in Nat /\ wire = SubSeq(stream, Arrived + 1, Len(stream))
  BY DEF IInv, NothingLost
<1>4. Arrived = Len(stream) - Len(wire)
  BY DEF Arrived
<1> QED
  BY <1>1, <1>2, <1>3, <1>4

LEMMA LeastIs ==
  ASSUME NEW T, T \subseteq Int, NEW c \in T, \A y \in T : c <= y
  PROVE  Min(T) = c
<1>1. \A x \in T : (\A y \in T : x <= y) => x = c
  OBVIOUS
<1> QED
  BY <1>1 DEF Min

(* At OPEN all control lines are handled, and the payload begins.          *)
LEMMA OpenIsLast ==
  ASSUME NEW s \in Seq(STRING), NEW c \in OpenEnds(s), c \in ControlEnds(s)
  PROVE  /\ SubSeq(Lines(s), 1, Rank(ControlEnds(s), c)) = Lines(s)
         /\ PortUsable(LineUpTo(s, c)) => Payload(s) = SubSeq(s, c + 1, Len(s))
<1>1. /\ Len(s) \in Nat /\ OpenEnds(s) \subseteq 1 .. Len(s) /\ ControlEnds(s) \subseteq 1 .. Len(s)
      /\ c \in Nat
  BY EndsAre
<1>2. \A j \in ControlEnds(s) : j <= c
  BY DEF ControlEnds
<1>3. Rank(ControlEnds(s), c) = Cardinality(ControlEnds(s))
  BY <1>1, <1>2, RankIs
<1>4. PICK V : Lines(s) \in Seq(V)
  BY LinesAre
<1>5. SubSeq(Lines(s), 1, Len(Lines(s))) = Lines(s)
  BY <1>4, SubSeqFull
<1>6. Min(OpenEnds(s)) = c
  <2>1. \A j \in OpenEnds(s) : c <= j
    BY DEF ControlEnds
  <2>2. OpenEnds(s) \subseteq Int
    BY <1>1
  <2> QED
    BY <2>1, <2>2, LeastIs
<1> QED
  BY <1>3, <1>5, <1>6, LinesAre DEF Payload

(* The lines that are handled up to a position, in numbers.                *)
LEMMA FramesAre ==
  ASSUME NEW s \in Seq(STRING), NEW c \in Nat, NEW k, k = Rank(ControlEnds(s), c)
  PROVE  /\ k \in Nat /\ k <= Len(Lines(s)) /\ Len(Lines(s)) \in Nat
         /\ Len(SubSeq(Lines(s), 1, k)) = k
         /\ \A i \in 1 .. k : SubSeq(Lines(s), 1, k)[i] = Lines(s)[i]
<1> DEFINE L == Lines(s)
<1>1. /\ Len(s) \in Nat /\ ControlEnds(s) \subseteq 1 .. Len(s)
  BY EndsAre
<1>2. PICK V : L \in Seq(V)
  BY LinesAre
<1>3. Len(L) = Cardinality(ControlEnds(s)) /\ Len(L) \in Nat
  BY <1>2, LinesAre, LenProperties
<1>4. k \in Nat /\ k <= Len(L)
  <2>1. k \in 0 .. Cardinality(ControlEnds(s))
    BY <1>1, RankIs
  <2> QED
    BY <1>3, <2>1
<1> HIDE DEF L
<1>5. \A i \in 1 .. k : L[i] \in V
  BY <1>2, <1>3, <1>4, ElementOfSeq
<1>6. /\ Len(SubSeq(L, 1, k)) = IF 1 <= k THEN k - 1 + 1 ELSE 0
      /\ \A i \in 1 .. k - 1 + 1 : SubSeq(L, 1, k)[i] = L[1 + i - 1]
  BY <1>4, <1>5, SubSeqProperties
<1>7. Len(SubSeq(L, 1, k)) = k /\ \A i \in 1 .. k : SubSeq(L, 1, k)[i] = L[i]
  <2>1. (IF 1 <= k THEN k - 1 + 1 ELSE 0) = k /\ k - 1 + 1 = k
    BY <1>4
  <2>2. \A i \in 1 .. k : 1 + i - 1 = i
    BY <1>4
  <2> QED
    BY <1>6, <2>1, <2>2
<1> QED
  BY <1>3, <1>4, <1>7 DEF L

(* The last of them is the one that ends there.                            *)
LEMMA LastFrameIs ==
  ASSUME NEW s \in Seq(STRING), NEW c \in ControlEnds(s),
         NEW fr, fr = SubSeq(Lines(s), 1, Rank(ControlEnds(s), c))
  PROVE  fr[Len(fr)] = LineUpTo(s, c)
<1>1. PICK k : k = Rank(ControlEnds(s), c)
  OBVIOUS
<1>2. Len(s) \in Nat /\ ControlEnds(s) \subseteq 1 .. Len(s) /\ c \in Nat
  BY EndsAre
<1>3. /\ k \in Nat /\ Len(SubSeq(Lines(s), 1, k)) = k
      /\ \A i \in 1 .. k : SubSeq(Lines(s), 1, k)[i] = Lines(s)[i]
  BY <1>1, <1>2, FramesAre
<1>4. k # 0
  <2> DEFINE first == {j \in ControlEnds(s) : j <= c}
  <2>1. c \in first
    BY <1>2
  <2>2. IsFiniteSet(first)
    <3>1. IsFiniteSet(1 .. Len(s)) /\ first \in SUBSET (1 .. Len(s))
      BY <1>2, FS_Interval
    <3> QED
      BY <3>1, FS_Subset
  <2>3. Cardinality(first) # 0
    BY <2>1, <2>2, FS_EmptySet
  <2> QED
    BY <1>1, <2>3 DEF Rank
<1>5. k \in 1 .. k /\ Lines(s)[k] = LineUpTo(s, c)
  BY <1>1, <1>3, <1>4, LinesAre
<1> QED
  BY <1>1, <1>3, <1>5

(* More bytes: what is read joins what was read before it.                 *)
LEMMA BytesRead ==
  ASSUME IInv, NEW n \in 1 .. Len(wire), wire' = Drop(n), stream' = stream
  PROVE  /\ Arrived' = Arrived + n /\ Arrived + n \in Nat /\ Arrived + n <= Len(stream)
         /\ wire' \in Seq(STRING) /\ wire' = SubSeq(stream, Arrived + n + 1, Len(stream))
         /\ \A c \in Nat : c <= Arrived =>
              SubSeq(stream, c + 1, Arrived) \o Take(n) = SubSeq(stream, c + 1, Arrived + n)
<1>1. PICK a \in Nat, e \in Nat, l \in Nat, k \in Nat, m \in Nat :
        a = Arrived /\ e = a + n /\ l = Len(stream) /\ k = Len(wire) /\ m = 0
  <2>1. Arrived \in Nat /\ Len(stream) \in Nat /\ Len(wire) \in Nat
    BY BytesAre
  <2>2. \A x \in Nat : x + n \in Nat
    BY <2>1
  <2> QED
    BY <2>1, <2>2
<1>2. /\ stream \in Seq(STRING) /\ a <= l /\ k = l - a
      /\ wire = SubSeq(stream, a + 1, l)
  BY <1>1, BytesAre
<1>3. /\ n \in Nat /\ n <= k /\ m <= n /\ e <= l /\ a <= e /\ n <= l - a /\ k <= l - a
  BY <1>1, <1>2
<1>4. Take(n) = SubSeq(stream, a + 1, e)
  <2>1. SubSeq(SubSeq(stream, a + 1, l), m + 1, n) = SubSeq(stream, a + m + 1, a + n)
    BY <1>1, <1>2, <1>3, PieceOfPiece
  <2>2. m + 1 = 1 /\ a + m + 1 = a + 1
    BY <1>1
  <2> QED
    BY <1>1, <1>2, <2>1, <2>2 DEF Take
<1>5. wire' = SubSeq(stream, e + 1, l)
  <2>1. SubSeq(SubSeq(stream, a + 1, l), n + 1, k) = SubSeq(stream, a + n + 1, a + k)
    BY <1>1, <1>2, <1>3, PieceOfPiece
  <2>2. a + n + 1 = e + 1 /\ a + k = l
    BY <1>1, <1>2
  <2> QED
    BY <1>1, <1>2, <2>1, <2>2 DEF Drop
<1>6. wire' \in Seq(STRING) /\ Len(wire') = l - e
  BY <1>1, <1>2, <1>3, <1>5, PieceIs
<1>7. Arrived' = e
  <2>1. Arrived' = l - (l - e)
    BY <1>1, <1>6 DEF Arrived
  <2> QED
    BY <2>1
<1>8. ASSUME NEW c \in Nat, c <= a
      PROVE  SubSeq(stream, c + 1, a) \o SubSeq(stream, a + 1, e) = SubSeq(stream, c + 1, e)
  <2>1. c + 1 \in 1 .. l + 1 /\ a \in (c + 1) - 1 .. l /\ e \in a .. l
    BY <1>2, <1>3, <1>8
  <2> QED
    BY <1>1, <1>2, <2>1, ConcatAdjacentSubSeq
<1> QED
  BY <1>1, <1>3, <1>4, <1>5, <1>6, <1>7, <1>8

(* A chunk is read up to its last whole line, or to OPEN.                  *)
LEMMA ReadChunkPreserves ==
  ASSUME IInv, NEW n \in 1 .. Len(wire), ReadChunk(n)
  PROVE  IInv' /\ (HandleLines \/ UNCHANGED <<stream, frames, delivered>>)
<1> DEFINE e == Arrived + n
           q == [buffer |-> buffer \o Take(n), frames |-> frames, detached |-> FALSE]
           r == Loop[q]
           opened == r.detached /\ PortUsable(r.frames[Len(r.frames)])
<1>1. /\ ~detached /\ wire' = Drop(n) /\ UNCHANGED <<stream, delivered>>
      /\ buffer' = r.buffer /\ frames' = r.frames /\ detached' = r.detached
      /\ tunnel' = IF ~r.detached THEN "flowing" ELSE IF opened THEN "paused" ELSE "closed"
      /\ local' = IF opened THEN "connecting" ELSE local
  BY DEF ReadChunk, ReadLines
<1>2. local = "none"
  BY <1>1 DEF IInv, NothingLost
<1>3. PICK c \in Nat : HandledTo(c)
  BY DEF IInv, NothingLost
<1>4. /\ c \in Nat /\ c <= Arrived /\ (c = 0 \/ c \in ControlEnds(stream))
      /\ frames = SubSeq(Lines(stream), 1, Rank(ControlEnds(stream), c))
      /\ c \notin OpenEnds(stream)
      /\ buffer = SubSeq(stream, c + 1, Arrived) /\ delivered = <<>>
  <2>1. c \in 0 .. Arrived /\ Arrived \in Nat
    BY <1>3, BytesAre DEF HandledTo
  <2> QED
    BY <1>1, <1>2, <1>3, <2>1 DEF HandledTo
<1>5. /\ stream \in Seq(STRING) /\ wire \in Seq(STRING) /\ buffer \in Seq(STRING)
      /\ frames \in Seq(Seq(STRING)) /\ stream \in Streams /\ delivered \in Seq(STRING)
  BY BytesAre DEF IInv, TypeOK
<1>6. /\ Arrived' = e /\ e \in Nat /\ e <= Len(stream) /\ wire' \in Seq(STRING)
      /\ wire' = SubSeq(stream, e + 1, Len(stream))
      /\ buffer \o Take(n) = SubSeq(stream, c + 1, e)
  BY <1>1, <1>4, BytesRead
<1>7. c \in 0 .. e
  <2>1. Arrived \in Nat /\ Arrived <= Arrived + n
    BY BytesAre
  <2>2. c \in Nat /\ c <= Arrived /\ e \in Nat
    BY <1>4, <1>6
  <2>3. \A x \in Nat, y \in Nat, z \in Nat : x <= y /\ y <= z => x \in 0 .. z
    OBVIOUS
  <2>4. Arrived <= e
    BY <2>1
  <2> HIDE DEF e
  <2> QED
    BY <2>1, <2>2, <2>3, <2>4
<1> HIDE DEF e
<1>8. q \in Reader /\ At(stream, e, c, q)
  <2>1. SubSeq(stream, c + 1, e) \in Seq(STRING)
    <3>1. c <= e
      BY <1>6, <1>7
    <3> QED
      BY <1>4, <1>5, <1>6, <3>1, PieceIs
  <2>2. q \in Reader
    BY <1>5, <1>6, <2>1 DEF Reader
  <2>3. q.buffer = SubSeq(stream, c + 1, e) /\ q.frames = frames /\ q.detached = FALSE
    BY <1>6
  <2> HIDE DEF q
  <2> QED
    BY <1>4, <1>7, <2>2, <2>3 DEF At
<1> HIDE DEF q
<1>9. PICK d \in Nat : c <= d /\ At(stream, e, d, r)
  BY <1>5, <1>6, <1>8, LoopGoesOn
<1>10. r \in Reader
  BY <1>5, <1>6, <1>8, LoopGoesOn
<1> HIDE DEF r
<1>11. /\ r.buffer \in Seq(STRING) /\ r.frames \in Seq(Seq(STRING)) /\ r.detached \in BOOLEAN
       /\ d \in 0 .. e /\ (d = 0 \/ d \in ControlEnds(stream))
       /\ r.buffer = SubSeq(stream, d + 1, e)
       /\ r.frames = SubSeq(Lines(stream), 1, Rank(ControlEnds(stream), d))
       /\ r.detached <=> d \in OpenEnds(stream)
  BY <1>9, <1>10 DEF At, Reader
<1>12. opened => r.detached /\ PortUsable(LineUpTo(stream, d))
  <2>1. SUFFICES ASSUME opened
                 PROVE  PortUsable(LineUpTo(stream, d))
    OBVIOUS
  <2>2. d \in ControlEnds(stream)
    <3>1. d # 0
      BY <1>5, <1>11, <2>1, EndsAre
    <3> QED
      BY <1>11, <3>1
  <2>3. r.frames[Len(r.frames)] = LineUpTo(stream, d)
    <3>1. PICK fr : fr = r.frames
      OBVIOUS
    <3> QED
      BY <1>5, <1>11, <2>2, <3>1, LastFrameIs
  <2> QED
    BY <2>1, <2>3
<1>13. local' \in {"none", "connecting"} /\ (local' = "connecting" => opened)
       /\ (local' # "none" => r.detached)
       /\ tunnel' \in {"flowing", "paused", "closed"}
  BY <1>1, <1>2
<1> HIDE DEF opened
<1>14. TypeOK'
  BY <1>1, <1>5, <1>6, <1>11, <1>13 DEF TypeOK
<1>15. HandledTo(d)'
  BY <1>1, <1>4, <1>6, <1>11, <1>12, <1>13 DEF HandledTo
<1>16. NothingLost'
  BY <1>1, <1>6, <1>13, <1>15 DEF NothingLost
<1>17. HandleLines \/ UNCHANGED <<stream, frames, delivered>>
  <2> DEFINE k == Rank(ControlEnds(stream), c)
             m == Rank(ControlEnds(stream), d)
  <2>1. /\ k \in Nat /\ m \in Nat /\ m <= Len(Lines(stream)) /\ Len(Lines(stream)) \in Nat
        /\ Len(frames) = k
    BY <1>4, <1>5, FramesAre
  <2>2. k <= m
    <3>1. Len(stream) \in Nat /\ ControlEnds(stream) \subseteq 1 .. Len(stream)
      BY <1>5, EndsAre
    <3> QED
      BY <1>9, <3>1, RankIs
  <2>3. CASE k = m
    BY <1>1, <1>4, <1>11, <2>3
  <2>4. CASE k < m
    <3>1. m \in Len(frames) + 1 .. Len(Lines(stream))
      BY <2>1, <2>4
    <3>2. frames' = SubSeq(Lines(stream), 1, m)
      BY <1>1, <1>11
    <3> HIDE DEF m
    <3> QED
      BY <1>1, <3>1, <3>2 DEF HandleLines
  <2> QED
    BY <2>1, <2>2, <2>3, <2>4
<1> QED
  BY <1>14, <1>16, <1>17 DEF IInv

(* What is handed over so far, when it grows, is more of the payload.      *)
LEMMA Delivers ==
  ASSUME IInv, NEW c \in Nat, HandledTo(c), local \in {"connecting", "piped"},
         NEW to \in Nat, Arrived <= to, to <= Len(stream),
         delivered = <<>> \/ delivered = SubSeq(stream, c + 1, Arrived),
         delivered' = SubSeq(stream, c + 1, to), UNCHANGED <<stream, frames>>
  PROVE  Deliver \/ UNCHANGED <<stream, frames, delivered>>
<1>1. /\ c \in OpenEnds(stream) /\ PortUsable(LineUpTo(stream, c))
      /\ c <= Arrived /\ (c = 0 \/ c \in ControlEnds(stream))
      /\ frames = SubSeq(Lines(stream), 1, Rank(ControlEnds(stream), c))
  <2>1. c \in 0 .. Arrived /\ Arrived \in Nat
    BY BytesAre DEF HandledTo
  <2> QED
    BY <2>1 DEF HandledTo
<1>2. stream \in Seq(STRING) /\ Len(stream) \in Nat /\ Arrived \in Nat
  BY BytesAre
<1>3. c \in ControlEnds(stream)
  BY <1>1, <1>2, EndsAre
<1>4. frames = Lines(stream) /\ Payload(stream) = SubSeq(stream, c + 1, Len(stream))
  BY <1>1, <1>2, <1>3, OpenIsLast
<1>5. Len(Payload(stream)) = Len(stream) - c
  BY <1>1, <1>2, <1>4, PieceIs
<1>6. Len(delivered) \in Nat /\ Len(delivered) <= to - c
  <2>1. CASE delivered = <<>>
    <3>1. Len(delivered) = 0
      BY <2>1, EmptySeq
    <3> QED
      BY <1>1, <1>2, <3>1
  <2>2. CASE delivered = SubSeq(stream, c + 1, Arrived)
    <3>1. Len(delivered) = Arrived - c
      BY <1>1, <1>2, <2>2, PieceIs
    <3> QED
      BY <1>1, <1>2, <3>1
  <2> QED
    BY <2>1, <2>2
<1>7. PICK k \in Nat : k = to - c
  BY <1>1, <1>2
<1>8. delivered' = SubSeq(Payload(stream), 1, k)
  <2>1. PICK m \in Nat : m = 0
    OBVIOUS
  <2>2. m <= k /\ k <= Len(stream) - c /\ c <= Len(stream)
    BY <1>1, <1>2, <1>7, <2>1
  <2>3. SubSeq(SubSeq(stream, c + 1, Len(stream)), m + 1, k) = SubSeq(stream, c + m + 1, c + k)
    BY <1>2, <2>2, PieceOfPiece
  <2>4. m + 1 = 1 /\ c + m + 1 = c + 1 /\ c + k = to
    BY <1>7, <2>1
  <2> QED
    BY <1>4, <2>3, <2>4
<1>9. CASE Len(delivered) = k
  <2>1. CASE delivered = <<>>
    <3>1. k = 0 /\ to = c /\ c < c + 1
      BY <1>7, <1>9, <2>1, EmptySeq
    <3> QED
      BY <2>1, <3>1, SubSeqEmpty
  <2>2. CASE delivered = SubSeq(stream, c + 1, Arrived)
    <3>1. Len(delivered) = Arrived - c
      BY <1>1, <1>2, <2>2, PieceIs
    <3>2. Arrived = to
      BY <1>1, <1>2, <1>7, <1>9, <3>1
    <3> QED
      BY <2>2, <3>2
  <2> QED
    BY <2>1, <2>2
<1>10. CASE Len(delivered) < k
  <2>1. k \in Len(delivered) + 1 .. Len(Payload(stream))
    BY <1>1, <1>2, <1>5, <1>6, <1>7, <1>10
  <2> QED
    BY <1>4, <1>8, <2>1 DEF Deliver
<1>11. Len(delivered) = k \/ Len(delivered) < k
  BY <1>6, <1>7
<1> QED
  BY <1>9, <1>10, <1>11
(* Bytes that flow through the pipe are more of the payload.               *)
LEMMA PipeChunkPreserves ==
  ASSUME IInv, NEW n \in 1 .. Len(wire), PipeChunk(n)
  PROVE  IInv' /\ (Deliver \/ UNCHANGED <<stream, frames, delivered>>)
<1>1. /\ local = "piped" /\ wire' = Drop(n) /\ delivered' = delivered \o Take(n)
      /\ UNCHANGED <<stream, frames, buffer, detached, tunnel, local>>
  BY DEF PipeChunk
<1>2. PICK c \in Nat : HandledTo(c)
  BY DEF IInv, NothingLost
<1>3. /\ c <= Arrived /\ delivered = SubSeq(stream, c + 1, Arrived) /\ detached
      /\ Arrived \in Nat
  <2>1. c \in 0 .. Arrived /\ Arrived \in Nat
    BY <1>2, BytesAre DEF HandledTo
  <2> QED
    BY <1>1, <1>2, <2>1 DEF HandledTo
<1>4. PICK e \in Nat : e = Arrived + n
  BY <1>3
<1>5. /\ Arrived' = e /\ e <= Len(stream) /\ wire' \in Seq(STRING) /\ stream \in Seq(STRING)
      /\ wire' = SubSeq(stream, e + 1, Len(stream))
      /\ delivered' = SubSeq(stream, c + 1, e)
  BY <1>1, <1>3, <1>4, BytesRead, BytesAre
<1>6. Arrived <= e /\ c <= e
  BY <1>3, <1>4
<1>7. TypeOK'
  <2>1. delivered' \in Seq(STRING)
    BY <1>5, <1>6, PieceIs
  <2> QED
    BY <1>1, <1>5, <2>1 DEF IInv, TypeOK
<1>8. HandledTo(c)'
  <2>1. c \in 0 .. e
    BY <1>6
  <2> QED
    BY <1>1, <1>2, <1>5, <2>1 DEF HandledTo
<1>9. NothingLost'
  BY <1>1, <1>3, <1>4, <1>5, <1>8 DEF NothingLost
<1>10. Deliver \/ UNCHANGED <<stream, frames, delivered>>
  BY <1>1, <1>2, <1>3, <1>5, <1>6, Delivers
<1> QED
  BY <1>7, <1>9, <1>10 DEF IInv

(* The bytes behind OPEN come first.                                       *)
LEMMA LocalConnectsPreserves ==
  ASSUME IInv, LocalConnects
  PROVE  IInv' /\ (Deliver \/ UNCHANGED <<stream, frames, delivered>>)
<1>1. /\ local = "connecting" /\ local' = "piped" /\ tunnel' = "flowing"
      /\ delivered' = delivered \o buffer
      /\ UNCHANGED <<stream, frames, wire, buffer, detached>>
  BY DEF LocalConnects
<1>2. PICK c \in Nat : HandledTo(c)
  BY DEF IInv, NothingLost
<1>3. /\ Arrived \in Nat /\ Arrived <= Len(stream) /\ Arrived' = Arrived
      /\ buffer = SubSeq(stream, c + 1, Arrived) /\ delivered = <<>>
      /\ buffer \in Seq(STRING)
  BY <1>1, <1>2, BytesAre DEF HandledTo, Arrived, IInv, TypeOK
<1>4. delivered' = SubSeq(stream, c + 1, Arrived) /\ delivered' \in Seq(STRING)
  BY <1>1, <1>3, ConcatEmptySeq
<1>5. TypeOK'
  BY <1>1, <1>4 DEF IInv, TypeOK
<1>6. HandledTo(c)'
  BY <1>1, <1>2, <1>3, <1>4 DEF HandledTo
<1>7. NothingLost'
  BY <1>1, <1>3, <1>6 DEF IInv, NothingLost, HandledTo
<1>8. Deliver \/ UNCHANGED <<stream, frames, delivered>>
  <2>1. Arrived <= Arrived
    BY <1>3
  <2> QED
    BY <1>1, <1>2, <1>3, <1>4, <2>1, Delivers
<1> QED
  BY <1>5, <1>7, <1>8 DEF IInv

(* Closing either side hands nothing over any more.                        *)
LEMMA ClosingPreserves ==
  ASSUME IInv, LocalConnectsTooLate \/ LocalCloses \/ TunnelCloses
  PROVE  IInv' /\ UNCHANGED <<stream, frames, delivered>>
<1>1. /\ UNCHANGED <<stream, frames, delivered, wire, buffer, detached>>
      /\ local' \in {"closed", "ending"} \/ local' = local
      /\ local' = "none" <=> local = "none"
      /\ tunnel' \in {"ended", "closed", tunnel}
  BY DEF LocalConnectsTooLate, LocalCloses, TunnelCloses
<1>2. Arrived' = Arrived
  BY <1>1 DEF Arrived
<1>3. TypeOK'
  BY <1>1 DEF IInv, TypeOK
<1>4. PICK c \in Nat : HandledTo(c)
  BY DEF IInv, NothingLost
<1>5. HandledTo(c)'
  BY <1>1, <1>2, <1>4 DEF HandledTo
<1>6. NothingLost'
  BY <1>1, <1>2, <1>5 DEF IInv, NothingLost
<1> QED
  BY <1>1, <1>3, <1>6 DEF IInv

(* Every step of the socket is one that TunnelStream allows.               *)
LEMMA StepImplements ==
  ASSUME IInv, [HNext]_vars
  PROVE  IInv' /\ [Next]_<<stream, frames, delivered>>
<1>1. ASSUME NEW n \in 1 .. Len(wire), ReadChunk(n)
      PROVE  IInv' /\ [Next]_<<stream, frames, delivered>>
  BY <1>1, ReadChunkPreserves DEF Next
<1>2. ASSUME NEW n \in 1 .. Len(wire), PipeChunk(n)
      PROVE  IInv' /\ [Next]_<<stream, frames, delivered>>
  BY <1>2, PipeChunkPreserves DEF Next
<1>3. CASE LocalConnects
  BY <1>3, LocalConnectsPreserves DEF Next
<1>4. CASE LocalConnectsTooLate \/ LocalCloses \/ TunnelCloses
  BY <1>4, ClosingPreserves
<1>5. CASE UNCHANGED vars
  BY <1>5 DEF vars, IInv, TypeOK, NothingLost, HandledTo, Arrived
<1> QED
  BY <1>1, <1>2, <1>3, <1>4, <1>5 DEF HNext

LEMMA InitImplements ==
  ASSUME HInit
  PROVE  IInv /\ Init
<1>1. /\ stream \in Streams /\ stream \in Seq(STRING) /\ wire = stream
      /\ frames = <<>> /\ delivered = <<>> /\ buffer = <<>> /\ detached = FALSE
      /\ tunnel = "flowing" /\ local = "none"
  BY StreamAssumption DEF HInit, Init
<1>2. Len(stream) \in Nat /\ Arrived = 0
  <2>1. Len(stream) \in Nat
    BY <1>1, LenProperties
  <2> QED
    BY <1>1, <2>1 DEF Arrived
<1>3. <<>> \in Seq(STRING) /\ <<>> \in Seq(Seq(STRING))
  BY EmptySeq
<1>4. TypeOK
  BY <1>1, <1>3 DEF TypeOK
<1>5. HandledTo(0)
  <2>1. 0 \notin OpenEnds(stream) /\ Rank(ControlEnds(stream), 0) = 0
    BY <1>1, <1>2, EndsAre, RankIs
  <2>2. SubSeq(Lines(stream), 1, 0) = <<>> /\ SubSeq(stream, 1, 0) = <<>>
    <3>1. {0, 1} \subseteq Int /\ 0 < 1
      OBVIOUS
    <3> QED
      BY <3>1, SubSeqEmpty
  <2>3. 0 \in 0 .. Arrived /\ 0 + 1 = 1
    BY <1>2
  <2> QED
    BY <1>1, <1>2, <2>1, <2>2, <2>3 DEF HandledTo
<1>6. NothingLost
  <2>1. 0 + 1 = 1 /\ 0 \in Nat
    OBVIOUS
  <2>2. wire = SubSeq(stream, 1, Len(stream))
    BY <1>1, SubSeqFull
  <2> QED
    BY <1>1, <1>2, <1>5, <2>1, <2>2 DEF NothingLost
<1> QED
  BY <1>1, <1>4, <1>6 DEF IInv, HInit

(* However the bytes are cut into chunks by onData, and whichever end      *)
(* closes first, none of them is lost, repeated or out of place.           *)
THEOREM Invariance == HSpec => []IInv
<1>1. HInit => IInv
  BY InitImplements
<1>2. IInv /\ [HNext]_vars => IInv'
  BY StepImplements
<1> QED
  BY <1>1, <1>2, PTL DEF HSpec

(* Every variable has the type the source gives it.                        *)
THEOREM TypeCorrect == HSpec => []TypeOK
<1>1. IInv => TypeOK
  BY DEF IInv
<1> QED
  BY <1>1, Invariance, PTL

-----------------------------------------------------------------------------
(* Nothing is kept back                                                    *)

(* The reader leaves no whole line in the buffer, and a socket flows only  *)
(* while somebody takes its bytes.                                         *)
NoneWaits ==
  /\ ~detached => LineEnds(buffer) = {}
  /\ tunnel = "flowing" => local = IF detached THEN "piped" ELSE "none"

(* The loop stops on its own, whatever it starts with.                     *)
LEMMA LoopStops ==
  ASSUME NEW q \in Reader
  PROVE  Done(Loop[q])
<1> DEFINE Bad == {n \in Nat : \E p \in Reader : Len(p.buffer) = n /\ ~Done(Loop[p])}
<1>1. Len(q.buffer) \in Nat
  BY LenProperties DEF Reader
<1>2. SUFFICES ASSUME Bad # {}
               PROVE  FALSE
  BY <1>1
<1>3. PICK n \in Bad : \A m \in Bad : n <= m
  BY <1>2, LeastExists
<1>4. PICK p \in Reader : Len(p.buffer) = n /\ ~Done(Loop[p])
  BY <1>3
<1>5. ~Done(p) /\ Loop[p] = Loop[NextLine(p)]
  BY <1>4, LoopIs
<1>6. /\ NextLine(p) \in Reader /\ Len(NextLine(p).buffer) \in Nat
      /\ Len(NextLine(p).buffer) < n
  BY <1>4, <1>5, NextLineIs DEF Done
<1>7. n \in Nat /\ Len(NextLine(p).buffer) \notin Bad
  <2>1. n \in Nat
    BY <1>3
  <2> QED
    BY <1>3, <1>6, <2>1
<1> QED
  BY <1>4, <1>5, <1>6, <1>7

LEMMA NoneWaitsStays ==
  ASSUME IInv, NoneWaits, [HNext]_vars
  PROVE  NoneWaits'
<1>1. ASSUME NEW n \in 1 .. Len(wire), ReadChunk(n)
      PROVE  NoneWaits'
  <2> DEFINE q == [buffer |-> buffer \o Take(n), frames |-> frames, detached |-> FALSE]
             r == Loop[q]
             opened == r.detached /\ PortUsable(r.frames[Len(r.frames)])
  <2>1. q \in Reader
    <3>1. wire \in Seq(STRING) /\ buffer \in Seq(STRING) /\ frames \in Seq(Seq(STRING))
      BY DEF IInv, TypeOK
    <3>2. Take(n) \in Seq(STRING)
      <4>1. Len(wire) \in Nat /\ \A i \in 1 .. Len(wire) : wire[i] \in STRING
        BY <3>1, LenProperties, ElementOfSeq
      <4>2. \A i \in 1 .. n : wire[i] \in STRING
        BY <4>1
      <4> QED
        BY <4>1, <4>2, SubSeqProperties DEF Take
    <3>3. buffer \o Take(n) \in Seq(STRING)
      BY <3>1, <3>2, ConcatProperties
    <3> QED
      BY <3>1, <3>3 DEF Reader
  <2>2. Done(r)
    BY <2>1, LoopStops
  <2>3. /\ ~detached /\ buffer' = r.buffer /\ detached' = r.detached
        /\ tunnel' = IF ~r.detached THEN "flowing" ELSE IF opened THEN "paused" ELSE "closed"
        /\ local' = IF opened THEN "connecting" ELSE local
    BY <1>1 DEF ReadChunk, ReadLines
  <2>4. local = "none"
    BY <2>3 DEF IInv, NothingLost
  <2> HIDE DEF r
  <2>5. ~detached' => LineEnds(buffer') = {}
    BY <2>2, <2>3 DEF Done
  <2>6. tunnel' = "flowing" => ~r.detached
    BY <2>3
  <2> QED
    BY <2>3, <2>4, <2>5, <2>6 DEF NoneWaits, LineEnds
<1>2. ASSUME NEW n \in 1 .. Len(wire), PipeChunk(n)
      PROVE  NoneWaits'
  BY <1>2 DEF PipeChunk, NoneWaits, LineEnds
<1>3. CASE LocalConnects
  <2>1. detached
    BY <1>3 DEF LocalConnects, IInv, NothingLost
  <2> QED
    BY <1>3, <2>1 DEF LocalConnects, NoneWaits
<1>4. CASE LocalConnectsTooLate \/ LocalCloses \/ TunnelCloses
  <2>1. /\ buffer' = buffer /\ detached' = detached
        /\ tunnel' \in {"ended", "closed"} \/ (tunnel' = tunnel /\ local = "ending")
    BY <1>4 DEF LocalConnectsTooLate, LocalCloses, TunnelCloses
  <2>2. tunnel' # "flowing"
    BY <2>1 DEF NoneWaits
  <2> QED
    BY <2>1, <2>2 DEF NoneWaits, LineEnds
<1>5. CASE UNCHANGED vars
  BY <1>5 DEF vars, NoneWaits, LineEnds
<1> QED
  BY <1>1, <1>2, <1>3, <1>4, <1>5 DEF HNext

(* Once all has arrived, all is handed over.                               *)
LEMMA AllOver ==
  ASSUME IInv, NoneWaits, wire = <<>>, tunnel = "flowing"
  PROVE  frames = Lines(stream) /\ delivered = Payload(stream)
<1>1. stream \in Seq(STRING) /\ Len(stream) \in Nat /\ Arrived = Len(stream)
  <2>1. Len(wire) = 0
    BY EmptySeq
  <2> QED
    BY <2>1, BytesAre
<1>2. PICK c \in Nat : HandledTo(c)
  BY DEF IInv, NothingLost
<1>3. /\ c <= Len(stream) /\ (c = 0 \/ c \in ControlEnds(stream))
      /\ frames = SubSeq(Lines(stream), 1, Rank(ControlEnds(stream), c))
  <2>1. c \in 0 .. Len(stream)
    BY <1>1, <1>2 DEF HandledTo
  <2> QED
    BY <1>1, <1>2, <2>1 DEF HandledTo
<1>4. /\ LineEnds(stream) = {i \in 1 .. Len(stream) : stream[i] = "nl"}
      /\ OpenEnds(stream) \subseteq LineEnds(stream)
      /\ ControlEnds(stream) \subseteq LineEnds(stream)
      /\ ControlEnds(stream) \subseteq 1 .. Len(stream)
  BY <1>1, EndsAre
<1>5. CASE detached
  <2>1. local = "piped" /\ c \in OpenEnds(stream)
    BY <1>2, <1>5 DEF NoneWaits, HandledTo
  <2>2. PortUsable(LineUpTo(stream, c)) /\ delivered = SubSeq(stream, c + 1, Len(stream))
    BY <1>1, <1>2, <2>1 DEF HandledTo
  <2>3. c \in ControlEnds(stream)
    BY <1>3, <1>4, <2>1
  <2> QED
    BY <1>1, <1>3, <2>1, <2>2, <2>3, OpenIsLast
<1>6. CASE ~detached
  <2>1. /\ local = "none" /\ LineEnds(buffer) = {} /\ c \notin OpenEnds(stream)
        /\ delivered = <<>> /\ buffer = SubSeq(stream, c + 1, Len(stream))
    BY <1>1, <1>2, <1>6 DEF NoneWaits, HandledTo
  <2>2. \A j \in LineEnds(stream) : j <= c
    <3>0. \A j \in LineEnds(stream) : j \in Nat /\ (j <= c \/ c < j)
      <4>1. LineEnds(stream) \subseteq 1 .. Len(stream)
        BY <1>4
      <4> QED
        BY <1>1, <4>1
    <3>1. SUFFICES ASSUME NEW j \in LineEnds(stream), c < j
                   PROVE  FALSE
      BY <3>0
    <3>2. PICK i \in Nat : i = j - c
      BY <3>0, <3>1
    <3>3. i \in 1 .. Len(stream) - c /\ c + i = j
      BY <1>4, <3>1, <3>2
    <3>4. buffer \in Seq(STRING) /\ Len(buffer) = Len(stream) - c /\ buffer[i] = stream[j]
      BY <1>1, <1>3, <2>1, <3>3, PieceIs
    <3>5. i \in LineEnds(buffer)
      BY <1>4, <3>3, <3>4, EndsAre
    <3> QED
      BY <2>1, <3>5
  <2>3. OpenEnds(stream) = {}
    <3>1. SUFFICES ASSUME NEW o \in OpenEnds(stream)
                   PROVE  FALSE
      OBVIOUS
    <3>2. o \in 1 .. Len(stream) /\ o <= c
      BY <1>4, <2>2
    <3>3. c <= o
      BY <1>3, <3>2 DEF ControlEnds
    <3>4. c = o
      BY <3>2, <3>3
    <3> QED
      BY <2>1, <3>4
  <2>4. Rank(ControlEnds(stream), c) = Cardinality(ControlEnds(stream))
    <3>1. \A j \in ControlEnds(stream) : j <= c
      BY <1>4, <2>2
    <3> QED
      BY <1>1, <1>4, <3>1, RankIs
  <2>5. SubSeq(Lines(stream), 1, Cardinality(ControlEnds(stream))) = Lines(stream)
    <3>1. PICK V : Lines(stream) \in Seq(V)
      BY <1>1, LinesAre
    <3> QED
      BY <1>1, <3>1, LinesAre, SubSeqFull
  <2> QED
    BY <1>3, <2>1, <2>3, <2>4, <2>5 DEF Payload
<1> QED
  BY <1>5, <1>6

(* Whenever every byte that was sent has been read and the socket flows,   *)
(* attachLineReader() and pipeToLocalService() have handed over everything:*)
(* no line waits for a byte that does not come.  With the fairness of the  *)
(* model, this is what AllDelivered ends in.                               *)
THEOREM NothingWithheld ==
  HSpec => [](wire = <<>> /\ tunnel = "flowing"
              => frames = Lines(stream) /\ delivered = Payload(stream))
<1> DEFINE Kept == wire = <<>> /\ tunnel = "flowing"
                   => frames = Lines(stream) /\ delivered = Payload(stream)
<1>1. HInit => NoneWaits
  BY EmptySeq DEF HInit, NoneWaits, LineEnds
<1>2. IInv /\ NoneWaits /\ [HNext]_vars => NoneWaits'
  BY NoneWaitsStays
<1>3. IInv /\ NoneWaits => Kept
  BY AllOver
<1> HIDE DEF Kept
<1>4. HSpec => []Kept
  BY <1>1, <1>2, <1>3, Invariance, PTL DEF HSpec
<1> QED
  BY <1>4 DEF Kept

-----------------------------------------------------------------------------
(* The promise                                                             *)

(* The instance speaks of the same lines.                                  *)
LEMMA PromiseIs ==
  /\ Init => Promise!Init
  /\ [Next]_<<stream, frames, delivered>> => [Promise!Next]_<<stream, frames, delivered>>
<1>1. \A s : Promise!LineEnds(s) = LineEnds(s)
  BY DEF Promise!LineEnds, LineEnds
<1>2. \A s, i : Promise!LineUpTo(s, i) = LineUpTo(s, i)
  BY <1>1 DEF Promise!LineUpTo, LineUpTo, Promise!Max, Max
<1>3. \A line : Promise!IsOpen(line) = IsOpen(line) /\ Promise!PortUsable(line) = PortUsable(line)
  BY DEF Promise!IsOpen, IsOpen, Promise!Opening, Opening, Promise!PortUsable, PortUsable
<1>4. \A s : Promise!OpenEnds(s) = OpenEnds(s)
  BY <1>1, <1>2, <1>3 DEF Promise!OpenEnds, OpenEnds
<1>5. \A s : Promise!ControlEnds(s) = ControlEnds(s)
  BY <1>1, <1>4 DEF Promise!ControlEnds, ControlEnds
<1>6. \A S, i : Promise!Rank(S, i) = Rank(S, i)
  BY DEF Promise!Rank, Rank, Promise!Cardinality, Cardinality
<1>7. \A s : Promise!Lines(s) = Lines(s)
  <2> SUFFICES ASSUME NEW s
               PROVE  Promise!Lines(s) = Lines(s)
    OBVIOUS
  <2> DEFINE ends == ControlEnds(s)
  <2>1. Promise!Cardinality(ends) = Cardinality(ends)
    BY DEF Promise!Cardinality, Cardinality
  <2>2. \A k : (CHOOSE i \in ends : Promise!Rank(ends, i) = k)
                = (CHOOSE i \in ends : Rank(ends, i) = k)
    BY <1>6
  <2>3. Promise!Lines(s) = [k \in 1 .. Promise!Cardinality(ends) |->
                              Promise!LineUpTo(s, CHOOSE i \in ends : Promise!Rank(ends, i) = k)]
    <3> DEFINE ends2 == Promise!ControlEnds(s)
    <3>1. ends2 = ends
      BY <1>5
    <3>2. Promise!Lines(s) = [k \in 1 .. Promise!Cardinality(ends2) |->
                                Promise!LineUpTo(s, CHOOSE i \in ends2 : Promise!Rank(ends2, i) = k)]
      BY DEF Promise!Lines
    <3> HIDE DEF ends, ends2
    <3> QED
      BY <3>1, <3>2
  <2>4. Lines(s) = [k \in 1 .. Cardinality(ends) |->
                      LineUpTo(s, CHOOSE i \in ends : Rank(ends, i) = k)]
    BY DEF Lines
  <2> HIDE DEF ends
  <2>5. \A k : Promise!LineUpTo(s, CHOOSE i \in ends : Promise!Rank(ends, i) = k)
              = LineUpTo(s, CHOOSE i \in ends : Rank(ends, i) = k)
    <3> SUFFICES ASSUME NEW k
                 PROVE  Promise!LineUpTo(s, CHOOSE i \in ends : Promise!Rank(ends, i) = k)
                        = LineUpTo(s, CHOOSE i \in ends : Rank(ends, i) = k)
      OBVIOUS
    <3> DEFINE a == CHOOSE i \in ends : Promise!Rank(ends, i) = k
               b == CHOOSE i \in ends : Rank(ends, i) = k
    <3>1. a = b
      BY <2>2
    <3> HIDE DEF a, b
    <3>2. Promise!LineUpTo(s, a) = LineUpTo(s, b)
      BY <1>2, <3>1
    <3> QED
      BY <3>2 DEF a, b
  <2> QED
    BY <2>1, <2>3, <2>4, <2>5
<1>8. \A s : Promise!Payload(s) = Payload(s)
  <2>1. \A T : Promise!Min(T) = Min(T)
    BY DEF Promise!Min, Min
  <2> QED
    BY <1>2, <1>3, <1>4, <2>1 DEF Promise!Payload, Payload
<1>9. Init => Promise!Init
  BY DEF Init, Promise!Init
<1>10. Next => Promise!Next
  BY <1>7, <1>8 DEF Next, Promise!Next, HandleLines, Promise!HandleLines, Deliver, Promise!Deliver
<1> QED
  BY <1>9, <1>10

(* The line reader and the pipes hand over each control line once and in   *)
(* order and then the payload, for every stream and however it is cut into *)
(* chunks (attachLineReader, pipeToLocalService).                          *)
THEOREM ImplementsStream == HSpec => KeepsStream
<1>1. HInit => Promise!Init
  BY InitImplements, PromiseIs
<1>2. IInv /\ [HNext]_vars => [Promise!Next]_<<stream, frames, delivered>>
  BY StepImplements, PromiseIs
<1> QED
  BY <1>1, <1>2, Invariance, PTL DEF HSpec, KeepsStream, Promise!Spec
=============================================================================
