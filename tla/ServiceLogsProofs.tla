------------------------- MODULE ServiceLogsProofs -------------------------
(* The log of a service, for any number of lines, processes and pages: no  *)
(* process is left over, no line is shown twice, and scrolling back skips  *)
(* only blank lines, lines of a page's border and what docker failed to    *)
(* print.                                                                  *)
EXTENDS ServiceLogs, FiniteSetTheorems, SequenceTheorems,
        WellFoundedInduction, TLAPS

(* A set of numbers that is not empty has a least one.                     *)
LEMMA LeastExists ==
  ASSUME NEW T, T \subseteq Nat, T # {}
  PROVE  \E m \in T : \A y \in T : m <= y
<1> DEFINE R == OpToRel(<, Nat)
<1>1. IsWellFoundedOn(R, Nat)
  BY NatLessThanWellFounded, Zenon
<1>2. \A x, y \in Nat : x < y => <<x, y>> \in R
  BY DEF OpToRel
<1> HIDE DEF R
<1>3. PICK x \in T : \A y \in T : ~ (<<y, x>> \in R)
  BY <1>1, WFMin
<1>4. ASSUME NEW y \in T
      PROVE  x <= y
  <2>1. x \in Nat /\ y \in Nat /\ ~(y < x)
    BY <1>2, <1>3
  <2> QED
    BY <2>1
<1> QED
  BY <1>4

LEMMA MinIs ==
  ASSUME NEW T, T \subseteq Nat, T # {}
  PROVE  Min(T) \in T /\ \A y \in T : Min(T) <= y
BY LeastExists DEF Min

(* A set of lines that is not empty has a last one.                        *)
LEMMA MaxIs ==
  ASSUME NEW n \in Nat, NEW T, T \subseteq 1 .. n, T # {}
  PROVE  Max(T) \in T /\ \A y \in T : Max(T) >= y
<1> DEFINE D == {n - y : y \in T}
<1>1. D \subseteq Nat /\ D # {}
  <2>1. PICK y \in T : TRUE
    OBVIOUS
  <2>2. n - y \in D
    BY <2>1
  <2>3. \A z \in T : n - z \in Nat
    OBVIOUS
  <2> QED
    BY <2>2, <2>3
<1>2. PICK m \in D : \A d \in D : m <= d
  BY <1>1, LeastExists
<1>3. PICK x \in T : m = n - x
  OBVIOUS
<1>4. \A y \in T : x >= y
  <2>1. ASSUME NEW y \in T
        PROVE  x >= y
    <3>1. n - x <= n - y
      BY <1>2, <1>3
    <3> QED
      BY <3>1
  <2> QED
    BY <2>1
<1> QED
  BY <1>3, <1>4 DEF Max

-----------------------------------------------------------------------------
(* docker stamps the lines in the order they are written.                  *)
InOrder ==
  \A i, j \in 1 .. Len(written) : i <= j => written[i] <= written[j]

(* A stream that was asked for after STOP_LOG takes its word back.         *)
StopIsLast == stopped => asked = 0

(* The lines are counted from one.                                         *)
CountsFromOne == \A f \in Follower : follower[f].next >= 1

(* An answer that awaits its markers has the last lines of its time but    *)
(* blank ones and those a failure left out, all of them if it says that    *)
(* there are no more; lines written since are later.                       *)
PageAgrees ==
  page # None =>
    /\ page.before \in Nat /\ page.end \in {"open", "reached", "unknown"}
    /\ written # <<>> /\ 2 * page.before <= written[Len(written)]
    /\ page.lines \subseteq Until(page.before)
    /\ \A i \in page.lines : \A j \in Until(page.before) :
         i <= j => j \in page.lines \cup blank \cup page.torn
    /\ page.end = "reached" => Until(page.before) \subseteq page.lines \cup blank

(* Only a page ends the history.                                           *)
EndHasLines == end = "reached" => shown # {}

(* What the process of the open stream has still to print comes after      *)
(* every line that is shown.                                               *)
NextIsNew ==
  \A f \in Follower :
    /\ logStreams = f /\ follower[f].at \in {"following"} \cup Over
    /\ follower[f].at \in Over => follower[f].next <= follower[f].last
    => \A i \in shown : i < follower[f].next

StreamInv  == OnlyOpenStreamsRun /\ StopIsLast /\ CountsFromOne
HistoryInv == InOrder /\ PageAgrees /\ EndHasLines /\ ScrollsBackToTheStart

IInv == TypeOK /\ StreamInv /\ HistoryInv /\ NextIsNew

-----------------------------------------------------------------------------
(* The last lines                                                          *)

(* What docker logs --tail n gives: the last lines in one piece, n of them *)
(* or all.                                                                 *)
LEMMA LastOfIs ==
  ASSUME NEW N \in Nat, NEW S, S \subseteq 1 .. N, NEW n \in Nat \ {0}
  PROVE  /\ LastOf(S, n) \subseteq S
         /\ \A i \in LastOf(S, n) : \A j \in S : i <= j => j \in LastOf(S, n)
         /\ Cardinality(LastOf(S, n)) \in Nat /\ Cardinality(LastOf(S, n)) <= n
         /\ Cardinality(LastOf(S, n)) < n => LastOf(S, n) = S
<1> DEFINE Later(i) == {j \in S : j > i}
           L == LastOf(S, n)
<1>1. L \subseteq S /\ S \subseteq Nat /\ \A i \in S : i \in L <=> Cardinality(Later(i)) < n
  BY DEF LastOf
<1>2. IsFiniteSet(S)
  <2>1. IsFiniteSet(1 .. N)
    BY FS_Interval
  <2> QED
    BY <2>1, FS_Subset
<1>3. \A T \in SUBSET S : IsFiniteSet(T) /\ Cardinality(T) \in Nat
  BY <1>2, FS_Subset, FS_CardinalityType
<1>4. \A T, U : U \subseteq S /\ T \subseteq U => Cardinality(T) <= Cardinality(U)
  BY <1>3, FS_Subset
<1> HIDE DEF L
<1>5. ASSUME NEW i \in L, NEW j \in S, i <= j
      PROVE  j \in L
  <2>1. Later(j) \subseteq Later(i) /\ Later(i) \subseteq S /\ Later(j) \subseteq S
    <3>1. i \in Nat /\ j \in Nat /\ S \subseteq Nat
      BY <1>1, <1>5
    <3>2. \A k \in S : k > j => k > i
      BY <1>5, <3>1
    <3> QED
      BY <3>2
  <2>2. /\ Cardinality(Later(j)) <= Cardinality(Later(i)) /\ Cardinality(Later(i)) < n
        /\ Cardinality(Later(i)) \in Nat /\ Cardinality(Later(j)) \in Nat
    BY <1>1, <1>3, <1>4, <2>1
  <2> QED
    BY <1>1, <2>2
<1>6. Cardinality(L) <= n
  <2>1. CASE L = {}
    BY <2>1, FS_EmptySet
  <2>2. CASE L # {}
    <3> DEFINE m == Min(L)
    <3>1. m \in L /\ \A y \in L : m <= y
      BY <1>1, <2>2, MinIs
    <3> HIDE DEF m
    <3>2. /\ Later(m) \subseteq S /\ m \notin Later(m) /\ m \in S
          /\ L \subseteq Later(m) \cup {m} /\ Later(m) \cup {m} \subseteq S
      BY <1>1, <3>1
    <3>3. Cardinality(Later(m) \cup {m}) = Cardinality(Later(m)) + 1
      BY <1>3, <3>2, FS_AddElement
    <3>4. Cardinality(L) <= Cardinality(Later(m)) + 1 /\ Cardinality(Later(m)) < n
      BY <1>1, <1>4, <3>1, <3>2, <3>3
    <3> QED
      BY <1>1, <1>3, <3>2, <3>4
  <2> QED
    BY <2>1, <2>2
<1>7. ASSUME Cardinality(L) < n
      PROVE  L = S
  <2>1. SUFFICES ASSUME S \ L # {}
                 PROVE  FALSE
    BY <1>1
  <2> DEFINE x == Max(S \ L)
  <2>2. x \in S \ L /\ \A y \in S \ L : x >= y
    BY <2>1, MaxIs
  <2> HIDE DEF x
  <2>3. Later(x) \subseteq L /\ L \subseteq S
    <3>1. ASSUME NEW y \in S, y > x
          PROVE  y \in L
      <4>1. x \in Nat /\ y \in Nat /\ ~(x >= y)
        BY <1>1, <2>2, <3>1
      <4> QED
        BY <2>2, <4>1
    <3> QED
      BY <1>1, <3>1
  <2>4. /\ Cardinality(Later(x)) <= Cardinality(L)
        /\ Cardinality(Later(x)) \in Nat /\ Cardinality(L) \in Nat
    BY <1>3, <1>4, <2>3
  <2> QED
    BY <1>1, <1>7, <2>2, <2>4
<1> QED
  BY <1>1, <1>3, <1>5, <1>6, <1>7 DEF L

-----------------------------------------------------------------------------
(* Types                                                                   *)

States == {"free"} \cup Running \cup Over
Process == [at : States, next : Nat, last : Nat]

LEMMA TypesAre ==
  ASSUME TypeOK
  PROVE  /\ written \in Seq(Nat) /\ Len(written) \in Nat /\ DOMAIN written = 1 .. Len(written)
         /\ \A i \in 1 .. Len(written) : written[i] \in Nat
         /\ follower \in [Follower -> Process]
         /\ shown \subseteq 1 .. Len(written) /\ blank \subseteq 1 .. Len(written)
         /\ shown \cap blank = {}
<1>1. written \in Seq(Nat)
  BY DEF TypeOK
<1>2. Len(written) \in Nat /\ DOMAIN written = 1 .. Len(written)
  BY <1>1, LenProperties
<1>3. \A i \in 1 .. Len(written) : written[i] \in Nat
  BY <1>1, ElementOfSeq
<1> QED
  BY <1>1, <1>2, <1>3 DEF TypeOK, Process, States

(* A process that ends stays a process, and the others what they are.      *)
LEMMA EndedIs ==
  ASSUME TypeOK, CountsFromOne, NEW f \in Follower, NEW how \in Over,
         follower[f].at \in Running, NEW last \in LastWords(f)
  PROVE  /\ Ended(f, how, last) \in [Follower -> Process]
         /\ Ended(f, how, last)[f].at = how
         /\ Ended(f, how, last)[f].next = follower[f].next
         /\ Ended(f, how, last)[f].last = last
         /\ \A g \in Follower : g # f => Ended(f, how, last)[g] = follower[g]
<1> DEFINE k == [[follower[f] EXCEPT !.at = how] EXCEPT !.last = last]
<1>1. follower[f] \in Process /\ follower \in [Follower -> Process] /\ Len(written) \in Nat
  BY TypesAre
<1>2. last \in Nat
  BY <1>1 DEF LastWords, Process, CountsFromOne
<1>3. k \in Process /\ k.at = how /\ k.next = follower[f].next /\ k.last = last
  BY <1>1, <1>2 DEF Process, States
<1>4. Ended(f, how, last) = [follower EXCEPT ![f] = k]
  BY DEF Ended
<1> HIDE DEF k
<1> QED
  BY <1>1, <1>3, <1>4

(* The processes after the one in the map is killed: they are what they    *)
(* were, but for that one.                                                 *)
LEMMA StoppedIs ==
  ASSUME TypeOK, StreamInv, NEW processes \in Stopped
  PROVE  /\ processes \in [Follower -> Process]
         /\ \A g \in Follower :
              /\ processes[g].at \notin Running
              /\ processes[g].next = follower[g].next
              /\ follower[g].at \notin Running => processes[g] = follower[g]
<1>1. follower \in [Follower -> Process]
  BY TypesAre
<1>2. \A g \in Follower : follower[g].at \in Running => logStreams = g
  BY DEF StreamInv, OnlyOpenStreamsRun, NoOrphan
<1>3. CASE logStreams # None /\ follower[logStreams].at \in Running
  <2> DEFINE f == logStreams
  <2>1. f \in Follower
    BY <1>3 DEF TypeOK
  <2>2. PICK last \in LastWords(f) : processes = Ended(f, "killed", last)
    BY <1>3 DEF Stopped
  <2>3. /\ processes \in [Follower -> Process]
        /\ processes[f].at = "killed" /\ processes[f].next = follower[f].next
        /\ \A g \in Follower : g # f => processes[g] = follower[g]
    BY <1>3, <2>1, <2>2, EndedIs DEF StreamInv, Over
  <2> QED
    BY <1>2, <1>3, <2>3 DEF Running
<1>4. CASE ~(logStreams # None /\ follower[logStreams].at \in Running)
  <2>1. processes = follower
    BY <1>4 DEF Stopped
  <2>2. \A g \in Follower : follower[g].at \notin Running
    BY <1>2, <1>4, LogAssumption
  <2> QED
    BY <1>1, <2>1, <2>2
<1> QED
  BY <1>3, <1>4

(* The flag stays Boolean.                                                 *)
LEMMA FlagPreserved ==
  ASSUME stopped \in BOOLEAN, [Next]_vars
  PROVE  stopped' \in BOOLEAN
<1>1. CASE WriteLine \/ AskStream \/ StopLog \/ PageArrives \/ MarkersFail
  BY <1>1, Zenon DEF WriteLine, AskStream, StopLog, PageArrives, MarkersFail, stream
<1>2. ASSUME NEW limit \in Limits, LoadOlder(limit)
      PROVE  stopped' \in BOOLEAN
  BY <1>2, Zenon DEF LoadOlder, stream
<1>3. ASSUME NEW f \in Follower,
             StreamContainerLog(f) \/ Attach(f) \/ PushLines(f) \/ FollowerEnds(f) \/ Close(f)
      PROVE  stopped' \in BOOLEAN
  BY <1>3, Zenon DEF StreamContainerLog, Attach, PushLines, FollowerEnds, Close
<1>4. CASE UNCHANGED vars
  BY <1>4, Zenon DEF vars, stream
<1> QED
  BY <1>1, <1>2, <1>3, <1>4 DEF Next

(* What a page reads: the last lines before its time, at most MaxPage.     *)
LEMMA UntilIs ==
  ASSUME TypeOK, NEW before
  PROVE  /\ Until(before) \subseteq 1 .. Len(written)
         /\ \A i \in 1 .. Len(written) : i \in Until(before) <=> written[i] <= 2 * (before - 1)
BY TypesAre DEF Until

LEMMA SafeLimitIs ==
  ASSUME NEW limit \in Limits
  PROVE  /\ SafeLimit(limit) \in Nat \ {0} /\ SafeLimit(limit) <= MaxPage
         /\ limit <= MaxPage => SafeLimit(limit) = limit
BY LogAssumption DEF SafeLimit

-----------------------------------------------------------------------------
(* The streams                                                             *)

StreamTypes ==
  /\ follower \in [Follower -> Process]
  /\ logStreams \in Follower \cup {None} /\ asked \in 0 .. MaxAsked

(* One process has become k; the others are what they were.                *)
Becomes(f, k) ==
  /\ follower' \in [Follower -> Process] /\ follower'[f] = k /\ k.next >= 1
  /\ \A g \in Follower : g # f => follower'[g] = follower[g]

LEMMA AttachIs ==
  ASSUME TypeOK, NEW f \in Follower, Attach(f)
  PROVE  /\ Becomes(f, follower'[f]) /\ follower[f].at = "starting"
         /\ follower'[f].at = "following" /\ follower'[f].next = Len(written) + 1
<1> DEFINE k == [[follower[f] EXCEPT !.at = "following"] EXCEPT !.next = NewLines]
<1>1. follower[f] \in Process /\ NewLines = Len(written) + 1 /\ NewLines \in Nat \ {0}
  BY TypesAre DEF NewLines
<1>2. k \in Process /\ k.at = "following" /\ k.next = NewLines
  BY <1>1 DEF Process, States, Running
<1>3. follower' = [follower EXCEPT ![f] = k] /\ follower[f].at = "starting"
  BY DEF Attach
<1> HIDE DEF k
<1>4. Becomes(f, k)
  BY <1>1, <1>2, <1>3, TypesAre DEF Becomes
<1> QED
  BY <1>1, <1>2, <1>3, <1>4 DEF Becomes

LEMMA PushIs ==
  ASSUME TypeOK, StreamInv, NEW f \in Follower, PushLines(f)
  PROVE  /\ Becomes(f, follower'[f])
         /\ follower'[f].at = follower[f].at /\ follower'[f].last = follower[f].last
         /\ follower'[f].next > follower[f].next
         /\ follower[f].at \in {"following"} \cup Over
         /\ follower[f].at \in Over => follower[f].next <= follower[f].last
<1>1. /\ follower[f] \in Process /\ follower[f].next >= 1 /\ Len(written) \in Nat
      /\ follower[f].next \in Nat /\ follower[f].last \in Nat
  BY TypesAre DEF StreamInv, CountsFromOne, Process
<1>2. PICK i \in follower[f].next ..
                (IF follower[f].at \in Over THEN follower[f].last ELSE Len(written)) :
        follower' = [follower EXCEPT ![f].next = i + 1]
  BY DEF PushLines
<1> DEFINE k == [follower[f] EXCEPT !.next = i + 1]
<1>3. i \in Nat /\ i >= follower[f].next /\ (follower[f].at \in Over => i <= follower[f].last)
  BY <1>1
<1>4. k \in Process /\ k.at = follower[f].at /\ k.last = follower[f].last /\ k.next = i + 1
  BY <1>1, <1>3 DEF Process
<1>5. follower' = [follower EXCEPT ![f] = k]
  BY <1>2
<1> HIDE DEF k
<1>6. Becomes(f, k)
  BY <1>1, <1>3, <1>4, <1>5, TypesAre DEF Becomes
<1>7. follower[f].at \in {"following"} \cup Over
  BY DEF PushLines
<1> QED
  BY <1>1, <1>3, <1>4, <1>6, <1>7 DEF Becomes

LEMMA EndsIs ==
  ASSUME TypeOK, StreamInv, NEW f \in Follower, FollowerEnds(f)
  PROVE  /\ Becomes(f, follower'[f]) /\ follower[f].at \in Running
         /\ follower'[f].at = "exited" /\ follower'[f].next = follower[f].next
         /\ follower[f].at = "starting" => follower'[f].last < follower'[f].next
<1>1. PICK last \in LastWords(f) : follower' = Ended(f, "exited", last)
  BY DEF FollowerEnds
<1>2. follower[f].at \in Running
  BY DEF FollowerEnds
<1>3. /\ follower' \in [Follower -> Process]
      /\ follower'[f].at = "exited" /\ follower'[f].next = follower[f].next
      /\ follower'[f].last = last
      /\ \A g \in Follower : g # f => follower'[g] = follower[g]
  BY <1>1, <1>2, EndedIs DEF StreamInv, Over
<1>4. follower[f].at = "starting" => last < follower[f].next
  BY TypesAre DEF LastWords, Process
<1> QED
  BY <1>2, <1>3, <1>4 DEF Becomes, StreamInv, CountsFromOne

LEMMA CloseIs ==
  ASSUME TypeOK, NEW f \in Follower, Close(f)
  PROVE  Becomes(f, Free) /\ Free.at = "free" /\ follower[f].at \in Over
<1>1. Free \in Process /\ Free.at = "free" /\ Free.next = 1
  BY DEF Free, Process, States
<1> QED
  BY <1>1, TypesAre DEF Close, Becomes

(* A stream that opens starts a process that is free, once the one in the  *)
(* map is killed.                                                          *)
LEMMA OpensIs ==
  ASSUME TypeOK, StreamInv, NEW f \in Follower, StreamContainerLog(f)
  PROVE  /\ follower' \in [Follower -> Process] /\ follower'[f].at = "starting"
         /\ \A g \in Follower : g # f => follower'[g].at \notin Running
         /\ CountsFromOne'
         /\ logStreams' = f /\ asked > 0 /\ asked' = asked - 1 /\ UNCHANGED stopped
<1>1. PICK processes \in Stopped : follower' = [processes EXCEPT ![f].at = "starting"]
  BY DEF StreamContainerLog
<1>2. /\ processes \in [Follower -> Process]
      /\ \A g \in Follower :
           processes[g].at \notin Running /\ processes[g].next = follower[g].next
  BY StoppedIs
<1> DEFINE k == [processes[f] EXCEPT !.at = "starting"]
<1>3. k \in Process /\ k.at = "starting" /\ k.next = processes[f].next
  BY <1>2 DEF Process, States, Running
<1>4. follower' = [processes EXCEPT ![f] = k]
  BY <1>1
<1> HIDE DEF k
<1>5. /\ follower' \in [Follower -> Process] /\ follower'[f] = k
      /\ \A g \in Follower : g # f => follower'[g] = processes[g]
  BY <1>2, <1>3, <1>4
<1>6. CountsFromOne'
  BY <1>2, <1>3, <1>5 DEF CountsFromOne, StreamInv
<1>7. logStreams' = f /\ asked > 0 /\ asked' = asked - 1 /\ UNCHANGED stopped
  BY DEF StreamContainerLog
<1> QED
  BY <1>2, <1>3, <1>5, <1>6, <1>7

(* The map always has the process that runs, and STOP_LOG the last word.   *)
LEMMA StreamsPreserved ==
  ASSUME TypeOK, StreamInv, [Next]_vars
  PROVE  StreamTypes' /\ StreamInv'
<1> USE DEF StreamTypes, StreamInv, OnlyOpenStreamsRun, NoOrphan, StopHolds, StopIsLast,
        CountsFromOne
<1>1. StreamTypes /\ asked \in Nat /\ MaxAsked \in Nat
  BY TypesAre, LogAssumption DEF TypeOK
<1>2. ASSUME UNCHANGED <<follower, logStreams, stopped>>, asked' \in {asked, asked - 1} \cap Nat
      PROVE  StreamTypes' /\ StreamInv'
  BY <1>1, <1>2
<1>3. CASE WriteLine \/ PageArrives \/ MarkersFail \/ (\E limit \in Limits : LoadOlder(limit))
             \/ UNCHANGED vars
  BY <1>1, <1>2, <1>3 DEF WriteLine, PageArrives, MarkersFail, LoadOlder, vars, stream
<1>4. CASE AskStream
  BY <1>1, <1>4 DEF AskStream
<1>5. CASE StopLog
  <2>1. /\ follower' \in [Follower -> Process]
        /\ \A g \in Follower :
             follower'[g].at \notin Running /\ follower'[g].next = follower[g].next
    BY <1>5, StoppedIs DEF StopLog
  <2>2. logStreams' = None /\ UNCHANGED asked /\ (stopped' => asked = 0)
    BY <1>5, Zenon DEF StopLog
  <2> QED
    BY <1>1, <2>1, <2>2
<1>6. ASSUME NEW f \in Follower, StreamContainerLog(f)
      PROVE  StreamTypes' /\ StreamInv'
  <2>1. ~stopped
    BY <1>1, <1>6, OpensIs
  <2> QED
    BY <1>1, <1>6, <2>1, OpensIs
<1>7. ASSUME NEW f \in Follower, Attach(f) \/ PushLines(f) \/ FollowerEnds(f)
      PROVE  StreamTypes' /\ StreamInv'
  <2>1. /\ Becomes(f, follower'[f])
        /\ follower'[f].at \in Running => follower[f].at \in Running
    BY <1>7, AttachIs, PushIs, EndsIs DEF Running
  <2>2. UNCHANGED <<logStreams, asked, stopped>>
    BY <1>7 DEF Attach, PushLines, FollowerEnds
  <2> QED
    BY <1>1, <2>1, <2>2 DEF Becomes
<1>8. ASSUME NEW f \in Follower, Close(f)
      PROVE  StreamTypes' /\ StreamInv'
  <2>1. Becomes(f, Free) /\ Free.at \notin Running /\ follower[f].at \notin Running
    BY <1>8, CloseIs DEF Running, Over
  <2>2. logStreams' = (IF logStreams = f THEN None ELSE logStreams) /\ UNCHANGED <<asked, stopped>>
    BY <1>8 DEF Close, EntryAfter
  <2> QED
    BY <1>1, <2>1, <2>2 DEF Becomes
<1> QED
  BY <1>3, <1>4, <1>5, <1>6, <1>7, <1>8 DEF Next

-----------------------------------------------------------------------------
(* The history                                                             *)

HistoryTypes ==
  /\ written \in Seq(Nat) /\ blank \subseteq DOMAIN written
  /\ shown \subseteq DOMAIN written \ blank /\ torn \subseteq DOMAIN written
  /\ end \in {"open", "reached", "unknown"}
  /\ page # None => /\ page.lines \subseteq DOMAIN written \ blank
                    /\ page.torn \subseteq DOMAIN written
                    /\ Cardinality(page.lines) <= MaxPage

(* The milliseconds of a line, of which the agent keeps no more.           *)
LEMMA MsIs ==
  ASSUME TypeOK, NEW i \in 1 .. Len(written)
  PROVE  Ms(i) \in Nat /\ 2 * Ms(i) <= written[i] /\ written[i] < 2 * Ms(i) + 2
<1>1. written[i] \in Nat
  BY TypesAre
<1> QED
  BY <1>1 DEF Ms

(* The first and the last line shown, and the time it scrolls back from.   *)
LEMMA ShownIs ==
  ASSUME TypeOK, shown # {}
  PROVE  /\ Min(shown) \in shown /\ \A i \in shown : Min(shown) <= i
         /\ Max(shown) \in shown /\ \A i \in shown : i <= Max(shown)
         /\ Min(shown) \in 1 .. Len(written) /\ Max(shown) \in 1 .. Len(written)
         /\ Oldest = Ms(Min(shown)) /\ Oldest \in Nat
         /\ 2 * Oldest <= written[Min(shown)] /\ written[Min(shown)] < 2 * Oldest + 2
<1>1. Len(written) \in Nat /\ shown \subseteq 1 .. Len(written) /\ shown \subseteq Nat
  BY TypesAre
<1>2. Min(shown) \in shown /\ \A i \in shown : Min(shown) <= i
  BY <1>1, MinIs
<1>3. Max(shown) \in shown /\ \A i \in shown : Max(shown) >= i
  BY <1>1, MaxIs
<1>4. \A i \in shown : i <= Max(shown)
  BY <1>1, <1>3
<1>5. Min(shown) \in 1 .. Len(written) /\ Max(shown) \in 1 .. Len(written)
  BY <1>1, <1>2, <1>3
<1>6. Oldest = Ms(Min(shown))
  BY DEF Oldest
<1> QED
  BY <1>2, <1>3, <1>4, <1>5, <1>6, MsIs

(* Lines that are older than a shown time are before it.                   *)
LEMMA OlderIsBefore ==
  ASSUME TypeOK, InOrder, NEW m \in 1 .. Len(written), NEW before \in Nat,
         2 * before <= written[m], NEW i \in Until(before)
  PROVE  i < m /\ i \in 1 .. Len(written)
<1>1. /\ i \in 1 .. Len(written) /\ written[i] <= 2 * (before - 1)
      /\ written[i] \in Nat /\ written[m] \in Nat /\ Len(written) \in Nat
  BY TypesAre, UntilIs
<1>2. written[i] < written[m]
  BY <1>1
<1>3. i < m \/ m <= i
  BY <1>1
<1> QED
  BY <1>1, <1>2, <1>3 DEF InOrder

(* A new line comes last, and is not older than those that are there.      *)
LEMMA LinesGrow ==
  ASSUME TypeOK, InOrder, WriteLine
  PROVE  /\ written' \in Seq(Nat) /\ Len(written') = Len(written) + 1
         /\ DOMAIN written' = 1 .. Len(written) + 1
         /\ \A i \in 1 .. Len(written) : written'[i] = written[i] /\ Ms(i)' = Ms(i)
         /\ \A i \in 1 .. Len(written) : written[i] <= written'[Len(written) + 1]
         /\ InOrder'
         /\ blank \subseteq blank' /\ blank' \subseteq blank \cup {Len(written) + 1}
         /\ \A before \in Nat : \A m \in 1 .. Len(written) :
              2 * before <= written[m] => Until(before)' = Until(before)
<1> DEFINE n == Len(written)
<1>1. written \in Seq(Nat) /\ n \in Nat /\ \A i \in 1 .. n : written[i] \in Nat
  BY TypesAre
<1>2. PICK step \in 0..2 :
        written' = Append(written, IF written = <<>> THEN 4 + (step % 2) ELSE written[n] + step)
  BY DEF WriteLine
<1> DEFINE w == IF written = <<>> THEN 4 + (step % 2) ELSE written[n] + step
<1>3. w \in Nat /\ (n > 0 => written[n] <= w)
  <2>1. written # <<>> => n > 0
    BY <1>1, EmptySeq
  <2>2. written = <<>> => n = 0
    BY EmptySeq
  <2> QED
    BY <1>1, <2>1, <2>2
<1> HIDE DEF w
<1>4. /\ written' \in Seq(Nat) /\ Len(written') = n + 1 /\ written'[n + 1] = w
      /\ \A i \in 1 .. n : written'[i] = written[i]
  BY <1>1, <1>2, <1>3, AppendProperties DEF w
<1>5. DOMAIN written' = 1 .. n + 1
  BY <1>4, LenProperties
<1>6. \A i \in 1 .. n : Ms(i)' = Ms(i)
  BY <1>4 DEF Ms
<1>7. \A i \in 1 .. n : written[i] <= w
  <2>1. ASSUME NEW i \in 1 .. n
        PROVE  written[i] <= w
    <3>1. written[i] <= written[n] /\ n > 0 /\ written[i] \in Nat /\ written[n] \in Nat
      BY <1>1 DEF InOrder
    <3> QED
      BY <1>3, <3>1
  <2> QED
    BY <2>1
<1>8. InOrder'
  <2>1. SUFFICES ASSUME NEW i \in 1 .. n + 1, NEW j \in 1 .. n + 1, i <= j
                 PROVE  written'[i] <= written'[j]
    BY <1>4 DEF InOrder
  <2>2. (j \in 1 .. n /\ i \in 1 .. n) \/ (j = n + 1 /\ i \in 1 .. n) \/ (j = n + 1 /\ i = n + 1)
    BY <1>1, <2>1
  <2>3. CASE j \in 1 .. n /\ i \in 1 .. n
    <3>1. written[i] <= written[j]
      BY <2>1, <2>3 DEF InOrder
    <3> QED
      BY <1>4, <2>3, <3>1
  <2>4. CASE j = n + 1 /\ i \in 1 .. n
    BY <1>4, <1>7, <2>4
  <2>5. CASE j = n + 1 /\ i = n + 1
    BY <1>3, <1>4, <2>5
  <2> QED
    BY <2>2, <2>3, <2>4, <2>5
<1>9. ASSUME NEW before \in Nat, NEW m \in 1 .. n, 2 * before <= written[m]
      PROVE  Until(before)' = Until(before)
  <2>1. ~(w <= 2 * (before - 1))
    BY <1>1, <1>3, <1>7, <1>9
  <2>2. Until(before)' = {i \in 1 .. n + 1 : written'[i] <= 2 * (before - 1)}
    BY <1>5 DEF Until
  <2>3. Until(before) = {i \in 1 .. n : written[i] <= 2 * (before - 1)}
    BY TypesAre DEF Until
  <2>4. 1 .. n + 1 = (1 .. n) \cup {n + 1}
    BY <1>1
  <2> QED
    BY <1>4, <2>1, <2>2, <2>3, <2>4
<1>10. blank \subseteq blank' /\ blank' \subseteq blank \cup {n + 1}
  BY DEF WriteLine
<1> QED
  BY <1>4, <1>5, <1>6, <1>7, <1>8, <1>9, <1>10

LEMMA WriteLinePreserves ==
  ASSUME TypeOK, HistoryInv, WriteLine
  PROVE  HistoryTypes' /\ HistoryInv'
<1> DEFINE n == Len(written)
<1>1. UNCHANGED <<shown, page, torn, end>>
  BY DEF WriteLine, history
<1>2. InOrder
  BY DEF HistoryInv
<1>3. /\ written' \in Seq(Nat) /\ Len(written') = n + 1 /\ DOMAIN written' = 1 .. n + 1
      /\ \A i \in 1 .. n : written'[i] = written[i] /\ Ms(i)' = Ms(i)
      /\ \A i \in 1 .. n : written[i] <= written'[n + 1]
      /\ InOrder'
      /\ blank \subseteq blank' /\ blank' \subseteq blank \cup {n + 1}
      /\ \A before \in Nat : \A m \in 1 .. n :
           2 * before <= written[m] => Until(before)' = Until(before)
  BY <1>2, LinesGrow
<1>4. n \in Nat /\ shown \subseteq 1 .. n /\ DOMAIN written = 1 .. n
        /\ \A i \in 1 .. n : written[i] \in Nat
  BY TypesAre
<1>5. HistoryTypes'
  <2>1. n + 1 \notin 1 .. n /\ 1 .. n \subseteq 1 .. n + 1 /\ n + 1 \in 1 .. n + 1
    BY <1>4
  <2>2. \A T : T \subseteq (1 .. n) \ blank => T \subseteq (1 .. n + 1) \ blank'
    BY <1>3, <2>1
  <2>3. \A T : T \subseteq 1 .. n => T \subseteq 1 .. n + 1
    BY <2>1
  <2>4. blank' \subseteq 1 .. n + 1
    <3>1. blank \subseteq 1 .. n
      BY TypesAre
    <3> QED
      BY <1>3, <2>1, <3>1
  <2> QED
    BY <1>1, <1>3, <1>4, <2>2, <2>3, <2>4 DEF HistoryTypes, TypeOK
<1>6. PageAgrees'
  <2>1. SUFFICES ASSUME page # None
                 PROVE  PageAgrees'
    BY <1>1 DEF PageAgrees
  <2>2. /\ page.before \in Nat /\ written # <<>> /\ 2 * page.before <= written[n]
        /\ n \in 1 .. n
    BY <1>4, <2>1, EmptySeq, TypesAre DEF HistoryInv, PageAgrees
  <2>3. Until(page.before)' = Until(page.before)
    BY <1>1, <1>3, <2>2
  <2>4. written' # <<>> /\ 2 * page.before <= written'[n + 1]
    <3>1. 2 * page.before <= written[n] /\ written[n] <= written'[n + 1] /\ written[n] \in Nat
            /\ written'[n + 1] \in Nat
      BY <1>3, <1>4, <2>2, ElementOfSeq
    <3> QED
      BY <1>3, <1>4, <2>2, <3>1, EmptySeq
  <2> QED
    BY <1>1, <1>3, <2>1, <2>2, <2>3, <2>4 DEF HistoryInv, PageAgrees
<1>7. EndHasLines'
  BY <1>1 DEF HistoryInv, EndHasLines
<1>8. ScrollsBackToTheStart'
  <2>1. CASE shown = {}
    BY <1>1, <1>7, <2>1 DEF EndHasLines, ScrollsBackToTheStart, HolesAreNarrow, EndIsTheEnd
  <2>2. CASE shown # {}
    <3>1. /\ Min(shown) \in 1 .. n /\ Max(shown) \in 1 .. n
          /\ Oldest = Ms(Min(shown)) /\ Oldest \in Nat /\ 2 * Oldest <= written[Min(shown)]
      BY <2>2, ShownIs
    <3>2. Oldest' = Oldest
      BY <1>1, <1>3, <3>1 DEF Oldest
    <3>3. HolesAreNarrow'
      <4>1. SUFFICES ASSUME NEW i \in Min(shown) .. Max(shown)
                     PROVE  \/ i \in shown \cup blank' \cup torn
                            \/ \E j \in shown : j > i /\ Ms(i)' + 1 >= Ms(j)'
        BY <1>1 DEF HolesAreNarrow
      <4>2. \/ i \in shown \cup blank \cup torn
            \/ \E j \in shown : j > i /\ Ms(i) + 1 >= Ms(j)
        BY <2>2 DEF HistoryInv, ScrollsBackToTheStart, HolesAreNarrow
      <4>3. i \in 1 .. n
        BY <1>4, <3>1
      <4>4. Ms(i)' = Ms(i) /\ \A j \in shown : Ms(j)' = Ms(j)
        BY <1>3, <1>4, <4>3
      <4> QED
        BY <1>3, <4>2, <4>4
    <3>4. EndIsTheEnd'
      <4>1. end = "reached" => Until(Oldest) \subseteq shown \cup blank
        BY DEF HistoryInv, ScrollsBackToTheStart, EndIsTheEnd
      <4>2. Until(Oldest)' = Until(Oldest)
        BY <1>3, <3>1, <3>2
      <4> QED
        BY <1>1, <1>3, <4>1, <4>2 DEF EndIsTheEnd
    <3> QED
      BY <3>3, <3>4 DEF ScrollsBackToTheStart
  <2> QED
    BY <2>1, <2>2
<1> QED
  BY <1>3, <1>5, <1>6, <1>7, <1>8 DEF HistoryInv

(* What docker answers: the last lines but blank ones, or the first of     *)
(* those, or nothing.                                                      *)
LEMMA FetchedIs ==
  ASSUME NEW N \in Nat, NEW S, S \subseteq 1 .. N, NEW n, NEW fetched \in FetchLogEntries(S, n)
  PROVE  /\ fetched.lines \subseteq LastOf(S, n) \ blank
         /\ fetched.torn \subseteq LastOf(S, n)
         /\ fetched.lines # {} => LastOf(S, n) \subseteq fetched.lines \cup blank \cup fetched.torn
         /\ \A i \in fetched.torn : \A j \in fetched.lines : j < i
         /\ fetched.full => /\ fetched.lines = LastOf(S, n)
                            /\ fetched.count = Cardinality(LastOf(S, n))
<1> DEFINE tail == LastOf(S, n)
<1>1. CASE fetched = ReadToTheEnd(S, n)
  <2>1. /\ fetched.lines = tail \ blank /\ fetched.count = Cardinality(tail \ blank)
        /\ fetched.torn = {} /\ (fetched.full <=> tail \cap blank = {})
    BY <1>1, Zenon DEF ReadToTheEnd, Kept
  <2> HIDE DEF tail
  <2>2. fetched.full => tail \ blank = tail
    BY <2>1
  <2> QED
    BY <2>1, <2>2 DEF tail
<1>2. ASSUME NEW last \in S, fetched = BrokenOff(S, n, last)
      PROVE  /\ fetched.lines \subseteq tail \ blank /\ fetched.torn \subseteq tail
             /\ tail \subseteq fetched.lines \cup blank \cup fetched.torn
             /\ \A i \in fetched.torn : \A j \in fetched.lines : j < i
             /\ ~fetched.full
  <2>1. /\ fetched.lines = {i \in tail : i <= last} \ blank
        /\ fetched.torn = tail \ {i \in tail : i <= last} /\ fetched.full = FALSE
    BY <1>2 DEF BrokenOff, Kept
  <2>2. tail \subseteq S
    BY DEF LastOf
  <2> HIDE DEF tail
  <2>3. ASSUME NEW i \in fetched.torn, NEW j \in fetched.lines
        PROVE  j < i
    <3>1. i \in tail /\ j \in tail /\ j <= last /\ ~(i <= last)
      BY <2>1
    <3>2. i \in Nat /\ j \in Nat /\ last \in Nat
      BY <2>2, <3>1
    <3> QED
      BY <3>1, <3>2
  <2> QED
    BY <2>1, <2>3
<1>3. CASE fetched = Refused
  <2>1. fetched.lines = {} /\ fetched.torn = {} /\ fetched.full = FALSE
    BY <1>3 DEF Refused
  <2> QED
    BY <2>1
<1>4. \/ fetched \in {ReadToTheEnd(S, n), Refused}
      \/ \E last \in S : fetched = BrokenOff(S, n, last)
  BY DEF FetchLogEntries
<1> QED
  BY <1>1, <1>2, <1>3, <1>4

(* A page has the last lines of its time, all if it says there is no more. *)
LEMMA LoadOlderPreserves ==
  ASSUME TypeOK, HistoryInv, NEW limit \in Limits, LoadOlder(limit)
  PROVE  HistoryTypes' /\ HistoryInv'
<1> DEFINE n == Len(written)
           S == Until(Oldest)
           m == SafeLimit(limit)
<1>1. page = None /\ shown # {} /\ UNCHANGED <<written, blank, shown, torn, end>>
  BY DEF LoadOlder, lines
<1>2. PICK fetched \in FetchLogEntries(S, m) :
        page' = [before |-> Oldest, lines |-> fetched.lines, torn |-> fetched.torn,
                 end |-> EndOf(fetched, limit)]
  BY DEF LoadOlder, LoadOlderContainerLogs
<1>3. /\ n \in Nat /\ DOMAIN written = 1 .. n /\ S \subseteq 1 .. n
      /\ \A i \in 1 .. n : written[i] \in Nat
  BY TypesAre, UntilIs
<1>4. m \in Nat \ {0} /\ m <= MaxPage /\ (limit <= MaxPage => m = limit)
        /\ MaxPage \in Nat /\ limit \in Nat
  BY SafeLimitIs, LogAssumption
<1>5. /\ Min(shown) \in 1 .. n /\ Oldest \in Nat /\ 2 * Oldest <= written[Min(shown)]
  BY <1>1, ShownIs
<1>6. /\ LastOf(S, m) \subseteq S
      /\ \A i \in LastOf(S, m) : \A j \in S : i <= j => j \in LastOf(S, m)
      /\ Cardinality(LastOf(S, m)) \in Nat /\ Cardinality(LastOf(S, m)) <= m
      /\ Cardinality(LastOf(S, m)) < m => LastOf(S, m) = S
  BY <1>3, <1>4, LastOfIs
<1>7. /\ fetched.lines \subseteq LastOf(S, m) \ blank
      /\ fetched.torn \subseteq LastOf(S, m)
      /\ fetched.lines # {} => LastOf(S, m) \subseteq fetched.lines \cup blank \cup fetched.torn
      /\ fetched.full => /\ fetched.lines = LastOf(S, m)
                         /\ fetched.count = Cardinality(LastOf(S, m))
  BY <1>3, FetchedIs
<1> DEFINE last == EndOf(fetched, limit)
<1>8. /\ fetched.lines \subseteq S /\ fetched.torn \subseteq S /\ fetched.lines \cap blank = {}
      /\ \A i \in fetched.lines : \A j \in S :
           i <= j => j \in fetched.lines \cup blank \cup fetched.torn
  <2> HIDE DEF S, m
  <2> QED
    BY <1>6, <1>7
<1>9. Cardinality(fetched.lines) <= MaxPage
  <2>1. IsFiniteSet(1 .. n)
    BY <1>3, FS_Interval
  <2>2. LastOf(S, m) \in SUBSET (1 .. n) /\ fetched.lines \in SUBSET LastOf(S, m)
    BY <1>3, <1>6, <1>7
  <2> HIDE DEF S, m, n
  <2>3. IsFiniteSet(LastOf(S, m))
    BY <2>1, <2>2, FS_Subset
  <2>4. IsFiniteSet(fetched.lines) /\ Cardinality(fetched.lines) <= Cardinality(LastOf(S, m))
    BY <2>2, <2>3, FS_Subset
  <2>5. Cardinality(fetched.lines) \in Nat
    BY <2>4, FS_CardinalityType
  <2> QED
    BY <1>4, <1>6, <2>4, <2>5
<1>10. /\ last \in {"open", "reached", "unknown"}
       /\ last = "reached" => ~(fetched.count >= limit) /\ fetched.full /\ limit <= MaxPage
  BY DEF EndOf, HasMore
<1>11. last = "reached" => fetched.lines = S
  BY <1>4, <1>6, <1>7, <1>10
<1>12. /\ page'.before = Oldest /\ page'.lines = fetched.lines /\ page'.torn = fetched.torn
       /\ page'.end = last
  BY <1>2
<1> HIDE DEF S, m, last
<1>13. HistoryTypes'
  BY <1>1, <1>3, <1>8, <1>9, <1>12 DEF HistoryTypes, TypeOK
<1>14. PageAgrees'
  <2>1. written # <<>> /\ 2 * Oldest <= written[n]
    <3>1. written[Min(shown)] <= written[n] /\ n \in 1 .. n
      BY <1>3, <1>5 DEF HistoryInv, InOrder
    <3>2. written[Min(shown)] \in Nat /\ written[n] \in Nat
      BY <1>3, <1>5, <3>1
    <3> QED
      BY <1>3, <1>5, <3>1, <3>2, EmptySeq
  <2>2. Until(page.before)' = S
    BY <1>1, <1>12 DEF S, Until
  <2> QED
    BY <1>1, <1>5, <1>8, <1>10, <1>11, <1>12, <2>1, <2>2 DEF PageAgrees
<1>15. InOrder' /\ EndHasLines' /\ ScrollsBackToTheStart'
  BY <1>1 DEF HistoryInv, InOrder, EndHasLines, ScrollsBackToTheStart, HolesAreNarrow,
              EndIsTheEnd, Oldest, Ms, Until
<1> QED
  BY <1>13, <1>14, <1>15 DEF HistoryInv

(* A page joins what is shown: a line between them is blank, was left out, *)
(* or shares the time of the first that was shown or had the millisecond   *)
(* before it.                                                              *)
LEMMA PageJoins ==
  ASSUME TypeOK, HistoryInv, page # None, shown # {}, page.before = Oldest,
         NEW all, all = shown \cup page.lines
  PROVE  /\ all \subseteq 1 .. Len(written) /\ all # {}
         /\ \A i \in Min(all) .. Max(all) :
              \/ i \in all \cup blank \cup torn \cup page.torn
              \/ \E j \in all : j > i /\ Ms(i) + 1 >= Ms(j)
         /\ page.end = "reached" => Until(Ms(Min(all))) \subseteq all \cup blank
<1> DEFINE n == Len(written)
           m == Min(shown)
           U == Until(Oldest)
           first == Min(all)
           final == Max(all)
<1>1. /\ n \in Nat /\ shown \subseteq 1 .. n /\ U \subseteq 1 .. n
      /\ \A i \in 1 .. n : written[i] \in Nat /\ (i \in U <=> written[i] <= 2 * (Oldest - 1))
  BY TypesAre, UntilIs
<1>2. /\ m \in shown /\ m \in 1 .. n /\ \A i \in shown : m <= i /\ i <= Max(shown)
      /\ Max(shown) \in 1 .. n
      /\ Oldest = Ms(m) /\ Oldest \in Nat /\ 2 * Oldest <= written[m]
  BY ShownIs
<1>3. /\ page.lines \subseteq U
      /\ \A i \in page.lines : \A j \in U :
           i <= j => j \in page.lines \cup blank \cup page.torn
      /\ page.end = "reached" => U \subseteq page.lines \cup blank
  BY DEF HistoryInv, PageAgrees
<1>4. \A i \in U : i < m
  BY <1>2, OlderIsBefore DEF HistoryInv
<1>5. all \subseteq 1 .. n /\ all \subseteq Nat /\ all # {}
  <2>1. page.lines \subseteq 1 .. n /\ m \in all
    BY <1>1, <1>2, <1>3
  <2>2. all \subseteq 1 .. n
    BY <1>1, <2>1
  <2> QED
    BY <1>1, <2>1, <2>2
<1>6. first \in all /\ (\A i \in all : first <= i) /\ final \in all /\ \A i \in all : final >= i
  BY <1>1, <1>5, MinIs, MaxIs
<1> HIDE DEF m, U, first, final
<1>7. first \in 1 .. n /\ final \in 1 .. n /\ first <= m /\ final <= Max(shown)
  <2>1. first \in 1 .. n /\ final \in 1 .. n /\ first <= m /\ final >= m
    BY <1>2, <1>5, <1>6
  <2>2. CASE final \in shown
    BY <1>2, <2>1, <2>2
  <2>3. CASE final \in page.lines
    <3>1. final < m
      BY <1>3, <1>4, <2>3
    <3> QED
      BY <1>1, <1>2, <2>1, <3>1
  <2> QED
    BY <1>6, <2>1, <2>2, <2>3
<1>8. first = m \/ first \in page.lines
  <2>1. first \in shown => m <= first
    BY <1>2
  <2> QED
    BY <1>2, <1>6, <1>7, <2>1
<1>9. ASSUME NEW i \in first .. final
      PROVE  \/ i \in all \cup blank \cup torn \cup page.torn
             \/ \E j \in all : j > i /\ Ms(i) + 1 >= Ms(j)
  <2>1. i \in 1 .. n /\ first <= i /\ i <= Max(shown)
    BY <1>1, <1>2, <1>7
  <2>2. CASE m <= i
    <3>1. i \in m .. Max(shown)
      BY <1>1, <1>2, <2>1, <2>2
    <3>2. \/ i \in shown \cup blank \cup torn
          \/ \E j \in shown : j > i /\ Ms(i) + 1 >= Ms(j)
      BY <1>2, <3>1 DEF HistoryInv, ScrollsBackToTheStart, HolesAreNarrow, m
    <3> QED
      BY <3>2
  <2>3. CASE i < m /\ i \in U
    <3>1. first \in page.lines
      BY <1>1, <1>2, <1>7, <1>8, <2>1, <2>3
    <3> QED
      BY <1>3, <2>1, <2>3, <3>1
  <2>4. CASE i < m /\ i \notin U
    <3>1. /\ written[i] \in Nat /\ ~(written[i] <= 2 * (Oldest - 1))
          /\ Ms(i) \in Nat /\ written[i] < 2 * Ms(i) + 2
      BY <1>1, <2>1, <2>4, MsIs
    <3>2. \A v, a, b \in Nat : ~(v <= 2 * (b - 1)) /\ v < 2 * a + 2 => a + 1 >= b
      OBVIOUS
    <3>3. Ms(i) + 1 >= Ms(m)
      BY <1>2, <3>1, <3>2
    <3> QED
      BY <1>2, <2>4, <3>3
  <2> QED
    BY <1>1, <1>2, <2>1, <2>2, <2>3, <2>4
<1>10. ASSUME page.end = "reached"
       PROVE  Until(Ms(first)) \subseteq all \cup blank
  <2>1. U \subseteq all \cup blank
    BY <1>3, <1>10
  <2>2. CASE first = m
    BY <1>2, <2>1, <2>2 DEF U
  <2>3. CASE first \in page.lines
    <3>1. first \in U /\ Ms(first) \in Nat /\ 2 * Ms(first) <= written[first]
            /\ written[first] \in Nat
      BY <1>1, <1>3, <1>7, <2>3, MsIs
    <3>2. written[first] <= 2 * (Oldest - 1)
      BY <1>1, <1>7, <3>1
    <3>3. ASSUME NEW i \in Until(Ms(first))
          PROVE  i \in U
      <4>1. i \in 1 .. n /\ written[i] <= 2 * (Ms(first) - 1) /\ written[i] \in Nat
        BY <1>1, UntilIs
      <4>2. \A v, a, w, b \in Nat :
              v <= 2 * (a - 1) /\ 2 * a <= w /\ w <= 2 * (b - 1) => v <= 2 * (b - 1)
        OBVIOUS
      <4>3. written[i] <= 2 * (Oldest - 1)
        BY <1>2, <3>1, <3>2, <4>1, <4>2
      <4> QED
        BY <1>1, <4>1, <4>3
    <3> QED
      BY <2>1, <3>3
  <2> QED
    BY <1>8, <2>2, <2>3
<1> QED
  BY <1>5, <1>9, <1>10 DEF first, final

LEMMA PageArrivesPreserves ==
  ASSUME TypeOK, HistoryInv, PageArrives
  PROVE  HistoryTypes' /\ HistoryInv'
<1>1. page # None /\ page' = None /\ UNCHANGED <<written, blank>>
  BY DEF PageArrives, lines
<1>2. InOrder' /\ PageAgrees'
  BY <1>1 DEF HistoryInv, InOrder, PageAgrees
<1>3. CASE shown # {} /\ page.before = Oldest
  <2> DEFINE all == shown \cup page.lines
  <2>1. shown' = all /\ torn' = torn \cup page.torn /\ end' = page.end
    BY <1>3 DEF PageArrives
  <2>2. /\ all \subseteq 1 .. Len(written) /\ all # {}
        /\ \A i \in Min(all) .. Max(all) :
             \/ i \in all \cup blank \cup torn \cup page.torn
             \/ \E j \in all : j > i /\ Ms(i) + 1 >= Ms(j)
        /\ page.end = "reached" => Until(Ms(Min(all))) \subseteq all \cup blank
    BY <1>1, <1>3, PageJoins
  <2>3. HistoryTypes'
    <3>1. /\ page.lines \subseteq DOMAIN written \ blank /\ page.torn \subseteq DOMAIN written
          /\ page.end \in {"open", "reached", "unknown"}
      BY <1>1 DEF TypeOK, HistoryInv, PageAgrees
    <3> QED
      BY <1>1, <2>1, <3>1 DEF HistoryTypes, TypeOK
  <2> HIDE DEF all
  <2>4. EndHasLines' /\ HolesAreNarrow'
    BY <1>1, <2>1, <2>2 DEF EndHasLines, HolesAreNarrow, Ms
  <2>5. EndIsTheEnd'
    BY <1>1, <2>1, <2>2 DEF EndIsTheEnd, Oldest, Ms, Until
  <2> QED
    BY <1>2, <2>3, <2>4, <2>5 DEF HistoryInv, ScrollsBackToTheStart
<1>4. CASE ~(shown # {} /\ page.before = Oldest)
  <2>1. UNCHANGED <<shown, torn, end>>
    BY <1>4 DEF PageArrives
  <2> QED
    BY <1>1, <1>2, <2>1 DEF HistoryTypes, TypeOK, HistoryInv, EndHasLines,
       ScrollsBackToTheStart, HolesAreNarrow, EndIsTheEnd, Oldest, Ms, Until
<1> QED
  BY <1>3, <1>4

(* The history of a stream begins with the last lines, in one piece.       *)
LEMMA OpeningPreserves ==
  ASSUME TypeOK, HistoryInv, NEW f \in Follower, StreamContainerLog(f)
  PROVE  HistoryTypes' /\ HistoryInv'
<1> DEFINE n == Len(written)
<1>1. UNCHANGED <<written, blank, page>> /\ torn' = {} /\ end' = "open"
  BY DEF StreamContainerLog, lines
<1>2. PICK fetched \in FetchLogEntries(DOMAIN written, HistoryTail) : shown' = fetched.lines
  BY DEF StreamContainerLog
<1>3. n \in Nat /\ DOMAIN written = 1 .. n
  BY TypesAre
<1>4. /\ shown' \subseteq (1 .. n) \ blank
      /\ \A i, k \in shown' : \A j \in 1 .. n : i <= j /\ j <= k => j \in shown' \cup blank
  <2> DEFINE tail == LastOf(1 .. n, HistoryTail)
  <2>1. HistoryTail \in Nat \ {0}
    BY LogAssumption
  <2>2. /\ tail \subseteq 1 .. n
        /\ \A i \in tail : \A j \in 1 .. n : i <= j => j \in tail
    BY <1>3, <2>1, LastOfIs
  <2>3. /\ shown' \subseteq tail \ blank /\ fetched.torn \subseteq tail
        /\ shown' # {} => tail \subseteq shown' \cup blank \cup fetched.torn
        /\ \A i \in fetched.torn : \A j \in shown' : j < i
    BY <1>2, <1>3, FetchedIs
  <2> HIDE DEF tail
  <2>4. ASSUME NEW i \in shown', NEW k \in shown', NEW j \in 1 .. n, i <= j, j <= k
        PROVE  j \in shown' \cup blank
    <3>1. j \in shown' \cup blank \cup fetched.torn
      BY <2>2, <2>3, <2>4
    <3>2. ASSUME j \in fetched.torn
          PROVE  FALSE
      <4>1. k < j /\ k \in Nat /\ j \in Nat
        BY <1>3, <2>2, <2>3, <3>2
      <4> QED
        BY <2>4, <4>1
    <3> QED
      BY <3>1, <3>2
  <2> QED
    BY <2>2, <2>3, <2>4
<1>5. HistoryTypes'
  BY <1>1, <1>3, <1>4 DEF HistoryTypes, TypeOK
<1>6. InOrder' /\ PageAgrees' /\ EndHasLines' /\ EndIsTheEnd'
  BY <1>1 DEF HistoryInv, InOrder, PageAgrees, EndHasLines, EndIsTheEnd, Until
<1>7. HolesAreNarrow'
  <2> DEFINE S == shown'
  <2>1. SUFFICES ASSUME S # {}, NEW i \in Min(S) .. Max(S)
                 PROVE  i \in S \cup blank
    BY <1>1 DEF HolesAreNarrow
  <2>2. Min(S) \in S /\ Max(S) \in S
    <3>1. S \subseteq 1 .. n /\ S \subseteq Nat
      BY <1>3, <1>4
    <3> HIDE DEF S
    <3> QED
      BY <1>3, <2>1, <3>1, MinIs, MaxIs
  <2> HIDE DEF S
  <2>3. Min(S) \in 1 .. n /\ Max(S) \in 1 .. n
    BY <1>4, <2>2 DEF S
  <2>4. i \in 1 .. n /\ Min(S) <= i /\ i <= Max(S)
    BY <1>3, <2>1, <2>3
  <2> QED
    BY <1>4, <2>2, <2>4 DEF S
<1> QED
  BY <1>5, <1>6, <1>7 DEF HistoryInv, ScrollsBackToTheStart

(* Whatever comes, the history agrees with what it was read from.          *)
LEMMA HistoryPreserved ==
  ASSUME TypeOK, HistoryInv, [Next]_vars
  PROVE  HistoryTypes' /\ HistoryInv'
<1>1. ASSUME UNCHANGED <<written, blank, shown, torn, end>>, UNCHANGED page \/ page' = None
      PROVE  HistoryTypes' /\ HistoryInv'
  BY <1>1 DEF HistoryTypes, TypeOK, HistoryInv, InOrder, PageAgrees, EndHasLines,
     ScrollsBackToTheStart, HolesAreNarrow, EndIsTheEnd, Oldest, Ms, Until
<1>2. CASE AskStream \/ StopLog \/ MarkersFail \/ UNCHANGED vars
  BY <1>1, <1>2 DEF AskStream, StopLog, MarkersFail, vars, history, lines
<1>3. ASSUME NEW f \in Follower, Attach(f) \/ PushLines(f) \/ FollowerEnds(f) \/ Close(f)
      PROVE  HistoryTypes' /\ HistoryInv'
  BY <1>1, <1>3 DEF Attach, PushLines, FollowerEnds, Close, history, lines
<1> QED
  BY <1>2, <1>3, WriteLinePreserves, LoadOlderPreserves, PageArrivesPreserves,
     OpeningPreserves DEF Next

-----------------------------------------------------------------------------
(* History and stream together                                             *)

(* What a page brings is older than all that is shown.                     *)
LEMMA PageIsBefore ==
  ASSUME TypeOK, HistoryInv, page # None, shown # {}, page.before = Oldest,
         NEW i \in page.lines, NEW j \in shown
  PROVE  i < j
<1>1. /\ Min(shown) \in 1 .. Len(written) /\ Min(shown) <= j
      /\ Oldest \in Nat /\ 2 * Oldest <= written[Min(shown)]
  BY ShownIs
<1>2. i \in Until(Oldest)
  BY DEF HistoryInv, PageAgrees
<1>3. i < Min(shown) /\ i \in 1 .. Len(written)
  BY <1>1, <1>2, OlderIsBefore DEF HistoryInv
<1>4. Len(written) \in Nat /\ j \in 1 .. Len(written)
  BY TypesAre
<1> QED
  BY <1>1, <1>3, <1>4

(* What the open stream is to print next stays new: a process begins after *)
(* all there is, and a page brings older lines only.                       *)
LEMMA NextIsNewPreserved ==
  ASSUME TypeOK, StreamInv, HistoryInv, NextIsNew, [Next]_vars
  PROVE  NextIsNew'
<1> DEFINE HasNext(g) == /\ follower[g].at \in {"following"} \cup Over
                         /\ follower[g].at \in Over => follower[g].next <= follower[g].last
<1>1. /\ follower \in [Follower -> Process] /\ Len(written) \in Nat
      /\ shown \subseteq 1 .. Len(written)
      /\ \A g \in Follower : follower[g].next \in Nat /\ follower[g].last \in Nat
  BY TypesAre DEF Process
<1>2. \A g \in Follower : logStreams = g /\ HasNext(g) => \A i \in shown : i < follower[g].next
  BY DEF NextIsNew
<1>3. SUFFICES ASSUME NEW g \in Follower, (logStreams = g)', HasNext(g)', NEW i \in shown'
               PROVE  i < follower'[g].next
  BY DEF NextIsNew
<1>4. ASSUME UNCHANGED <<follower, logStreams>>, i \in shown
      PROVE  i < follower'[g].next
  BY <1>2, <1>3, <1>4
<1>5. CASE WriteLine \/ AskStream \/ MarkersFail \/ (\E limit \in Limits : LoadOlder(limit))
             \/ UNCHANGED vars
  BY <1>3, <1>4, <1>5 DEF WriteLine, AskStream, MarkersFail, LoadOlder, vars, stream, history
<1>6. CASE StopLog
  BY <1>3, <1>6, LogAssumption DEF StopLog
<1>7. CASE PageArrives
  <2>1. UNCHANGED <<follower, logStreams>>
    BY <1>7 DEF PageArrives, stream
  <2>2. CASE i \in shown
    BY <1>4, <2>1, <2>2
  <2>3. CASE i \notin shown
    <3>1. page # None /\ shown # {} /\ page.before = Oldest /\ i \in page.lines
      BY <1>3, <1>7, <2>3 DEF PageArrives
    <3>2. PICK j \in shown : TRUE
      BY <3>1
    <3>3. i < j /\ j < follower[g].next
      BY <1>2, <1>3, <2>1, <3>1, <3>2, PageIsBefore
    <3>4. i \in 1 .. Len(written) /\ j \in 1 .. Len(written)
      <4>1. page.lines \subseteq DOMAIN written /\ DOMAIN written = 1 .. Len(written)
        BY <3>1, TypesAre DEF TypeOK
      <4> QED
        BY <1>1, <3>1, <3>2, <4>1
    <3> QED
      BY <1>1, <2>1, <3>3, <3>4
  <2> QED
    BY <2>2, <2>3
<1>8. ASSUME NEW f \in Follower, StreamContainerLog(f)
      PROVE  i < follower'[g].next
  BY <1>3, <1>8, OpensIs DEF Over
<1>9. ASSUME NEW f \in Follower, Attach(f) \/ PushLines(f) \/ FollowerEnds(f)
      PROVE  i < follower'[g].next
  <2>1. Becomes(f, follower'[f]) /\ UNCHANGED <<logStreams, shown>>
    BY <1>9, AttachIs, PushIs, EndsIs DEF Attach, PushLines, FollowerEnds, history
  <2>2. i \in shown /\ i \in Nat
    BY <1>1, <1>3, <2>1
  <2>3. CASE g # f
    BY <1>2, <1>3, <2>1, <2>2, <2>3 DEF Becomes
  <2>4. CASE g = f /\ Attach(f)
    <3>1. follower'[g].next = Len(written) + 1
      BY <2>4, AttachIs
    <3> QED
      BY <1>1, <2>2, <3>1
  <2>5. CASE g = f /\ PushLines(f)
    <3>1. HasNext(g) /\ follower'[g].next > follower[g].next
      BY <2>5, PushIs
    <3>2. i < follower[g].next /\ follower'[g].next \in Nat
      BY <1>2, <1>3, <2>1, <2>2, <2>5, <3>1 DEF Becomes, Process
    <3> QED
      BY <1>1, <2>2, <3>1, <3>2
  <2>6. CASE g = f /\ FollowerEnds(f)
    <3>1. /\ follower[g].at \in Running /\ follower'[g].at = "exited"
          /\ follower'[g].next = follower[g].next
          /\ follower[g].at = "starting" => follower'[g].last < follower'[g].next
      BY <2>6, EndsIs
    <3>2. follower'[g].next <= follower'[g].last
      BY <1>3, <3>1 DEF Over
    <3>3. follower'[g].next \in Nat /\ follower'[g].last \in Nat
      BY <2>1, <2>6 DEF Becomes, Process
    <3>4. follower[g].at = "following"
      BY <3>1, <3>2, <3>3 DEF Running
    <3> QED
      BY <1>2, <1>3, <2>1, <2>2, <3>1, <3>4 DEF Over
  <2> QED
    BY <1>9, <2>3, <2>4, <2>5, <2>6
<1>10. ASSUME NEW f \in Follower, Close(f)
       PROVE  i < follower'[g].next
  <2>1. Becomes(f, Free) /\ Free.at = "free" /\ UNCHANGED shown
    BY <1>10, CloseIs DEF Close, history
  <2>2. g # f
    BY <1>3, <2>1 DEF Becomes, Over
  <2>3. logStreams = g
    BY <1>3, <1>10, <2>2, LogAssumption DEF Close, EntryAfter
  <2> QED
    BY <1>2, <1>3, <2>1, <2>2, <2>3 DEF Becomes
<1> QED
  BY <1>5, <1>6, <1>7, <1>8, <1>9, <1>10 DEF Next

-----------------------------------------------------------------------------
(* The invariant                                                           *)

LEMMA InitInvariant == Init => IInv
<1>1. SUFFICES ASSUME Init
               PROVE  IInv
  OBVIOUS
<1>2. written = <<>> /\ Len(written) = 0 /\ written \in Seq(Nat) /\ blank = {}
  BY <1>1, EmptySeq DEF Init
<1>3. follower = [f \in Follower |-> Free] /\ logStreams = None /\ asked = 0
        /\ shown = {} /\ page = None /\ torn = {} /\ end = "open" /\ MaxAsked \in Nat
  BY <1>1, LogAssumption DEF Init
<1>4. stopped = FALSE
  BY <1>1 DEF Init
<1>5. TypeOK
  <2>1. follower \in [Follower -> [at : {"free"} \cup Running \cup Over, next : Nat, last : Nat]]
    BY <1>3 DEF Free
  <2>2. /\ logStreams \in Follower \cup {None} /\ asked \in 0 .. MaxAsked
        /\ blank \subseteq DOMAIN written /\ shown \subseteq DOMAIN written \ blank
        /\ torn \subseteq DOMAIN written /\ end \in {"open", "reached", "unknown"}
    BY <1>2, <1>3
  <2> QED
    BY <1>2, <1>3, <1>4, <2>1, <2>2, Zenon DEF TypeOK
<1>6. StreamInv
  BY <1>3, <1>4 DEF StreamInv, OnlyOpenStreamsRun, NoOrphan, StopHolds, StopIsLast,
     CountsFromOne, Free, Running
<1>7. HistoryInv /\ NextIsNew
  BY <1>2, <1>3 DEF HistoryInv, InOrder, PageAgrees, EndHasLines, ScrollsBackToTheStart,
     HolesAreNarrow, EndIsTheEnd, NextIsNew
<1> QED
  BY <1>5, <1>6, <1>7 DEF IInv

LEMMA StepPreserves ==
  ASSUME IInv, [Next]_vars
  PROVE  IInv'
<1>1. TypeOK /\ StreamInv /\ HistoryInv /\ NextIsNew
  BY DEF IInv
<1>2. StreamTypes' /\ StreamInv'
  BY <1>1, StreamsPreserved
<1>3. HistoryTypes' /\ HistoryInv'
  BY <1>1, HistoryPreserved
<1>4. stopped' \in BOOLEAN
  BY <1>1, FlagPreserved DEF TypeOK
<1>5. TypeOK'
  BY <1>2, <1>3, <1>4, Zenon DEF TypeOK, StreamTypes, HistoryTypes, Process, States
<1>6. NextIsNew'
  BY <1>1, NextIsNewPreserved
<1> QED
  BY <1>2, <1>3, <1>5, <1>6 DEF IInv

(* IInv holds in every reachable state, whatever the number of lines, of   *)
(* processes and of pages.                                                 *)
THEOREM Invariance == Spec => []IInv
<1>1. Init => IInv
  BY InitInvariant
<1>2. IInv /\ [Next]_vars => IInv'
  BY StepPreserves
<1> QED
  BY <1>1, <1>2, PTL DEF Spec

(* The variables have their types, and no answer to LOAD_OLDER_LOG holds   *)
(* more lines than loadOlderContainerLogs() lets it.                       *)
THEOREM TypeCorrect == Spec => []TypeOK
<1>1. IInv => TypeOK
  BY DEF IInv
<1> QED
  BY <1>1, Invariance, PTL

(* Whatever the order in which streams are opened, replaced and stopped,   *)
(* streamContainerLog() and stopContainerLog() leave no docker process     *)
(* that the map does not have, and none after STOP_LOG.                    *)
THEOREM NothingRunsOn == Spec => []OnlyOpenStreamsRun
<1>1. IInv => OnlyOpenStreamsRun
  BY DEF IInv, StreamInv
<1> QED
  BY <1>1, Invariance, PTL

(* Scrolling back by LOAD_OLDER_LOG skips only blank lines, lines within   *)
(* two milliseconds of a page's border and what a read that broke off left *)
(* out; a page that was read to its end, has no blank line and says that   *)
(* there is nothing more is right.                                         *)
THEOREM ScrollsBack == Spec => []ScrollsBackToTheStart
<1>1. IInv => ScrollsBackToTheStart
  BY DEF IInv, HistoryInv
<1> QED
  BY <1>1, Invariance, PTL

(* No line of the history is printed again by the process of the open      *)
(* stream.                                                                 *)
LEMMA StepDoesNotEcho ==
  ASSUME IInv, Next
  PROVE  NoEcho
<1>1. TypeOK /\ StreamInv /\ NextIsNew
  BY DEF IInv
<1>2. /\ shown \subseteq Nat
      /\ \A f \in Follower : follower[f].next \in Nat
  BY <1>1, TypesAre DEF Process
<1>3. SUFFICES ASSUME NEW f \in Follower, logStreams = f, follower[f].at = follower'[f].at
               PROVE  (follower[f].next .. follower'[f].next - 1) \cap shown = {}
  BY DEF NoEcho
<1>4. ASSUME follower'[f].next = follower[f].next
      PROVE  (follower[f].next .. follower'[f].next - 1) \cap shown = {}
  BY <1>2, <1>4
<1>5. CASE UNCHANGED follower
  BY <1>4, <1>5
<1>6. CASE StopLog
  BY <1>1, <1>4, <1>6, StoppedIs DEF StopLog
<1>7. ASSUME NEW g \in Follower, StreamContainerLog(g)
      PROVE  follower'[f].next = follower[f].next
  <2>1. PICK processes \in Stopped : follower' = [processes EXCEPT ![g].at = "starting"]
    BY <1>7 DEF StreamContainerLog
  <2>2. processes \in [Follower -> Process] /\ processes[f].next = follower[f].next
    BY <1>1, StoppedIs
  <2>3. follower'[f].next = processes[f].next
    BY <2>1, <2>2 DEF Process
  <2> QED
    BY <2>2, <2>3
<1>8. ASSUME NEW g \in Follower, Attach(g) \/ FollowerEnds(g) \/ Close(g)
      PROVE  follower'[f].next = follower[f].next
  <2>1. PICK k : Becomes(g, k) /\ k.at # follower[g].at
    BY <1>1, <1>8, AttachIs, EndsIs, CloseIs DEF Running, Over
  <2>2. f # g
    BY <1>3, <2>1 DEF Becomes
  <2> QED
    BY <2>1, <2>2 DEF Becomes
<1>9. ASSUME NEW g \in Follower, PushLines(g)
      PROVE  (follower[f].next .. follower'[f].next - 1) \cap shown = {}
  <2>1. CASE f # g
    BY <1>1, <1>4, <1>9, <2>1, PushIs DEF Becomes
  <2>2. CASE f = g
    <3>1. /\ follower[f].at \in {"following"} \cup Over
          /\ follower[f].at \in Over => follower[f].next <= follower[f].last
      BY <1>1, <1>9, <2>2, PushIs
    <3>2. \A i \in shown : i < follower[f].next
      BY <1>1, <1>3, <3>1 DEF NextIsNew
    <3> QED
      BY <1>2, <3>2
  <2> QED
    BY <2>1, <2>2
<1> QED
  BY <1>4, <1>5, <1>6, <1>7, <1>8, <1>9 DEF Next, WriteLine, AskStream, PageArrives,
     MarkersFail, LoadOlder, stream

(* No page repeats a line that the Hub has.                                *)
LEMMA StepShowsNewLines ==
  ASSUME IInv, Next
  PROVE  PagesDisjoint
<1>1. TypeOK /\ HistoryInv
  BY DEF IInv
<1>2. CASE UNCHANGED shown \/ UNCHANGED page
  BY <1>2 DEF PagesDisjoint
<1>3. CASE PageArrives
  <2>1. SUFFICES ASSUME shown' # shown, page # None
                 PROVE  page.lines \cap shown = {}
    BY DEF PagesDisjoint
  <2>2. shown # {} /\ page.before = Oldest
    BY <1>3, <2>1 DEF PageArrives
  <2>3. \A i \in page.lines : \A j \in shown : i < j
    BY <1>1, <2>1, <2>2, PageIsBefore
  <2>4. ASSUME NEW i \in page.lines \cap shown
        PROVE  FALSE
    <3>1. i \in Nat /\ i < i
      BY <1>1, <2>3, TypesAre
    <3> QED
      BY <3>1
  <2> QED
    BY <2>4
<1>4. Next => PageArrives \/ UNCHANGED shown \/ UNCHANGED page
  BY DEF Next, WriteLine, AskStream, StopLog, MarkersFail, LoadOlder, StreamContainerLog,
     Attach, PushLines, FollowerEnds, Close, history
<1> QED
  BY <1>2, <1>3, <1>4

(* No line is shown twice: not by the process of the open stream, which    *)
(* begins after the history (--tail 0), and not by a page, although lines  *)
(* share their milliseconds and docker's --until includes its bound.       *)
THEOREM NoLineTwice == Spec => ShownOnce
<1>1. IInv /\ [Next]_vars => [NoEcho /\ PagesDisjoint]_vars
  BY StepDoesNotEcho, StepShowsNewLines
<1> QED
  BY <1>1, Invariance, PTL DEF Spec, ShownOnce
=============================================================================
