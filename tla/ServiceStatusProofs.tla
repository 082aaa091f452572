------------------------ MODULE ServiceStatusProofs ------------------------
(* What the Hub is told about the services, for any number of services, of *)
(* commands that run at the same time, and of Docker events under way.     *)
EXTENDS ServiceStatus, FiniteSetTheorems, SequenceTheorems,
        WellFoundedInduction, TLAPS

(* A set of numbers that is not empty has a least one.                     *)
LEMMA LeastExists ==
  ASSUME NEW T, T \subseteq Nat, T # {}
  PROVE  \E m \in T : \A y \in T : m <= y
<1> DEFINE R == OpToRel(<, Nat)
<1>1. IsWellFoundedOn(R, Nat)
  BY NatLessThanWellFounded, Zenon
<1>2. \A x, y \in Nat : x < y => <<x, y>> \in R
  BY DEF OpToRel
<1> HIDE DEF R
<1>3. PICK x \in T : \A y \in T : ~ (<<y, x>> \in R)
  BY <1>1, WFMin
<1>4. ASSUME NEW y \in T
      PROVE  x <= y
  <2>1. x \in Nat /\ y \in Nat /\ ~(y < x)
    BY <1>2, <1>3
  <2> QED
    BY <2>1
<1> QED
  BY <1>4

LEMMA MinIs ==
  ASSUME NEW T, T \subseteq Nat, T # {}
  PROVE  Min(T) \in T /\ \A y \in T : Min(T) <= y
BY LeastExists DEF Min

-----------------------------------------------------------------------------
States  == Up \cup {"absent", "created", "exited", "crashed", "removing"}
Shots   == {"none", "gone", "building", "starting", "running", "stopped", "failed", "removed"}
Command == [at : Waits, cmd : AllCommands, svc : Service,
            res : {"pending", "ok", "err", "up", "down"}]

(* The agent knows s and has heard, or will hear, of all that happened.    *)
Settled(s) == Known(s) /\ s \notin ToSet(events)

(* A command that has begun to say what it is doing.                       *)
Doing(x, s, cmds) == x # Idle /\ x.at # "marker" /\ x.svc = s /\ x.cmd \in cmds
UnderWay(s, cmds) == \E h \in Handler : Doing(handler[h], s, cmds)

(* A snapshot that Docker would not confirm is that of a deploy under way, *)
(* or was left by a failed deploy or a DELETE.                             *)
Follows(s) ==
  Settled(s) =>
    \/ Agrees(s)
    \/ /\ snapshot[s] \in {"building", "gone"}
       /\ hubStatus[s] \in {"failed", "removed"} \/ UnderWay(s, {"DEPLOY"})

Earned(s) ==
  Settled(s) /\ hubStatus[s] = "running" => Seen(s) \in {"running", "gone"}

(* A status of progress is that of a command under way, or was left by one *)
(* that a restart of the agent cut off.                                    *)
Moving(s) ==
  hubStatus[s] \in {"building", "restarting"} =>
    \/ UnderWay(s, {"DEPLOY", "START"})
    \/ restarts > 0 /\ (s \in ToSet(tracked) => snapshot[s] = "gone")

(* Who runs a command is in the map, and only a DELETE forgets.            *)
CommandsTracked ==
  \A h \in Handler : handler[h] # Idle =>
    /\ handler[h].at # "marker" => handler[h].svc \in ToSet(tracked)
    /\ handler[h].at = "forget" => handler[h].cmd \in Deletes

StatusInv == \A s \in Service : Follows(s) /\ Earned(s) /\ Moving(s)

IInv == TypeOK /\ CommandsTracked /\ StatusInv

-----------------------------------------------------------------------------
(* Sequences as sets                                                       *)

LEMMA MembersAre ==
  ASSUME NEW S, NEW q \in Seq(S)
  PROVE  /\ ToSet(q) \subseteq S
         /\ IsFiniteSet(ToSet(q)) /\ Cardinality(ToSet(q)) \in Nat
<1>1. Len(q) \in Nat /\ DOMAIN q = 1 .. Len(q) /\ q \in [1 .. Len(q) -> S]
  BY LenProperties
<1>2. q \in Surjection(1 .. Len(q), ToSet(q))
  BY <1>1 DEF ToSet, Surjection
<1>3. IsFiniteSet(1 .. Len(q))
  BY FS_Interval
<1>4. ToSet(q) \subseteq S
  BY <1>1 DEF ToSet
<1> QED
  BY <1>2, <1>3, <1>4, FS_Surjection, FS_CardinalityType

LEMMA AppendAdds ==
  ASSUME NEW S, NEW q \in Seq(S), NEW e \in S
  PROVE  /\ Append(q, e) \in Seq(S) /\ Len(Append(q, e)) = Len(q) + 1
         /\ ToSet(Append(q, e)) = ToSet(q) \cup {e}
<1> DEFINE a == Append(q, e)
           n == Len(q)
<1>1. /\ a \in Seq(S) /\ Len(a) = n + 1 /\ a[n + 1] = e
      /\ \A i \in 1 .. n : a[i] = q[i]
  BY AppendProperties
<1>2. n \in Nat /\ DOMAIN q = 1 .. n /\ DOMAIN a = 1 .. n + 1
  BY <1>1, LenProperties
<1> HIDE DEF a
<1>3. \A i \in 1 .. n + 1 : i \in 1 .. n \/ i = n + 1
  BY <1>2
<1>4. ToSet(a) = ToSet(q) \cup {e}
  BY <1>1, <1>2, <1>3 DEF ToSet
<1> QED
  BY <1>1, <1>4 DEF a

LEMMA TailLoses ==
  ASSUME NEW S, NEW q \in Seq(S), q # <<>>
  PROVE  /\ Head(q) \in S /\ Tail(q) \in Seq(S) /\ Len(Tail(q)) = Len(q) - 1
         /\ ToSet(q) = {Head(q)} \cup ToSet(Tail(q))
<1> DEFINE t == Tail(q)
           n == Len(q)
<1>1. /\ Head(q) \in S /\ t \in Seq(S) /\ Len(t) = n - 1 /\ Head(q) = q[1]
      /\ \A i \in 1 .. n - 1 : t[i] = q[i + 1]
  BY HeadTailProperties
<1>2. n \in Nat \ {0} /\ DOMAIN q = 1 .. n /\ DOMAIN t = 1 .. n - 1
  BY <1>1, LenProperties, EmptySeq
<1> HIDE DEF t
<1>3. ASSUME NEW i \in 1 .. n
      PROVE  q[i] \in {Head(q)} \cup ToSet(t)
  <2>1. CASE i = 1
    BY <1>1, <2>1
  <2>2. CASE i # 1
    <3>1. i - 1 \in 1 .. n - 1 /\ i = (i - 1) + 1
      BY <1>2, <2>2
    <3>2. t[i - 1] = q[i]
      BY <1>1, <3>1
    <3> QED
      BY <1>2, <3>1, <3>2 DEF ToSet
  <2> QED
    BY <2>1, <2>2
<1>4. \A i \in 1 .. n - 1 : t[i] \in ToSet(q)
  BY <1>1, <1>2 DEF ToSet
<1>5. q[1] \in ToSet(q)
  BY <1>2 DEF ToSet
<1>6. ToSet(q) = {Head(q)} \cup ToSet(t)
  BY <1>1, <1>2, <1>3, <1>4, <1>5 DEF ToSet
<1> QED
  BY <1>1, <1>6 DEF t

LEMMA CutSplits ==
  ASSUME NEW S, NEW q \in Seq(S), NEW k \in Nat, k <= Len(q)
  PROVE  /\ SubSeq(q, k + 1, Len(q)) \in Seq(S)
         /\ Len(SubSeq(q, k + 1, Len(q))) <= Len(q)
         /\ ToSet(SubSeq(q, 1, k)) \subseteq S
         /\ ToSet(q) = ToSet(SubSeq(q, 1, k)) \cup ToSet(SubSeq(q, k + 1, Len(q)))
<1> DEFINE n == Len(q)
           a == SubSeq(q, 1, k)
           b == SubSeq(q, k + 1, n)
<1>1. n \in Nat /\ DOMAIN q = 1 .. n /\ \A i \in 1 .. n : q[i] \in S
  BY LenProperties, ElementOfSeq
<1>2. a \in Seq(S) /\ Len(a) = k /\ \A i \in 1 .. k : a[i] = q[i]
  <2>1. 1 \in Int /\ k \in Int /\ \A i \in 1 .. k : q[i] \in S
    BY <1>1
  <2>2. /\ a \in Seq(S)
        /\ Len(a) = IF 1 <= k THEN k - 1 + 1 ELSE 0
        /\ \A i \in 1 .. k - 1 + 1 : a[i] = q[1 + i - 1]
    BY <2>1, SubSeqProperties
  <2>3. Len(a) = k /\ 1 .. k - 1 + 1 = 1 .. k /\ \A i \in 1 .. k : 1 + i - 1 = i
    BY <2>2
  <2> QED
    BY <2>2, <2>3
<1>3. b \in Seq(S) /\ Len(b) = n - k /\ \A i \in 1 .. n - k : b[i] = q[k + i]
  <2>1. k + 1 \in Int /\ n \in Int /\ \A i \in k + 1 .. n : q[i] \in S
    BY <1>1
  <2>2. /\ b \in Seq(S)
        /\ Len(b) = IF k + 1 <= n THEN n - (k + 1) + 1 ELSE 0
        /\ \A i \in 1 .. n - (k + 1) + 1 : b[i] = q[(k + 1) + i - 1]
    BY <2>1, SubSeqProperties
  <2>3. n - (k + 1) + 1 = n - k /\ (k + 1 <= n \/ (~(k + 1 <= n) /\ n - k = 0))
    <3> SUFFICES ASSUME NEW m \in Nat, k <= m
                 PROVE  m - (k + 1) + 1 = m - k /\ (k + 1 <= m \/ (~(k + 1 <= m) /\ m - k = 0))
      BY <1>1
    <3> QED
      OBVIOUS
  <2>4. Len(b) = n - k
    BY <2>2, <2>3, Zenon
  <2>5. \A i \in 1 .. n - k : (k + 1) + i - 1 = k + i
    BY <1>1
  <2> QED
    BY <2>2, <2>3, <2>4, <2>5
<1>4. DOMAIN a = 1 .. k /\ DOMAIN b = 1 .. n - k
  BY <1>2, <1>3, LenProperties
<1> HIDE DEF a, b
<1>5. ASSUME NEW i \in 1 .. n
      PROVE  q[i] \in ToSet(a) \cup ToSet(b)
  <2>1. CASE i <= k
    BY <1>1, <1>2, <1>4, <2>1 DEF ToSet
  <2>2. CASE i > k
    <3>1. i - k \in 1 .. n - k /\ k + (i - k) = i
      BY <1>1, <2>2
    <3> QED
      BY <1>3, <1>4, <3>1 DEF ToSet
  <2> QED
    BY <1>1, <2>1, <2>2
<1>6. \A i \in 1 .. k : a[i] \in ToSet(q)
  BY <1>1, <1>2 DEF ToSet
<1>7. \A i \in 1 .. n - k : b[i] \in ToSet(q)
  BY <1>1, <1>3 DEF ToSet
<1>8. ToSet(q) = ToSet(a) \cup ToSet(b)
  BY <1>1, <1>4, <1>5, <1>6, <1>7 DEF ToSet
<1>9. ToSet(a) \subseteq S
  BY <1>2, MembersAre
<1>10. n - k <= n
  BY <1>1
<1> QED
  BY <1>3, <1>8, <1>9, <1>10 DEF a, b

-----------------------------------------------------------------------------
(* Types                                                                   *)

DockerTypes ==
  /\ container \in [Service -> States] /\ image \subseteq Service
  /\ workdir \subseteq Service
  /\ events \in Seq(Service) /\ Len(events) <= MaxEvents

ToldTypes ==
  /\ tracked \in Seq(Service) /\ Len(tracked) = Cardinality(ToSet(tracked))
  /\ snapshot \in [Service -> Shots]
  /\ hubStatus \in [Service -> Statuses \cup {"none"}]
  /\ missed \subseteq Service

HandlerTypes == handler \in [Handler -> {Idle} \cup Command]

LEMMA TypesAre ==
  TypeOK <=> DockerTypes /\ ToldTypes /\ HandlerTypes /\ restarts \in 0 .. MaxRestarts
BY DEF TypeOK, DockerTypes, ToldTypes, HandlerTypes, Command, States, Shots

(* A slot that waits for something has a command.                          *)
LEMMA WaitingIs ==
  ASSUME TypeOK, NEW h \in Handler, handler[h].at \in Waits
  PROVE  /\ handler[h] # Idle /\ handler[h] \in Command
         /\ handler[h].svc \in Service /\ handler[h].cmd \in AllCommands
<1>1. handler[h] \in {Idle} \cup Command
  BY TypesAre DEF HandlerTypes
<1>2. handler[h] # Idle
  BY DEF Idle, Waits
<1> QED
  BY <1>1, <1>2 DEF Command

LEMMA SeenIs ==
  ASSUME DockerTypes, NEW s \in Service
  PROVE  /\ Seen(s) \in {"gone", "starting", "running", "stopped", "failed", "removed"}
         /\ MaySee(s) \subseteq {"gone", "starting", "running", "stopped", "failed", "removed"}
<1>1. container[s] \in States
  BY DEF DockerTypes
<1>2. \A known \in BOOLEAN :
        Normalized(container[s], known) \in
          {"gone", "starting", "running", "stopped", "failed", "removed"}
  BY <1>1 DEF Normalized, States, Up
<1>3. Seen(s) \in {"gone", "starting", "running", "stopped", "failed", "removed"}
  BY <1>1 DEF Seen, Normalized, States, Up
<1> QED
  BY <1>2, <1>3 DEF MaySee

(* A look that finds the container finds it as it is, but for an exit code *)
(* that docker ps does not know.                                           *)
LEMMA FoundIs ==
  ASSUME DockerTypes, NEW s \in Service, NEW seen \in MaySee(s)
  PROVE  /\ seen = "gone" \/ seen = Seen(s)
            \/ (s \in ComposeBuilt /\ container[s] = "crashed" /\ seen \in {"stopped", "failed"})
         /\ seen = "running" => Seen(s) = "running"
<1>1. container[s] \in States
  BY DEF DockerTypes
<1>2. CASE seen \in {Seen(s), "gone"}
  <2>1. seen = "gone" \/ seen = Seen(s)
    BY <1>2
  <2> QED
    BY <2>1
<1>3. CASE s \in ComposeBuilt /\ seen = Normalized(container[s], FALSE)
  <2>1. Seen(s) = Normalized(container[s], s \in workdir)
    BY <1>3, ServiceAssumption DEF Seen
  <2>2. CASE container[s] = "crashed"
    BY <1>3, <2>2 DEF Normalized
  <2>3. CASE container[s] # "crashed"
    <3>1. Seen(s) = seen
      BY <1>1, <1>3, <2>1, <2>3 DEF Normalized, States, Up
    <3> QED
      BY <3>1
  <2> QED
    BY <2>2, <2>3
<1> QED
  BY <1>2, <1>3 DEF MaySee

LEMMA TracksOne ==
  ASSUME ToldTypes, NEW s \in Service, Track(s)
  PROVE  /\ tracked' \in Seq(Service) /\ Len(tracked') = Cardinality(ToSet(tracked'))
         /\ ToSet(tracked') = ToSet(tracked) \cup {s}
<1>1. tracked \in Seq(Service) /\ Len(tracked) = Cardinality(ToSet(tracked))
  BY DEF ToldTypes
<1>2. CASE s \in ToSet(tracked)
  BY <1>1, <1>2 DEF Track
<1>3. CASE s \notin ToSet(tracked)
  <2>1. tracked' = Append(tracked, s)
    BY <1>3 DEF Track
  <2>2. /\ tracked' \in Seq(Service) /\ Len(tracked') = Len(tracked) + 1
        /\ ToSet(tracked') = ToSet(tracked) \cup {s}
    BY <1>1, <2>1, AppendAdds
  <2>3. IsFiniteSet(ToSet(tracked))
    BY <1>1, MembersAre
  <2>4. Cardinality(ToSet(tracked) \cup {s}) = Cardinality(ToSet(tracked)) + 1
    BY <1>3, <2>3, FS_AddElement
  <2> QED
    BY <1>1, <2>2, <2>4
<1> QED
  BY <1>2, <1>3

-----------------------------------------------------------------------------
(* What a step does to one service                                         *)

Status(s) == Follows(s) /\ Earned(s) /\ Moving(s)
Pending(s) == s \in missed \/ s \in ToSet(events)
InProgress == {"DEPLOY", "START"}

(* Nothing is said of s, and what happens to its container is not lost.    *)
Untold(s) ==
  /\ s \in ToSet(tracked') <=> s \in ToSet(tracked)
  /\ snapshot'[s] = snapshot[s] /\ hubStatus'[s] = hubStatus[s] /\ restarts' = restarts
  /\ s \in ToSet(tracked) /\ Pending(s) => Pending(s)'
  /\ container'[s] = container[s] \/ Pending(s)'
  /\ UnderWay(s, {"DEPLOY"}) => UnderWay(s, {"DEPLOY"})'
  /\ UnderWay(s, InProgress) => UnderWay(s, InProgress)'

(* The containers of s are looked at, after said was sent.                 *)
Looked(s, seen, said) ==
  /\ s \in ToSet(tracked')
  /\ container'[s] = container[s] /\ (s \in workdir' <=> s \in workdir)
  /\ restarts' = restarts
  /\ snapshot'[s] = seen
  /\ hubStatus'[s] = IF seen = "gone" THEN said ELSE Aggregate(seen)
  /\ seen = "gone" /\ Seen(s) # "gone" => s \in missed'
  /\ \/ said \in {"running", "stopped", "failed"}
     \/ said = hubStatus[s] /\ (UnderWay(s, InProgress) => UnderWay(s, InProgress)')

LEMMA SeesTheSame ==
  ASSUME NEW s \in Service, DockerTypes, container'[s] = container[s]
  PROVE  /\ snapshot'[s] = snapshot[s] /\ Agrees(s) => Agrees(s)'
         /\ Seen(s) \in {"running", "gone"} => Seen(s)' \in {"running", "gone"}
         /\ (s \in workdir' <=> s \in workdir) => Seen(s)' = Seen(s)
<1>1. container[s] \in States
  BY DEF DockerTypes
<1>2. CASE s \in ComposeBuilt /\ container[s] = "crashed"
  <2>2. Seen(s) \in {"stopped", "failed"}
    BY <1>2, ServiceAssumption DEF Seen, Normalized
  <2>3. Agrees(s) => snapshot[s] \in {"stopped", "failed"}
    BY <2>2 DEF Agrees
  <2>4. snapshot'[s] \in {"stopped", "failed"} => Agrees(s)'
    BY <1>2 DEF Agrees
  <2>5. (s \in workdir' <=> s \in workdir) => Seen(s)' = Seen(s)
    BY <1>2 DEF Seen, Normalized
  <2> QED
    BY <2>2, <2>3, <2>4, <2>5
<1>3. CASE ~(s \in ComposeBuilt /\ container[s] = "crashed")
  <2>1. Seen(s)' = Seen(s)
    BY <1>1, <1>3 DEF Seen, Normalized, States, Up
  <2> QED
    BY <1>3, <2>1 DEF Agrees
<1> QED
  BY <1>2, <1>3

LEMMA UntoldKeeps ==
  ASSUME NEW s \in Service, DockerTypes, Status(s), Untold(s)
  PROVE  Status(s)'
<1>1. Follows(s)'
  <2>1. SUFFICES ASSUME Settled(s)'
                 PROVE  (\/ Agrees(s)
                         \/ /\ snapshot[s] \in {"building", "gone"}
                            /\ hubStatus[s] \in {"failed", "removed"} \/ UnderWay(s, {"DEPLOY"}))'
    BY DEF Follows
  <2>2. s \in ToSet(tracked) /\ ~Pending(s) /\ container'[s] = container[s]
    BY <2>1 DEF Settled, Known, Pending, Untold
  <2>3. Settled(s)
    BY <2>2 DEF Settled, Known, Pending
  <2>4. CASE Agrees(s)
    BY <2>2, <2>4, SeesTheSame DEF Untold
  <2>5. CASE ~Agrees(s)
    BY <2>3, <2>5 DEF Status, Follows, Untold
  <2> QED
    BY <2>4, <2>5
<1>2. Earned(s)'
  <2>1. SUFFICES ASSUME Settled(s)', hubStatus'[s] = "running"
                 PROVE  Seen(s)' \in {"running", "gone"}
    BY DEF Earned
  <2>2. s \in ToSet(tracked) /\ ~Pending(s) /\ container'[s] = container[s]
    BY <2>1 DEF Settled, Known, Pending, Untold
  <2>3. Settled(s) /\ hubStatus[s] = "running"
    BY <2>1, <2>2 DEF Settled, Known, Pending, Untold
  <2> QED
    BY <2>2, <2>3, SeesTheSame DEF Status, Earned
<1>3. Moving(s)'
  BY DEF Status, Moving, Untold, InProgress
<1> QED
  BY <1>1, <1>2, <1>3 DEF Status

LEMMA LookedKeeps ==
  ASSUME NEW s \in Service, NEW seen \in MaySee(s), NEW said, DockerTypes,
         restarts \in Nat, Status(s), Looked(s, seen, said)
  PROVE  Status(s)'
<1>1. Seen(s)' = Seen(s)
  BY SeesTheSame DEF Looked
<1>2. seen \in {"gone", "starting", "running", "stopped", "failed", "removed"}
  BY SeenIs
<1>3. Follows(s)'
  <2>1. SUFFICES ASSUME Settled(s)'
                 PROVE  Agrees(s)'
    BY DEF Follows
  <2>2. seen = "gone" => Seen(s) = "gone"
    BY <2>1 DEF Looked, Settled, Known
  <2>3. container'[s] = container[s] /\ snapshot'[s] = seen
    BY DEF Looked
  <2>4. \/ seen = Seen(s)
        \/ s \in ComposeBuilt /\ container[s] = "crashed" /\ seen \in {"stopped", "failed"}
    BY <2>2, FoundIs
  <2> QED
    BY <1>1, <2>3, <2>4 DEF Agrees
<1>4. Earned(s)'
  <2>1. SUFFICES ASSUME Settled(s)', hubStatus'[s] = "running"
                 PROVE  Seen(s) \in {"running", "gone"}
    BY <1>1 DEF Earned
  <2>2. CASE seen = "gone"
    BY <2>1, <2>2 DEF Looked, Settled, Known
  <2>3. CASE seen # "gone"
    <3>1. seen = "running"
      BY <1>2, <2>1, <2>3 DEF Looked, Aggregate
    <3> QED
      BY <3>1, FoundIs
  <2> QED
    BY <2>2, <2>3
<1>5. Moving(s)'
  <2>1. SUFFICES ASSUME hubStatus'[s] \in {"building", "restarting"}
                 PROVE  (\/ UnderWay(s, {"DEPLOY", "START"})
                         \/ restarts > 0 /\ (s \in ToSet(tracked) => snapshot[s] = "gone"))'
    BY DEF Moving
  <2>2. /\ seen = "gone" /\ hubStatus'[s] = hubStatus[s]
        /\ UnderWay(s, InProgress) => UnderWay(s, InProgress)'
    BY <1>2, <2>1 DEF Looked, Aggregate
  <2>3. UnderWay(s, InProgress) \/ restarts > 0
    BY <2>1, <2>2 DEF Status, Moving, InProgress
  <2>4. snapshot'[s] = "gone" /\ restarts' = restarts
    BY <2>2 DEF Looked
  <2> QED
    BY <2>2, <2>3, <2>4 DEF InProgress
<1> QED
  BY <1>3, <1>4, <1>5 DEF Status

-----------------------------------------------------------------------------
(* What a step does to the handlers                                        *)

(* Slot h goes on to x, which has its service in the map.                  *)
TakesUp(h, x) ==
  /\ x \in {Idle} \cup Command
  /\ handler' = [handler EXCEPT ![h] = x]
  /\ ToSet(tracked) \subseteq ToSet(tracked')
  /\ x # Idle =>
       /\ x.at # "marker" => x.svc \in ToSet(tracked')
       /\ x.at = "forget" => x.cmd \in Deletes

(* The command of slot h goes on to where at says.                         *)
GoesOn(h, at) ==
  \E x \in Command :
    /\ handler' = [handler EXCEPT ![h] = x]
    /\ x.at = at /\ x.cmd = handler[h].cmd /\ x.svc = handler[h].svc

LEMMA TakesUpKeeps ==
  ASSUME HandlerTypes, CommandsTracked, NEW h \in Handler, NEW x, TakesUp(h, x)
  PROVE  /\ HandlerTypes' /\ CommandsTracked'
         /\ handler'[h] = x /\ \A k \in Handler \ {h} : handler'[k] = handler[k]
<1>1. handler'[h] = x /\ \A k \in Handler \ {h} : handler'[k] = handler[k]
  BY DEF HandlerTypes, TakesUp
<1>2. HandlerTypes'
  BY DEF HandlerTypes, TakesUp
<1>3. ASSUME NEW k \in Handler, handler'[k] # Idle
      PROVE  /\ handler'[k].at # "marker" => handler'[k].svc \in ToSet(tracked')
             /\ handler'[k].at = "forget" => handler'[k].cmd \in Deletes
  <2>1. CASE k = h
    BY <1>1, <1>3, <2>1 DEF TakesUp
  <2>2. CASE k # h
    BY <1>1, <1>3, <2>2 DEF TakesUp, CommandsTracked
  <2> QED
    BY <2>1, <2>2
<1> QED
  BY <1>1, <1>2, <1>3 DEF CommandsTracked

LEMMA StillUnderWay ==
  ASSUME NEW h \in Handler, NEW s, NEW cmds, UnderWay(s, cmds),
         \A k \in Handler \ {h} : handler'[k] = handler[k],
         Doing(handler[h], s, cmds) => Doing(handler[h], s, cmds)'
  PROVE  UnderWay(s, cmds)'
<1>1. PICK k \in Handler : Doing(handler[k], s, cmds)
  BY DEF UnderWay
<1>2. Doing(handler'[k], s, cmds)
  <2>1. CASE k = h
    BY <1>1, <2>1 DEF Doing
  <2>2. CASE k # h
    BY <1>1, <2>2
  <2> QED
    BY <2>1, <2>2
<1> QED
  BY <1>2 DEF UnderWay

LEMMA ResumeGoesOn ==
  ASSUME HandlerTypes, NEW h \in Handler, handler[h] \in Command,
         NEW at \in Waits, Resume(h, at)
  PROVE  GoesOn(h, at)
<1> DEFINE x == [[handler[h] EXCEPT !.at = at] EXCEPT !.res = "pending"]
<1>1. x \in Command /\ x.at = at /\ x.cmd = handler[h].cmd /\ x.svc = handler[h].svc
  BY DEF Command
<1>2. handler' = [handler EXCEPT ![h] = x]
  BY DEF Resume, HandlerTypes
<1> QED
  BY <1>1, <1>2 DEF GoesOn

LEMMA AnswerGoesOn ==
  ASSUME HandlerTypes, NEW h \in Handler, handler[h] \in Command,
         NEW res \in {"pending", "ok", "err", "up", "down"}, Answer(h, res)
  PROVE  GoesOn(h, handler[h].at)
<1> DEFINE x == [handler[h] EXCEPT !.res = res]
<1>1. /\ x \in Command /\ x.at = handler[h].at
      /\ x.cmd = handler[h].cmd /\ x.svc = handler[h].svc
  BY DEF Command
<1>2. handler' = [handler EXCEPT ![h] = x]
  BY DEF Answer, HandlerTypes
<1> QED
  BY <1>1, <1>2 DEF GoesOn

LEMMA GoesOnKeeps ==
  ASSUME HandlerTypes, CommandsTracked, NEW h \in Handler, handler[h] \in Command,
         handler[h] # Idle, NEW at \in Waits \ {"marker"}, GoesOn(h, at),
         at = "forget" => handler[h].cmd \in Deletes,
         ToSet(tracked) \subseteq ToSet(tracked'),
         handler[h].svc \in ToSet(tracked')
  PROVE  /\ HandlerTypes' /\ CommandsTracked'
         /\ \A s, cmds : UnderWay(s, cmds) => UnderWay(s, cmds)'
         /\ \A s, cmds : s = handler[h].svc /\ handler[h].cmd \in cmds => UnderWay(s, cmds)'
<1>1. PICK x \in Command :
        /\ handler' = [handler EXCEPT ![h] = x]
        /\ x.at = at /\ x.cmd = handler[h].cmd /\ x.svc = handler[h].svc
  BY DEF GoesOn
<1>2. TakesUp(h, x)
  BY <1>1 DEF TakesUp
<1>3. /\ HandlerTypes' /\ CommandsTracked'
      /\ handler'[h] = x /\ \A k \in Handler \ {h} : handler'[k] = handler[k]
  BY <1>2, TakesUpKeeps
<1>4. x # Idle
  <2>1. x.at # "idle"
    BY <1>1 DEF Waits
  <2> QED
    BY <2>1 DEF Idle
<1>5. \A s, cmds : handler[h].svc = s /\ handler[h].cmd \in cmds => Doing(handler[h], s, cmds)'
  BY <1>1, <1>3, <1>4 DEF Doing
<1>6. ASSUME NEW s, NEW cmds, UnderWay(s, cmds)
      PROVE  UnderWay(s, cmds)'
  <2>1. Doing(handler[h], s, cmds) => Doing(handler[h], s, cmds)'
    BY <1>5 DEF Doing
  <2> QED
    BY <1>3, <1>6, <2>1, StillUnderWay
<1>7. ASSUME NEW s, NEW cmds, s = handler[h].svc, handler[h].cmd \in cmds
      PROVE  UnderWay(s, cmds)'
  BY <1>5, <1>7 DEF UnderWay
<1> QED
  BY <1>3, <1>6, <1>7

LEMMA FinishKeeps ==
  ASSUME HandlerTypes, CommandsTracked, NEW h \in Handler, Finish(h),
         ToSet(tracked) \subseteq ToSet(tracked')
  PROVE  /\ HandlerTypes' /\ CommandsTracked'
         /\ \A s, cmds : UnderWay(s, cmds) /\ ~Doing(handler[h], s, cmds) => UnderWay(s, cmds)'
<1>1. TakesUp(h, Idle)
  BY DEF TakesUp, Finish
<1>2. HandlerTypes' /\ CommandsTracked' /\ \A k \in Handler \ {h} : handler'[k] = handler[k]
  BY <1>1, TakesUpKeeps
<1>3. ASSUME NEW s, NEW cmds, UnderWay(s, cmds), ~Doing(handler[h], s, cmds)
      PROVE  UnderWay(s, cmds)'
  BY <1>2, <1>3, StillUnderWay
<1> QED
  BY <1>2, <1>3

LEMMA Whole ==
  ASSUME DockerTypes', ToldTypes', HandlerTypes', restarts' \in 0 .. MaxRestarts,
         CommandsTracked', \A s \in Service : Status(s)'
  PROVE  IInv'
<1>1. TypeOK'
  BY DEF TypeOK, DockerTypes, ToldTypes, HandlerTypes, Command, States, Shots
<1>2. StatusInv'
  BY DEF StatusInv, Status
<1> QED
  BY <1>1, <1>2 DEF IInv

LEMMA Parts ==
  ASSUME IInv
  PROVE  /\ DockerTypes /\ ToldTypes /\ HandlerTypes /\ restarts \in 0 .. MaxRestarts
         /\ restarts \in Nat /\ TypeOK /\ CommandsTracked
         /\ \A s \in Service : Status(s)
<1>1. MaxRestarts \in Nat
  BY ServiceAssumption
<1>2. DockerTypes /\ ToldTypes /\ HandlerTypes /\ restarts \in 0 .. MaxRestarts
  BY TypesAre DEF IInv
<1>3. restarts \in Nat
  BY <1>1, <1>2
<1> QED
  BY <1>2, <1>3 DEF IInv, StatusInv, Status

-----------------------------------------------------------------------------
(* Steps of which the Hub hears nothing                                    *)

Advances(h, at) ==
  /\ handler[h].at \in Waits \ {"marker"} /\ at \in Waits \ {"marker"}
  /\ at = "forget" => handler[h].cmd \in Deletes
  /\ GoesOn(h, at)

LEMMA UntoldStep ==
  ASSUME IInv, UNCHANGED <<tracked, snapshot, hubStatus, restarts>>, missed' \subseteq Service,
         DockerTypes', NEW h, NEW at,
         UNCHANGED handler \/ (h \in Handler /\ Advances(h, at)),
         \A s \in Service : Pending(s) => Pending(s)',
         \A s \in Service : container'[s] = container[s] \/ Pending(s)'
  PROVE  IInv'
<1>1. ToldTypes'
  BY Parts DEF ToldTypes
<1>2. restarts' \in 0 .. MaxRestarts
  BY Parts
<1>3. HandlerTypes' /\ CommandsTracked' /\ \A s, cmds : UnderWay(s, cmds) => UnderWay(s, cmds)'
  <2>1. CASE UNCHANGED handler
    BY <2>1, Parts DEF HandlerTypes, CommandsTracked, UnderWay
  <2>2. CASE h \in Handler /\ Advances(h, at)
    <3>1. /\ handler[h] # Idle /\ handler[h] \in Command
          /\ handler[h].svc \in Service /\ handler[h].at # "marker"
      BY <2>2, Parts, WaitingIs DEF Advances
    <3>2. handler[h].svc \in ToSet(tracked')
      BY <2>2, <3>1, Parts DEF CommandsTracked
    <3> QED
      BY <2>2, <3>1, <3>2, Parts, GoesOnKeeps DEF Advances
  <2> QED
    BY <2>1, <2>2
<1>4. ASSUME NEW s \in Service
      PROVE  Status(s)'
  <2>1. Untold(s)
    BY <1>3 DEF Untold
  <2> QED
    BY <2>1, Parts, UntoldKeeps
<1> QED
  BY <1>1, <1>2, <1>3, <1>4, Whole

LEMMA BecomesKeeps ==
  ASSUME DockerTypes, NEW s \in Service, NEW state \in States, Becomes(s, state),
         image' \subseteq Service, UNCHANGED workdir, UNCHANGED missed
  PROVE  /\ DockerTypes'
         /\ \A u \in Service : Pending(u) => Pending(u)'
         /\ \A u \in Service : container'[u] = container[u] \/ Pending(u)'
<1>1. MaxEvents \in Nat /\ Len(events) \in Nat /\ events \in Seq(Service)
  BY ServiceAssumption, LenProperties DEF DockerTypes
<1>2. /\ events' \in Seq(Service) /\ Len(events') = Len(events) + 1
      /\ ToSet(events') = ToSet(events) \cup {s}
  BY <1>1, AppendAdds DEF Becomes
<1>3. Len(events') <= MaxEvents
  BY <1>1, <1>2 DEF Becomes
<1>4. container' \in [Service -> States] /\ \A u \in Service \ {s} : container'[u] = container[u]
  BY DEF Becomes, DockerTypes
<1>5. DockerTypes'
  BY <1>2, <1>3, <1>4 DEF DockerTypes
<1>6. ToSet(events)' = ToSet(events) \cup {s}
  BY <1>2 DEF ToSet
<1> QED
  BY <1>4, <1>5, <1>6 DEF Pending

LEMMA ResumesQuietly ==
  ASSUME IInv, NEW h \in Handler,
         \/ DeployClears(h) \/ DeployStopsOld(h) \/ DeployRemovesOld(h)
         \/ DeployCreated(h) \/ DeleteStops(h) \/ DeleteRemoves(h)
  PROVE  IInv'
<1>1. /\ UNCHANGED <<container, image, events, tracked, snapshot, hubStatus, missed, restarts>>
      /\ handler[h].at \in Waits \ {"marker"}
      /\ \E at \in Waits \ {"marker", "forget"} : Resume(h, at)
      /\ workdir' \subseteq workdir
  <2>1. \A at \in {"clone", "stop", "remove", "start"} : at \in Waits \ {"marker", "forget"}
    BY DEF Waits
  <2>2. CASE DeployClears(h)
    BY <2>1, <2>2 DEF DeployClears, OldIsGone, Back, Waiting, docker, told, Waits
  <2>3. CASE DeployStopsOld(h) \/ DeployRemovesOld(h) \/ DeployCreated(h)
    BY <2>1, <2>3 DEF DeployStopsOld, DeployRemovesOld, DeployCreated, Back, Waiting,
                      docker, told, Waits
  <2>4. CASE DeleteStops(h) \/ DeleteRemoves(h)
    BY <2>1, <2>4 DEF DeleteStops, DeleteRemoves, Back, Waiting, docker, told, Waits
  <2> QED
    BY <2>2, <2>3, <2>4
<1>2. PICK at \in Waits \ {"marker", "forget"} : Resume(h, at)
  BY <1>1
<1>3. handler[h] \in Command /\ handler[h].svc \in Service
  BY <1>1, Parts, WaitingIs
<1>4. Advances(h, at)
  BY <1>1, <1>2, <1>3, Parts, ResumeGoesOn DEF Advances
<1>5. DockerTypes'
  BY <1>1, <1>3, Parts DEF DockerTypes
<1>6. \A s \in Service : container'[s] = container[s] /\ (Pending(s) => Pending(s)')
  BY <1>1 DEF Pending
<1>7. missed' \subseteq Service
  BY <1>1, Parts DEF ToldTypes
<1> QED
  BY <1>1, <1>4, <1>5, <1>6, <1>7, UntoldStep

(* What Docker answers is read by the handler alone.                       *)
LEMMA AskedIs ==
  ASSUME IInv, NEW h \in Handler, NEW at \in Waits \ {"marker", "forget"}, Asked(h, at)
  PROVE  /\ handler[h] \in Command /\ handler[h].svc \in Service /\ handler[h].at = at
         /\ \A res \in {"ok", "err", "up", "down"} : Answer(h, res) => Advances(h, at)
<1>1. handler[h].at = at
  BY DEF Asked, Waiting
<1>2. handler[h] \in Command /\ handler[h].svc \in Service
  BY <1>1, Parts, WaitingIs
<1>3. ASSUME NEW res \in {"ok", "err", "up", "down"}, Answer(h, res)
      PROVE  Advances(h, at)
  BY <1>1, <1>2, <1>3, Parts, AnswerGoesOn DEF Advances
<1> QED
  BY <1>1, <1>2, <1>3

LEMMA AnswersQuietly ==
  ASSUME IInv, NEW h \in Handler, NEW at \in Waits \ {"marker", "forget"}, Asked(h, at),
         UNCHANGED <<container, events, tracked, snapshot, hubStatus, missed, restarts>>,
         NEW res \in {"ok", "err", "up", "down"}, Answer(h, res),
         image' \subseteq Service, workdir' \subseteq Service
  PROVE  IInv'
<1>1. Advances(h, at)
  BY AskedIs
<1>2. DockerTypes' /\ missed' \subseteq Service
  BY Parts DEF DockerTypes, ToldTypes
<1>3. \A s \in Service : container'[s] = container[s] /\ (Pending(s) => Pending(s)')
  BY DEF Pending
<1> QED
  BY <1>1, <1>2, <1>3, UntoldStep

LEMMA AnswersAloud ==
  ASSUME IInv, NEW h \in Handler, NEW at \in Waits \ {"marker", "forget"}, Asked(h, at),
         UNCHANGED <<workdir, tracked, snapshot, hubStatus, missed, restarts>>,
         NEW state \in States, Becomes(handler[h].svc, state), image' \subseteq Service,
         NEW res \in {"ok", "err", "up", "down"}, Answer(h, res) \/ UNCHANGED handler
  PROVE  IInv'
<1>1. handler[h].svc \in Service /\ (UNCHANGED handler \/ Advances(h, at))
  BY AskedIs
<1>2. /\ DockerTypes'
      /\ \A u \in Service : Pending(u) => Pending(u)'
      /\ \A u \in Service : container'[u] = container[u] \/ Pending(u)'
  BY <1>1, Parts, BecomesKeeps
<1>3. missed' \subseteq Service
  BY Parts DEF ToldTypes
<1> QED
  BY <1>1, <1>2, <1>3, UntoldStep

LEMMA DockerKeeps ==
  ASSUME IInv, NEW h \in Handler, DockerStep(h)
  PROVE  IInv'
<1> DEFINE Asks == Waits \ {"marker", "forget"}
           s == handler[h].svc
<1>1. /\ image \subseteq Service /\ workdir \subseteq Service
      /\ container \in [Service -> States]
  BY Parts DEF DockerTypes
<1>2. /\ \A at \in {"inspect", "stop", "remove", "clone", "build", "create", "start",
                    "up", "restart", "down"} : at \in Asks
      /\ \A state \in {"exited", "crashed", "absent", "created", "restarting"} : state \in States
      /\ Started(s) \in States
  BY DEF Waits, States, Up, Started
<1>3. CASE DockerRefuses(h)
  <2>1. PICK at \in Asks : Asked(h, at)
    BY <1>3 DEF DockerRefuses
  <2> QED
    BY <1>1, <1>3, <2>1, AnswersQuietly DEF DockerRefuses, docker, told
<1>4. CASE DockerInspects(h)
  <2>1. PICK res \in {"ok", "err", "up", "down"} : Answer(h, res)
    BY <1>4 DEF DockerInspects
  <2>2. Asked(h, "inspect") /\ "inspect" \in Asks
    BY <1>2, <1>4 DEF DockerInspects
  <2> QED
    BY <1>1, <1>4, <2>1, <2>2, AnswersQuietly DEF DockerInspects, docker, told
<1>5. CASE DockerStops(h)
  <2>1. PICK state \in {"exited", "crashed"} : Becomes(s, state)
    BY <1>5 DEF DockerStops
  <2>2. Asked(h, "stop") /\ "stop" \in Asks /\ state \in States
    BY <1>2, <1>5 DEF DockerStops
  <2> QED
    BY <1>1, <1>5, <2>1, <2>2, AnswersAloud DEF DockerStops, told
<1>6. CASE DockerHasNothingToDo(h)
  <2>1. PICK at \in Asks : Asked(h, at)
    BY <1>2, <1>6 DEF DockerHasNothingToDo
  <2> QED
    BY <1>1, <1>6, <2>1, AnswersQuietly DEF DockerHasNothingToDo, docker, told
<1>7. CASE DockerRemoves(h)
  <2>1. PICK at \in Asks : Asked(h, at)
    BY <1>2, <1>7 DEF DockerRemoves
  <2>2. Becomes(s, "absent") /\ "absent" \in States /\ image' \subseteq Service
    BY <1>1, <1>2, <1>7 DEF DockerRemoves
  <2> QED
    BY <1>7, <2>1, <2>2, AnswersAloud DEF DockerRemoves, told
<1>8. CASE DockerStopsToRestart(h)
  <2>1. PICK state \in {"exited", "crashed"} : Becomes(s, state)
    BY <1>8 DEF DockerStopsToRestart
  <2>2. Asked(h, "restart") /\ "restart" \in Asks /\ state \in States
    BY <1>2, <1>8 DEF DockerStopsToRestart
  <2>3. UNCHANGED handler /\ image' \subseteq Service
    BY <1>1, <1>8 DEF DockerStopsToRestart
  <2> QED
    BY <1>8, <2>1, <2>2, <2>3, AnswersAloud DEF DockerStopsToRestart, told
<1>9. CASE DockerStarts(h)
  <2>1. PICK at \in Asks : Asked(h, at)
    BY <1>2, <1>9 DEF DockerStarts
  <2>2. Becomes(s, Started(s)) /\ Started(s) \in States
    BY <1>2, <1>9 DEF DockerStarts
  <2> QED
    BY <1>1, <1>9, <2>1, <2>2, AnswersAloud DEF DockerStarts, told
<1>10. CASE GitClones(h)
  <2>1. Asked(h, "clone") /\ "clone" \in Asks
    BY <1>2, <1>10 DEF GitClones
  <2>2. workdir' \subseteq Service
    BY <1>1, <1>10, <2>1, AskedIs DEF GitClones
  <2> QED
    BY <1>1, <1>10, <2>1, <2>2, AnswersQuietly DEF GitClones, docker, told
<1>11. CASE DockerBuilds(h)
  <2>1. Asked(h, "build") /\ "build" \in Asks
    BY <1>2, <1>11 DEF DockerBuilds
  <2>2. image' \subseteq Service
    BY <1>1, <1>11, <2>1, AskedIs DEF DockerBuilds
  <2> QED
    BY <1>1, <1>11, <2>1, <2>2, AnswersQuietly DEF DockerBuilds, told
<1>12. CASE DockerCreates(h)
  <2>1. Asked(h, "create") /\ "create" \in Asks /\ "created" \in States
    BY <1>2, <1>12 DEF DockerCreates
  <2> QED
    BY <1>1, <1>12, <2>1, AnswersAloud DEF DockerCreates, told
<1>13. CASE ComposeUp(h)
  <2>1. Asked(h, "up") /\ "up" \in Asks /\ "created" \in States
    BY <1>2, <1>13 DEF ComposeUp
  <2>2. image' \subseteq Service
    BY <1>1, <1>13, <2>1, AskedIs DEF ComposeUp
  <2>3. CASE Becomes(s, Started(s)) /\ Answer(h, "ok")
    BY <1>2, <1>13, <2>1, <2>2, <2>3, AnswersAloud DEF ComposeUp, told
  <2>4. CASE Becomes(s, "created") /\ Answer(h, "err")
    BY <1>2, <1>13, <2>1, <2>2, <2>4, AnswersAloud DEF ComposeUp, told
  <2> QED
    BY <1>13, <2>3, <2>4 DEF ComposeUp
<1> QED
  BY <1>3, <1>4, <1>5, <1>6, <1>7, <1>8, <1>9, <1>10, <1>11, <1>12, <1>13 DEF DockerStep

LEMMA OutsideKeeps ==
  ASSUME IInv, NEW s \in Service, OutsideStep(s)
  PROVE  IInv'
<1>1. /\ image \subseteq Service /\ workdir \subseteq Service
      /\ container \in [Service -> States] /\ missed \subseteq Service
  BY Parts DEF DockerTypes, ToldTypes
<1>2. CASE ProcessExits(s) \/ CliStarts(s) \/ CliRemoves(s)
  <2>1. PICK state \in States : Becomes(s, state)
    BY <1>2 DEF ProcessExits, CliStarts, CliRemoves, States, Up, Started
  <2>2. UNCHANGED <<image, workdir, tracked, snapshot, hubStatus, handler, restarts, missed>>
    BY <1>2 DEF ProcessExits, CliStarts, CliRemoves, Outside
  <2>3. /\ DockerTypes'
        /\ \A u \in Service : Pending(u) => Pending(u)'
        /\ \A u \in Service : container'[u] = container[u] \/ Pending(u)'
    BY <1>1, <2>1, <2>2, Parts, BecomesKeeps
  <2> QED
    BY <1>1, <2>2, <2>3, UntoldStep
<1>3. CASE ChangesSilently(s)
  <2>1. PICK state \in Silently(s) : container' = [container EXCEPT ![s] = state]
    BY <1>3 DEF ChangesSilently
  <2>2. state \in States
    BY <1>1, <2>1 DEF Silently, Started, States, Up
  <2>3. /\ UNCHANGED <<image, workdir, tracked, snapshot, hubStatus, handler, restarts, events>>
        /\ missed' = missed \cup {s}
    BY <1>3 DEF ChangesSilently, Outside
  <2>4. DockerTypes' /\ missed' \subseteq Service
    BY <1>1, <2>1, <2>2, <2>3, Parts DEF DockerTypes
  <2>5. \A u \in Service : /\ Pending(u) => Pending(u)'
                           /\ container'[u] = container[u] \/ Pending(u)'
    BY <1>1, <2>1, <2>3 DEF Pending
  <2> QED
    BY <2>3, <2>4, <2>5, UntoldStep
<1> QED
  BY <1>2, <1>3 DEF OutsideStep

LEMMA GluedKeeps ==
  ASSUME IInv, ReadGluedEvents
  PROVE  IInv'
<1>1. PICK k \in 2 .. MaxChunk :
        /\ k <= Len(events)
        /\ events' = SubSeq(events, k + 1, Len(events))
        /\ missed' = missed \cup ToSet(SubSeq(events, 1, k))
  BY DEF ReadGluedEvents
<1>2. UNCHANGED <<container, image, workdir, tracked, snapshot, hubStatus, handler, restarts>>
  BY DEF ReadGluedEvents
<1>3. k \in Nat /\ events \in Seq(Service) /\ missed \subseteq Service
  BY <1>1, Parts, ServiceAssumption DEF DockerTypes, ToldTypes
<1>4. /\ events' \in Seq(Service) /\ Len(events') <= Len(events)
      /\ ToSet(SubSeq(events, 1, k)) \subseteq Service
      /\ ToSet(events) = ToSet(SubSeq(events, 1, k)) \cup ToSet(events')
  BY <1>1, <1>3, CutSplits
<1>5. Len(events') <= MaxEvents
  <2>1. Len(events) \in Nat /\ Len(events') \in Nat /\ MaxEvents \in Nat /\ Len(events) <= MaxEvents
    BY <1>3, <1>4, Parts, LenProperties, ServiceAssumption DEF DockerTypes
  <2> QED
    BY <1>4, <2>1
<1>6. DockerTypes' /\ missed' \subseteq Service
  BY <1>1, <1>2, <1>3, <1>4, <1>5, Parts DEF DockerTypes
<1>7. ToSet(events)' = ToSet(events')
  BY DEF ToSet
<1>8. \A s \in Service : Pending(s) => Pending(s)'
  BY <1>1, <1>4, <1>7 DEF Pending
<1> QED
  BY <1>2, <1>6, <1>8, UntoldStep

-----------------------------------------------------------------------------
(* Steps that look at the containers of one service                        *)

LEMMA LookStep ==
  ASSUME IInv, NEW s \in Service, NEW seen \in MaySee(s), NEW said \in Statuses \cup {"none"},
         UNCHANGED <<container, image, workdir, restarts>>, DockerTypes',
         Look(s, seen), Tell(s, seen, said),
         missed' \subseteq Service, seen = "gone" /\ Seen(s) # "gone" => s \in missed',
         HandlerTypes', CommandsTracked',
         \A u \in Service \ {s} : u \in ToSet(tracked) /\ Pending(u) => Pending(u)',
         \A u \in Service \ {s} : \A cmds : UnderWay(u, cmds) => UnderWay(u, cmds)',
         \/ said \in {"running", "stopped", "failed"}
         \/ said = hubStatus[s] /\ (UnderWay(s, InProgress) => UnderWay(s, InProgress)')
  PROVE  IInv'
<1>1. /\ tracked' \in Seq(Service) /\ Len(tracked') = Cardinality(ToSet(tracked'))
      /\ ToSet(tracked') = ToSet(tracked) \cup {s}
  BY Parts, TracksOne DEF Look
<1>2. seen \in {"gone", "starting", "running", "stopped", "failed", "removed"}
  BY Parts, SeenIs
<1>3. /\ snapshot' \in [Service -> Shots] /\ snapshot'[s] = seen
      /\ \A u \in Service \ {s} : snapshot'[u] = snapshot[u]
  BY <1>2, Parts DEF Look, ToldTypes, Shots
<1>4. /\ hubStatus' \in [Service -> Statuses \cup {"none"}]
      /\ hubStatus'[s] = IF seen = "gone" THEN said ELSE Aggregate(seen)
      /\ \A u \in Service \ {s} : hubStatus'[u] = hubStatus[u]
  <2> DEFINE says == IF seen = "gone" THEN said ELSE Aggregate(seen)
  <2>1. says \in Statuses \cup {"none"}
    BY <1>2 DEF Statuses, Aggregate
  <2>2. hubStatus \in [Service -> Statuses \cup {"none"}] /\ hubStatus' = [hubStatus EXCEPT ![s] = says]
    BY Parts DEF Tell, Says, ToldTypes
  <2> QED
    BY <2>1, <2>2
<1>5. ToSet(tracked)' = ToSet(tracked')
  BY DEF ToSet
<1>6. ToldTypes'
  BY <1>1, <1>3, <1>4, <1>5 DEF ToldTypes
<1>7. restarts' \in 0 .. MaxRestarts
  BY Parts
<1>8. ASSUME NEW u \in Service
      PROVE  Status(u)'
  <2>1. CASE u = s
    <3>1. Looked(s, seen, said)
      BY <1>1, <1>3, <1>4 DEF Looked
    <3> QED
      BY <2>1, <3>1, Parts, LookedKeeps
  <2>2. CASE u # s
    <3>1. Untold(u)
      BY <1>1, <1>3, <1>4, <2>2 DEF Untold
    <3> QED
      BY <3>1, Parts, UntoldKeeps
  <2> QED
    BY <2>1, <2>2
<1> QED
  BY <1>6, <1>7, <1>8, Whole

(* The socket's handlers of this kind, which have seen all there was.      *)
LEMMA SyncStep ==
  ASSUME IInv, NEW s \in Service, NEW said \in Statuses \cup {"none"},
         UNCHANGED <<docker, workdir, restarts>>, Sync(s, said),
         HandlerTypes', CommandsTracked',
         \A u \in Service \ {s} : \A cmds : UnderWay(u, cmds) => UnderWay(u, cmds)',
         \/ said \in {"running", "stopped", "failed"}
         \/ said = hubStatus[s] /\ (UnderWay(s, InProgress) => UnderWay(s, InProgress)')
  PROVE  IInv'
<1>1. PICK seen \in MaySee(s) :
        Look(s, seen) /\ Tell(s, seen, said) /\ missed' = AfterLook(missed, s, seen)
  BY DEF Sync
<1>2. UNCHANGED <<container, image, events, workdir, restarts>>
  BY DEF docker
<1>3. /\ missed' \subseteq Service /\ missed \ {s} \subseteq missed'
      /\ seen = "gone" /\ Seen(s) # "gone" => s \in missed'
  BY <1>1, Parts DEF AfterLook, ToldTypes
<1>4. DockerTypes'
  BY <1>2, Parts DEF DockerTypes
<1>5. \A u \in Service \ {s} : Pending(u) => Pending(u)'
  BY <1>2, <1>3 DEF Pending
<1> QED
  BY <1>1, <1>2, <1>3, <1>4, <1>5, LookStep

LEMMA SaidBefore ==
  ASSUME IInv, NEW s \in Service
  PROVE  hubStatus[s] \in Statuses \cup {"none"}
BY Parts DEF ToldTypes

LEMMA BeginKeeps ==
  ASSUME IInv, NEW h \in Handler, NEW c \in AllCommands, NEW s \in Service, NEW at \in Waits,
         Begin(h, c, s, at), ToSet(tracked) \subseteq ToSet(tracked'), at # "forget",
         at = "marker" \/ s \in ToSet(tracked')
  PROVE  /\ HandlerTypes' /\ CommandsTracked'
         /\ \A u, cmds : UnderWay(u, cmds) => UnderWay(u, cmds)'
<1> DEFINE x == [at |-> at, cmd |-> c, svc |-> s, res |-> "pending"]
<1>1. x \in Command /\ x.at = at /\ x.svc = s
  BY DEF Command
<1>2. handler' = [handler EXCEPT ![h] = x] /\ handler[h] = Idle
  BY DEF Begin
<1> HIDE DEF x
<1>3. TakesUp(h, x)
  BY <1>1, <1>2 DEF TakesUp
<1>4. HandlerTypes' /\ CommandsTracked' /\ \A k \in Handler \ {h} : handler'[k] = handler[k]
  BY <1>3, Parts, TakesUpKeeps
<1>5. ASSUME NEW u, NEW cmds, UnderWay(u, cmds)
      PROVE  UnderWay(u, cmds)'
  <2>1. ~Doing(handler[h], u, cmds)
    BY <1>2 DEF Doing
  <2> QED
    BY <1>4, <1>5, <2>1, StillUnderWay
<1> QED
  BY <1>4, <1>5

LEMMA ReceivesSynced ==
  ASSUME IInv, NEW h \in Handler, NEW c \in AllCommands, NEW s \in Service, ReceiveSynced(h, c, s)
  PROVE  IInv'
<1>1. ToSet(tracked') = ToSet(tracked) \cup {s}
  BY Parts, TracksOne DEF ReceiveSynced, Sync, Look
<1>2. FirstCall(c, s) \in Waits \ {"marker", "forget"}
  BY DEF ReceiveSynced, FirstCall, ContainerCommands, Deletes, Waits
<1>3. HandlerTypes' /\ CommandsTracked' /\ \A u, cmds : UnderWay(u, cmds) => UnderWay(u, cmds)'
  BY <1>1, <1>2, BeginKeeps DEF ReceiveSynced
<1> QED
  BY <1>3, SaidBefore, SyncStep DEF ReceiveSynced

LEMMA ReceivesSyncStatus ==
  ASSUME IInv, NEW s \in Service, ReceiveSyncStatus(s)
  PROVE  IInv'
<1>1. ToSet(tracked') = ToSet(tracked) \cup {s} /\ UNCHANGED handler
  BY Parts, TracksOne DEF ReceiveSyncStatus, Sync, Look
<1>2. HandlerTypes' /\ CommandsTracked' /\ \A u, cmds : UnderWay(u, cmds) => UnderWay(u, cmds)'
  BY <1>1, Parts DEF HandlerTypes, CommandsTracked, UnderWay
<1> QED
  BY <1>2, SaidBefore, SyncStep DEF ReceiveSyncStatus

(* The handlers that end with a look at the containers.                    *)
LEMMA EndsSynced ==
  ASSUME IInv, NEW h \in Handler, handler[h].at \in Waits,
         UNCHANGED <<docker, workdir, restarts>>, Finish(h),
         NEW said, Sync(handler[h].svc, said),
         \/ said \in {"running", "stopped", "failed"}
         \/ said = hubStatus[handler[h].svc] /\ handler[h].cmd \notin InProgress
  PROVE  IInv'
<1>1. PICK s \in Service : s = handler[h].svc
  BY Parts, WaitingIs
<1>2. ToSet(tracked') = ToSet(tracked) \cup {s}
  BY <1>1, Parts, TracksOne DEF Sync, Look
<1>3. /\ HandlerTypes' /\ CommandsTracked'
      /\ \A u, cmds : UnderWay(u, cmds) /\ ~Doing(handler[h], u, cmds) => UnderWay(u, cmds)'
  BY <1>2, Parts, FinishKeeps
<1>4. \A u \in Service \ {s} : \A cmds : UnderWay(u, cmds) => UnderWay(u, cmds)'
  BY <1>1, <1>3 DEF Doing
<1>5. said \in Statuses \cup {"none"}
  BY <1>1, SaidBefore DEF Statuses
<1>6. handler[h].cmd \notin InProgress => (UnderWay(s, InProgress) => UnderWay(s, InProgress)')
  BY <1>3 DEF Doing
<1> QED
  BY <1>1, <1>3, <1>4, <1>5, <1>6, SyncStep

LEMMA DonesKeep ==
  ASSUME IInv, NEW h \in Handler,
         DeployDone(h) \/ StartDone(h) \/ StopDone(h) \/ ContainerDone(h)
  PROVE  IInv'
<1>1. CASE DeployDone(h)
  <2>1. handler[h].at \in Waits
    BY <1>1 DEF DeployDone, Back, Waiting, Waits
  <2> QED
    BY <1>1, <2>1, EndsSynced DEF DeployDone
<1>2. CASE StartDone(h) \/ StopDone(h)
  <2>1. handler[h].at \in Waits
    BY <1>2 DEF StartDone, StopDone, Back, Waiting, Waits
  <2>2. \E said \in {"running", "stopped", "failed"} : Sync(handler[h].svc, said)
    BY <1>2 DEF StartDone, StopDone
  <2>3. UNCHANGED <<docker, workdir, restarts>> /\ Finish(h)
    BY <1>2 DEF StartDone, StopDone
  <2> QED
    BY <2>1, <2>2, <2>3, EndsSynced
<1>3. CASE ContainerDone(h)
  <2>1. handler[h].at \in Waits /\ handler[h].cmd \notin InProgress
    BY <1>3 DEF ContainerDone, Back, Waiting, Waits, InProgress, ContainerCommands
  <2> QED
    BY <1>3, <2>1, EndsSynced DEF ContainerDone
<1> QED
  BY <1>1, <1>2, <1>3

-----------------------------------------------------------------------------
(* Steps of a handler that say something of one service                    *)

LEMMA TellStep ==
  ASSUME IInv, NEW s \in Service, UNCHANGED <<container, events, restarts>>,
         DockerTypes', ToldTypes', HandlerTypes', CommandsTracked',
         ToSet(tracked') = ToSet(tracked) \cup {s},
         missed \ {s} \subseteq missed',
         \A u \in Service \ {s} : snapshot'[u] = snapshot[u] /\ hubStatus'[u] = hubStatus[u],
         \A u \in Service \ {s} : \A cmds : UnderWay(u, cmds) => UnderWay(u, cmds)',
         Status(s)'
  PROVE  IInv'
<1>1. restarts' \in 0 .. MaxRestarts
  BY Parts
<1>2. ASSUME NEW u \in Service \ {s}
      PROVE  Status(u)'
  <2>1. Pending(u) => Pending(u)'
    BY DEF Pending
  <2>2. Untold(u)
    BY <2>1 DEF Untold
  <2> QED
    BY <2>2, Parts, UntoldKeeps
<1>3. \A u \in Service : Status(u)'
  BY <1>2
<1> QED
  BY <1>1, <1>3, Whole

LEMMA SaysIs ==
  ASSUME ToldTypes, NEW s \in Service, NEW status \in Statuses, Says(s, status)
  PROVE  /\ hubStatus' \in [Service -> Statuses \cup {"none"}] /\ hubStatus'[s] = status
         /\ \A u \in Service \ {s} : hubStatus'[u] = hubStatus[u]
BY DEF ToldTypes, Says

LEMMA ExpectIs ==
  ASSUME ToldTypes, NEW s \in Service, ExpectBuilding(s)
  PROVE  /\ ToSet(tracked') = ToSet(tracked) \cup {s}
         /\ tracked' \in Seq(Service) /\ Len(tracked') = Cardinality(ToSet(tracked'))
         /\ snapshot' \in [Service -> Shots] /\ snapshot'[s] = "building"
         /\ \A u \in Service \ {s} : snapshot'[u] = snapshot[u]
<1>1. /\ snapshot' \in [Service -> Shots] /\ snapshot'[s] = "building"
      /\ \A u \in Service \ {s} : snapshot'[u] = snapshot[u]
  BY DEF ExpectBuilding, ToldTypes, Shots
<1> QED
  BY <1>1, TracksOne DEF ExpectBuilding

LEMMA LookIs ==
  ASSUME DockerTypes, ToldTypes, NEW s \in Service, NEW seen \in MaySee(s), Look(s, seen)
  PROVE  /\ ToSet(tracked') = ToSet(tracked) \cup {s}
         /\ tracked' \in Seq(Service) /\ Len(tracked') = Cardinality(ToSet(tracked'))
         /\ snapshot' \in [Service -> Shots] /\ snapshot'[s] = seen
         /\ \A u \in Service \ {s} : snapshot'[u] = snapshot[u]
<1>1. seen \in Shots
  BY SeenIs DEF Shots
<1>2. /\ snapshot' \in [Service -> Shots] /\ snapshot'[s] = seen
      /\ \A u \in Service \ {s} : snapshot'[u] = snapshot[u]
  BY <1>1 DEF Look, ToldTypes
<1> QED
  BY <1>2, TracksOne DEF Look

LEMMA ToldIs ==
  ASSUME tracked' \in Seq(Service), Len(tracked') = Cardinality(ToSet(tracked')),
         snapshot' \in [Service -> Shots], hubStatus' \in [Service -> Statuses \cup {"none"}],
         missed' \subseteq Service
  PROVE  ToldTypes'
<1>1. ToSet(tracked)' = ToSet(tracked')
  BY DEF ToSet
<1> QED
  BY <1>1 DEF ToldTypes

(* A handler past its marker goes on with its service in the map.          *)
LEMMA GoesOnAlone ==
  ASSUME IInv, NEW h \in Handler, handler[h].at \in Waits,
         NEW at \in Waits \ {"marker"}, Resume(h, at),
         at = "forget" => handler[h].cmd \in Deletes,
         NEW s \in Service, s = handler[h].svc,
         ToSet(tracked') = ToSet(tracked) \cup {s}
  PROVE  /\ HandlerTypes' /\ CommandsTracked'
         /\ \A u, cmds : UnderWay(u, cmds) => UnderWay(u, cmds)'
         /\ \A cmds : handler[h].cmd \in cmds => UnderWay(s, cmds)'
<1>1. handler[h] # Idle /\ handler[h] \in Command
  BY Parts, WaitingIs
<1>2. GoesOn(h, at)
  BY <1>1, Parts, ResumeGoesOn
<1> QED
  BY <1>1, <1>2, Parts, GoesOnKeeps

LEMMA InTheMap ==
  ASSUME IInv, NEW h \in Handler, handler[h].at \in Waits \ {"marker"}, NEW s, s = handler[h].svc
  PROVE  ToSet(tracked) = ToSet(tracked) \cup {s}
<1>1. handler[h] # Idle
  BY Parts, WaitingIs
<1> QED
  BY <1>1, Parts DEF CommandsTracked

LEMMA DeployMarkedKeeps ==
  ASSUME IInv, NEW h \in Handler, DeployMarked(h)
  PROVE  IInv'
<1>1. /\ handler[h].at = "marker" /\ handler[h].cmd = "DEPLOY" /\ handler[h].at \in Waits
      /\ "inspect" \in Waits \ {"marker"}
  BY DEF DeployMarked, Waiting, Waits
<1>2. PICK s \in Service : s = handler[h].svc
  BY <1>1, Parts, WaitingIs
<1>3. /\ ExpectBuilding(s) /\ Says(s, "building") /\ Resume(h, "inspect")
      /\ UNCHANGED <<container, image, events, workdir, missed, restarts>>
  BY <1>2 DEF DeployMarked, docker
<1>4. /\ ToSet(tracked') = ToSet(tracked) \cup {s}
      /\ tracked' \in Seq(Service) /\ Len(tracked') = Cardinality(ToSet(tracked'))
      /\ snapshot' \in [Service -> Shots] /\ snapshot'[s] = "building"
      /\ \A u \in Service \ {s} : snapshot'[u] = snapshot[u]
  BY <1>3, Parts, ExpectIs
<1>5. /\ hubStatus' \in [Service -> Statuses \cup {"none"}] /\ hubStatus'[s] = "building"
      /\ \A u \in Service \ {s} : hubStatus'[u] = hubStatus[u]
  BY <1>3, Parts, SaysIs DEF Statuses
<1>6. /\ HandlerTypes' /\ CommandsTracked'
      /\ \A u, cmds : UnderWay(u, cmds) => UnderWay(u, cmds)'
      /\ \A cmds : handler[h].cmd \in cmds => UnderWay(s, cmds)'
  BY <1>1, <1>2, <1>3, <1>4, GoesOnAlone
<1>7. DockerTypes' /\ ToldTypes'
  BY <1>3, <1>4, <1>5, Parts, ToldIs DEF DockerTypes, ToldTypes
<1>8. UnderWay(s, {"DEPLOY"})' /\ UnderWay(s, {"DEPLOY", "START"})'
  BY <1>1, <1>6
<1>9. Status(s)'
  BY <1>4, <1>5, <1>8 DEF Status, Follows, Earned, Moving
<1> QED
  BY <1>3, <1>4, <1>5, <1>6, <1>7, <1>9, TellStep

LEMMA StartMarkedKeeps ==
  ASSUME IInv, NEW h \in Handler, StartMarked(h)
  PROVE  IInv'
<1>1. /\ handler[h].at = "marker" /\ handler[h].cmd = "START" /\ handler[h].at \in Waits
      /\ "restart" \in Waits \ {"marker"}
  BY DEF StartMarked, Waiting, Waits
<1>2. PICK s \in Service : s = handler[h].svc
  BY <1>1, Parts, WaitingIs
<1>3. PICK seen \in MaySee(s) : Look(s, seen) /\ missed' = AfterLook(missed, s, seen)
  BY <1>2 DEF StartMarked
<1>4. /\ ToSet(tracked') = ToSet(tracked) \cup {s}
      /\ tracked' \in Seq(Service) /\ Len(tracked') = Cardinality(ToSet(tracked'))
      /\ snapshot' \in [Service -> Shots] /\ snapshot'[s] = seen
      /\ \A u \in Service \ {s} : snapshot'[u] = snapshot[u]
  BY <1>3, Parts, LookIs
<1>5. /\ Says(s, "restarting") /\ Resume(h, "restart")
      /\ UNCHANGED <<container, image, events, workdir, restarts>>
  BY <1>2 DEF StartMarked, docker
<1>6. /\ missed' \subseteq Service /\ missed \ {s} \subseteq missed'
      /\ seen = "gone" /\ Seen(s) # "gone" => s \in missed'
  BY <1>3, Parts DEF AfterLook, ToldTypes
<1>7. /\ hubStatus' \in [Service -> Statuses \cup {"none"}] /\ hubStatus'[s] = "restarting"
      /\ \A u \in Service \ {s} : hubStatus'[u] = hubStatus[u]
  BY <1>5, Parts, SaysIs DEF Statuses
<1>8. /\ HandlerTypes' /\ CommandsTracked'
      /\ \A u, cmds : UnderWay(u, cmds) => UnderWay(u, cmds)'
      /\ \A cmds : handler[h].cmd \in cmds => UnderWay(s, cmds)'
  BY <1>1, <1>2, <1>4, <1>5, GoesOnAlone
<1>9. DockerTypes' /\ ToldTypes'
  BY <1>4, <1>5, <1>6, <1>7, Parts, ToldIs DEF DockerTypes
<1>10. UnderWay(s, {"DEPLOY", "START"})'
  BY <1>1, <1>8
<1>11. Follows(s)'
  <2>1. Seen(s)' = Seen(s) /\ container'[s] = container[s]
    BY <1>5, Parts, SeesTheSame
  <2>2. Settled(s)' => (seen = "gone" => Seen(s) = "gone")
    BY <1>6 DEF Settled, Known
  <2>3. \/ seen = "gone" \/ seen = Seen(s)
        \/ s \in ComposeBuilt /\ container[s] = "crashed" /\ seen \in {"stopped", "failed"}
    BY Parts, FoundIs
  <2> QED
    BY <1>4, <2>1, <2>2, <2>3 DEF Follows, Agrees
<1>12. Status(s)'
  BY <1>7, <1>10, <1>11 DEF Status, Earned, Moving
<1> QED
  BY <1>4, <1>5, <1>6, <1>7, <1>8, <1>9, <1>12, TellStep

LEMMA DeployClonedKeeps ==
  ASSUME IInv, NEW h \in Handler, DeployCloned(h)
  PROVE  IInv'
<1>1. /\ handler[h].cmd = "DEPLOY" /\ handler[h].at \in Waits \ {"marker"}
      /\ "up" \in Waits \ {"marker"} /\ "build" \in Waits \ {"marker"}
  BY DEF DeployCloned, Back, Waiting, Waits
<1>2. PICK s \in Service : s = handler[h].svc
  BY <1>1, Parts, WaitingIs
<1>3. UNCHANGED <<container, image, events, workdir, hubStatus, missed, restarts>>
  BY DEF DeployCloned, docker
<1>4. DockerTypes' /\ hubStatus' \in [Service -> Statuses \cup {"none"}] /\ missed' \subseteq Service
  BY <1>3, Parts DEF DockerTypes, ToldTypes
<1>5. ToSet(tracked) = ToSet(tracked) \cup {s}
  BY <1>1, <1>2, InTheMap
<1>6. CASE s \in ComposeBuilt
  <2>1. ExpectBuilding(s) /\ Resume(h, "up")
    BY <1>2, <1>6 DEF DeployCloned
  <2>2. /\ ToSet(tracked') = ToSet(tracked) \cup {s}
        /\ tracked' \in Seq(Service) /\ Len(tracked') = Cardinality(ToSet(tracked'))
        /\ snapshot' \in [Service -> Shots] /\ snapshot'[s] = "building"
        /\ \A u \in Service \ {s} : snapshot'[u] = snapshot[u]
    BY <2>1, Parts, ExpectIs
  <2>3. /\ HandlerTypes' /\ CommandsTracked'
        /\ \A u, cmds : UnderWay(u, cmds) => UnderWay(u, cmds)'
        /\ \A cmds : handler[h].cmd \in cmds => UnderWay(s, cmds)'
    BY <1>1, <1>2, <2>1, <2>2, GoesOnAlone
  <2>4. ToldTypes'
    BY <1>4, <2>2, ToldIs
  <2>5. UnderWay(s, {"DEPLOY"})' /\ UnderWay(s, {"DEPLOY", "START"})'
    BY <1>1, <2>3
  <2>6. Settled(s)' => Settled(s)
    BY <1>3, <1>5, <2>2 DEF Settled, Known
  <2>7. Seen(s)' = Seen(s)
    BY <1>3, Parts, SeesTheSame
  <2>8. Status(s)'
    BY <1>3, <2>2, <2>5, <2>6, <2>7, Parts DEF Status, Follows, Earned, Moving
  <2> QED
    BY <1>3, <1>4, <2>2, <2>3, <2>4, <2>8, TellStep
<1>7. CASE s \notin ComposeBuilt
  <2>1. Resume(h, "build") /\ UNCHANGED <<tracked, snapshot>>
    BY <1>2, <1>7 DEF DeployCloned
  <2>2. handler[h] \in Command
    BY <1>1, Parts, WaitingIs
  <2>3. Advances(h, "build")
    BY <1>1, <2>1, <2>2, Parts, ResumeGoesOn DEF Advances
  <2>4. \A u \in Service : container'[u] = container[u] /\ (Pending(u) => Pending(u)')
    BY <1>3 DEF Pending
  <2> QED
    BY <1>3, <1>4, <2>1, <2>3, <2>4, UntoldStep
<1> QED
  BY <1>6, <1>7

(* A status is sent and the handler goes on; the containers are not        *)
(* looked at.                                                              *)
LEMMA SaysAndGoesOn ==
  ASSUME IInv, NEW h \in Handler,
         DeployBuilt(h) \/ DeleteEnds(h) \/ DeleteFails(h)
  PROVE  IInv'
<1>1. /\ handler[h].at \in Waits \ {"marker"}
      /\ "create" \in Waits \ {"marker"} /\ "forget" \in Waits \ {"marker"}
  BY DEF DeployBuilt, DeleteEnds, DeleteFails, Back, Waiting, Waits
<1>2. PICK s \in Service : s = handler[h].svc
  BY <1>1, Parts, WaitingIs
<1>3. UNCHANGED <<container, events, tracked, snapshot, missed, restarts>>
  BY DEF DeployBuilt, DeleteEnds, DeleteFails, docker
<1>4. DockerTypes'
  <2>1. image' \subseteq Service /\ workdir' \subseteq Service
    BY <1>2, Parts DEF DeployBuilt, DeleteEnds, DeleteFails, docker, DockerTypes
  <2> QED
    BY <1>3, <2>1, Parts DEF DockerTypes
<1>5. ToSet(tracked') = ToSet(tracked) \cup {s}
  BY <1>1, <1>2, <1>3, InTheMap
<1>6. PICK status \in {"starting", "removed", "failed"}, at \in {"create", "forget"} :
        /\ Says(s, status) /\ Resume(h, at)
        /\ at = "forget" => handler[h].cmd \in Deletes
        /\ status = "starting" => handler[h].cmd = "DEPLOY"
  <2>1. CASE DeployBuilt(h)
    BY <1>2, <2>1 DEF DeployBuilt, Back, Waiting
  <2>2. CASE DeleteEnds(h)
    BY <1>2, <2>2 DEF DeleteEnds, Back, Waiting
  <2>3. CASE DeleteFails(h)
    BY <1>2, <2>3 DEF DeleteFails, Back, Waiting
  <2> QED
    BY <2>1, <2>2, <2>3
<1>7. /\ hubStatus' \in [Service -> Statuses \cup {"none"}] /\ hubStatus'[s] = status
      /\ \A u \in Service \ {s} : hubStatus'[u] = hubStatus[u]
  <2>1. status \in Statuses
    BY <1>6 DEF Statuses
  <2> QED
    BY <1>6, <2>1, Parts, SaysIs
<1>8. /\ HandlerTypes' /\ CommandsTracked'
      /\ \A u, cmds : UnderWay(u, cmds) => UnderWay(u, cmds)'
      /\ \A cmds : handler[h].cmd \in cmds => UnderWay(s, cmds)'
  <2>1. at \in Waits \ {"marker"}
    BY <1>1, <1>6
  <2> QED
    BY <1>1, <1>2, <1>5, <1>6, <2>1, GoesOnAlone
<1>9. ToldTypes'
  BY <1>3, <1>7, Parts, ToldIs DEF ToldTypes
<1>10. Follows(s)'
  <2>1. Settled(s)' => Settled(s)
    BY <1>3 DEF Settled, Known
  <2>2. Agrees(s) => Agrees(s)'
    BY <1>3, Parts, SeesTheSame
  <2>3. status \in {"failed", "removed"} \/ UnderWay(s, {"DEPLOY"})'
    BY <1>6, <1>8
  <2>4. Follows(s)
    BY Parts DEF Status
  <2> QED
    BY <1>3, <1>7, <2>1, <2>2, <2>3, <2>4 DEF Follows
<1>11. Status(s)'
  BY <1>6, <1>7, <1>10 DEF Status, Earned, Moving
<1> QED
  BY <1>3, <1>4, <1>5, <1>7, <1>8, <1>9, <1>11, TellStep

(* A status is sent and the handler ends.                                  *)
LEMMA SaysAndEnds ==
  ASSUME IInv, NEW h \in Handler, DeployFails(h) \/ DeleteDone(h)
  PROVE  IInv'
<1>1. handler[h].at \in Waits \ {"marker"}
  BY DEF DeployFails, OldIsGone, DeleteDone, Back, Waiting, Waits
<1>2. PICK s \in Service : s = handler[h].svc
  BY <1>1, Parts, WaitingIs
<1>3. UNCHANGED <<container, image, workdir, events, tracked, missed, restarts>> /\ Finish(h)
  BY DEF DeployFails, DeleteDone, docker
<1>4. DockerTypes'
  BY <1>3, Parts DEF DockerTypes
<1>5. ToSet(tracked') = ToSet(tracked) \cup {s}
  BY <1>1, <1>2, <1>3, InTheMap
<1>6. PICK status \in {"removed", "failed"} : Says(s, status)
  BY <1>2 DEF DeployFails, DeleteDone
<1>7. /\ hubStatus' \in [Service -> Statuses \cup {"none"}] /\ hubStatus'[s] = status
      /\ \A u \in Service \ {s} : hubStatus'[u] = hubStatus[u]
  <2>1. status \in Statuses
    BY <1>6 DEF Statuses
  <2> QED
    BY <1>6, <2>1, Parts, SaysIs
<1>8. snapshot' = snapshot \/ snapshot' = [snapshot EXCEPT ![s] = "gone"]
  BY <1>2 DEF DeployFails, DeleteDone
<1>9. /\ snapshot' \in [Service -> Shots] /\ (snapshot'[s] = "gone" \/ snapshot'[s] = snapshot[s])
      /\ \A u \in Service \ {s} : snapshot'[u] = snapshot[u]
  BY <1>8, Parts DEF ToldTypes, Shots
<1>10. /\ HandlerTypes' /\ CommandsTracked'
       /\ \A u \in Service \ {s} : \A cmds : UnderWay(u, cmds) => UnderWay(u, cmds)'
  <2>1. /\ HandlerTypes' /\ CommandsTracked'
        /\ \A u, cmds : UnderWay(u, cmds) /\ ~Doing(handler[h], u, cmds) => UnderWay(u, cmds)'
    BY <1>3, <1>5, Parts, FinishKeeps
  <2> QED
    BY <1>2, <2>1 DEF Doing
<1>11. ToldTypes'
  BY <1>3, <1>7, <1>9, Parts, ToldIs DEF ToldTypes
<1>12. Follows(s)'
  <2>1. Settled(s)' => Settled(s)
    BY <1>3 DEF Settled, Known
  <2>2. snapshot'[s] = snapshot[s] /\ Agrees(s) => Agrees(s)'
    BY <1>3, Parts, SeesTheSame
  <2>3. Follows(s)
    BY Parts DEF Status
  <2> QED
    BY <1>6, <1>7, <1>9, <2>1, <2>2, <2>3 DEF Follows
<1>13. Status(s)'
  BY <1>6, <1>7, <1>12 DEF Status, Earned, Moving
<1> QED
  BY <1>3, <1>4, <1>5, <1>7, <1>9, <1>10, <1>11, <1>13, TellStep

-----------------------------------------------------------------------------
(* The other steps                                                         *)

LEMMA MarkerKeeps ==
  ASSUME IInv, NEW h \in Handler,
         \/ \E c \in AllCommands, s \in Service : ReceiveMarked(h, c, s)
         \/ DatabaseFails(h)
  PROVE  IInv'
<1>1. UNCHANGED <<container, image, workdir, events, tracked, snapshot, hubStatus, missed, restarts>>
  BY DEF ReceiveMarked, DatabaseFails, docker, told
<1>2. DockerTypes' /\ ToldTypes' /\ restarts' \in 0 .. MaxRestarts
  BY <1>1, Parts DEF DockerTypes, ToldTypes
<1>3. ToSet(tracked') = ToSet(tracked)
  BY <1>1
<1>4. /\ HandlerTypes' /\ CommandsTracked'
      /\ \A u : UnderWay(u, {"DEPLOY"}) => UnderWay(u, {"DEPLOY"})'
      /\ \A u : UnderWay(u, InProgress) => UnderWay(u, InProgress)'
  <2>1. CASE \E c \in AllCommands, s \in Service : ReceiveMarked(h, c, s)
    <3>1. PICK c \in AllCommands, s \in Service : Begin(h, c, s, "marker")
      BY <2>1 DEF ReceiveMarked
    <3>2. "marker" \in Waits /\ "marker" # "forget"
      BY DEF Waits
    <3> QED
      BY <1>3, <3>1, <3>2, BeginKeeps
  <2>2. CASE DatabaseFails(h)
    <3>1. /\ HandlerTypes' /\ CommandsTracked'
          /\ \A u, cmds : UnderWay(u, cmds) /\ ~Doing(handler[h], u, cmds) => UnderWay(u, cmds)'
      BY <1>3, <2>2, Parts, FinishKeeps DEF DatabaseFails
    <3>2. handler[h].at = "marker" \/ (handler[h].at = "forget" /\ handler[h] # Idle)
      <4>1. handler[h].at \in Waits
        BY <2>2 DEF DatabaseFails, Waiting, Waits
      <4> QED
        BY <2>2, <4>1, Parts, WaitingIs DEF DatabaseFails, Waiting
    <3>3. handler[h].at = "marker" \/ handler[h].cmd \in Deletes
      BY <3>2, Parts DEF CommandsTracked
    <3>4. \A u : ~Doing(handler[h], u, {"DEPLOY"}) /\ ~Doing(handler[h], u, InProgress)
      BY <3>3 DEF Doing, Deletes, InProgress
    <3> QED
      BY <3>1, <3>4
  <2> QED
    BY <2>1, <2>2
<1>5. ASSUME NEW s \in Service
      PROVE  Status(s)'
  <2>1. Pending(s) => Pending(s)'
    BY <1>1 DEF Pending
  <2>2. Untold(s)
    BY <1>1, <1>4, <2>1 DEF Untold
  <2> QED
    BY <2>2, Parts, UntoldKeeps
<1> QED
  BY <1>2, <1>4, <1>5, Whole

LEMMA ReadKeeps ==
  ASSUME IInv, ReadEvent
  PROVE  IInv'
<1> DEFINE s == Head(events)
<1>1. /\ events # <<>> /\ events' = Tail(events)
      /\ UNCHANGED <<container, image, workdir, handler, restarts>>
  BY DEF ReadEvent
<1>2. /\ s \in Service /\ events' \in Seq(Service) /\ Len(events') = Len(events) - 1
      /\ ToSet(events) = {s} \cup ToSet(events')
  BY <1>1, Parts, TailLoses DEF DockerTypes
<1>3. Len(events') <= MaxEvents
  <2>1. Len(events) \in Nat /\ MaxEvents \in Nat /\ Len(events) <= MaxEvents
    BY Parts, LenProperties, ServiceAssumption DEF DockerTypes
  <2> QED
    BY <1>2, <2>1
<1>4. DockerTypes'
  BY <1>1, <1>2, <1>3, Parts DEF DockerTypes
<1>5. ToSet(events)' = ToSet(events')
  BY DEF ToSet
<1>6. HandlerTypes' /\ \A u, cmds : UnderWay(u, cmds) => UnderWay(u, cmds)'
  BY <1>1, Parts DEF HandlerTypes, UnderWay
<1>7. tracked \in Seq(Service) /\ DOMAIN tracked = 1 .. Len(tracked) /\ Len(tracked) \in Nat
  BY Parts, LenProperties DEF ToldTypes
<1>8. CASE Owners(s) = {}
  <2>1. UNCHANGED <<tracked, snapshot, hubStatus, missed>>
    BY <1>8 DEF ReadEvent, told
  <2>2. s \notin ToSet(tracked)
    BY <1>8 DEF Owners, Belongs, ToSet
  <2>3. ToldTypes' /\ restarts' \in 0 .. MaxRestarts
    BY <1>1, <2>1, Parts DEF ToldTypes
  <2>4. CommandsTracked'
    BY <1>1, <2>1, Parts DEF CommandsTracked
  <2>5. ASSUME NEW u \in Service
        PROVE  Status(u)'
    <3>1. u \in ToSet(tracked) /\ Pending(u) => Pending(u)'
      BY <1>2, <1>5, <2>1, <2>2 DEF Pending
    <3>2. Untold(u)
      BY <1>1, <1>6, <2>1, <3>1 DEF Untold
    <3> QED
      BY <3>2, Parts, UntoldKeeps
  <2> QED
    BY <1>4, <1>6, <2>3, <2>4, <2>5, Whole
<1>9. CASE Owners(s) # {}
  <2>1. PICK t : t = tracked[Min(Owners(s))]
    OBVIOUS
  <2>2. PICK seen \in MaySee(t) :
          /\ Look(t, seen)
          /\ Tell(t, seen, hubStatus[t])
          /\ missed' = AfterLook(missed \cup {s}, t, seen)
    BY <1>9, <2>1 DEF ReadEvent
  <2>3. t \in Service
    <3>1. Owners(s) \subseteq 1 .. Len(tracked)
      BY <1>7 DEF Owners
    <3>2. Owners(s) \subseteq Nat
      BY <1>7, <3>1
    <3>3. Min(Owners(s)) \in Owners(s)
      BY <1>9, <3>2, MinIs
    <3> QED
      BY <1>7, <2>1, <3>1, <3>3, ElementOfSeq
  <2>4. ToSet(tracked') = ToSet(tracked) \cup {t}
    BY <2>2, <2>3, Parts, LookIs
  <2>5. /\ CommandsTracked' /\ missed' \subseteq Service
        /\ (missed \cup {s}) \ {t} \subseteq missed'
        /\ seen = "gone" /\ Seen(t) # "gone" => t \in missed'
    BY <1>1, <1>2, <2>2, <2>3, <2>4, Parts DEF CommandsTracked, ToldTypes, AfterLook
  <2>6. \A u \in Service \ {t} : Pending(u) => Pending(u)'
    BY <1>2, <1>5, <2>5 DEF Pending
  <2>7. hubStatus[t] \in Statuses \cup {"none"}
    BY <2>3, SaidBefore
  <2> QED
    BY <1>1, <1>4, <1>6, <2>2, <2>3, <2>5, <2>6, <2>7, LookStep
<1> QED
  BY <1>8, <1>9

LEMMA RestartKeeps ==
  ASSUME IInv, AgentRestarts
  PROVE  IInv'
<1>1. /\ tracked' = <<>> /\ events' = <<>> /\ missed' = Service
      /\ snapshot' = [s \in Service |-> "none"] /\ handler' = [h \in Handler |-> Idle]
      /\ UNCHANGED <<container, image, workdir, hubStatus>>
  BY DEF AgentRestarts
<1>2. restarts' \in 0 .. MaxRestarts /\ restarts' > 0
  <2>1. restarts \in Nat /\ MaxRestarts \in Nat /\ restarts < MaxRestarts /\ restarts' = restarts + 1
    BY Parts, ServiceAssumption DEF AgentRestarts
  <2> QED
    BY <2>1
<1>3. /\ <<>> \in Seq(Service) /\ ToSet(<<>>) = {} /\ Len(<<>>) = 0
      /\ Cardinality(ToSet(<<>>)) = 0
  BY FS_EmptySet, EmptySeq DEF ToSet
<1>4. MaxEvents \in Nat
  BY ServiceAssumption
<1>5. DockerTypes'
  BY <1>1, <1>3, <1>4, Parts DEF DockerTypes
<1>6. ToldTypes'
  BY <1>1, <1>3, Parts, ToldIs DEF ToldTypes, Shots
<1>7. HandlerTypes' /\ CommandsTracked'
  BY <1>1 DEF HandlerTypes, CommandsTracked
<1>8. ASSUME NEW s \in Service
      PROVE  Status(s)'
  <2>1. s \notin ToSet(tracked')
    BY <1>1, <1>3
  <2> QED
    BY <1>2, <2>1 DEF Status, Follows, Earned, Moving, Settled, Known
<1> QED
  BY <1>2, <1>5, <1>6, <1>7, <1>8, Whole

LEMMA InitHolds ==
  ASSUME Init
  PROVE  IInv
<1>1. /\ <<>> \in Seq(Service) /\ ToSet(<<>>) = {} /\ Len(<<>>) = 0
      /\ Cardinality(ToSet(<<>>)) = 0
  BY FS_EmptySet, EmptySeq DEF ToSet
<1>2. MaxEvents \in Nat /\ MaxRestarts \in Nat
  BY ServiceAssumption
<1>3. DockerTypes /\ ToldTypes /\ HandlerTypes /\ restarts \in 0 .. MaxRestarts
  BY <1>1, <1>2 DEF Init, DockerTypes, ToldTypes, HandlerTypes, States, Shots
<1>4. CommandsTracked
  BY DEF Init, CommandsTracked
<1>5. StatusInv
  BY <1>1 DEF Init, StatusInv, Follows, Earned, Moving, Settled, Known
<1> QED
  BY <1>3, <1>4, <1>5, TypesAre DEF IInv

LEMMA NextKeeps ==
  ASSUME IInv, [Next]_vars
  PROVE  IInv'
<1>1. CASE UNCHANGED vars
  <2>1. UNCHANGED <<container, image, workdir, events, tracked, snapshot, hubStatus,
                    handler, missed, restarts>>
    BY <1>1 DEF vars
  <2>2. DockerTypes' /\ ToldTypes' /\ HandlerTypes' /\ restarts' \in 0 .. MaxRestarts
    BY <2>1, Parts DEF DockerTypes, ToldTypes, HandlerTypes
  <2>3. CommandsTracked' /\ \A u, cmds : UnderWay(u, cmds) => UnderWay(u, cmds)'
    BY <2>1, Parts DEF CommandsTracked, UnderWay
  <2>4. \A s \in Service : Untold(s)
    BY <2>1, <2>3 DEF Untold, Pending
  <2>5. \A s \in Service : Status(s)'
    BY <2>4, Parts, UntoldKeeps
  <2> QED
    BY <2>2, <2>3, <2>5, Whole
<1>2. ASSUME NEW h \in Handler, HandlerStep(h)
      PROVE  IInv'
  <2>1. CASE \E c \in AllCommands, s \in Service : ReceiveMarked(h, c, s) \/ ReceiveSynced(h, c, s)
    BY <2>1, MarkerKeeps, ReceivesSynced
  <2>2. CASE DatabaseFails(h)
    BY <2>2, MarkerKeeps
  <2>3. CASE DeployMarked(h) \/ StartMarked(h) \/ DeployCloned(h)
    BY <2>3, DeployMarkedKeeps, StartMarkedKeeps, DeployClonedKeeps
  <2>4. CASE \/ DeployClears(h) \/ DeployStopsOld(h) \/ DeployRemovesOld(h)
             \/ DeployCreated(h) \/ DeleteStops(h) \/ DeleteRemoves(h)
    BY <2>4, ResumesQuietly
  <2>5. CASE DeployBuilt(h) \/ DeleteEnds(h) \/ DeleteFails(h)
    BY <2>5, SaysAndGoesOn
  <2>6. CASE DeployDone(h) \/ StartDone(h) \/ StopDone(h) \/ ContainerDone(h)
    BY <2>6, DonesKeep
  <2>7. CASE DeployFails(h) \/ DeleteDone(h)
    BY <2>7, SaysAndEnds
  <2> QED
    BY <1>2, <2>1, <2>2, <2>3, <2>4, <2>5, <2>6, <2>7 DEF HandlerStep
<1> QED
  BY <1>1, <1>2, DockerKeeps, OutsideKeeps, ReceivesSyncStatus, ReadKeeps, GluedKeeps,
     RestartKeeps DEF Next

-----------------------------------------------------------------------------
(* The theorems                                                            *)

\* The inductive invariant: every step of the commands (TunnelService), of
\* the event reader (DockerEventService) and of Docker keeps the snapshots and
\* statuses of ServiceLifecycleService accounted for.
THEOREM Invariance == Spec => []IInv
<1>1. Init => IInv
  BY InitHolds
<1>2. IInv /\ [Next]_vars => IInv'
  BY NextKeeps
<1> QED
  BY <1>1, <1>2, PTL DEF Spec

\* Every variable keeps its type, and trackedServices never holds a service
\* twice.
THEOREM TypeCorrect == Spec => []TypeOK
<1>1. IInv => TypeOK
  BY DEF IInv
<1> QED
  BY <1>1, Invariance, PTL

LEMMA AtRest ==
  ASSUME NEW s \in Service, Quiet(s)
  PROVE  s \notin ToSet(events) /\ \A cmds : ~UnderWay(s, cmds)
BY DEF Quiet, Busy, UnderWay, Doing

\* At rest the snapshot of emitSnapshot() is what Docker reports, unless the
\* last look failed or what came after it was lost, misread or silent, or the
\* Hub was told of a failed deploy or of a DELETE: whatever commands
\* overlapped and containers were changed by hand.
THEOREM SnapshotIsTrue == Spec => []SnapshotFollows
<1>1. ASSUME IInv
      PROVE  SnapshotFollows
  <2>1. SUFFICES ASSUME NEW s \in Service, Quiet(s), Known(s)
                 PROVE  \/ Agrees(s)
                        \/ snapshot[s] \in {"building", "gone"} /\ hubStatus[s] \in {"failed", "removed"}
    BY DEF SnapshotFollows
  <2>2. Settled(s) /\ ~UnderWay(s, {"DEPLOY"})
    BY <2>1, AtRest DEF Settled
  <2>3. Follows(s)
    BY <1>1, Parts DEF Status
  <2> QED
    BY <2>2, <2>3 DEF Follows
<1> QED
  BY <1>1, Invariance, PTL

\* At rest the status of emitStatus() claims neither a command that is over,
\* whatever looks failed, nor, if the last look did not, a container that does
\* not run.
THEOREM StatusIsTrue == Spec => []StatusIsEarned
<1>1. ASSUME IInv
      PROVE  StatusIsEarned
  <2>1. ASSUME NEW s \in Service, Quiet(s), Known(s), hubStatus[s] = "running"
        PROVE  Seen(s) \in {"running", "gone"}
    <3>1. Settled(s)
      BY <2>1, AtRest DEF Settled
    <3>2. Earned(s)
      BY <1>1, Parts DEF Status
    <3> QED
      BY <2>1, <3>1, <3>2 DEF Earned
  <2>2. ASSUME NEW s \in Service, Quiet(s), s \in ToSet(tracked),
               hubStatus[s] \in {"building", "restarting"}
        PROVE  restarts > 0 /\ snapshot[s] = "gone"
    <3>1. ~UnderWay(s, {"DEPLOY", "START"})
      BY <2>2, AtRest
    <3>2. Moving(s)
      BY <1>1, Parts DEF Status
    <3> QED
      BY <2>2, <3>1, <3>2 DEF Moving
  <2> QED
    BY <2>1, <2>2 DEF StatusIsEarned, RunningIsEarned, NothingStuckInProgress
<1> QED
  BY <1>1, Invariance, PTL

=============================================================================
