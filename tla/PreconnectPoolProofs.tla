------------------------ MODULE PreconnectPoolProofs ------------------------
(* Invariants of the pre-connected pool for every number of sockets, every *)
(* target, and any number of secrets.                                      *)
EXTENDS PreconnectPool, FiniteSetTheorems, TLAPS

(* How the flags of a socket fit together: what is pooled was settled,     *)
(* what is settled is past its connect and has not closed, and the connect *)
(* deadline is gone from a socket that is open.                            *)
PhasesAgree ==
  /\ pool \subseteq settled
  /\ \A s \in settled : tcp[s] \in {"open", "destroyed"}
  /\ \A s \in Socket : "connect" \in timers[s] => tcp[s] # "open"

(* A halted pool has no refill scheduled.                                  *)
HaltIsQuiet == suspended => ~refillTimer

IInv == /\ TypeOK /\ PendingExact /\ PoolBound
        /\ TimersMatchPhase /\ PhasesAgree /\ HaltIsQuiet

-----------------------------------------------------------------------------
(* Sets of sockets                                                         *)

(* Sockets are finitely many, so every set of them can be counted.         *)
LEMMA SocketSets ==
  ASSUME NEW S \in SUBSET Socket
  PROVE  IsFiniteSet(S) /\ Cardinality(S) \in Nat
BY SocketAssumption, FS_Subset, FS_CardinalityType

(* A socket that joins a set raises its count by one, and one that leaves  *)
(* it lowers the count by one.                                             *)
LEMMA CountOne ==
  ASSUME NEW S \in SUBSET Socket, NEW s \in Socket
  PROVE  /\ s \notin S => Cardinality(S \cup {s}) = Cardinality(S) + 1
         /\ s \in S => Cardinality(S \ {s}) = Cardinality(S) - 1
         /\ s \in S => Cardinality(S) >= 1
<1>1. IsFiniteSet(S) /\ Cardinality(S) \in Nat
  BY SocketSets
<1>2. s \notin S => Cardinality(S \cup {s}) = Cardinality(S) + 1
  BY <1>1, FS_AddElement
<1>3. ASSUME s \in S
      PROVE  Cardinality(S \ {s}) = Cardinality(S) - 1 /\ Cardinality(S) >= 1
  <2>1. Cardinality(S \ {s}) = Cardinality(S) - 1
    BY <1>1, <1>3, FS_RemoveElement
  <2>2. Cardinality(S \ {s}) \in Nat
    BY SocketSets
  <2> QED
    BY <1>1, <2>1, <2>2
<1> QED
  BY <1>2, <1>3

(* Two disjoint sets of sockets count separately.                          *)
LEMMA CountDisjoint ==
  ASSUME NEW S \in SUBSET Socket, NEW T \in SUBSET Socket, S \cap T = {}
  PROVE  Cardinality(S \cup T) = Cardinality(S) + Cardinality(T)
<1>1. IsFiniteSet(S) /\ IsFiniteSet(T)
  BY SocketSets
<1>2. Cardinality(S) \in Nat /\ Cardinality(T) \in Nat
  BY SocketSets
<1>3. Cardinality(S \cup T) = Cardinality(S) + Cardinality(T) - Cardinality(S \cap T)
  BY <1>1, FS_Union
<1>4. Cardinality(S \cap T) = 0
  BY FS_EmptySet
<1> QED
  BY <1>2, <1>3, <1>4

(* formPreconnectPool asks for a natural number of sockets, which fills    *)
(* the shortfall exactly and never takes the pool past its target.         *)
LEMMA DeficitFills ==
  ASSUME NEW p \in Nat, NEW n \in Nat
  PROVE  /\ Deficit(p, n) \in Nat
         /\ Deficit(p, n + Deficit(p, n)) = 0
         /\ p + n <= TargetPoolCount => p + n + Deficit(p, n) <= TargetPoolCount
<1>1. CASE p = 0
  BY <1>1, TargetAssumption DEF Deficit
<1>2. CASE p # 0
  BY <1>2, TargetAssumption DEF Deficit
<1> QED
  BY <1>1, <1>2

-----------------------------------------------------------------------------
(* formPreconnectPool on its own                                           *)

Phases == {"free", "connecting", "open", "destroyed"}

(* The sockets of the set new are opened: they were free, there are none   *)
(* when halted, and otherwise exactly as many as the shortfall.            *)
Opens(new, halted, p, n, conn, armed) ==
  /\ \A s \in new : conn[s] = "free"
  /\ Cardinality(new) \in Nat
  /\ pending' = n + Cardinality(new)
  /\ tcp' = [s \in Socket |-> IF s \in new THEN "connecting" ELSE conn[s]]
  /\ timers' = [s \in Socket |-> IF s \in new THEN {"connect"} ELSE armed[s]]
  /\ halted => pending' = n
  /\ ~halted => Deficit(p, pending') = 0
  /\ p + n <= TargetPoolCount => p + pending' <= TargetPoolCount

(* What a call of formPreconnectPool does: it opens sockets that were      *)
(* free, none when halted, and otherwise exactly the shortfall.            *)
LEMMA FormOpensShortfall ==
  ASSUME NEW halted \in BOOLEAN, NEW p \in Nat, NEW n \in Nat,
         NEW conn \in [Socket -> Phases],
         NEW armed \in [Socket -> SUBSET Timers],
         FormPreconnectPool(halted, p, n, conn, armed)
  PROVE  \E new \in SUBSET Socket : Opens(new, halted, p, n, conn, armed)
<1>1. PICK new \in SUBSET {s \in Socket : conn[s] = "free"} :
        /\ Cardinality(new) = IF halted THEN 0 ELSE Deficit(p, n)
        /\ pending' = n + Cardinality(new)
        /\ tcp' = [s \in Socket |-> IF s \in new THEN "connecting" ELSE conn[s]]
        /\ timers' = [s \in Socket |-> IF s \in new THEN {"connect"} ELSE armed[s]]
  BY DEF FormPreconnectPool
<1>2. new \in SUBSET Socket /\ \A s \in new : conn[s] = "free"
  OBVIOUS
<1>3. Cardinality(new) \in Nat
  BY <1>2, SocketSets
<1>4. /\ halted => pending' = n
      /\ ~halted => Deficit(p, pending') = 0
      /\ p + n <= TargetPoolCount => p + pending' <= TargetPoolCount
  BY <1>1, DeficitFills, TargetAssumption
<1> QED
  BY <1>1, <1>2, <1>3, <1>4 DEF Opens

(* If the sockets, flags and timers a handler has computed so far satisfy  *)
(* the invariant, they still do after its call of formPreconnectPool.      *)
LEMMA FormPreserves ==
  ASSUME NEW halted \in BOOLEAN, NEW n \in Nat,
         NEW conn \in [Socket -> Phases],
         NEW armed \in [Socket -> SUBSET Timers],
         settled' \in SUBSET Socket, pool' \in SUBSET settled',
         \A s \in settled' : conn[s] \in {"open", "destroyed"},
         n = Cardinality({s \in Socket : conn[s] # "free"} \ settled'),
         Cardinality(pool') + n <= TargetPoolCount,
         \A s \in Socket :
           /\ Handshake \cap armed[s] # {} => conn[s] # "free" /\ s \notin settled'
           /\ "heartbeat" \in armed[s] <=> s \in pool'
           /\ "pong" \in armed[s] => s \in pool'
           /\ "connect" \in armed[s] => conn[s] # "open",
         FormPreconnectPool(halted, Cardinality(pool'), n, conn, armed)
  PROVE  /\ tcp' \in [Socket -> Phases] /\ timers' \in [Socket -> SUBSET Timers]
         /\ pending' \in Nat
         /\ PendingExact' /\ PoolBound' /\ TimersMatchPhase' /\ PhasesAgree'
         /\ ~halted => Deficit(Cardinality(pool'), pending') = 0
         /\ halted => pending' = n
<1> DEFINE opening == {s \in Socket : conn[s] # "free"} \ settled'
<1>1. pool' \in SUBSET Socket /\ Cardinality(pool') \in Nat
  BY SocketSets
<1>2. PICK new \in SUBSET Socket :
        Opens(new, halted, Cardinality(pool'), n, conn, armed)
  BY <1>1, FormOpensShortfall
<1>3. tcp' \in [Socket -> Phases] /\ timers' \in [Socket -> SUBSET Timers]
  BY <1>2 DEF Phases, Timers, Handshake, Keepalive, Opens
<1>4. pending' \in Nat
  BY <1>2 DEF Opens
<1>5. PendingExact'
  <2>1. Unsettled' = opening \cup new
    BY <1>2 DEF Unsettled, Live, Opens
  <2>2. opening \in SUBSET Socket /\ opening \cap new = {}
    BY <1>2 DEF Opens
  <2>3. Cardinality(opening \cup new) = n + Cardinality(new)
    BY <1>2, <2>2, CountDisjoint DEF Opens
  <2> QED
    BY <1>2, <2>1, <2>3 DEF PendingExact, Opens
<1>6. PoolBound'
  BY <1>2 DEF PoolBound, Opens
<1>7. ASSUME NEW s \in Socket
      PROVE  /\ Handshake \cap timers'[s] # {} => s \in Unsettled'
             /\ "heartbeat" \in timers'[s] <=> s \in pool'
             /\ "pong" \in timers'[s] => s \in pool'
             /\ "connect" \in timers'[s] => tcp'[s] # "open"
  <2>1. CASE s \in new
    <3>1. timers'[s] = {"connect"} /\ tcp'[s] = "connecting" /\ s \notin settled'
      BY <1>2, <2>1 DEF Opens
    <3>2. s \in Unsettled' /\ s \notin pool'
      BY <3>1 DEF Unsettled, Live
    <3> QED
      BY <3>1, <3>2
  <2>2. CASE s \notin new
    <3>1. timers'[s] = armed[s] /\ tcp'[s] = conn[s]
      BY <1>2, <2>2 DEF Opens
    <3>2. conn[s] # "free" /\ s \notin settled' => s \in Unsettled'
      BY <3>1 DEF Unsettled, Live
    <3> QED
      BY <3>1, <3>2
  <2> QED
    BY <2>1, <2>2
<1>8. TimersMatchPhase'
  BY <1>7 DEF TimersMatchPhase
<1>9. PhasesAgree'
  BY <1>2, <1>7 DEF PhasesAgree, Live, Opens
<1> QED
  BY <1>2, <1>3, <1>4, <1>5, <1>6, <1>8, <1>9 DEF Opens

-----------------------------------------------------------------------------
(* Handlers that only move one socket along                                *)

(* A handler that neither settles, pools, opens nor closes a socket keeps  *)
(* the invariant if the timers it leaves fit the phase of their socket.    *)
LEMMA QuietStep ==
  ASSUME IInv, UNCHANGED <<settled, pool, pending>>,
         tcp' \in [Socket -> Phases], timers' \in [Socket -> SUBSET Timers],
         \A s \in Socket :
           /\ tcp'[s] = "free" <=> tcp[s] = "free"
           /\ tcp'[s] = "connecting" => tcp[s] = "connecting"
           /\ Handshake \cap timers'[s] # {} => s \in Unsettled
           /\ "heartbeat" \in timers'[s] <=> "heartbeat" \in timers[s]
           /\ "pong" \in timers'[s] => "heartbeat" \in timers[s]
           /\ "connect" \in timers'[s] => tcp'[s] # "open"
  PROVE  PendingExact' /\ PoolBound' /\ TimersMatchPhase' /\ PhasesAgree'
<1>1. Unsettled' = Unsettled
  BY DEF Unsettled, Live
<1>2. PendingExact' /\ PoolBound'
  BY <1>1 DEF IInv, PendingExact, PoolBound
<1>3. TimersMatchPhase'
  BY <1>1 DEF IInv, TimersMatchPhase
<1>4. PhasesAgree'
  BY DEF IInv, PhasesAgree, TypeOK, Phases
<1> QED
  BY <1>2, <1>3, <1>4

(* The handlers of one socket that leave the pool and the counter alone.   *)
Moves(s) ==
  \/ Connected(s) \/ ConnectTimeout(s) \/ AckTimeout(s)
  \/ HeartbeatTick(s) \/ Pong(s) \/ PongTimeout(s)
  \/ SocketError(s) \/ PeerClose(s) \/ GoSilent(s)

LEMMA MovesPreserve ==
  ASSUME IInv, NEW s \in Socket, Moves(s)
  PROVE  IInv' /\ UNCHANGED <<pool, pending, refillTimer, suspended, configured>>
<1> USE DEF Disarm, Destroy, Readable, peerVars, policyVars
<1>1. UNCHANGED <<settled, pool, pending, refillTimer, policyVars>>
  BY DEF Moves, Connected, ConnectTimeout, AckTimeout, HeartbeatTick, Pong,
         PongTimeout, SocketError, PeerClose, GoSilent
<1>2. TypeOK'
  BY <1>1 DEF IInv, TypeOK, Timers, Handshake, Keepalive, Moves, Connected,
         ConnectTimeout, AckTimeout, HeartbeatTick, Pong, PongTimeout,
         SocketError, PeerClose, GoSilent
<1>3. ASSUME NEW r \in Socket
      PROVE  /\ tcp'[r] = "free" <=> tcp[r] = "free"
             /\ tcp'[r] = "connecting" => tcp[r] = "connecting"
             /\ Handshake \cap timers'[r] # {} => r \in Unsettled
             /\ "heartbeat" \in timers'[r] <=> "heartbeat" \in timers[r]
             /\ "pong" \in timers'[r] => "heartbeat" \in timers[r]
             /\ "connect" \in timers'[r] => tcp'[r] # "open"
  <2> USE DEF IInv, TypeOK, TimersMatchPhase, PhasesAgree, Handshake
  <2>1. CASE Connected(s)
    BY <2>1 DEF Connected, Unsettled, Live
  <2>2. CASE ConnectTimeout(s)
    BY <2>2 DEF ConnectTimeout, Unsettled, Live
  <2>3. CASE AckTimeout(s)
    BY <2>3 DEF AckTimeout, Unsettled, Live
  <2>4. CASE HeartbeatTick(s)
    BY <2>4 DEF HeartbeatTick
  <2>5. CASE Pong(s)
    BY <2>5 DEF Pong
  <2>6. CASE PongTimeout(s) \/ SocketError(s) \/ PeerClose(s) \/ GoSilent(s)
    BY <2>6 DEF PongTimeout, SocketError, PeerClose, GoSilent
  <2> QED
    BY <2>1, <2>2, <2>3, <2>4, <2>5, <2>6 DEF Moves
<1>4. PendingExact' /\ PoolBound' /\ TimersMatchPhase' /\ PhasesAgree'
  BY <1>1, <1>2, <1>3, QuietStep DEF TypeOK, Phases
<1>5. HaltIsQuiet'
  BY <1>1 DEF IInv, HaltIsQuiet
<1> QED
  BY <1>1, <1>2, <1>4, <1>5 DEF IInv

-----------------------------------------------------------------------------
(* Handlers that open sockets                                              *)

(* The sockets still in their handshake are counted exactly, and the pool  *)
(* can be counted.                                                         *)
LEMMA Counts ==
  ASSUME IInv
  PROVE  /\ pool \in SUBSET Socket /\ Unsettled \in SUBSET Socket
         /\ Cardinality(pool) \in Nat
         /\ pending = Cardinality(Unsettled) /\ pending \in Nat
         /\ Cardinality(pool) + pending <= TargetPoolCount
BY SocketSets DEF IInv, TypeOK, PendingExact, PoolBound, Unsettled, Live

(* initPreconnectPool and the refill timer fill the pool as it stands.     *)
LEMMA RefillPreserves ==
  ASSUME IInv, InitPreconnectPool \/ RefillTimerFires
  PROVE  IInv' /\ NeverStalls'
<1>1. PICK h \in BOOLEAN :
        /\ FormPreconnectPool(h, Cardinality(pool'), pending, tcp, timers)
        /\ h = suspended'
  BY DEF InitPreconnectPool, RefillTimerFires, policyVars, IInv, TypeOK
<1>2. settled' = settled /\ pool' = pool
  BY DEF InitPreconnectPool, RefillTimerFires
<1>3. /\ \A s \in settled' : tcp[s] \in {"open", "destroyed"}
      /\ settled' \in SUBSET Socket /\ pool' \in SUBSET settled'
  BY <1>2 DEF IInv, TypeOK, PhasesAgree
<1>4. /\ pending = Cardinality({s \in Socket : tcp[s] # "free"} \ settled')
      /\ pending \in Nat /\ Cardinality(pool') + pending <= TargetPoolCount
  BY <1>2, Counts DEF Unsettled, Live
<1>5. \A s \in Socket :
        /\ Handshake \cap timers[s] # {} => tcp[s] # "free" /\ s \notin settled'
        /\ "heartbeat" \in timers[s] <=> s \in pool'
        /\ "pong" \in timers[s] => s \in pool'
        /\ "connect" \in timers[s] => tcp[s] # "open"
  BY <1>2 DEF IInv, TimersMatchPhase, PhasesAgree, Unsettled, Live
<1>6. tcp \in [Socket -> Phases] /\ timers \in [Socket -> SUBSET Timers]
  BY DEF IInv, TypeOK, Phases
<1>7. /\ tcp' \in [Socket -> Phases] /\ timers' \in [Socket -> SUBSET Timers]
      /\ pending' \in Nat
      /\ PendingExact' /\ PoolBound' /\ TimersMatchPhase' /\ PhasesAgree'
      /\ ~h => Deficit(Cardinality(pool'), pending') = 0
  BY <1>1, <1>3, <1>4, <1>5, <1>6, FormPreserves
<1>8. TypeOK'
  <2>1. /\ UNCHANGED <<settled, unhealthy, silent, signedWith, pool, secret>>
        /\ refillTimer' = FALSE
    BY DEF InitPreconnectPool, RefillTimerFires, policyVars, peerVars
  <2>2. consecutiveFailures' \in {0, consecutiveFailures}
    BY DEF InitPreconnectPool, RefillTimerFires, policyVars
  <2>3. suspended' \in BOOLEAN
    BY <1>1
  <2>4. configured' = TRUE \/ configured' = configured
    BY DEF InitPreconnectPool, RefillTimerFires, policyVars
  <2>5. configured' \in BOOLEAN
    BY <2>4, Zenon DEF IInv, TypeOK
  <2>6. consecutiveFailures' \in Nat
    BY <2>2 DEF IInv, TypeOK
  <2> QED
    BY <1>7, <2>1, <2>3, <2>5, <2>6 DEF TypeOK, IInv, Phases
<1>9. HaltIsQuiet' /\ NeverStalls'
  BY <1>1, <1>7 DEF HaltIsQuiet, NeverStalls, InitPreconnectPool,
         RefillTimerFires
<1> QED
  BY <1>7, <1>8, <1>9 DEF IInv

(* PRE:OK moves the socket from the counter to the pool before it refills. *)
LEMMA PreOkPreserves ==
  ASSUME IInv, NEW s \in Socket, PreOk(s)
  PROVE  IInv' /\ NeverStalls'
<1> DEFINE armed == [timers EXCEPT ![s] = (@ \ {"ack"}) \cup {"heartbeat"}]
<1>1. /\ s \in Unsettled /\ tcp[s] = "open"
      /\ settled' = settled \cup {s} /\ pool' = pool \cup {s}
      /\ FormPreconnectPool(suspended, Cardinality(pool'), pending - 1, tcp, armed)
      /\ UNCHANGED <<peerVars, refillTimer, suspended, configured, secret>>
      /\ consecutiveFailures' \in {0, consecutiveFailures}
  BY DEF PreOk, Accepted, Readable
<1>2. s \notin settled /\ s \notin pool
  BY <1>1 DEF Unsettled, IInv, PhasesAgree
<1>3. /\ \A r \in settled' : tcp[r] \in {"open", "destroyed"}
      /\ settled' \in SUBSET Socket /\ pool' \in SUBSET settled'
  BY <1>1 DEF IInv, TypeOK, PhasesAgree
<1>4. {r \in Socket : tcp[r] # "free"} \ settled' = Unsettled \ {s}
  BY <1>1 DEF Unsettled, Live
<1>5. /\ Cardinality(Unsettled \ {s}) = pending - 1 /\ pending - 1 \in Nat
      /\ Cardinality(pool') = Cardinality(pool) + 1
  <2>1. /\ pool \in SUBSET Socket /\ Unsettled \in SUBSET Socket
        /\ pending = Cardinality(Unsettled) /\ pending \in Nat
    BY Counts
  <2>2. /\ Cardinality(Unsettled \ {s}) = Cardinality(Unsettled) - 1
        /\ Cardinality(Unsettled) >= 1
    BY <1>1, <2>1, CountOne
  <2>3. Cardinality(pool \cup {s}) = Cardinality(pool) + 1
    BY <1>2, <2>1, CountOne
  <2> QED
    BY <1>1, <2>1, <2>2, <2>3
<1>6. Cardinality(pool') + (pending - 1) <= TargetPoolCount
  BY <1>5, Counts, TargetAssumption
<1>7. ASSUME NEW r \in Socket
      PROVE  /\ Handshake \cap armed[r] # {} => tcp[r] # "free" /\ r \notin settled'
             /\ "heartbeat" \in armed[r] <=> r \in pool'
             /\ "pong" \in armed[r] => r \in pool'
             /\ "connect" \in armed[r] => tcp[r] # "open"
  BY <1>1 DEF IInv, TypeOK, TimersMatchPhase, PhasesAgree, Unsettled, Live, Handshake
<1>8. /\ tcp \in [Socket -> Phases] /\ armed \in [Socket -> SUBSET Timers]
      /\ suspended \in BOOLEAN
  BY DEF IInv, TypeOK, Phases, Timers, Keepalive
<1>9. /\ tcp' \in [Socket -> Phases] /\ timers' \in [Socket -> SUBSET Timers]
      /\ pending' \in Nat
      /\ PendingExact' /\ PoolBound' /\ TimersMatchPhase' /\ PhasesAgree'
      /\ ~suspended => Deficit(Cardinality(pool'), pending') = 0
  <2>1. PICK n \in Nat : n = pending - 1
    BY <1>5
  <2>2. n = Cardinality({r \in Socket : tcp[r] # "free"} \ settled')
    BY <1>4, <1>5, <2>1
  <2>3. /\ FormPreconnectPool(suspended, Cardinality(pool'), n, tcp, armed)
        /\ Cardinality(pool') + n <= TargetPoolCount
    BY <1>1, <1>6, <2>1
  <2>4. \A r \in Socket :
          /\ Handshake \cap armed[r] # {} => tcp[r] # "free" /\ r \notin settled'
          /\ "heartbeat" \in armed[r] <=> r \in pool'
          /\ "pong" \in armed[r] => r \in pool'
          /\ "connect" \in armed[r] => tcp[r] # "open"
    BY <1>7
  <2> HIDE DEF armed
  <2> QED
    BY <1>3, <1>8, <2>2, <2>3, <2>4, FormPreserves
<1>10. TypeOK'
  BY <1>1, <1>3, <1>9 DEF TypeOK, IInv, peerVars, Phases
<1>11. HaltIsQuiet' /\ NeverStalls'
  BY <1>1, <1>9 DEF IInv, HaltIsQuiet, NeverStalls
<1> QED
  BY <1>9, <1>10, <1>11 DEF IInv

(* OPEN takes the socket out of the pool, its timers with it, before the   *)
(* refill; it stays settled, so nothing counts it again.                   *)
LEMMA OpenPreserves ==
  ASSUME IInv, NEW s \in Socket, NEW validPort \in BOOLEAN,
         OpenFrame(s, validPort)
  PROVE  IInv' /\ NeverStalls'
<1> DEFINE conn == [tcp EXCEPT ![s] = IF validPort THEN "open" ELSE "destroyed"]
           armed == [timers EXCEPT ![s] = @ \ Keepalive]
<1>1. /\ s \in pool /\ tcp[s] = "open"
      /\ pool' = pool \ {s} /\ settled' = settled
      /\ FormPreconnectPool(suspended, Cardinality(pool'), pending, conn, armed)
      /\ UNCHANGED <<peerVars, refillTimer, policyVars>>
  BY DEF OpenFrame, Readable, Disarm
<1>2. /\ conn \in [Socket -> Phases] /\ armed \in [Socket -> SUBSET Timers]
      /\ suspended \in BOOLEAN
  BY DEF IInv, TypeOK, Phases, Timers
<1>3. /\ \A r \in settled' : conn[r] \in {"open", "destroyed"}
      /\ settled' \in SUBSET Socket /\ pool' \in SUBSET settled'
  BY <1>1 DEF IInv, TypeOK, PhasesAgree
<1>4. pending = Cardinality({r \in Socket : conn[r] # "free"} \ settled')
  <2>1. {r \in Socket : conn[r] # "free"} \ settled' = Unsettled
    BY <1>1 DEF Unsettled, Live, IInv, TypeOK
  <2> QED
    BY <2>1, Counts
<1>5. pending \in Nat /\ Cardinality(pool') + pending <= TargetPoolCount
  <2>1. Cardinality(pool') = Cardinality(pool) - 1
    BY <1>1, Counts, CountOne
  <2> QED
    BY <2>1, Counts, TargetAssumption
<1>6. ASSUME NEW r \in Socket
      PROVE  /\ Handshake \cap armed[r] # {} => conn[r] # "free" /\ r \notin settled'
             /\ "heartbeat" \in armed[r] <=> r \in pool'
             /\ "pong" \in armed[r] => r \in pool'
             /\ "connect" \in armed[r] => conn[r] # "open"
  BY <1>1 DEF IInv, TypeOK, TimersMatchPhase, PhasesAgree, Unsettled, Live,
         Handshake, Keepalive
<1>7. /\ tcp' \in [Socket -> Phases] /\ timers' \in [Socket -> SUBSET Timers]
      /\ pending' \in Nat
      /\ PendingExact' /\ PoolBound' /\ TimersMatchPhase' /\ PhasesAgree'
      /\ ~suspended => Deficit(Cardinality(pool'), pending') = 0
  <2> HIDE DEF armed, conn
  <2> QED
    BY <1>1, <1>2, <1>3, <1>4, <1>5, <1>6, FormPreserves
<1>8. TypeOK'
  BY <1>1, <1>3, <1>7 DEF TypeOK, IInv, peerVars, policyVars, Phases
<1>9. HaltIsQuiet' /\ NeverStalls'
  BY <1>1, <1>7 DEF IInv, HaltIsQuiet, NeverStalls, policyVars
<1> QED
  BY <1>7, <1>8, <1>9 DEF IInv

-----------------------------------------------------------------------------
(* The end of a socket                                                     *)

(* What every branch of the 'close' handler leaves behind for its socket.  *)
LEMMA CloseClears ==
  ASSUME IInv, NEW s \in Socket, Close(s)
  PROVE  /\ tcp[s] = "destroyed"
         /\ pool' = pool \ {s} /\ settled' = settled \ {s}
         /\ UNCHANGED <<suspended, configured, secret>>
         /\ unhealthy' \in SUBSET Socket /\ silent' \in SUBSET Socket
         /\ signedWith' \in [Socket -> Nat]
         /\ settled' \in SUBSET Socket /\ pool' \in SUBSET settled'
BY DEF Close, IInv, TypeOK, PhasesAgree

(* A 'close' that opens nothing, once the counter has given the socket     *)
(* back if it was still in its handshake.                                  *)
LEMMA QuietClosePreserves ==
  ASSUME IInv, NEW s \in Socket, tcp[s] = "destroyed",
         tcp' = [tcp EXCEPT ![s] = "free"], timers' = [timers EXCEPT ![s] = {}],
         pool' = pool \ {s}, settled' = settled \ {s},
         pending' = IF s \in settled THEN pending ELSE pending - 1
  PROVE  /\ tcp' \in [Socket -> Phases] /\ timers' \in [Socket -> SUBSET Timers]
         /\ pending' \in Nat
         /\ PendingExact' /\ PoolBound' /\ TimersMatchPhase' /\ PhasesAgree'
<1>1. tcp' \in [Socket -> Phases] /\ timers' \in [Socket -> SUBSET Timers]
  BY DEF IInv, TypeOK, Phases
<1>2. Unsettled' = Unsettled \ {s}
  BY <1>1 DEF Unsettled, Live, IInv, TypeOK
<1>3. s \in Unsettled <=> s \notin settled
  BY DEF Unsettled, Live
<1>4. Cardinality(Unsettled') = pending'
  <2>1. CASE s \in settled
    BY <1>2, <1>3, <2>1, Counts, Unsettled \ {s} = Unsettled
  <2>2. CASE s \notin settled
    <3>1. Cardinality(Unsettled \ {s}) = Cardinality(Unsettled) - 1
      BY <1>3, <2>2, Counts, CountOne
    <3> QED
      BY <1>2, <2>2, <3>1, Counts
  <2> QED
    BY <2>1, <2>2
<1>5. pending' \in Nat /\ pending' <= pending
  <2>1. Unsettled' \in SUBSET Socket
    BY <1>2, Counts
  <2>2. Cardinality(Unsettled') \in Nat
    BY <2>1, SocketSets
  <2> QED
    BY <1>4, <2>2, Counts
<1>6. Cardinality(pool') \in Nat /\ Cardinality(pool') <= Cardinality(pool)
  <2>1. CASE s \in pool
    BY <2>1, Counts, CountOne
  <2>2. CASE s \notin pool
    <3>1. pool' = pool
      BY <2>2
    <3>2. Cardinality(pool) \in Nat
      BY Counts
    <3>3. Cardinality(pool') = Cardinality(pool)
      BY <3>1, Zenon
    <3> QED
      BY <3>2, <3>3
  <2> QED
    BY <2>1, <2>2
<1>7. PendingExact' /\ PoolBound'
  BY <1>4, <1>5, <1>6, Counts, TargetAssumption DEF PendingExact, PoolBound
<1>8. TimersMatchPhase'
  BY <1>2 DEF IInv, TypeOK, TimersMatchPhase
<1>9. PhasesAgree'
  BY <1>1 DEF IInv, TypeOK, PhasesAgree
<1> QED
  BY <1>1, <1>5, <1>7, <1>8, <1>9

(* scheduleRefill leaves a running pool with a timer, a halted one without.*)
LEMMA ScheduleRefillArms ==
  ASSUME TypeOK, HaltIsQuiet, suspended' = suspended, ScheduleRefill
  PROVE  /\ refillTimer' \in BOOLEAN /\ consecutiveFailures' \in Nat
         /\ HaltIsQuiet' /\ NeverStalls'
<1>1. refillTimer' = (refillTimer \/ ~suspended)
  BY DEF ScheduleRefill
<1>2. consecutiveFailures' \in Nat
  BY DEF ScheduleRefill, TypeOK
<1>3. HaltIsQuiet' /\ NeverStalls'
  BY <1>1 DEF HaltIsQuiet, NeverStalls
<1> QED
  BY <1>1, <1>2, <1>3

(* 'close': an unsettled or unhealthy socket is left to the back-off, one  *)
(* closed in good order is replaced, and one already retired is forgotten. *)
LEMMA ClosePreserves ==
  ASSUME IInv, NEW s \in Socket, Close(s)
  PROVE  IInv' /\ (NeverStalls => NeverStalls')
<1> DEFINE conn  == [tcp EXCEPT ![s] = "free"]
           armed == [timers EXCEPT ![s] = {}]
           quiet == /\ tcp' = conn /\ timers' = armed
                    /\ pending' = IF s \in settled THEN pending ELSE pending - 1
           kept  == /\ tcp' \in [Socket -> Phases]
                    /\ timers' \in [Socket -> SUBSET Timers] /\ pending' \in Nat
                    /\ PendingExact' /\ PoolBound'
                    /\ TimersMatchPhase' /\ PhasesAgree'
           backsOff == /\ refillTimer' \in BOOLEAN /\ consecutiveFailures' \in Nat
                       /\ HaltIsQuiet' /\ (NeverStalls => NeverStalls')
<1>1. /\ tcp[s] = "destroyed"
      /\ pool' = pool \ {s} /\ settled' = settled \ {s}
      /\ UNCHANGED <<suspended, configured, secret>>
      /\ unhealthy' \in SUBSET Socket /\ silent' \in SUBSET Socket
      /\ signedWith' \in [Socket -> Nat]
      /\ settled' \in SUBSET Socket /\ pool' \in SUBSET settled'
  BY CloseClears
<1>2. TypeOK /\ HaltIsQuiet /\ pool \subseteq settled
  BY DEF IInv, PhasesAgree
<1>3. ASSUME quiet PROVE kept
  BY <1>1, <1>3, QuietClosePreserves
<1>4. CASE quiet /\ ScheduleRefill
  <2>1. backsOff
    BY <1>1, <1>2, <1>4, ScheduleRefillArms
  <2> QED
    BY <1>1, <1>3, <1>4, <2>1 DEF IInv, TypeOK, Phases
<1>5. CASE quiet /\ s \in settled \ pool /\ UNCHANGED <<refillTimer, consecutiveFailures>>
  <2>1. pool' = pool /\ pending' = pending
    BY <1>1, <1>5
  <2>2. HaltIsQuiet' /\ (NeverStalls => NeverStalls')
    BY <1>1, <1>2, <1>5, <2>1 DEF HaltIsQuiet, NeverStalls
  <2>3. TypeOK'
    BY <1>1, <1>2, <1>3, <1>5 DEF TypeOK, Phases
  <2> QED
    BY <1>3, <1>5, <2>2, <2>3 DEF IInv
<1>6. CASE /\ s \in pool
           /\ FormPreconnectPool(suspended, Cardinality(pool \ {s}), pending, conn, armed)
           /\ UNCHANGED <<refillTimer, consecutiveFailures>>
  <2>1. /\ conn \in [Socket -> Phases] /\ armed \in [Socket -> SUBSET Timers]
        /\ suspended \in BOOLEAN
    BY DEF IInv, TypeOK, Phases
  <2>2. \A r \in settled' : conn[r] \in {"open", "destroyed"}
    BY <1>1 DEF IInv, TypeOK, PhasesAgree
  <2>3. pending = Cardinality({r \in Socket : conn[r] # "free"} \ settled')
    <3>1. {r \in Socket : conn[r] # "free"} \ settled' = Unsettled
      BY <1>1, <1>2, <1>6 DEF Unsettled, Live, TypeOK
    <3> QED
      BY <3>1, Counts
  <2>4. pending \in Nat /\ Cardinality(pool') + pending <= TargetPoolCount
    <3>1. Cardinality(pool') = Cardinality(pool) - 1
      BY <1>1, <1>6, Counts, CountOne
    <3> QED
      BY <3>1, Counts, TargetAssumption
  <2>5. ASSUME NEW r \in Socket
        PROVE  /\ Handshake \cap armed[r] # {} => conn[r] # "free" /\ r \notin settled'
               /\ "heartbeat" \in armed[r] <=> r \in pool'
               /\ "pong" \in armed[r] => r \in pool'
               /\ "connect" \in armed[r] => conn[r] # "open"
    BY <1>1, <1>6 DEF IInv, TypeOK, TimersMatchPhase, PhasesAgree, Unsettled, Live
  <2>6. FormPreconnectPool(suspended, Cardinality(pool'), pending, conn, armed)
    BY <1>1, <1>6
  <2>7. kept /\ (~suspended => Deficit(Cardinality(pool'), pending') = 0)
    <3> HIDE DEF armed, conn
    <3> QED
      BY <1>1, <2>1, <2>2, <2>3, <2>4, <2>5, <2>6, FormPreserves
  <2>8. HaltIsQuiet' /\ NeverStalls'
    BY <1>1, <1>2, <1>6, <2>7 DEF HaltIsQuiet, NeverStalls
  <2>9. TypeOK'
    BY <1>1, <1>2, <1>6, <2>7 DEF TypeOK, Phases
  <2> QED
    BY <2>7, <2>8, <2>9 DEF IInv
<1>7. \/ quiet /\ ScheduleRefill
      \/ quiet /\ s \in settled \ pool /\ UNCHANGED <<refillTimer, consecutiveFailures>>
      \/ /\ s \in pool
         /\ FormPreconnectPool(suspended, Cardinality(pool \ {s}), pending, conn, armed)
         /\ UNCHANGED <<refillTimer, consecutiveFailures>>
  BY <1>2 DEF Close
<1> QED
  BY <1>4, <1>5, <1>6, <1>7

(* PRE:ERR gives the socket back to nobody: it stays settled until 'close'.*)
LEMMA PreErrPreserves ==
  ASSUME IInv, NEW s \in Socket, NEW reason \in Rejections, PreErr(s, reason)
  PROVE  IInv' /\ (NeverStalls /\ reason = "fatal" => NeverStalls')
<1>1. /\ s \in Unsettled /\ tcp[s] = "open"
      /\ suspended' = (suspended \/ reason = "fatal")
      /\ refillTimer' = (refillTimer /\ reason # "fatal")
      /\ settled' = settled \cup {s} /\ pending' = pending - 1
      /\ timers' = [timers EXCEPT ![s] = @ \ {"ack"}]
      /\ tcp' = [tcp EXCEPT ![s] = "destroyed"]
      /\ pool' = pool
      /\ UNCHANGED <<peerVars, consecutiveFailures, configured, secret>>
  BY DEF PreErr, Readable, Disarm, Destroy
<1>2. Unsettled' = Unsettled \ {s}
  BY <1>1 DEF Unsettled, Live, IInv, TypeOK
<1>3. Cardinality(Unsettled') = pending' /\ pending' \in Nat /\ pending' <= pending
  <2>1. Unsettled \in SUBSET Socket /\ pending = Cardinality(Unsettled) /\ pending \in Nat
    BY Counts
  <2>2. Cardinality(Unsettled \ {s}) = pending - 1 /\ pending >= 1
    BY <1>1, <2>1, CountOne
  <2> QED
    BY <1>1, <1>2, <2>1, <2>2
<1>4. PendingExact' /\ PoolBound'
  BY <1>1, <1>3, Counts, TargetAssumption DEF PendingExact, PoolBound
<1>5. TypeOK'
  <2>1. suspended' \in BOOLEAN /\ refillTimer' \in BOOLEAN
    BY <1>1
  <2> QED
    BY <1>1, <1>3, <2>1 DEF IInv, TypeOK, peerVars
<1>6. TimersMatchPhase'
  BY <1>1, <1>2 DEF IInv, TypeOK, TimersMatchPhase, PhasesAgree, Handshake
<1>7. PhasesAgree'
  BY <1>1 DEF IInv, TypeOK, PhasesAgree
<1>8. HaltIsQuiet' /\ (reason = "fatal" => NeverStalls')
  BY <1>1 DEF IInv, HaltIsQuiet, NeverStalls
<1> QED
  BY <1>4, <1>5, <1>6, <1>7, <1>8 DEF IInv

-----------------------------------------------------------------------------
(* The invariants of the specification                                     *)

(* Initially nothing is open.                                              *)
LEMMA InitEstablishes == Init => IInv /\ NeverStalls
<1> SUFFICES ASSUME Init PROVE IInv /\ NeverStalls
  OBVIOUS
<1> USE DEF Init
<1>1. TypeOK
  BY DEF TypeOK
<1>2. Unsettled = {}
  BY DEF Unsettled, Live
<1>3. PendingExact /\ PoolBound
  BY <1>2, FS_EmptySet, TargetAssumption DEF PendingExact, PoolBound
<1>4. TimersMatchPhase /\ PhasesAgree /\ HaltIsQuiet /\ NeverStalls
  BY DEF TimersMatchPhase, PhasesAgree, HaltIsQuiet, NeverStalls
<1> QED
  BY <1>1, <1>3, <1>4 DEF IInv

(* A step that changes none of the variables NeverStalls reads keeps it.   *)
LEMMA NeverStallsFrame ==
  ASSUME NeverStalls,
         UNCHANGED <<pool, pending, refillTimer, suspended, configured>>
  PROVE  NeverStalls'
BY DEF NeverStalls

(* Every handler keeps the invariant, and keeps the pool from stalling     *)
(* unless the server refuses a connection for a reason that may pass.      *)
LEMMA StepPreserves ==
  ASSUME IInv, [Next]_vars
  PROVE  /\ IInv'
         /\ NeverStalls /\ "retryable" \notin Rejections => NeverStalls'
<1>1. CASE IssueSecret
  <2>1. UNCHANGED <<tcp, timers, settled, peerVars, pool, pending, refillTimer,
                    consecutiveFailures, suspended, configured>>
    BY <1>1 DEF IssueSecret
  <2>2. TypeOK'
    BY <1>1, <2>1 DEF IssueSecret, IInv, TypeOK, peerVars
  <2>3. Unsettled' = Unsettled /\ Live' = Live
    BY <2>1 DEF Unsettled, Live
  <2>4. PendingExact' /\ PoolBound' /\ TimersMatchPhase' /\ PhasesAgree' /\ HaltIsQuiet'
    BY <2>1, <2>3 DEF IInv, PendingExact, PoolBound, TimersMatchPhase,
           PhasesAgree, HaltIsQuiet
  <2> QED
    BY <2>1, <2>2, <2>4, NeverStallsFrame DEF IInv
<1>2. CASE InitPreconnectPool \/ RefillTimerFires
  BY <1>2, RefillPreserves
<1>3. ASSUME NEW s \in Socket, Moves(s)
      PROVE  IInv' /\ (NeverStalls => NeverStalls')
  BY <1>3, MovesPreserve, NeverStallsFrame
<1>4. ASSUME NEW s \in Socket, PreOk(s)
      PROVE  IInv' /\ NeverStalls'
  BY <1>4, PreOkPreserves
<1>5. ASSUME NEW s \in Socket, NEW reason \in Rejections, PreErr(s, reason)
      PROVE  /\ IInv'
             /\ NeverStalls /\ "retryable" \notin Rejections => NeverStalls'
  BY <1>5, PreErrPreserves, RejectionsAssumption
<1>6. ASSUME NEW s \in Socket, NEW validPort \in BOOLEAN, OpenFrame(s, validPort)
      PROVE  IInv' /\ NeverStalls'
  BY <1>6, OpenPreserves
<1>7. ASSUME NEW s \in Socket, Close(s)
      PROVE  IInv' /\ (NeverStalls => NeverStalls')
  BY <1>7, ClosePreserves
<1>8. CASE UNCHANGED vars
  <2>1. IInv'
    BY <1>8 DEF vars, IInv, TypeOK, PendingExact, PoolBound, TimersMatchPhase,
           PhasesAgree, HaltIsQuiet, Unsettled, Live
  <2> QED
    BY <1>8, <2>1, NeverStallsFrame DEF vars
<1> QED
  BY <1>1, <1>2, <1>3, <1>4, <1>5, <1>6, <1>7, <1>8 DEF Next, Moves

(* The inductive invariant holds in every reachable state.                 *)
THEOREM Invariance == Spec => []IInv
<1>1. Init => IInv
  BY InitEstablishes
<1>2. IInv /\ [Next]_vars => IInv'
  BY StepPreserves
<1> QED
  BY <1>1, <1>2, PTL DEF Spec

(* Every variable of the pool keeps its type.                              *)
THEOREM TypeCorrect == Spec => []TypeOK
<1>1. IInv => TypeOK
  BY DEF IInv
<1> QED
  BY <1>1, Invariance, PTL

(* Whatever deadlines, lines, errors and closes interleave, the pending    *)
(* counter is the number of handshakes under way.                          *)
THEOREM PendingIsExact == Spec => []PendingExact
<1>1. IInv => PendingExact
  BY DEF IInv
<1> QED
  BY <1>1, Invariance, PTL

(* The pool and its pending connections never exceed TARGET_POOL_COUNT.    *)
THEOREM PoolIsBounded == Spec => []PoolBound
<1>1. IInv => PoolBound
  BY DEF IInv
<1> QED
  BY <1>1, Invariance, PTL

(* No deadline outlives the phase of the socket it belongs to.             *)
THEOREM TimersAreOwned == Spec => []TimersMatchPhase
<1>1. IInv => TimersMatchPhase
  BY DEF IInv
<1> QED
  BY <1>1, Invariance, PTL

(* If the server refuses only for reasons that no retry can mend, a pool   *)
(* that is configured and not halted is full, filling, or has a refill     *)
(* scheduled.                                                              *)
THEOREM PoolNeverStalls ==
  ASSUME "retryable" \notin Rejections
  PROVE  Spec => []NeverStalls
<1>1. Init => IInv /\ NeverStalls
  BY InitEstablishes
<1>2. (IInv /\ NeverStalls) /\ [Next]_vars => (IInv /\ NeverStalls)'
  BY StepPreserves
<1> QED
  BY <1>1, <1>2, PTL DEF Spec

-----------------------------------------------------------------------------
(* A halted pool stays halted                                              *)

(* A call of formPreconnectPool on a halted pool opens nothing.            *)
LEMMA HaltedFormOpensNothing ==
  ASSUME NEW p, NEW n \in Nat, NEW conn, NEW armed,
         FormPreconnectPool(TRUE, p, n, conn, armed)
  PROVE  pending' = n
BY DEF FormPreconnectPool

(* While the halt lasts, no handler raises the pending counter.            *)
LEMMA HaltedStep ==
  ASSUME IInv, [Next]_vars, suspended, suspended'
  PROVE  pending' <= pending
<1>0. pending \in Nat /\ Unsettled \in SUBSET Socket /\ pending = Cardinality(Unsettled)
  BY Counts
<1>1. CASE IssueSecret \/ UNCHANGED vars
  BY <1>0, <1>1 DEF IssueSecret, vars
<1>2. CASE InitPreconnectPool
  BY <1>2 DEF InitPreconnectPool
<1>3. CASE RefillTimerFires
  BY <1>3 DEF RefillTimerFires, IInv, HaltIsQuiet
<1>4. ASSUME NEW s \in Socket, Moves(s)
      PROVE  pending' <= pending
  BY <1>0, <1>4, MovesPreserve
<1>5. ASSUME NEW s \in Socket, PreOk(s)
      PROVE  pending' <= pending
  <2>1. PICK armed :
          FormPreconnectPool(TRUE, Cardinality(pool'), pending - 1, tcp, armed)
    BY <1>5 DEF PreOk
  <2>2. s \in Unsettled
    BY <1>5 DEF PreOk
  <2>3. Cardinality(Unsettled) >= 1
    BY <1>0, <2>2, CountOne
  <2>4. pending - 1 \in Nat
    BY <1>0, <2>3
  <2>5. pending' = pending - 1
    BY <2>1, <2>4, HaltedFormOpensNothing
  <2> QED
    BY <1>0, <2>5
<1>6. ASSUME NEW s \in Socket, NEW reason \in Rejections, PreErr(s, reason)
      PROVE  pending' <= pending
  BY <1>0, <1>6 DEF PreErr
<1>7. ASSUME NEW s \in Socket, NEW validPort \in BOOLEAN, OpenFrame(s, validPort)
      PROVE  pending' <= pending
  <2>1. PICK conn, armed :
          FormPreconnectPool(TRUE, Cardinality(pool'), pending, conn, armed)
    BY <1>7 DEF OpenFrame
  <2>2. pending' = pending
    BY <1>0, <2>1, HaltedFormOpensNothing
  <2> QED
    BY <1>0, <2>2
<1>8. ASSUME NEW s \in Socket, Close(s)
      PROVE  pending' <= pending
  <2>1. CASE pending' = pending \/ pending' = pending - 1
    BY <1>0, <2>1
  <2>2. CASE \E p, conn, armed : FormPreconnectPool(TRUE, p, pending, conn, armed)
    <3>1. pending' = pending
      BY <1>0, <2>2, HaltedFormOpensNothing
    <3> QED
      BY <1>0, <3>1
  <2> QED
    BY <1>8, <2>1, <2>2 DEF Close
<1> QED
  BY <1>1, <1>2, <1>3, <1>4, <1>5, <1>6, <1>7, <1>8 DEF Next, Moves

(* After a fatal rejection nothing is opened and nothing is scheduled      *)
(* until the agent has registered again.                                   *)
THEOREM HaltHolds == Spec => HaltedUntilReregistration
<1>1. IInv /\ IInv' /\ [Next]_vars
        => [suspended /\ suspended' => pending' <= pending /\ ~refillTimer']_vars
  BY HaltedStep DEF IInv, HaltIsQuiet
<1> QED
  BY <1>1, Invariance, PTL DEF Spec, HaltedUntilReregistration

-----------------------------------------------------------------------------
(* Failures are left to the back-off                                       *)

(* A call of formPreconnectPool leaves the sockets that are in use alone.  *)
LEMMA FormKeepsSockets ==
  ASSUME NEW halted, NEW p, NEW n, NEW conn, NEW armed, NEW s \in Socket,
         FormPreconnectPool(halted, p, n, conn, armed), conn[s] # "free"
  PROVE  tcp'[s] = conn[s]
BY DEF FormPreconnectPool

(* Only its 'close' ends a socket that has been destroyed.                 *)
LEMMA OnlyCloseEnds ==
  ASSUME IInv, [Next]_vars, NEW s \in Socket, tcp[s] = "destroyed", tcp'[s] # "destroyed"
  PROVE  Close(s)
<1>1. tcp \in [Socket -> Phases]
  BY DEF IInv, TypeOK, Phases
<1>2. CASE IssueSecret \/ UNCHANGED vars
  BY <1>2 DEF IssueSecret, vars
<1>3. CASE InitPreconnectPool \/ RefillTimerFires
  <2>1. \E halted : FormPreconnectPool(halted, Cardinality(pool), pending, tcp, timers)
    BY <1>3 DEF InitPreconnectPool, RefillTimerFires
  <2>2. tcp'[s] = tcp[s]
    BY <2>1, FormKeepsSockets
  <2> QED
    BY <2>2
<1>4. ASSUME NEW r \in Socket, Moves(r)
      PROVE  FALSE
  BY <1>1, <1>4 DEF Moves, Destroy, Readable, Connected, ConnectTimeout, AckTimeout,
     HeartbeatTick, Pong, PongTimeout, SocketError, PeerClose, GoSilent
<1>5. ASSUME NEW r \in Socket, PreOk(r)
      PROVE  FALSE
  BY <1>5, FormKeepsSockets DEF PreOk
<1>6. ASSUME NEW r \in Socket, NEW reason \in Rejections, PreErr(r, reason)
      PROVE  FALSE
  BY <1>1, <1>6 DEF PreErr, Destroy
<1>7. ASSUME NEW r \in Socket, NEW validPort \in BOOLEAN, OpenFrame(r, validPort)
      PROVE  FALSE
  <2> DEFINE conn == [tcp EXCEPT ![r] = IF validPort THEN "open" ELSE "destroyed"]
  <2>1. tcp[r] = "open" /\ r # s
    BY <1>7 DEF OpenFrame, Readable
  <2>2. conn[s] = "destroyed"
    BY <1>1, <2>1
  <2>3. PICK p, armed : FormPreconnectPool(suspended, p, pending, conn, armed)
    BY <1>7 DEF OpenFrame
  <2> HIDE DEF conn
  <2> QED
    BY <2>2, <2>3, FormKeepsSockets
<1>8. ASSUME NEW r \in Socket, Close(r), r # s
      PROVE  FALSE
  <2> DEFINE conn == [tcp EXCEPT ![r] = "free"]
  <2>1. conn[s] = "destroyed"
    BY <1>1, <1>8
  <2>2. tcp' = conn \/ \E p, armed : FormPreconnectPool(suspended, p, pending, conn, armed)
    BY <1>8 DEF Close
  <2> HIDE DEF conn
  <2> QED
    BY <2>1, <2>2, FormKeepsSockets
<1> QED
  BY <1>2, <1>3, <1>4, <1>5, <1>6, <1>7, <1>8 DEF Next, Moves

(* The 'close' of a socket that failed opens nothing: scheduleRefill() has *)
(* the refill.                                                             *)
LEMMA FailedCloseWaits ==
  ASSUME IInv, NEW s \in Unsettled \cup (pool \cap unhealthy), Close(s)
  PROVE  pending' <= pending /\ (refillTimer' \/ suspended)
<1>1. pending \in Nat /\ (s \notin settled \/ s \in pool \cap unhealthy) /\ pool \subseteq settled
  BY Counts DEF Unsettled, IInv, PhasesAgree
<1>2. ScheduleRefill /\ pending' \in {pending, pending - 1}
  BY <1>1 DEF Close
<1>3. pending' <= pending
  BY <1>1, <1>2
<1>4. refillTimer' \/ suspended
  BY <1>2, Zenon DEF ScheduleRefill
<1> QED
  BY <1>3, <1>4

(* The count of failures goes down only in a pool at its target, or by a   *)
(* registration.                                                           *)
LEMMA BackOffIsKept ==
  ASSUME IInv, [Next]_vars, consecutiveFailures' < consecutiveFailures
  PROVE  \/ Cardinality(pool') >= TargetPoolCount
         \/ suspended' = FALSE /\ refillTimer' = FALSE /\ pool' = pool
<1>1. consecutiveFailures \in Nat
  BY DEF IInv, TypeOK
<1>2. ~ UNCHANGED consecutiveFailures
  BY <1>1
<1>3. ~ ScheduleRefill
  BY <1>1 DEF ScheduleRefill
<1>4. CASE InitPreconnectPool
  BY <1>4 DEF InitPreconnectPool
<1>5. ASSUME NEW s \in Socket, PreOk(s)
      PROVE  Cardinality(pool') >= TargetPoolCount
  BY <1>2, <1>5 DEF PreOk, Accepted
<1> QED
  BY <1>2, <1>3, <1>4, <1>5 DEF Next, vars, policyVars, IssueSecret, RefillTimerFires,
     Connected, ConnectTimeout, AckTimeout, PreErr, HeartbeatTick, Pong, PongTimeout,
     OpenFrame, SocketError, PeerClose, GoSilent, Close

(* Sockets that die together do not reconnect together, and one success    *)
(* amid failures does not end the back-off.                                *)
THEOREM BacksOff == Spec => FailuresBackOff
<1> DEFINE A == /\ \A s \in Unsettled \cup (pool \cap unhealthy) :
                     tcp[s] = "destroyed" /\ tcp'[s] # "destroyed"
                       => pending' <= pending /\ (refillTimer' \/ suspended)
                /\ consecutiveFailures' < consecutiveFailures =>
                     \/ Cardinality(pool') >= TargetPoolCount
                     \/ suspended' = FALSE /\ refillTimer' = FALSE /\ pool' = pool
<1>1. IInv /\ [Next]_vars => [A]_vars
  <2>1. SUFFICES ASSUME IInv, [Next]_vars
                 PROVE  A
    OBVIOUS
  <2>2. Unsettled \cup (pool \cap unhealthy) \subseteq Socket
    BY <2>1, Counts
  <2>3. \A s \in Unsettled \cup (pool \cap unhealthy) :
          tcp[s] = "destroyed" /\ tcp'[s] # "destroyed"
            => pending' <= pending /\ (refillTimer' \/ suspended)
    BY <2>1, <2>2, OnlyCloseEnds, FailedCloseWaits
  <2> QED
    BY <2>1, <2>3, BackOffIsKept
<1> QED
  BY <1>1, Invariance, PTL DEF Spec, FailuresBackOff

-----------------------------------------------------------------------------
(* The pool implements TunnelSupply                                        *)

(* A call of formPreconnectPool places an order that TunnelSupply allows.  *)
LEMMA FormOrders ==
  ASSUME NEW halted \in BOOLEAN, NEW p \in Nat, NEW n \in Nat, NEW conn, NEW armed,
         p + n <= TargetPoolCount, halted = suspended', p = Cardinality(pool'),
         FormPreconnectPool(halted, p, n, conn, armed)
  PROVE  Supply!Orders(p, n)
<1>1. PICK k : /\ k = IF halted THEN 0 ELSE Deficit(p, n)
               /\ pending' = n + k
  BY DEF FormPreconnectPool
<1>2. k \in 0 .. TargetPoolCount /\ (k > 0 => ~halted /\ p + n + k <= Supply!Limit(p))
  BY <1>1, TargetAssumption DEF Deficit, Supply!Limit
<1> QED
  BY <1>1, <1>2 DEF Supply!Orders

(* Every handler is an event of TunnelSupply or changes none of what it    *)
(* speaks of.                                                              *)
LEMMA StepSupplies ==
  ASSUME IInv, [Next]_vars
  PROVE  [Supply!SNext]_(Supply!svars)
<1> DEFINE p == Cardinality(pool)
<1>1. /\ pool \in SUBSET Socket /\ p \in Nat /\ pending \in Nat
      /\ p + pending <= TargetPoolCount /\ TargetPoolCount \in Nat
      /\ Unsettled \in SUBSET Socket /\ pending = Cardinality(Unsettled)
      /\ pool \subseteq settled /\ suspended \in BOOLEAN
  BY Counts, TargetAssumption DEF IInv, TypeOK, PhasesAgree
<1>2. ASSUME UNCHANGED <<pool, pending, suspended>>
      PROVE  UNCHANGED Supply!svars
  BY <1>2 DEF Supply!svars
<1>3. CASE IssueSecret \/ UNCHANGED vars
  BY <1>2, <1>3 DEF IssueSecret, vars
<1>4. ASSUME NEW s \in Socket, Moves(s)
      PROVE  UNCHANGED Supply!svars
  BY <1>2, <1>4, MovesPreserve
<1>5. CASE InitPreconnectPool
  <2>1. pool' = pool /\ suspended' = FALSE /\ FormPreconnectPool(FALSE, p, pending, tcp, timers)
    BY <1>5 DEF InitPreconnectPool
  <2>2. Supply!Orders(p, pending)
    BY <1>1, <2>1, FormOrders
  <2> QED
    BY <2>1, <2>2 DEF Supply!SNext, Supply!Register
<1>6. CASE RefillTimerFires
  <2>1. /\ pool' = pool /\ suspended' = suspended
        /\ FormPreconnectPool(suspended, p, pending, tcp, timers)
    BY <1>6 DEF RefillTimerFires, policyVars
  <2>2. Supply!Orders(p, pending)
    BY <1>1, <2>1, FormOrders
  <2> QED
    BY <2>1, <2>2 DEF Supply!SNext, Supply!Refill
<1>7. ASSUME NEW s \in Socket, PreOk(s)
      PROVE  Supply!Accept
  <2>1. /\ s \in Unsettled /\ pool' = pool \cup {s} /\ suspended' = suspended
        /\ \E armed : FormPreconnectPool(suspended, Cardinality(pool'), pending - 1, tcp, armed)
    BY <1>7 DEF PreOk
  <2>2. Cardinality(pool') = p + 1 /\ pending >= 1
    BY <1>1, <2>1, CountOne DEF Unsettled
  <2>3. PICK armed : FormPreconnectPool(suspended, p + 1, pending - 1, tcp, armed)
    BY <2>1, <2>2
  <2>4. p + 1 \in Nat /\ pending - 1 \in Nat /\ (p + 1) + (pending - 1) <= TargetPoolCount
    BY <1>1, <2>2
  <2>5. Supply!Orders(p + 1, pending - 1)
    <3> HIDE DEF p
    <3> QED
      BY <1>1, <2>1, <2>2, <2>3, <2>4, FormOrders
  <2> QED
    BY <1>1, <2>2, <2>1, <2>5 DEF Supply!Accept
<1>8. ASSUME NEW s \in Socket, NEW reason \in Rejections, PreErr(s, reason)
      PROVE  Supply!Fail
  <2>1. s \in Unsettled /\ pool' = pool /\ pending' = pending - 1
    BY <1>8 DEF PreErr
  <2>2. suspended' = (suspended \/ reason = "fatal")
    BY <1>8 DEF PreErr
  <2>3. suspended' = suspended \/ suspended' = TRUE
    BY <1>1, <2>2
  <2>4. pending > 0
    <3>1. Cardinality(Unsettled) >= 1
      BY <1>1, <2>1, CountOne
    <3> QED
      BY <1>1, <3>1
  <2> QED
    BY <2>1, <2>3, <2>4 DEF Supply!Fail
<1>9. ASSUME NEW s \in Socket, NEW validPort \in BOOLEAN, OpenFrame(s, validPort)
      PROVE  Supply!Use
  <2>1. /\ s \in pool /\ pool' = pool \ {s} /\ suspended' = suspended
        /\ \E conn, armed : FormPreconnectPool(suspended, Cardinality(pool'), pending, conn, armed)
    BY <1>9 DEF OpenFrame, policyVars
  <2>2. Cardinality(pool') = p - 1 /\ p >= 1
    BY <1>1, <2>1, CountOne
  <2>3. PICK conn, armed : FormPreconnectPool(suspended, p - 1, pending, conn, armed)
    BY <2>1, <2>2
  <2>4. p - 1 \in Nat /\ (p - 1) + pending <= TargetPoolCount
    BY <1>1, <2>2
  <2>5. Supply!Orders(p - 1, pending)
    <3> HIDE DEF p
    <3> QED
      BY <1>1, <2>1, <2>2, <2>3, <2>4, FormOrders
  <2> QED
    BY <1>1, <2>1, <2>2, <2>5 DEF Supply!Use
<1>10. ASSUME NEW s \in Socket, Close(s)
       PROVE  Supply!Fail \/ Supply!Use \/ UNCHANGED Supply!svars
  <2>1. /\ pool' = pool \ {s} /\ suspended' = suspended
        /\ tcp[s] = "destroyed"
    BY <1>10 DEF Close
  <2>2. CASE s \notin settled
    <3>1. pool' = pool /\ pending' = pending - 1
      BY <1>1, <1>10, <2>1, <2>2 DEF Close
    <3>2. s \in Unsettled
      BY <2>1, <2>2 DEF Unsettled, Live
    <3>3. Cardinality(Unsettled) >= 1
      BY <1>1, <3>2, CountOne
    <3>4. pending > 0
      BY <1>1, <3>3
    <3> QED
      BY <2>1, <3>1, <3>4 DEF Supply!Fail
  <2>3. CASE s \in settled \ pool
    <3>1. pool' = pool /\ pending' = pending
      BY <1>10, <2>1, <2>3 DEF Close
    <3> QED
      BY <1>2, <2>1, <3>1
  <2>4. CASE s \in pool
    <3>1. Cardinality(pool') = p - 1 /\ p >= 1
      BY <1>1, <2>1, <2>4, CountOne
    <3>2. \/ pending' = pending
          \/ \E conn, armed : FormPreconnectPool(suspended, Cardinality(pool'), pending, conn, armed)
      BY <1>1, <1>10, <2>1, <2>4 DEF Close
    <3>3. CASE pending' = pending
      <4>1. 0 \in 0 .. TargetPoolCount /\ pending' = pending + 0
        BY <1>1, <3>3
      <4>2. Supply!Orders(p - 1, pending)
        BY <3>1, <4>1 DEF Supply!Orders
      <4> QED
        BY <1>1, <2>1, <3>1, <4>2 DEF Supply!Use
    <3>4. CASE \E conn, armed :
                 FormPreconnectPool(suspended, Cardinality(pool'), pending, conn, armed)
      <4>1. PICK conn, armed : FormPreconnectPool(suspended, p - 1, pending, conn, armed)
        BY <3>1, <3>4
      <4>2. p - 1 \in Nat /\ (p - 1) + pending <= TargetPoolCount
        BY <1>1, <3>1
      <4>3. Supply!Orders(p - 1, pending)
        <5> HIDE DEF p
        <5> QED
          BY <1>1, <2>1, <3>1, <4>1, <4>2, FormOrders
      <4> QED
        BY <1>1, <2>1, <3>1, <4>3 DEF Supply!Use
    <3> QED
      BY <3>2, <3>3, <3>4
  <2> QED
    BY <2>2, <2>3, <2>4
<1> QED
  BY <1>3, <1>4, <1>5, <1>6, <1>7, <1>8, <1>9, <1>10 DEF Next, Moves, Supply!SNext

(* New sockets are made within the target, one at a time while none is     *)
(* ready and none while halted, and only initPreconnectPool() ends a halt. *)
THEOREM ImplementsSupply == Spec => SuppliesTunnels
<1>1. Init => Supply!SInit
  BY FS_EmptySet DEF Init, Supply!SInit
<1>2. IInv /\ [Next]_vars => [Supply!SNext]_(Supply!svars)
  BY StepSupplies
<1> QED
  BY <1>1, <1>2, Invariance, PTL DEF Spec, SuppliesTunnels, Supply!SSpec
=============================================================================
