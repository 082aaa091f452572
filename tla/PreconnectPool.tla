--------------------------- MODULE PreconnectPool ---------------------------
(***************************************************************************)
(* The pool of idle sockets that ReverseTunnelService keeps open towards   *)
(* the tunnel server (src/src/tunnel/reverse-tunnel.service.ts).           *)
(*                                                                         *)
(* Node runs one callback at a time, so every event handler of the source  *)
(* is one action here, with every helper it calls.  What interleaves are   *)
(* the events: connects, lines from the server, timers, 'error' and        *)
(* 'close'.  A socket identifier stands for one net.Socket from the call   *)
(* of preconnect() until its 'close' event, and is then free for another.  *)
(***************************************************************************)
EXTENDS Naturals, FiniteSets

CONSTANTS
  Socket,           \* identifiers for net.Socket objects
  TargetPoolCount,  \* TARGET_POOL_COUNT
  Rejections,       \* kinds of PRE:ERR the server may answer with
  MaxSecrets,       \* bound: how many signing secrets the Hub ever issues
  MaxRetired,       \* bound: sockets that left the handshake and the pool
  FailureCap        \* bound: consecutiveFailures saturates here; the delay
                    \* min(500 * 2^(n-1), 30000) is constant from 7 on

ASSUME SocketAssumption == IsFiniteSet(Socket)
ASSUME TargetAssumption == TargetPoolCount \in Nat \ {0}
ASSUME RejectionsAssumption == Rejections \subseteq {"fatal", "retryable"}
ASSUME BoundsAssumption ==
         MaxSecrets \in Nat /\ MaxRetired \in Nat /\ FailureCap \in Nat

VARIABLES
  tcp,        \* "free", "connecting", "open", or "destroyed" and not yet closed
  timers,     \* the timers armed on each socket
  settled,    \* sockets already taken out of the pending counter
  unhealthy,  \* sockets that left evidence of a failure
  silent,     \* sockets whose peer vanished without a FIN
  signedWith, \* the secret the PRE line of each socket was signed with
  pool, pending, refillTimer, consecutiveFailures, suspended,
  configured, \* readSigningSecret and agentUuid have been set
  secret      \* the secret readSigningSecret() returns; 0 before the first

vars == <<tcp, timers, settled, unhealthy, silent, signedWith, pool, pending,
          refillTimer, consecutiveFailures, suspended, configured, secret>>

peerVars   == <<unhealthy, silent, signedWith>>
policyVars == <<consecutiveFailures, suspended, configured, secret>>

Handshake == {"connect", "ack"}         \* connectDeadline, ackDeadline
Keepalive == {"heartbeat", "pong"}      \* heartbeat, pongDeadline
Timers    == Handshake \cup Keepalive

Live      == {s \in Socket : tcp[s] # "free"}
Unsettled == Live \ settled
Retired   == settled \ pool   \* piped to a local service, or refused
Readable  == {s \in Socket : tcp[s] = "open" /\ s \notin silent}

Init ==
  /\ tcp = [s \in Socket |-> "free"]
  /\ timers = [s \in Socket |-> {}]
  /\ settled = {} /\ unhealthy = {} /\ silent = {}
  /\ signedWith = [s \in Socket |-> 0]
  /\ pool = {} /\ pending = 0 /\ refillTimer = FALSE
  /\ consecutiveFailures = 0 /\ suspended = FALSE
  /\ configured = FALSE /\ secret = 0

-----------------------------------------------------------------------------
(* Helpers shared by the handlers                                          *)

(* Mutants of Deficit: blind to the sockets in flight, without the probe,   *)
(* one short of the target.                                                *)
DeficitOfPool(pooled, inFlight) ==
  IF pooled < TargetPoolCount THEN TargetPoolCount - pooled ELSE 0
DeficitNoProbe(pooled, inFlight) ==
  IF inFlight + pooled < TargetPoolCount
  THEN TargetPoolCount - (inFlight + pooled) ELSE 0
DeficitOneShort(pooled, inFlight) ==
  LET limit == IF pooled = 0 THEN 1 ELSE TargetPoolCount - 1
  IN  IF inFlight + pooled < limit THEN limit - (inFlight + pooled) ELSE 0

(* How many sockets formPreconnectPool opens: one probe while nothing is   *)
(* pooled, the whole shortfall once the server has accepted something.     *)
Deficit(pooled, inFlight) ==
  LET limit == IF pooled = 0 THEN 1 ELSE TargetPoolCount
  IN  IF inFlight + pooled < limit THEN limit - (inFlight + pooled) ELSE 0

(* formPreconnectPool() and the preconnect() calls it makes, from the      *)
(* values the handler has computed so far.                                 *)
FormPreconnectPool(halted, pooled, inFlight, conn, armed) ==
  \E new \in SUBSET {s \in Socket : conn[s] = "free"} :
    /\ Cardinality(new) = IF halted THEN 0 ELSE Deficit(pooled, inFlight)
    /\ pending' = inFlight + Cardinality(new)
    /\ tcp' = [s \in Socket |-> IF s \in new THEN "connecting" ELSE conn[s]]
    /\ timers' = [s \in Socket |-> IF s \in new THEN {"connect"} ELSE armed[s]]

(* Mutants of ScheduleRefill: gives up after FailureCap failures; forgets  *)
(* that the pool is halted.                                                *)
ScheduleRefillGivesUp ==
  /\ refillTimer' = (\/ refillTimer
                     \/ ~suspended /\ consecutiveFailures < FailureCap)
  /\ consecutiveFailures' =
       IF suspended \/ refillTimer \/ consecutiveFailures = FailureCap
       THEN consecutiveFailures ELSE consecutiveFailures + 1
ScheduleRefillAlways ==
  refillTimer' = TRUE /\ UNCHANGED consecutiveFailures

(* scheduleRefill(): one timer for the whole pool, one failure per round.  *)
ScheduleRefill ==
  /\ refillTimer' = (refillTimer \/ ~suspended)
  /\ consecutiveFailures' =
       IF suspended \/ refillTimer \/ consecutiveFailures = FailureCap
       THEN consecutiveFailures ELSE consecutiveFailures + 1

(* socket.destroy(), of which the 'close' event is still to come.          *)
Destroy(s) == tcp' = [tcp EXCEPT ![s] = "destroyed"]

(* Mutant of Disarm: clears the deadline and forgets the interval.         *)
DisarmDeadline(s, gone) == [timers EXCEPT ![s] = @ \ (gone \ {"heartbeat"})]

Disarm(s, gone) == [timers EXCEPT ![s] = @ \ gone]

(* Mutant of Accepted: one success forgets every failure.                  *)
AcceptedForgets(pooled) == consecutiveFailures' = 0

(* PRE:OK ends the back-off only when the pool is back at its target.      *)
Accepted(pooled) ==
  consecutiveFailures' = IF pooled >= TargetPoolCount
                         THEN 0 ELSE consecutiveFailures

-----------------------------------------------------------------------------
(* Registration                                                            *)

(* The register handler stores a secret the Hub has just issued.           *)
IssueSecret ==
  /\ secret < MaxSecrets
  /\ secret' = secret + 1
  /\ UNCHANGED <<tcp, timers, settled, peerVars, pool, pending, refillTimer,
                 consecutiveFailures, suspended, configured>>

(* Mutant of InitPreconnectPool: starts counting from nothing although     *)
(* handshakes are still under way.                                         *)
InitFromScratch ==
  /\ secret # 0
  /\ configured' = TRUE /\ suspended' = FALSE
  /\ consecutiveFailures' = 0 /\ refillTimer' = FALSE
  /\ FormPreconnectPool(FALSE, Cardinality(pool), 0, tcp, timers)
  /\ UNCHANGED <<settled, peerVars, pool, secret>>

(* initPreconnectPool() once there is a secret to sign with; without one   *)
(* it returns early and leaves the pool alone.                             *)
InitPreconnectPool ==
  /\ secret # 0
  /\ configured' = TRUE
  /\ suspended' = FALSE
  /\ consecutiveFailures' = 0
  /\ refillTimer' = FALSE
  /\ FormPreconnectPool(FALSE, Cardinality(pool), pending, tcp, timers)
  /\ UNCHANGED <<settled, peerVars, pool, secret>>

-----------------------------------------------------------------------------
(* The handshake                                                           *)

(* 'connect': write the PRE line, signed with the secret of this moment.   *)
Connected(s) ==
  /\ tcp[s] = "connecting" /\ s \notin silent
  /\ tcp' = [tcp EXCEPT ![s] = "open"]
  /\ timers' = [timers EXCEPT ![s] = (@ \ {"connect"}) \cup {"ack"}]
  /\ signedWith' = [signedWith EXCEPT ![s] = secret]
  /\ UNCHANGED <<settled, unhealthy, silent, pool, pending, refillTimer,
                 policyVars>>

(* Mutant of ConnectTimeout: gives the pending count back without          *)
(* remembering that it did.                                                *)
ConnectTimeoutCounts(s) ==
  /\ "connect" \in timers[s]
  /\ timers' = Disarm(s, {"connect"})
  /\ unhealthy' = unhealthy \cup {s}
  /\ pending' = pending - 1
  /\ Destroy(s)
  /\ UNCHANGED <<settled, silent, signedWith, pool, refillTimer, policyVars>>

ConnectTimeout(s) ==
  /\ "connect" \in timers[s]
  /\ timers' = Disarm(s, {"connect"})
  /\ unhealthy' = unhealthy \cup {s}
  /\ Destroy(s)
  /\ UNCHANGED <<settled, silent, signedWith, pool, pending, refillTimer,
                 policyVars>>

AckTimeout(s) ==
  /\ "ack" \in timers[s]
  /\ timers' = Disarm(s, {"ack"})
  /\ Destroy(s)
  /\ UNCHANGED <<settled, peerVars, pool, pending, refillTimer, policyVars>>

(* The PRE:OK line: the socket joins the pool, which is then filled up.    *)
PreOk(s) ==
  /\ s \in Readable \cap Unsettled
  /\ settled' = settled \cup {s}
  /\ pool' = pool \cup {s}
  /\ FormPreconnectPool(suspended, Cardinality(pool'), pending - 1, tcp,
       [timers EXCEPT ![s] = (@ \ {"ack"}) \cup {"heartbeat"}])
  /\ Accepted(Cardinality(pool'))
  /\ UNCHANGED <<peerVars, refillTimer, suspended, configured, secret>>

(* The PRE:ERR line: a fatal reason halts the pool until re-registration.  *)
PreErr(s, reason) ==
  /\ s \in Readable \cap Unsettled
  /\ Cardinality(Retired) < MaxRetired
  /\ suspended' = (suspended \/ reason = "fatal")
  /\ refillTimer' = (refillTimer /\ reason # "fatal")
  /\ settled' = settled \cup {s}
  /\ pending' = pending - 1
  /\ timers' = Disarm(s, {"ack"})
  /\ Destroy(s)
  /\ UNCHANGED <<peerVars, pool, consecutiveFailures, configured, secret>>

-----------------------------------------------------------------------------
(* The heartbeat of a pooled socket                                        *)

HeartbeatTick(s) ==
  /\ "heartbeat" \in timers[s] /\ "pong" \notin timers[s]
  /\ timers' = [timers EXCEPT ![s] = @ \cup {"pong"}]
  /\ UNCHANGED <<tcp, settled, peerVars, pool, pending, refillTimer,
                 policyVars>>

Pong(s) ==
  /\ s \in Readable /\ "pong" \in timers[s]
  /\ timers' = Disarm(s, {"pong"})
  /\ UNCHANGED <<tcp, settled, peerVars, pool, pending, refillTimer,
                 policyVars>>

(* Mutant of PongTimeout: records the failure and leaves the socket open.  *)
PongTimeoutRecords(s) ==
  /\ "pong" \in timers[s]
  /\ unhealthy' = unhealthy \cup {s}
  /\ UNCHANGED <<tcp, timers, settled, silent, signedWith, pool, pending,
                 refillTimer, policyVars>>

(* pongDeadline fires, perhaps after the peer's FIN and before 'close'.    *)
(* The field keeps the spent timer, so no later tick sends another PING:   *)
(* "pong" stays in the set until 'close'.                                  *)
PongTimeout(s) ==
  /\ "pong" \in timers[s]
  /\ unhealthy' = unhealthy \cup {s}
  /\ Destroy(s)
  /\ UNCHANGED <<timers, settled, silent, signedWith, pool, pending,
                 refillTimer, policyVars>>

-----------------------------------------------------------------------------
(* Consumption, and the end of a socket                                    *)

(* The OPEN line: the socket leaves the pool, which is refilled at once,   *)
(* and is piped to the local port, or destroyed when the port is invalid.  *)
OpenFrame(s, validPort) ==
  /\ s \in Readable \cap pool
  /\ Cardinality(Retired) < MaxRetired
  /\ pool' = pool \ {s}
  /\ FormPreconnectPool(suspended, Cardinality(pool'), pending,
       [tcp EXCEPT ![s] = IF validPort THEN "open" ELSE "destroyed"],
       Disarm(s, Keepalive))
  /\ UNCHANGED <<settled, peerVars, refillTimer, policyVars>>

(* 'error': only the evidence is kept, the cleaning is left to 'close'.    *)
SocketError(s) ==
  /\ tcp[s] \in {"connecting", "open"}
  /\ unhealthy' = unhealthy \cup {s}
  /\ Destroy(s)
  /\ UNCHANGED <<timers, settled, silent, signedWith, pool, pending,
                 refillTimer, policyVars>>

(* The server ends the connection in good order.                           *)
PeerClose(s) ==
  /\ s \in Readable
  /\ Destroy(s)
  /\ UNCHANGED <<timers, settled, peerVars, pool, pending, refillTimer,
                 policyVars>>

(* The peer disappears without a FIN: nothing more is heard from it.       *)
GoSilent(s) ==
  /\ tcp[s] \in {"connecting", "open"} /\ s \notin silent
  /\ silent' = silent \cup {s}
  /\ UNCHANGED <<tcp, timers, settled, unhealthy, signedWith, pool, pending,
                 refillTimer, policyVars>>

(* 'close': the one place that cleans up and decides how to replace.       *)
Close(s) ==
  /\ tcp[s] = "destroyed"
  /\ LET conn  == [tcp EXCEPT ![s] = "free"]
         armed == [timers EXCEPT ![s] = {}]
         quietly(inFlight) == /\ tcp' = conn /\ timers' = armed
                              /\ pending' = inFlight
     IN  \/ /\ s \notin settled
            /\ quietly(pending - 1)
            /\ ScheduleRefill
         \/ /\ s \in settled \ pool
            /\ quietly(pending)
            /\ UNCHANGED <<refillTimer, consecutiveFailures>>
         \/ /\ s \in pool /\ s \in unhealthy
            /\ quietly(pending)
            /\ ScheduleRefill
         \/ /\ s \in pool /\ s \notin unhealthy
            /\ FormPreconnectPool(suspended, Cardinality(pool \ {s}), pending,
                                  conn, armed)
            /\ UNCHANGED <<refillTimer, consecutiveFailures>>
  /\ pool' = pool \ {s}
  /\ settled' = settled \ {s}
  /\ unhealthy' = unhealthy \ {s}
  /\ silent' = silent \ {s}
  /\ signedWith' = [signedWith EXCEPT ![s] = 0]
  /\ UNCHANGED <<suspended, configured, secret>>

RefillTimerFires ==
  /\ refillTimer
  /\ refillTimer' = FALSE
  /\ FormPreconnectPool(suspended, Cardinality(pool), pending, tcp, timers)
  /\ UNCHANGED <<settled, peerVars, pool, policyVars>>

-----------------------------------------------------------------------------
Next ==
  \/ IssueSecret \/ InitPreconnectPool \/ RefillTimerFires
  \/ \E s \in Socket :
       \/ Connected(s) \/ ConnectTimeout(s) \/ AckTimeout(s)
       \/ PreOk(s) \/ \E reason \in Rejections : PreErr(s, reason)
       \/ HeartbeatTick(s) \/ Pong(s) \/ PongTimeout(s)
       \/ \E validPort \in BOOLEAN : OpenFrame(s, validPort)
       \/ SocketError(s) \/ PeerClose(s) \/ GoSilent(s) \/ Close(s)

Spec == Init /\ [][Next]_vars

(* The agent's own timers fire and a destroyed socket closes.              *)
AgentFairness ==
  /\ WF_vars(RefillTimerFires)
  /\ \A s \in Socket :
       /\ WF_vars(ConnectTimeout(s)) /\ WF_vars(AckTimeout(s))
       /\ WF_vars(HeartbeatTick(s)) /\ WF_vars(PongTimeout(s))
       /\ WF_vars(Close(s))

(* A server that is reachable accepts, acknowledges and answers PING.      *)
ServerFairness ==
  \A s \in Socket :
    WF_vars(Connected(s)) /\ WF_vars(PreOk(s)) /\ WF_vars(Pong(s))

FairSpec == Spec /\ AgentFairness /\ ServerFairness

-----------------------------------------------------------------------------
(* Every variable has the type the source gives it.                        *)
TypeOK ==
  /\ tcp \in [Socket -> {"free", "connecting", "open", "destroyed"}]
  /\ timers \in [Socket -> SUBSET Timers]
  /\ settled \in SUBSET Socket /\ unhealthy \in SUBSET Socket
  /\ silent \in SUBSET Socket /\ pool \in SUBSET Socket
  /\ signedWith \in [Socket -> Nat]
  /\ pending \in Nat /\ consecutiveFailures \in Nat /\ secret \in Nat
  /\ refillTimer \in BOOLEAN /\ suspended \in BOOLEAN
  /\ configured \in BOOLEAN

(* The pending counter is the number of sockets still in their handshake:  *)
(* whatever the order of PRE:OK, PRE:ERR, the deadlines, 'error' and       *)
(* 'close', settle() gives each socket back exactly once.                  *)
PendingExact == pending = Cardinality(Unsettled)

(* Consumption, closes, probes and retries all call formPreconnectPool and *)
(* together never open more than the target: pooled and pending sockets    *)
(* stay within TARGET_POOL_COUNT.                                          *)
PoolBound == Cardinality(pool) + pending <= TargetPoolCount

(* A socket's timers belong to the phase it is in: only a socket in its    *)
(* handshake has a connect or ack deadline, only a pooled one has the      *)
(* heartbeat, and a socket piped to a local service or closed has none, so *)
(* no forgotten deadline can destroy a tunnel that carries traffic.        *)
TimersMatchPhase ==
  \A s \in Socket :
    /\ Handshake \cap timers[s] # {} => s \in Unsettled
    /\ "heartbeat" \in timers[s] <=> s \in pool
    /\ "pong" \in timers[s] => s \in pool

(* A pool that has been configured and is not halted never stops working   *)
(* towards its target: either nothing is missing, counting the sockets     *)
(* whose handshake is under way, or a refill is scheduled.                 *)
NeverStalls ==
  configured /\ ~suspended =>
    refillTimer \/ Deficit(Cardinality(pool), pending) = 0

(* The same, once no socket is between destroy() and its 'close' event: a  *)
(* connection that was refused or lost before its ack is retried after a   *)
(* back-off, "서버가 없거나 거절한 경우이므로 물러서서 재시도한다".            *)
RefusalIsRetried ==
  (\A s \in Socket : tcp[s] # "destroyed") => NeverStalls

(* After a fatal rejection no handler opens a connection until the agent   *)
(* has registered again.                                                   *)
HaltedUntilReregistration ==
  [][suspended /\ suspended' => pending' <= pending /\ ~refillTimer']_vars

(* A socket that failed is never replaced on the spot: its 'close' opens   *)
(* nothing and leaves the refill to the back-off timer, so ten sockets     *)
(* dying together do not reconnect together; and the back-off is forgotten *)
(* only by a pool back at its target or by a new registration, not by one  *)
(* success amid failures.                                                  *)
FailuresBackOff ==
  [][/\ \A s \in Unsettled \cup (pool \cap unhealthy) :
          tcp[s] = "destroyed" /\ tcp'[s] # "destroyed"
            => pending' <= pending /\ (refillTimer' \/ suspended)
     /\ consecutiveFailures' < consecutiveFailures =>
          \/ Cardinality(pool') >= TargetPoolCount
          \/ suspended' = FALSE /\ refillTimer' = FALSE /\ pool' = pool]_vars

(* The pool implements TunnelSupply: whatever the sockets do, new ones are *)
(* made within the target, one at a time while none is ready, none while   *)
(* halted, and only initPreconnectPool() ends a halt.                      *)
Supply == INSTANCE TunnelSupply WITH
  Target <- TargetPoolCount, ready <- Cardinality(pool), inflight <- pending,
  halted <- suspended

SuppliesTunnels == Supply!SSpec

-----------------------------------------------------------------------------
(* Steps that stand for trouble or for traffic: once they stop, the pool   *)
(* must recover.  A deadline that fires although the peer is alive (the    *)
(* event loop was blocked) is trouble too.                                 *)
Disturbance ==
  \/ IssueSecret \/ InitPreconnectPool
  \/ \E s \in Socket :
       \/ SocketError(s) \/ PeerClose(s) \/ GoSilent(s)
       \/ \E reason \in Rejections : PreErr(s, reason)
       \/ \E validPort \in BOOLEAN : OpenFrame(s, validPort)
       \/ /\ s \notin silent /\ tcp[s] # "destroyed"
          /\ ConnectTimeout(s) \/ AckTimeout(s) \/ PongTimeout(s)

(* No socket hangs: one that is connecting or waiting for its PRE answer   *)
(* is pooled, refused or closed in the end, and a zombie, pooled although  *)
(* its peer vanished without a FIN, is found by the heartbeat and leaves.  *)
NoSocketHangs ==
  \A s \in Socket :
    /\ s \in Unsettled ~> s \notin Unsettled
    /\ s \in pool \cap silent ~> s \notin pool

(* Once connections stop failing and stop being consumed, a configured     *)
(* pool that is not halted reaches its target and keeps it.                *)
PoolRecovers ==
  (<>[][~Disturbance]_vars) =>
    <>[](configured /\ ~suspended => Cardinality(pool) = TargetPoolCount)
=============================================================================
