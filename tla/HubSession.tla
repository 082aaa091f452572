----------------------------- MODULE HubSession -----------------------------
(***************************************************************************)
(* How the agent gets and keeps its identity: onModuleInit, the 'connect'  *)
(* and 'register' handlers of TunnelService                                *)
(* (src/src/tunnel/tunnel.service.ts), with the agentInfo table they write *)
(* and the signing emitter they send through.                              *)
(*                                                                         *)
(* The register handler awaits its database writes one after the other.    *)
(* Between them anything may happen: the socket reconnects and registers   *)
(* again, a second handler starts, the process dies and only the table     *)
(* survives.  The adapter has one connection to the database, which takes  *)
(* the writes in the order they are issued.  The Hub is external: it       *)
(* issues a uuid and a secret to an agent without a uuid, verifies the     *)
(* others, and may reissue a secret.                                       *)
(***************************************************************************)
EXTENDS Naturals, Sequences

CONSTANTS
  Refusals,       \* the codes other than ok that the Hub may answer with
  MaxHandlers,    \* bound: register handlers waiting for a write at once
  MaxUuids,       \* bound: uuids the Hub issues
  MaxSecrets      \* bound: secrets the Hub issues

ASSUME RefusalsAssumption ==
         Refusals \subseteq {"deprecated_protocol_version", "unknown_protocol_version",
                            "invalid_signature", "registration_failed"}
ASSUME BoundsAssumption ==
         MaxHandlers \in Nat /\ MaxUuids \in Nat /\ MaxSecrets \in Nat

None == 0         \* null: no uuid, no secret

Identity == [uuid : 0 .. MaxUuids, secret : 0 .. MaxSecrets]
Nobody   == [uuid |-> None, secret |-> None]

NoMessage  == [code |-> "none"]
Ok(u, s)   == [code |-> "ok", uuid |-> u, secret |-> s]

VARIABLES
  db,            \* rows agent-uuid and agent-signing-secret
  agentUuid, signingSecret,
  process,       \* "down" or "up"
  connected,     \* the socket.io connection
  reconnection,  \* socket.io.reconnection()
  closed,        \* socket.disconnect() was called, on either side
  request,       \* the register event under way to the Hub
  response,      \* the register event under way to the agent
  writes,        \* the row each running handler awaits, and its payload
  poolStarted,   \* initPreconnectPool got an identity
  writeFailed,   \* some upsert of this process was rejected
  refused,       \* history: told registration_failed on this connection
  owner,         \* the Hub: the uuid each secret was issued to
  current        \* the Hub: the secret now valid for each uuid

hubVars == <<owner, current>>
wire    == <<request, response>>
vars == <<db, agentUuid, signingSecret, process, connected, reconnection, closed,
          request, response, writes, poolStarted, writeFailed, refused, owner, current>>

(* Mutant of Write: the uuid is read from the field, not from the payload. *)
WriteField(row, msg) == [row |-> row, uuid |-> agentUuid, secret |-> msg.secret]

Write(row, msg) == [row |-> row, uuid |-> msg.uuid, secret |-> msg.secret]

Init ==
  /\ db = Nobody /\ agentUuid = None /\ signingSecret = None
  /\ process = "down" /\ connected = FALSE /\ reconnection = TRUE /\ closed = FALSE
  /\ request = NoMessage /\ response = NoMessage
  /\ writes = <<>>
  /\ poolStarted = FALSE /\ writeFailed = FALSE /\ refused = FALSE
  /\ owner = [s \in 1 .. MaxSecrets |-> None]
  /\ current = [u \in 1 .. MaxUuids |-> None]

-----------------------------------------------------------------------------
(* The process and its connection                                          *)

(* onModuleInit(): read both rows, then open the socket.                   *)
Boot ==
  /\ process = "down"
  /\ process' = "up"
  /\ agentUuid' = db.uuid /\ signingSecret' = db.secret
  /\ reconnection' = TRUE
  /\ UNCHANGED <<db, connected, closed, wire, writes, poolStarted, writeFailed, refused, hubVars>>

Crash ==
  /\ process = "up"
  /\ process' = "down" /\ connected' = FALSE /\ closed' = FALSE
  /\ agentUuid' = None /\ signingSecret' = None
  /\ request' = NoMessage /\ response' = NoMessage
  /\ writes' = <<>>
  /\ poolStarted' = FALSE /\ writeFailed' = FALSE /\ refused' = FALSE
  /\ UNCHANGED <<db, reconnection, hubVars>>

(* Mutant of Connect: an agent that has a uuid does not register again.    *)
ConnectOnce ==
  /\ process = "up" /\ ~connected /\ reconnection /\ ~closed
  /\ connected' = TRUE /\ refused' = FALSE
  /\ request' = IF agentUuid # None THEN NoMessage
                ELSE [code |-> "register", uuid |-> None, key |-> signingSecret]
  /\ UNCHANGED <<db, agentUuid, signingSecret, process, reconnection, closed, response,
                 writes, poolStarted, writeFailed, hubVars>>

(* 'connect': register at once, signed if there is a secret to sign with.  *)
Connect ==
  /\ process = "up" /\ ~connected /\ reconnection /\ ~closed
  /\ connected' = TRUE /\ refused' = FALSE
  /\ request' = [code |-> "register", uuid |-> agentUuid, key |-> signingSecret]
  /\ UNCHANGED <<db, agentUuid, signingSecret, process, reconnection, closed, response,
                 writes, poolStarted, writeFailed, hubVars>>

Disconnect ==
  /\ connected
  /\ connected' = FALSE
  /\ request' = NoMessage /\ response' = NoMessage
  /\ UNCHANGED <<db, agentUuid, signingSecret, process, reconnection, closed, writes,
                 poolStarted, writeFailed, refused, hubVars>>

(* The command DISCONNECT, which the listener lets in with a signature, or  *)
(* the Hub disconnects the socket itself.  socket.io does not reconnect     *)
(* after either, whatever reconnection() says.                              *)
DisconnectForGood ==
  /\ connected
  /\ connected' = FALSE /\ closed' = TRUE
  /\ request' = NoMessage /\ response' = NoMessage
  /\ UNCHANGED <<db, agentUuid, signingSecret, process, reconnection, writes,
                 poolStarted, writeFailed, refused, hubVars>>

-----------------------------------------------------------------------------
(* The Hub                                                                 *)

HubReplies(msg) ==
  /\ request' = NoMessage
  /\ response' = msg
  /\ UNCHANGED <<db, agentUuid, signingSecret, process, connected, reconnection, closed,
                 writes, poolStarted, writeFailed, refused>>

Issues(u, s) ==
  /\ owner' = [owner EXCEPT ![s] = u]
  /\ current' = [current EXCEPT ![u] = s]

Unissued(s) == s \in 1 .. MaxSecrets /\ owner[s] = None
Verified    == request.uuid # None /\ request.key # None
                 /\ current[request.uuid] = request.key

HubEnrolls(u, s) ==
  /\ request.code = "register" /\ request.uuid = None
  /\ current[u] = None /\ Unissued(s)
  /\ Issues(u, s)
  /\ HubReplies(Ok(u, s))

HubWelcomes ==
  /\ request.code = "register" /\ Verified
  /\ HubReplies(Ok(request.uuid, None))
  /\ UNCHANGED hubVars

HubReissues(s) ==
  /\ request.code = "register" /\ Verified /\ Unissued(s)
  /\ Issues(request.uuid, s)
  /\ HubReplies(Ok(request.uuid, s))

HubRejects(code) ==
  /\ request.code = "register"
  /\ code = "invalid_signature" => request.uuid # None /\ ~Verified
  /\ HubReplies([code |-> code])
  /\ UNCHANGED hubVars

-----------------------------------------------------------------------------
(* The register handler                                                    *)

(* Mutant of TakeSecret: keeps the secret in memory only.                  *)
TakeInMemory(msg, queued) ==
  /\ signingSecret' = IF msg.secret # None THEN msg.secret ELSE signingSecret
  /\ writes' = Append(queued, Write("info", msg))

(* From the secret onwards: keep a secret only when the response has one,  *)
(* and await its row, or else the rows agent-code and agent-ip.            *)
TakeSecret(msg, queued) ==
  IF msg.secret # None
  THEN /\ signingSecret' = msg.secret
       /\ writes' = Append(queued, Write("secret", msg))
  ELSE /\ UNCHANGED signingSecret
       /\ writes' = Append(queued, Write("info", msg))

(* Mutant of Registered: the uuid goes to memory and not to the table.     *)
RegisteredInMemory ==
  /\ response.code = "ok" /\ Len(writes) < MaxHandlers
  /\ response' = NoMessage
  /\ agentUuid' = response.uuid
  /\ TakeSecret(response, writes)
  /\ UNCHANGED <<db, process, connected, reconnection, closed, request, poolStarted,
                 writeFailed, refused, hubVars>>

(* 'register' with code ok, up to the first await.                         *)
Registered ==
  /\ response.code = "ok" /\ Len(writes) < MaxHandlers
  /\ response' = NoMessage
  /\ IF agentUuid # response.uuid
     THEN /\ agentUuid' = response.uuid
          /\ writes' = Append(writes, Write("uuid", response))
          /\ UNCHANGED signingSecret
     ELSE /\ TakeSecret(response, writes)
          /\ UNCHANGED agentUuid
  /\ UNCHANGED <<db, process, connected, reconnection, closed, request, poolStarted,
                 writeFailed, refused, hubVars>>

(* 'register' with any other code: all but registration_failed give up     *)
(* reconnecting.                                                           *)
Rejected ==
  /\ response.code \in Refusals
  /\ response' = NoMessage
  /\ refused' = (response.code = "registration_failed")
  /\ reconnection' = (reconnection /\ response.code = "registration_failed")
  /\ UNCHANGED <<db, agentUuid, signingSecret, process, connected, closed, request,
                 writes, poolStarted, writeFailed, hubVars>>

(* The write at the head of the queue is that of a row r.                  *)
Written(r) == writes # <<>> /\ Head(writes).row = r

(* agent-uuid is written: go on with the secret.                           *)
UuidWritten ==
  /\ Written("uuid")
  /\ db' = [db EXCEPT !.uuid = Head(writes).uuid]
  /\ TakeSecret(Head(writes), Tail(writes))
  /\ UNCHANGED <<agentUuid, process, connected, reconnection, closed, wire, poolStarted,
                 writeFailed, refused, hubVars>>

SecretWritten ==
  /\ Written("secret")
  /\ db' = [db EXCEPT !.secret = Head(writes).secret]
  /\ writes' = Append(Tail(writes), Write("info", Head(writes)))
  /\ UNCHANGED <<agentUuid, signingSecret, process, connected, reconnection, closed,
                 wire, poolStarted, writeFailed, refused, hubVars>>

(* agent-code and agent-ip are written: start the pool, which refuses to   *)
(* form without a uuid and a secret.                                       *)
InfoWritten ==
  /\ Written("info")
  /\ writes' = Tail(writes)
  /\ poolStarted' = (poolStarted \/ (agentUuid # None /\ signingSecret # None))
  /\ UNCHANGED <<db, agentUuid, signingSecret, process, connected, reconnection, closed,
                 wire, writeFailed, refused, hubVars>>

(* An upsert is rejected: the listener catches it, the handler is over.    *)
WriteFails ==
  /\ writes # <<>>
  /\ writes' = Tail(writes)
  /\ writeFailed' = TRUE
  /\ UNCHANGED <<db, agentUuid, signingSecret, process, connected, reconnection, closed,
                 wire, poolStarted, refused, hubVars>>

-----------------------------------------------------------------------------
HubStep ==
  \/ \E s \in 1 .. MaxSecrets :
       HubReissues(s) \/ \E u \in 1 .. MaxUuids : HubEnrolls(u, s)
  \/ HubWelcomes
  \/ \E code \in Refusals : HubRejects(code)

WriteDone == UuidWritten \/ SecretWritten \/ InfoWritten

Next ==
  \/ Boot \/ Crash \/ Connect \/ Disconnect \/ DisconnectForGood
  \/ HubStep
  \/ Registered \/ Rejected \/ WriteDone \/ WriteFails

Spec == Init /\ [][Next]_vars

(* socket.io keeps connecting, writes complete, and a Hub that is asked    *)
(* answers.  Nothing restarts the process: docker-compose.yml has no       *)
(* restart policy for it.                                                  *)
Fairness ==
  /\ WF_vars(Connect) /\ WF_vars(HubStep)
  /\ WF_vars(Registered) /\ WF_vars(Rejected) /\ WF_vars(WriteDone)

FairSpec == Spec /\ Fairness

-----------------------------------------------------------------------------
(* Every variable has the type the source gives it.                        *)
TypeOK ==
  /\ db \in Identity
  /\ agentUuid \in 0 .. MaxUuids /\ signingSecret \in 0 .. MaxSecrets
  /\ process \in {"down", "up"}
  /\ {connected, reconnection, closed} \subseteq BOOLEAN
  /\ {poolStarted, writeFailed, refused} \subseteq BOOLEAN
  /\ \/ request = NoMessage
     \/ request \in [code : {"register"}, uuid : 0 .. MaxUuids, key : 0 .. MaxSecrets]
  /\ \/ response = NoMessage
     \/ response \in [code : {"ok"}, uuid : 1 .. MaxUuids, secret : 0 .. MaxSecrets]
     \/ response \in [code : Refusals]
  /\ writes \in Seq([row : {"uuid", "secret", "info"},
                      uuid : 1 .. MaxUuids, secret : 0 .. MaxSecrets])
  /\ owner \in [1 .. MaxSecrets -> 0 .. MaxUuids]
  /\ current \in [1 .. MaxUuids -> 0 .. MaxSecrets]

(* The pool is started only with a secret and uuid the Hub has paired, and *)
(* keeps them: no later response without a secret erases the one in use.   *)
PoolHasIdentity ==
  poolStarted => /\ agentUuid # None /\ signingSecret # None
                 /\ owner[signingSecret] = agentUuid

(* A uuid and a secret that are kept together were issued together: no     *)
(* crash, failed write or overlap of handlers pairs a secret with another  *)
(* uuid than the Hub verifies it for, in memory, in the table or in the    *)
(* pool.                                                                   *)
IdentityConsistent ==
  /\ signingSecret # None => owner[signingSecret] = agentUuid
  /\ db.secret # None => owner[db.secret] = db.uuid
  /\ PoolHasIdentity

(* The table catches up with memory: once no handler is writing, and no    *)
(* write failed, a restart would find the identity the agent is using.     *)
SettledMeansDurable ==
  process = "up" /\ ~writeFailed /\ writes = <<>>
    => db = [uuid |-> agentUuid, secret |-> signingSecret]

-----------------------------------------------------------------------------
Fault ==
  \/ Crash \/ Disconnect
  \/ \E code \in {"deprecated_protocol_version", "unknown_protocol_version"} :
       code \in Refusals /\ HubRejects(code)

(* Once the process and the connection stop failing, an agent that is up   *)
(* gets its pool started, unless it has been told to stop reconnecting or  *)
(* the Hub closed the socket, or one of its writes failed or the Hub       *)
(* answered registration_failed: nothing retries these before the next     *)
(* connection.  An agent that is down stays so until it is started.        *)
Registers ==
  (<>[][~Fault]_vars) =>
    <>[]( \/ process = "down" \/ poolStarted
          \/ ~reconnection \/ closed \/ writeFailed \/ refused)
=============================================================================
