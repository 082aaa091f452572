-------------------------- MODULE HubSessionProofs --------------------------
(* The identity of the agent, for any number of uuids, secrets and         *)
(* register handlers under way: what memory, the table and the pool keep   *)
(* together was issued together.                                           *)
EXTENDS HubSession, SequenceTheorems, TLAPS

(* What a dead process leaves: the table, and nothing else.                *)
DownIsEmpty ==
  process = "down" =>
    /\ ~connected /\ ~poolStarted /\ writes = <<>>
    /\ agentUuid = None /\ signingSecret = None

(* One message is under way on a connection, and none without one.  The    *)
(* request carries the uuid in memory, and an answer with code ok is for   *)
(* it, or brings the first one together with its secret.                   *)
WireAgrees ==
  /\ ~connected => request = NoMessage /\ response = NoMessage
  /\ request.code = "register" =>
       /\ response = NoMessage
       /\ request.uuid = agentUuid
       /\ request.key # None => signingSecret # None
  /\ response.code = "ok" =>
       /\ agentUuid = None => response.secret # None
       /\ agentUuid # None => response.uuid = agentUuid /\ signingSecret # None
       /\ response.secret # None => owner[response.secret] = response.uuid

(* What the running handlers still have to write is for the uuid in        *)
(* memory, and a secret of theirs was issued to it.                        *)
QueueAgrees ==
  \A i \in 1 .. Len(writes) :
    /\ agentUuid # None /\ writes[i].uuid = agentUuid
    /\ writes[i].secret # None => owner[writes[i].secret] = agentUuid
    /\ writes[i].row # "info" => writes[i].secret # None
    /\ writes[i].row # "uuid" => signingSecret # None

(* Memory is ahead of the table, never beside it: a secret is used or kept *)
(* only when its uuid is in the table.                                     *)
MemoryAgrees ==
  /\ signingSecret # None =>
       agentUuid # None /\ owner[signingSecret] = agentUuid /\ db.uuid = agentUuid
  /\ process = "up" => db.uuid \in {None, agentUuid}
  /\ db.secret # None => db.uuid # None /\ owner[db.secret] = db.uuid

(* Until a write fails, each row of the table has what memory has or a     *)
(* write that brings it is queued, the latest secret last.                 *)
Pending(row) == {i \in 1 .. Len(writes) : writes[i].row = row}

WritesAreDue ==
  process = "up" /\ ~writeFailed =>
    /\ db.uuid = agentUuid \/ Pending("uuid") # {}
    /\ Pending("secret") = {} => db.secret = signingSecret
    /\ \A i \in Pending("secret") :
         (\A j \in Pending("secret") : j <= i) => writes[i].secret = signingSecret

IInv == /\ TypeOK /\ DownIsEmpty /\ WireAgrees /\ QueueAgrees /\ MemoryAgrees
        /\ PoolHasIdentity /\ WritesAreDue

-----------------------------------------------------------------------------
(* The queue of writes                                                     *)

Row == [row : {"uuid", "secret", "info"}, uuid : 1 .. MaxUuids, secret : 0 .. MaxSecrets]

(* A write that is issued goes behind those that wait.                     *)
LEMMA Issued ==
  ASSUME NEW q \in Seq(Row), NEW w \in Row
  PROVE  /\ Append(q, w) \in Seq(Row) /\ Len(Append(q, w)) = Len(q) + 1
         /\ \A i \in 1 .. Len(q) : Append(q, w)[i] = q[i]
         /\ Append(q, w)[Len(q) + 1] = w
BY AppendProperties

(* A write that is done leaves the others in their order.                  *)
LEMMA Done ==
  ASSUME NEW q \in Seq(Row), q # <<>>
  PROVE  /\ Tail(q) \in Seq(Row) /\ Len(Tail(q)) = Len(q) - 1 /\ Len(q) \in Nat \ {0}
         /\ \A i \in 1 .. Len(q) - 1 : Tail(q)[i] = q[i + 1]
         /\ Head(q) = q[1] /\ Head(q) \in Row
BY HeadTailProperties, EmptySeq, ElementOfSeq

(* A write that waits is one of the table's rows.                          *)
LEMMA Waits ==
  ASSUME TypeOK, NEW i \in 1 .. Len(writes)
  PROVE  /\ writes \in Seq(Row) /\ writes[i] \in Row
         /\ writes[i].uuid \in 1 .. MaxUuids /\ writes[i].secret \in 0 .. MaxSecrets
         /\ writes[i].row \in {"uuid", "secret", "info"}
<1>1. writes \in Seq(Row)
  BY DEF TypeOK, Row
<1>2. writes[i] \in Row
  BY <1>1, ElementOfSeq
<1> QED
  BY <1>1, <1>2 DEF Row

-----------------------------------------------------------------------------
(* Types                                                                   *)

(* An answer of the Hub has the form the agent expects.                    *)
Answers == {NoMessage} \cup [code : {"ok"}, uuid : 1 .. MaxUuids, secret : 0 .. MaxSecrets]
             \cup [code : Refusals]

(* Whatever the Hub answers, its books and its answer keep their types.    *)
LEMMA HubStepTypes ==
  ASSUME TypeOK, HubStep
  PROVE  /\ response' \in Answers /\ request' = NoMessage
         /\ owner' \in [1 .. MaxSecrets -> 0 .. MaxUuids]
         /\ current' \in [1 .. MaxUuids -> 0 .. MaxSecrets]
         /\ UNCHANGED <<db, agentUuid, signingSecret, process, connected, reconnection,
                        closed, writes, poolStarted, writeFailed, refused>>
<1> USE BoundsAssumption DEF None, HubReplies
<1>1. request.code = "register" => request.uuid \in 0 .. MaxUuids
  BY DEF TypeOK, NoMessage
<1>2. ASSUME NEW s \in 1 .. MaxSecrets, HubReissues(s)
      PROVE  /\ request.uuid \in 1 .. MaxUuids
             /\ Issues(request.uuid, s) /\ HubReplies(Ok(request.uuid, s))
  BY <1>1, <1>2 DEF HubReissues, Verified
<1>3. ASSUME NEW s \in 1 .. MaxSecrets, NEW u \in 1 .. MaxUuids, HubEnrolls(u, s)
      PROVE  Issues(u, s) /\ HubReplies(Ok(u, s))
  BY <1>3 DEF HubEnrolls
<1>4. ASSUME NEW s \in 1 .. MaxSecrets, NEW u \in 1 .. MaxUuids,
             Issues(u, s), HubReplies(Ok(u, s))
      PROVE  /\ response' \in Answers
             /\ owner' \in [1 .. MaxSecrets -> 0 .. MaxUuids]
             /\ current' \in [1 .. MaxUuids -> 0 .. MaxSecrets]
  BY <1>4 DEF TypeOK, Issues, Ok, Answers
<1>5. CASE HubWelcomes
  <2>1. request.uuid \in 1 .. MaxUuids
    BY <1>1, <1>5 DEF HubWelcomes, Verified
  <2> QED
    BY <1>5, <2>1 DEF HubWelcomes, TypeOK, Ok, Answers, hubVars
<1>6. ASSUME NEW code \in Refusals, HubRejects(code)
      PROVE  response' \in Answers /\ UNCHANGED hubVars
  BY <1>6 DEF HubRejects, Answers
<1>7. /\ request' = NoMessage
      /\ UNCHANGED <<db, agentUuid, signingSecret, process, connected, reconnection,
                     closed, writes, poolStarted, writeFailed, refused>>
  BY DEF HubStep, HubReissues, HubEnrolls, HubWelcomes, HubRejects
<1> QED
  BY <1>2, <1>3, <1>4, <1>5, <1>6, <1>7 DEF HubStep, TypeOK, hubVars

(* The flags stay Boolean.                                                 *)
Flags == /\ {connected, reconnection, closed} \subseteq BOOLEAN
         /\ {poolStarted, writeFailed, refused} \subseteq BOOLEAN

LEMMA FlagsPreserved ==
  ASSUME Flags, [Next]_vars
  PROVE  Flags'
<1>1. CASE Boot \/ Crash \/ Connect \/ Disconnect \/ DisconnectForGood
  BY <1>1, Zenon DEF Boot, Crash, Connect, Disconnect, DisconnectForGood, Flags
<1>2. CASE HubStep
  BY <1>2, Zenon DEF HubStep, HubReissues, HubEnrolls, HubWelcomes, HubRejects,
         HubReplies, Flags
<1>3. CASE Registered \/ UuidWritten \/ SecretWritten \/ WriteFails
  BY <1>3, Zenon DEF Registered, UuidWritten, SecretWritten, WriteFails, Flags
<1>4. CASE InfoWritten
  BY <1>4, Zenon DEF InfoWritten, Flags
<1>5. CASE Rejected
  BY <1>5, Zenon DEF Rejected, Flags
<1>6. CASE UNCHANGED vars
  BY <1>6, Zenon DEF vars, Flags
<1> QED
  BY <1>1, <1>2, <1>3, <1>4, <1>5, <1>6 DEF Next, WriteDone

(* The handlers keep every variable in its type.                           *)
LEMMA TypePreserved ==
  ASSUME TypeOK, [Next]_vars
  PROVE  TypeOK'
<1>0. Flags'
  BY FlagsPreserved DEF TypeOK, Flags
<1> USE <1>0, BoundsAssumption
    DEF TypeOK, Flags, Identity, Nobody, None, NoMessage, hubVars, wire
<1>1. CASE Boot
  BY <1>1 DEF Boot
<1>2. CASE Crash
  BY <1>2, EmptySeq DEF Crash
<1>3. CASE Connect
  BY <1>3 DEF Connect
<1>4. CASE Disconnect \/ DisconnectForGood
  BY <1>4 DEF Disconnect, DisconnectForGood
<1>5. CASE HubStep
  BY <1>5, HubStepTypes DEF Answers
<1>6. CASE Registered
  <2>1. response.uuid \in 1 .. MaxUuids /\ response.secret \in 0 .. MaxSecrets
    BY <1>6, RefusalsAssumption DEF Registered
  <2>2. \A r \in {"uuid", "secret", "info"} : Write(r, response) \in Row
    BY <2>1 DEF Write, Row
  <2>3. writes' \in Seq(Row) /\ signingSecret' \in 0 .. MaxSecrets
    <3>1. \A w \in Row : Append(writes, w) \in Seq(Row)
      BY Issued DEF Row
    <3> QED
      BY <1>6, <2>1, <2>2, <3>1 DEF Registered, TakeSecret
  <2>4. agentUuid' \in 0 .. MaxUuids
    BY <1>6, <2>1 DEF Registered
  <2> QED
    BY <1>6, <2>3, <2>4 DEF Registered, Row
<1>7. CASE Rejected
  BY <1>7 DEF Rejected
<1>8. CASE UuidWritten
  <2> DEFINE w == Head(writes)
  <2>1. w \in Row /\ Tail(writes) \in Seq(Row)
    BY <1>8, Done DEF UuidWritten, Written, Row
  <2>2. Write("secret", w) \in Row /\ Write("info", w) \in Row
    BY <2>1 DEF Write, Row
  <2>3. writes' \in Seq(Row) /\ signingSecret' \in 0 .. MaxSecrets
    <3>1. \A r \in Row : Append(Tail(writes), r) \in Seq(Row)
      BY <2>1, Issued
    <3>2. w.secret \in 0 .. MaxSecrets
      BY <2>1 DEF Row
    <3> QED
      BY <1>8, <2>2, <3>1, <3>2 DEF UuidWritten, TakeSecret
  <2>4. db' \in Identity
    <3>1. w.uuid \in 0 .. MaxUuids
      BY <2>1 DEF Row
    <3> HIDE DEF w
    <3>2. [db EXCEPT !.uuid = w.uuid] \in Identity
      BY <3>1
    <3> QED
      BY <1>8, <3>2 DEF UuidWritten, w
  <2> QED
    BY <1>8, <2>3, <2>4 DEF UuidWritten, Row
<1>9. CASE SecretWritten
  BY <1>9, Done, Issued DEF SecretWritten, Written, Write, Row
<1>10. CASE InfoWritten
  BY <1>10, Done DEF InfoWritten, Written, Row
<1>11. CASE WriteFails
  BY <1>11, Done DEF WriteFails, Row
<1>12. CASE UNCHANGED vars
  BY <1>12 DEF vars
<1> QED
  BY <1>1, <1>2, <1>3, <1>4, <1>5, <1>6, <1>7, <1>8, <1>9, <1>10, <1>11, <1>12
     DEF Next, WriteDone

-----------------------------------------------------------------------------
(* The process and the connection                                          *)

(* A new process starts from the table, a dead one leaves nothing else.    *)
LEMMA ProcessPreserves ==
  ASSUME IInv, Boot \/ Crash
  PROVE  DownIsEmpty' /\ WireAgrees' /\ QueueAgrees' /\ MemoryAgrees'
           /\ PoolHasIdentity' /\ WritesAreDue'
<1> USE DEF IInv, DownIsEmpty, WireAgrees, QueueAgrees, MemoryAgrees,
        PoolHasIdentity, WritesAreDue, Pending, hubVars, wire, NoMessage
<1>1. CASE Boot
  <2>1. writes = <<>> /\ Len(writes) = 0
    BY <1>1, EmptySeq DEF Boot
  <2> QED
    BY <1>1, <2>1 DEF Boot
<1>2. CASE Crash
  <2>1. Len(writes') = 0
    BY <1>2, EmptySeq DEF Crash
  <2> QED
    BY <1>2, <2>1 DEF Crash, None
<1> QED
  BY <1>1, <1>2

(* Connecting asks for what memory has; losing the connection loses what   *)
(* was under way.                                                          *)
LEMMA ConnectionPreserves ==
  ASSUME IInv, Connect \/ Disconnect \/ DisconnectForGood
  PROVE  DownIsEmpty' /\ WireAgrees' /\ QueueAgrees' /\ MemoryAgrees'
           /\ PoolHasIdentity' /\ WritesAreDue'
<1> USE DEF IInv, hubVars
<1>1. UNCHANGED <<db, agentUuid, signingSecret, process, writes, poolStarted,
                  writeFailed, owner>>
  BY DEF Connect, Disconnect, DisconnectForGood
<1>2. QueueAgrees' /\ MemoryAgrees' /\ PoolHasIdentity' /\ WritesAreDue'
  BY <1>1 DEF QueueAgrees, MemoryAgrees, PoolHasIdentity, WritesAreDue, Pending
<1>3. DownIsEmpty'
  BY <1>1 DEF Connect, Disconnect, DisconnectForGood, DownIsEmpty
<1>4. WireAgrees'
  BY <1>1 DEF Connect, Disconnect, DisconnectForGood, WireAgrees, NoMessage
<1> QED
  BY <1>2, <1>3, <1>4

-----------------------------------------------------------------------------
(* The Hub                                                                 *)

(* A secret that is newly issued is none of those in use, so the pairs of  *)
(* before are not disturbed.                                               *)
LEMMA BooksGrow ==
  ASSUME IInv, HubStep
  PROVE  \A s \in 1 .. MaxSecrets : owner[s] # None => owner'[s] = owner[s]
BY DEF IInv, TypeOK, HubStep, HubReissues, HubEnrolls, HubWelcomes, HubRejects, Issues,
       Unissued, hubVars

(* The answer of the Hub suits the agent that asked.                       *)
LEMMA AnswerSuits ==
  ASSUME IInv, HubStep
  PROVE  WireAgrees'
<1> USE DEF IInv, None, HubReplies
<1>1. /\ request.code = "register" /\ request' = NoMessage /\ connected /\ connected'
      /\ UNCHANGED <<agentUuid, signingSecret>>
  BY DEF HubStep, HubReissues, HubEnrolls, HubWelcomes, HubRejects, WireAgrees, NoMessage
<1>2. ASSUME NEW s \in 1 .. MaxSecrets, NEW u \in 1 .. MaxUuids, HubEnrolls(u, s)
      PROVE  /\ response' = Ok(u, s) /\ owner'[s] = u
             /\ agentUuid = None
  BY <1>1, <1>2 DEF HubEnrolls, Issues, WireAgrees, TypeOK
<1>3. ASSUME NEW s \in 1 .. MaxSecrets, HubReissues(s)
      PROVE  /\ response' = Ok(agentUuid, s) /\ owner'[s] = agentUuid
             /\ agentUuid # None /\ signingSecret # None
  BY <1>1, <1>3 DEF HubReissues, Issues, Verified, WireAgrees, TypeOK
<1>4. CASE HubWelcomes
  <2>1. /\ response' = Ok(agentUuid, None)
        /\ agentUuid # None /\ signingSecret # None
    BY <1>1, <1>4 DEF HubWelcomes, Verified, WireAgrees
  <2> QED
    BY <1>1, <2>1 DEF WireAgrees, Ok, NoMessage
<1>5. ASSUME NEW code \in Refusals, HubRejects(code)
      PROVE  response'.code # "ok"
  BY <1>5, RefusalsAssumption DEF HubRejects
<1>6. ASSUME NEW s \in 1 .. MaxSecrets, NEW u \in 1 .. MaxUuids, HubEnrolls(u, s)
      PROVE  WireAgrees'
  BY <1>1, <1>2, <1>6 DEF WireAgrees, Ok, NoMessage
<1>7. ASSUME NEW s \in 1 .. MaxSecrets, HubReissues(s)
      PROVE  WireAgrees'
  BY <1>1, <1>3, <1>7 DEF WireAgrees, Ok, NoMessage
<1>8. ASSUME NEW code \in Refusals, HubRejects(code)
      PROVE  WireAgrees'
  BY <1>1, <1>5, <1>8 DEF WireAgrees, NoMessage
<1> QED
  BY <1>4, <1>6, <1>7, <1>8 DEF HubStep

LEMMA HubPreserves ==
  ASSUME IInv, HubStep
  PROVE  DownIsEmpty' /\ WireAgrees' /\ QueueAgrees' /\ MemoryAgrees'
           /\ PoolHasIdentity' /\ WritesAreDue'
<1>1. UNCHANGED <<db, agentUuid, signingSecret, process, connected, writes,
                  poolStarted, writeFailed>>
  BY HubStepTypes DEF IInv
<1>2. \A s \in 1 .. MaxSecrets : owner[s] # None => owner'[s] = owner[s]
  BY BooksGrow
<1>3. signingSecret \in 0 .. MaxSecrets /\ db.secret \in 0 .. MaxSecrets
  BY DEF IInv, TypeOK, Identity
<1>4. MemoryAgrees'
  BY <1>1, <1>2, <1>3, BoundsAssumption DEF IInv, MemoryAgrees, None
<1>5. QueueAgrees'
  <2>1. SUFFICES ASSUME NEW i \in 1 .. Len(writes)
                 PROVE  /\ agentUuid # None /\ writes[i].uuid = agentUuid
                        /\ writes[i].secret # None => owner'[writes[i].secret] = agentUuid
                        /\ writes[i].row # "info" => writes[i].secret # None
                        /\ writes[i].row # "uuid" => signingSecret # None
    BY <1>1 DEF QueueAgrees
  <2>2. writes[i].secret \in 0 .. MaxSecrets
    BY Waits DEF IInv
  <2> QED
    BY <1>2, <2>2, BoundsAssumption DEF IInv, QueueAgrees, None
<1>6. PoolHasIdentity'
  BY <1>1, <1>2, <1>3, <1>4, BoundsAssumption DEF IInv, PoolHasIdentity, MemoryAgrees, None
<1>7. DownIsEmpty' /\ WritesAreDue'
  BY <1>1 DEF IInv, DownIsEmpty, WritesAreDue, Pending
<1> QED
  BY <1>4, <1>5, <1>6, <1>7, AnswerSuits

-----------------------------------------------------------------------------
(* The register handler                                                    *)

(* A first identity is queued with both its halves; later answers are for  *)
(* the uuid in use, and bring at most a new secret, which is queued last.  *)
LEMMA RegisteredPreserves ==
  ASSUME IInv, Registered
  PROVE  DownIsEmpty' /\ WireAgrees' /\ QueueAgrees' /\ MemoryAgrees'
           /\ PoolHasIdentity' /\ WritesAreDue'
<1>1. response.uuid \in 1 .. MaxUuids /\ response.secret \in 0 .. MaxSecrets
  BY RefusalsAssumption DEF IInv, TypeOK, Registered, NoMessage
<1>2. process = "up" /\ connected
  BY DEF IInv, TypeOK, DownIsEmpty, WireAgrees, Registered, NoMessage
<1>3. UNCHANGED <<db, process, connected, request, poolStarted, writeFailed, owner>>
  BY DEF Registered, hubVars
<1>4. response' = NoMessage /\ request = NoMessage
  BY DEF Registered, IInv, TypeOK, WireAgrees, NoMessage
<1>5. DownIsEmpty' /\ WireAgrees'
  BY <1>2, <1>3, <1>4 DEF DownIsEmpty, WireAgrees, NoMessage
<1>6. writes \in Seq(Row) /\ Len(writes) \in Nat
  BY LenProperties DEF IInv, TypeOK, Row
<1>7. \A r \in {"uuid", "secret", "info"} : Write(r, response) \in Row
  BY <1>1 DEF Write, Row
<1>8. CASE agentUuid # response.uuid
  <2>1. /\ agentUuid = None /\ response.secret # None
        /\ owner[response.secret] = response.uuid
    BY <1>8 DEF IInv, WireAgrees, Registered
  <2>2. Len(writes) = 0
    BY <1>6, <2>1 DEF IInv, QueueAgrees
  <2>3. signingSecret = None /\ db.uuid = None /\ db.secret = None /\ ~poolStarted
    BY <1>2, <2>1 DEF IInv, MemoryAgrees, PoolHasIdentity
  <2> DEFINE w == Write("uuid", response)
  <2>4. agentUuid' = response.uuid /\ writes' = Append(writes, w) /\ UNCHANGED signingSecret
    BY <1>8 DEF Registered
  <2>5. w.row = "uuid" /\ w.uuid = response.uuid /\ w.secret = response.secret
    BY DEF Write
  <2>6. Len(writes') = 1 /\ writes'[1] = w
    BY <1>6, <1>7, <2>2, <2>4, Issued
  <2> HIDE DEF w
  <2>7. QueueAgrees'
    BY <1>1, <1>3, <2>1, <2>4, <2>5, <2>6 DEF QueueAgrees, None
  <2>8. MemoryAgrees' /\ PoolHasIdentity'
    BY <1>3, <2>3, <2>4 DEF MemoryAgrees, PoolHasIdentity
  <2>9. WritesAreDue'
    BY <1>3, <2>3, <2>4, <2>5, <2>6 DEF WritesAreDue, Pending
  <2> QED
    BY <1>5, <2>7, <2>8, <2>9
<1>9. CASE agentUuid = response.uuid
  <2> DEFINE w == IF response.secret # None THEN Write("secret", response)
                                            ELSE Write("info", response)
  <2>1. /\ agentUuid # None /\ signingSecret # None
        /\ response.secret # None => owner[response.secret] = agentUuid
    BY <1>1, <1>9 DEF IInv, WireAgrees, Registered, None
  <2>2. /\ UNCHANGED agentUuid /\ writes' = Append(writes, w)
        /\ signingSecret' = IF response.secret # None THEN response.secret ELSE signingSecret
    BY <1>9 DEF Registered, TakeSecret
  <2>3. /\ w \in Row /\ w.uuid = agentUuid /\ w.secret = response.secret
        /\ w.row = IF response.secret # None THEN "secret" ELSE "info"
    BY <1>7, <1>9 DEF Write
  <2> HIDE DEF w
  <2>4. /\ Len(writes') = Len(writes) + 1 /\ writes'[Len(writes) + 1] = w
        /\ \A i \in 1 .. Len(writes) : writes'[i] = writes[i]
    BY <1>6, <2>2, <2>3, Issued
  <2>5. QueueAgrees'
    BY <1>3, <1>6, <2>1, <2>2, <2>3, <2>4 DEF IInv, QueueAgrees
  <2>6. MemoryAgrees' /\ PoolHasIdentity'
    BY <1>3, <2>1, <2>2 DEF IInv, MemoryAgrees, PoolHasIdentity
  <2>7. WritesAreDue'
    <3> DEFINE n == Len(writes)
    <3>1. SUFFICES ASSUME process = "up", ~writeFailed
                   PROVE  /\ db.uuid = agentUuid \/ Pending("uuid")' # {}
                          /\ Pending("secret")' = {} => db.secret = signingSecret'
                          /\ \A i \in Pending("secret")' :
                               (\A j \in Pending("secret")' : j <= i)
                                 => writes'[i].secret = signingSecret'
      BY <1>3, <2>2 DEF WritesAreDue
    <3>2. /\ db.uuid = agentUuid \/ Pending("uuid") # {}
          /\ Pending("secret") = {} => db.secret = signingSecret
          /\ \A i \in Pending("secret") :
               (\A j \in Pending("secret") : j <= i) => writes[i].secret = signingSecret
      BY <3>1 DEF IInv, WritesAreDue
    <3>3. 1 .. n + 1 = (1 .. n) \cup {n + 1} /\ n + 1 \notin 1 .. n /\ \A i \in 1 .. n : i <= n + 1
      BY <1>6
    <3>4. Pending("uuid")' = Pending("uuid")
      BY <2>3, <2>4, <3>3 DEF Pending
    <3>5. CASE response.secret = None
      <4>1. Pending("secret")' = Pending("secret") /\ signingSecret' = signingSecret
        BY <2>2, <2>3, <2>4, <3>3, <3>5 DEF Pending
      <4>2. \A i \in Pending("secret") : writes'[i] = writes[i]
        BY <2>4 DEF Pending
      <4> QED
        BY <3>2, <3>4, <4>1, <4>2
    <3>6. CASE response.secret # None
      <4>1. Pending("secret")' = Pending("secret") \cup {n + 1} /\ signingSecret' = response.secret
        BY <2>2, <2>3, <2>4, <3>3, <3>6 DEF Pending
      <4>2. ASSUME NEW i \in Pending("secret")', \A j \in Pending("secret")' : j <= i
            PROVE  writes'[i].secret = signingSecret'
        <5>1. i \in 1 .. n + 1 /\ n + 1 <= i
          BY <3>3, <4>1, <4>2 DEF Pending
        <5>2. i = n + 1
          BY <1>6, <5>1
        <5> QED
          BY <2>3, <2>4, <4>1, <5>2
      <4> QED
        BY <3>2, <3>4, <4>1, <4>2
    <3> QED
      BY <3>5, <3>6
  <2> QED
    BY <1>5, <2>5, <2>6, <2>7
<1> QED
  BY <1>8, <1>9

(* A refusal changes nothing of the identity.                              *)
LEMMA RejectedPreserves ==
  ASSUME IInv, Rejected
  PROVE  DownIsEmpty' /\ WireAgrees' /\ QueueAgrees' /\ MemoryAgrees'
           /\ PoolHasIdentity' /\ WritesAreDue'
<1>1. UNCHANGED <<db, agentUuid, signingSecret, process, connected, request, writes,
                  poolStarted, writeFailed, owner>> /\ response' = NoMessage
  BY DEF Rejected, hubVars
<1>2. DownIsEmpty' /\ QueueAgrees' /\ MemoryAgrees' /\ PoolHasIdentity' /\ WritesAreDue'
  BY <1>1 DEF IInv, DownIsEmpty, QueueAgrees, MemoryAgrees, PoolHasIdentity, WritesAreDue,
              Pending
<1>3. WireAgrees'
  BY <1>1 DEF IInv, WireAgrees, NoMessage
<1> QED
  BY <1>2, <1>3

(* What every write of the queue's head can rely on.                       *)
LEMMA HeadDue ==
  ASSUME IInv, writes # <<>>
  PROVE  /\ writes \in Seq(Row) /\ Len(writes) \in Nat \ {0}
         /\ Tail(writes) \in Seq(Row) /\ Len(Tail(writes)) = Len(writes) - 1
         /\ \A i \in 1 .. Len(writes) - 1 : Tail(writes)[i] = writes[i + 1]
         /\ Head(writes) = writes[1] /\ Head(writes) \in Row
         /\ process = "up" /\ agentUuid # None /\ Head(writes).uuid = agentUuid
         /\ Head(writes).secret # None => owner[Head(writes).secret] = agentUuid
         /\ Head(writes).row # "info" => Head(writes).secret # None
         /\ Head(writes).row # "uuid" => signingSecret # None
<1>1. writes \in Seq(Row)
  BY DEF IInv, TypeOK, Row
<1>2. process = "up"
  BY DEF IInv, TypeOK, DownIsEmpty
<1>3. /\ Tail(writes) \in Seq(Row) /\ Len(Tail(writes)) = Len(writes) - 1
      /\ \A i \in 1 .. Len(writes) - 1 : Tail(writes)[i] = writes[i + 1]
      /\ Head(writes) = writes[1] /\ Head(writes) \in Row /\ Len(writes) \in Nat \ {0}
  BY <1>1, Done
<1> QED
  BY <1>1, <1>2, <1>3 DEF IInv, QueueAgrees

(* The uuid is in the table: its secret goes to memory and to the queue's  *)
(* end.                                                                    *)
LEMMA UuidWrittenPreserves ==
  ASSUME IInv, UuidWritten
  PROVE  DownIsEmpty' /\ WireAgrees' /\ QueueAgrees' /\ MemoryAgrees'
           /\ PoolHasIdentity' /\ WritesAreDue'
<1> DEFINE h == Head(writes)
           w == Write("secret", h)
           n == Len(writes)
<1>1. /\ writes # <<>> /\ h.row = "uuid"
      /\ UNCHANGED <<agentUuid, process, connected, request, response, poolStarted,
                     writeFailed, owner>>
  BY DEF UuidWritten, Written, wire, hubVars
<1>2. /\ n \in Nat \ {0} /\ Tail(writes) \in Seq(Row) /\ Len(Tail(writes)) = n - 1
      /\ \A i \in 1 .. n - 1 : Tail(writes)[i] = writes[i + 1]
      /\ h = writes[1] /\ h \in Row /\ process = "up" /\ agentUuid # None
      /\ h.uuid = agentUuid /\ h.secret # None /\ owner[h.secret] = agentUuid
  BY <1>1, HeadDue
<1>3. signingSecret' = h.secret /\ writes' = Append(Tail(writes), w)
  BY <1>2 DEF UuidWritten, TakeSecret
<1>4. db'.uuid = h.uuid /\ db'.secret = db.secret
  BY DEF UuidWritten, IInv, TypeOK, Identity
<1>5. w \in Row /\ w.row = "secret" /\ w.uuid = agentUuid /\ w.secret = h.secret
  BY <1>2 DEF Write, Row
<1> HIDE DEF h, w, n
<1>6. /\ Len(writes') = n /\ writes'[n] = w
      /\ \A i \in 1 .. n - 1 : writes'[i] = writes[i + 1]
  BY <1>2, <1>3, <1>5, Issued
<1>7. DownIsEmpty' /\ WireAgrees'
  BY <1>1, <1>2, <1>3 DEF IInv, DownIsEmpty, WireAgrees
<1>8. QueueAgrees'
  <2>1. ASSUME NEW i \in 1 .. n - 1
        PROVE  /\ writes'[i].uuid = agentUuid
               /\ writes'[i].secret # None => owner[writes'[i].secret] = agentUuid
               /\ writes'[i].row # "info" => writes'[i].secret # None
    BY <1>2, <1>6 DEF IInv, QueueAgrees, n
  <2> QED
    BY <1>1, <1>2, <1>3, <1>5, <1>6, <2>1 DEF QueueAgrees, None
<1>9. MemoryAgrees' /\ PoolHasIdentity'
  <2>1. db.secret # None => owner[db.secret] = agentUuid
    BY <1>2 DEF IInv, MemoryAgrees
  <2> QED
    BY <1>1, <1>2, <1>3, <1>4, <2>1 DEF IInv, MemoryAgrees, PoolHasIdentity
<1>10. WritesAreDue'
  <2>1. n \in Pending("secret")'
    BY <1>2, <1>5, <1>6 DEF Pending
  <2>2. Pending("secret")' \subseteq 1 .. n
    BY <1>6 DEF Pending
  <2>3. \A i \in Pending("secret")' :
          (\A j \in Pending("secret")' : j <= i) => writes'[i].secret = signingSecret'
    BY <1>2, <1>3, <1>5, <1>6, <2>1, <2>2
  <2> QED
    BY <1>1, <1>2, <1>4, <2>1, <2>3 DEF WritesAreDue
<1> QED
  BY <1>7, <1>8, <1>9, <1>10

(* The secret is in the table, that of the latest response at the last.    *)
LEMMA SecretWrittenPreserves ==
  ASSUME IInv, SecretWritten
  PROVE  DownIsEmpty' /\ WireAgrees' /\ QueueAgrees' /\ MemoryAgrees'
           /\ PoolHasIdentity' /\ WritesAreDue'
<1> DEFINE h == Head(writes)
           w == Write("info", h)
           n == Len(writes)
<1>1. /\ writes # <<>> /\ h.row = "secret" /\ writes' = Append(Tail(writes), w)
      /\ UNCHANGED <<agentUuid, signingSecret, process, connected, request, response,
                     poolStarted, writeFailed, owner>>
  BY DEF SecretWritten, Written, wire, hubVars
<1>2. /\ n \in Nat \ {0} /\ Tail(writes) \in Seq(Row) /\ Len(Tail(writes)) = n - 1
      /\ \A i \in 1 .. n - 1 : Tail(writes)[i] = writes[i + 1]
      /\ h = writes[1] /\ h \in Row /\ process = "up" /\ agentUuid # None
      /\ h.uuid = agentUuid /\ h.secret # None /\ owner[h.secret] = agentUuid
      /\ signingSecret # None
  BY <1>1, HeadDue
<1>4. db'.uuid = db.uuid /\ db'.secret = h.secret
  BY DEF SecretWritten, IInv, TypeOK, Identity
<1>5. w \in Row /\ w.row = "info" /\ w.uuid = agentUuid /\ w.secret = h.secret
  BY <1>2 DEF Write, Row
<1> HIDE DEF h, w, n
<1>6. /\ Len(writes') = n /\ writes'[n] = w
      /\ \A i \in 1 .. n - 1 : writes'[i] = writes[i + 1]
  BY <1>1, <1>2, <1>5, Issued
<1>7. DownIsEmpty' /\ WireAgrees'
  BY <1>1, <1>2 DEF IInv, DownIsEmpty, WireAgrees
<1>8. QueueAgrees'
  <2>1. ASSUME NEW i \in 1 .. n - 1
        PROVE  /\ writes'[i].uuid = agentUuid
               /\ writes'[i].secret # None => owner[writes'[i].secret] = agentUuid
               /\ writes'[i].row # "info" => writes'[i].secret # None
    BY <1>2, <1>6 DEF IInv, QueueAgrees, n
  <2> QED
    BY <1>1, <1>2, <1>5, <1>6, <2>1 DEF QueueAgrees, None
<1>9. MemoryAgrees' /\ PoolHasIdentity'
  BY <1>1, <1>2, <1>4 DEF IInv, MemoryAgrees, PoolHasIdentity
<1>10. WritesAreDue'
  <2>1. db.uuid = agentUuid
    BY <1>2 DEF IInv, MemoryAgrees
  <2>2. \A i \in 1 .. n : i \in Pending("secret")' <=> i + 1 \in Pending("secret")
    BY <1>2, <1>5, <1>6 DEF Pending, n
  <2>3. Pending("secret")' \subseteq 1 .. n - 1 /\ Pending("secret") \subseteq 1 .. n
    BY <1>2, <1>5, <1>6 DEF Pending, n
  <2>4. 1 \in Pending("secret")
    BY <1>1, <1>2 DEF Pending, n
  <2>5. ASSUME ~writeFailed, Pending("secret")' = {}
        PROVE  h.secret = signingSecret
    <3>1. ASSUME NEW j \in Pending("secret"), j > 1
          PROVE  FALSE
      <4>1. j - 1 \in 1 .. n /\ (j - 1) + 1 = j
        BY <1>2, <2>3, <3>1
      <4> QED
        BY <2>2, <2>5, <3>1, <4>1
    <3>2. \A j \in Pending("secret") : j <= 1
      BY <1>2, <2>3, <3>1
    <3> QED
      BY <1>2, <2>4, <2>5, <3>2 DEF IInv, WritesAreDue
  <2>6. ASSUME ~writeFailed, NEW i \in Pending("secret")',
               \A j \in Pending("secret")' : j <= i
        PROVE  writes'[i].secret = signingSecret
    <3>1. i + 1 \in Pending("secret") /\ writes'[i] = writes[i + 1]
      BY <1>2, <1>6, <2>2, <2>3
    <3>2. \A j \in Pending("secret") : j <= i + 1
      <4>1. ASSUME NEW j \in Pending("secret"), j > 1
            PROVE  j - 1 \in Pending("secret")'
        BY <1>2, <2>2, <2>3, <4>1
      <4> QED
        BY <1>2, <2>3, <2>6, <4>1
    <3> QED
      BY <1>2, <2>6, <3>1, <3>2 DEF IInv, WritesAreDue
  <2> QED
    BY <1>1, <1>4, <2>1, <2>5, <2>6 DEF WritesAreDue
<1> QED
  BY <1>7, <1>8, <1>9, <1>10

(* A handler that is over, done or failed, leaves what the others need.    *)
LEMMA OverPreserves ==
  ASSUME IInv, InfoWritten \/ WriteFails
  PROVE  DownIsEmpty' /\ WireAgrees' /\ QueueAgrees' /\ MemoryAgrees'
           /\ PoolHasIdentity' /\ WritesAreDue'
<1> DEFINE n == Len(writes)
<1>1. /\ writes # <<>> /\ writes' = Tail(writes)
      /\ UNCHANGED <<db, agentUuid, signingSecret, process, connected, request, response,
                     owner>>
  BY DEF InfoWritten, WriteFails, Written, wire, hubVars
<1>2. /\ n \in Nat \ {0} /\ Len(writes') = n - 1
      /\ \A i \in 1 .. n - 1 : writes'[i] = writes[i + 1]
      /\ Head(writes) = writes[1] /\ process = "up"
  BY <1>1, HeadDue
<1>3. poolStarted' => poolStarted \/ (agentUuid # None /\ signingSecret # None)
  BY Zenon DEF InfoWritten, WriteFails
<1> HIDE DEF n
<1>4. DownIsEmpty' /\ WireAgrees' /\ MemoryAgrees'
  BY <1>1, <1>2 DEF IInv, DownIsEmpty, WireAgrees, MemoryAgrees
<1>5. PoolHasIdentity'
  BY <1>1, <1>3 DEF IInv, PoolHasIdentity, MemoryAgrees
<1>6. QueueAgrees'
  BY <1>1, <1>2 DEF IInv, QueueAgrees, n
<1>7. WritesAreDue'
  <2>1. CASE WriteFails
    BY <2>1 DEF WriteFails, WritesAreDue
  <2>2. CASE InfoWritten
    <3>1. writes[1].row = "info" /\ writeFailed' = writeFailed
      BY <1>2, <2>2 DEF InfoWritten, Written
    <3>2. \A r \in {"uuid", "secret"} : \A i \in 1 .. n - 1 :
            i \in Pending(r)' <=> i + 1 \in Pending(r)
      BY <1>2 DEF Pending, n
    <3>3. \A r \in {"uuid", "secret"} :
            Pending(r)' \subseteq 1 .. n - 1 /\ Pending(r) \subseteq 2 .. n
      BY <1>2, <3>1 DEF Pending, n
    <3>4. ASSUME NEW r \in {"uuid", "secret"}, NEW j \in Pending(r)
          PROVE  j - 1 \in Pending(r)' /\ j \in Nat
      <4>1. j - 1 \in 1 .. n - 1 /\ (j - 1) + 1 = j /\ j \in Nat
        BY <1>2, <3>3
      <4> QED
        BY <3>2, <4>1
    <3>5. \A r \in {"uuid", "secret"} : Pending(r)' = {} => Pending(r) = {}
      BY <3>4
    <3>6. ASSUME ~writeFailed, NEW i \in Pending("secret")',
                 \A j \in Pending("secret")' : j <= i
          PROVE  writes'[i].secret = signingSecret
      <4>1. i + 1 \in Pending("secret") /\ writes'[i] = writes[i + 1] /\ i \in Nat
        BY <1>2, <3>2, <3>3
      <4>2. ASSUME NEW j \in Pending("secret")
            PROVE  j <= i + 1
        <5>1. j - 1 \in Pending("secret")' /\ j \in Nat
          BY <3>4
        <5> QED
          BY <3>6, <4>1, <5>1
      <4> QED
        BY <1>2, <3>6, <4>1, <4>2 DEF IInv, WritesAreDue
    <3> QED
      BY <1>1, <1>2, <3>1, <3>5, <3>6 DEF IInv, WritesAreDue
  <2> QED
    BY <2>1, <2>2
<1> QED
  BY <1>4, <1>5, <1>6, <1>7

-----------------------------------------------------------------------------
(* The invariant and what follows from it                                  *)

LEMMA InitInvariant ==
  ASSUME Init
  PROVE  IInv
<1> USE BoundsAssumption DEF Init, None, Nobody, NoMessage
<1>1. Flags
  BY Zenon DEF Flags
<1>2. TypeOK
  BY <1>1, EmptySeq DEF TypeOK, Flags, Identity
<1>3. Len(writes) = 0
  BY EmptySeq
<1>4. DownIsEmpty /\ WireAgrees /\ QueueAgrees /\ MemoryAgrees /\ PoolHasIdentity
        /\ WritesAreDue
  BY <1>3 DEF DownIsEmpty, WireAgrees, QueueAgrees, MemoryAgrees, PoolHasIdentity,
              WritesAreDue
<1> QED
  BY <1>2, <1>4 DEF IInv

LEMMA StepPreserves ==
  ASSUME IInv, [Next]_vars
  PROVE  IInv'
<1>1. TypeOK'
  BY TypePreserved DEF IInv
<1>2. CASE UNCHANGED vars
  BY <1>1, <1>2 DEF vars, IInv, DownIsEmpty, WireAgrees, QueueAgrees, MemoryAgrees,
                    PoolHasIdentity, WritesAreDue, Pending
<1>3. CASE Boot \/ Crash
  BY <1>1, <1>3, ProcessPreserves DEF IInv
<1>4. CASE Connect \/ Disconnect \/ DisconnectForGood
  BY <1>1, <1>4, ConnectionPreserves DEF IInv
<1>5. CASE HubStep
  BY <1>1, <1>5, HubPreserves DEF IInv
<1>6. CASE Registered
  BY <1>1, <1>6, RegisteredPreserves DEF IInv
<1>7. CASE Rejected
  BY <1>1, <1>7, RejectedPreserves DEF IInv
<1>8. CASE UuidWritten
  BY <1>1, <1>8, UuidWrittenPreserves DEF IInv
<1>9. CASE SecretWritten
  BY <1>1, <1>9, SecretWrittenPreserves DEF IInv
<1>10. CASE InfoWritten \/ WriteFails
  BY <1>1, <1>10, OverPreserves DEF IInv
<1> QED
  BY <1>2, <1>3, <1>4, <1>5, <1>6, <1>7, <1>8, <1>9, <1>10 DEF Next, WriteDone

(* The inductive invariant of the identity holds whatever handlers, failed *)
(* writes and crashes overlap.                                             *)
THEOREM Invariance == Spec => []IInv
BY InitInvariant, StepPreserves, PTL DEF Spec

(* Every variable of the identity's life keeps the type the source gives.  *)
THEOREM TypeCorrect == Spec => []TypeOK
<1>1. IInv => TypeOK
  BY DEF IInv
<1> QED
  BY <1>1, Invariance, PTL

(* A uuid and a secret kept together, in memory, in the table or in the    *)
(* pool, were issued together.                                             *)
THEOREM Consistency == Spec => []IdentityConsistent
<1>1. IInv => IdentityConsistent
  BY DEF IInv, MemoryAgrees, IdentityConsistent
<1> QED
  BY <1>1, Invariance, PTL

(* With no handler writing and no write failed, the table holds what the   *)
(* agent is using.                                                         *)
THEOREM Durability == Spec => []SettledMeansDurable
<1>1. ASSUME IInv, process = "up", ~writeFailed, writes = <<>>
      PROVE  db = [uuid |-> agentUuid, secret |-> signingSecret]
  <2>1. Pending("uuid") = {} /\ Pending("secret") = {}
    BY <1>1, EmptySeq DEF Pending
  <2>2. db.uuid = agentUuid /\ db.secret = signingSecret
    BY <1>1, <2>1 DEF IInv, WritesAreDue
  <2> QED
    BY <1>1, <2>2 DEF IInv, TypeOK, Identity
<1>2. IInv => SettledMeansDurable
  BY <1>1 DEF SettledMeansDurable
<1> QED
  BY <1>2, Invariance, PTL
=============================================================================
