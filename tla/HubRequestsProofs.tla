-------------------------- MODULE HubRequestsProofs --------------------------
(* The terminals and the connect request, for any set of identifiers,      *)
(* clients, answers and requests: no connection is left over, the Hub      *)
(* knows the terminals that are there, and a request that waits stays      *)
(* in its row.                                                             *)
EXTENDS HubRequests, SequenceTheorems, TLAPS

(* A client that is there belongs to an identifier, one that is not to     *)
(* none.                                                                   *)
ClientsBelong ==
  \A c \in Client :
    IF client[c].at = "unused" THEN client[c] = Unused ELSE client[c].session \in Session

(* The client of a session is one of its identifier and was not told to    *)
(* end, and so is the one whose shell it has.                              *)
SessionsOwn ==
  \A s \in Session : sessions[s] # None =>
    LET k == client[sessions[s].client] IN
    /\ k.at # "unused" /\ ~k.ended /\ k.session = s
    /\ sessions[s].stream # None => client[sessions[s].stream].session = s

(* The Hub never believes in a terminal that is gone, reused or not.       *)
HubKnowsEnd == \A s \in Session : sessions[s] = None => hub[s] = "closed"

TInv == TTypeOK /\ ClientsBelong /\ SessionsOwn /\ HubKnowsEnd /\ NoStrayClient /\ HubAgrees

(* What is being saved has been sent.                                      *)
SavingIsIssued == \A i \in 1 .. Len(saving) : saving[i] \in 1 .. issued

(* An answer the Hub has had leaves it waiting for the request in the row  *)
(* only if it is not for it: it is stale.                                  *)
HeardIsKnown ==
  outstanding # 0 /\ saved = outstanding =>
    \A a \in Reply : answers[a] \in {"heard", "clearing"} => a \in stale

NInv == NTypeOK /\ SavingIsIssued /\ HeardIsKnown /\ RequestKept

IInv == TInv /\ NInv

-----------------------------------------------------------------------------
(* The clients                                                             *)

Places == {"unused", "connecting", "asking", "connected", "shell", "broken", "inert"}
ClientState == [at : Places, session : Session \cup {None}, ended : BOOLEAN]

(* A client moves on; the others stay where they are.                      *)
LEMMA Placed ==
  ASSUME client \in [Client -> ClientState], NEW c \in Client, NEW p \in Places,
         NEW now, now = [client EXCEPT ![c].at = p]
  PROVE  /\ now \in [Client -> ClientState]
         /\ now[c].at = p /\ now[c].session = client[c].session
         /\ now[c].ended = client[c].ended
         /\ \A d \in Client : d # c => now[d] = client[d]
<1> DEFINE k == [client[c] EXCEPT !.at = p]
<1>1. client[c] \in ClientState
  OBVIOUS
<1>2. k \in ClientState /\ k.at = p /\ k.session = client[c].session /\ k.ended = client[c].ended
  BY <1>1 DEF ClientState
<1>3. now = [client EXCEPT ![c] = k]
  OBVIOUS
<1> HIDE DEF k
<1> QED
  BY <1>2, <1>3

(* end() keeps the client's identifier, and leaves it told to end or new.  *)
LEMMA Ends ==
  ASSUME NEW k \in ClientState, k.at = "unused" => k = Unused
  PROVE  /\ EndOf(k) \in ClientState
         /\ EndOf(k).at = "unused" => EndOf(k) = Unused
         /\ EndOf(k).at # "unused" =>
              EndOf(k).ended /\ EndOf(k).session = k.session /\ EndOf(k).at = k.at
         /\ EndOf(k).at = "unused" \/ EndOf(k).ended
<1> DEFINE e == [k EXCEPT !.ended = TRUE]
<1>1. e \in ClientState /\ e.ended = TRUE /\ e.session = k.session /\ e.at = k.at
  BY DEF ClientState
<1>2. Unused \in ClientState
  BY DEF Unused, ClientState, Places
<1> HIDE DEF e
<1>3. EndOf(k) = IF k.at = "unused" THEN k ELSE IF k.at = "inert" THEN Unused ELSE e
  BY DEF EndOf, e
<1>4. Unused.at = "unused"
  BY DEF Unused
<1>5. CASE k.at = "unused"
  BY <1>2, <1>3, <1>5
<1>6. CASE k.at = "inert"
  BY <1>2, <1>3, <1>4, <1>6
<1>7. CASE k.at \notin {"unused", "inert"}
  BY <1>1, <1>3, <1>7
<1> QED
  BY <1>5, <1>6, <1>7

-----------------------------------------------------------------------------
(* The end of a session                                                    *)

(* A handler for s has touched clients of s only, and none comes alive.    *)
Touched(s, now) ==
  /\ now \in [Client -> ClientState]
  /\ \A c \in Client :
       \/ now[c] = client[c]
       \/ /\ client[c].session = s /\ client[c].at # "unused"
          /\ \/ now[c] = Unused
             \/ /\ now[c].session = s /\ now[c].at # "unused"
                /\ client[c].ended => now[c].ended

LEMMA TypesAre ==
  ASSUME TInv
  PROVE  /\ client \in [Client -> ClientState]
         /\ sessions \in [Session -> {None} \cup Entry]
         /\ hub \in [Session -> {"closed", "opening", "ready"}]
         /\ \A s \in Session : sessions[s] # None =>
              /\ sessions[s] \in Entry
              /\ sessions[s].client \in Client /\ sessions[s].stream \in Client \cup {None}
BY DEF TInv, TTypeOK, ClientState, Places, Entry

(* What Finish does: the session is gone, its client ended, the Hub told,  *)
(* and nothing of another identifier is touched.                           *)
LEMMA Finished ==
  ASSUME TInv, NEW s \in Session, NEW now, Touched(s, now), Finish(s, now)
  PROVE  /\ sessions' = [sessions EXCEPT ![s] = None]
         /\ hub' = [hub EXCEPT ![s] = "closed"]
         /\ client' \in [Client -> ClientState]
         /\ \A c \in Client :
              \/ client'[c] = client[c] /\ client[c].session # s
              \/ client'[c] = client[c] /\ (client[c].at = "unused" \/ client[c].ended)
              \/ client'[c] = Unused /\ client[c].session = s
              \/ /\ client'[c].session = s /\ client'[c].ended /\ client'[c].at # "unused"
                 /\ client[c].session = s
<1>1. client \in [Client -> ClientState] /\ now \in [Client -> ClientState]
  BY TypesAre DEF Touched
<1>2. \A c \in Client :
        client[c].at # "unused" /\ ~client[c].ended /\ client[c].session = s =>
          sessions[s] # None /\ sessions[s].client = c
  BY DEF TInv, NoStrayClient
<1>3. CASE sessions[s] = None
  <2>1. client' = now /\ UNCHANGED <<sessions, hub>>
    BY <1>3 DEF Finish
  <2>2. hub[s] = "closed"
    BY <1>3 DEF TInv, HubKnowsEnd
  <2>3. sessions' = [sessions EXCEPT ![s] = None] /\ hub' = [hub EXCEPT ![s] = "closed"]
    BY <1>3, <2>1, <2>2, TypesAre
  <2>4. \A c \in Client :
          client[c].session # s \/ client[c].at = "unused" \/ client[c].ended
    BY <1>2, <1>3
  <2> QED
    BY <1>1, <2>1, <2>3, <2>4 DEF Touched
<1>4. CASE sessions[s] # None
  <2> DEFINE k == sessions[s].client
  <2>1. /\ sessions' = [sessions EXCEPT ![s] = None] /\ hub' = [hub EXCEPT ![s] = "closed"]
        /\ client' = [now EXCEPT ![k] = EndOf(@)]
    BY <1>4 DEF Finish, Told
  <2>2. k \in Client /\ client[k].session = s
    BY <1>4, TypesAre DEF TInv, SessionsOwn
  <2>3. now[k] \in ClientState /\ (now[k].at = "unused" => now[k] = Unused)
    BY <1>1, <2>2 DEF TInv, ClientsBelong, Touched
  <2>4. /\ EndOf(now[k]) \in ClientState
        /\ EndOf(now[k]).at = "unused" => EndOf(now[k]) = Unused
        /\ EndOf(now[k]).at # "unused" =>
             EndOf(now[k]).ended /\ EndOf(now[k]).session = now[k].session
               /\ EndOf(now[k]).at = now[k].at
    BY <2>3, Ends
  <2>5. /\ client' \in [Client -> ClientState]
        /\ client'[k] = EndOf(now[k])
        /\ \A c \in Client : c # k => client'[c] = now[c]
    BY <1>1, <2>1, <2>2, <2>4
  <2>6. client'[k] = Unused \/ (client'[k].session = s /\ client'[k].ended /\ client'[k].at # "unused")
    BY <2>2, <2>4, <2>5 DEF Touched, Unused
  <2>7. \A c \in Client : c # k =>
          client[c].session # s \/ client[c].at = "unused" \/ client[c].ended
    BY <1>2
  <2> QED
    BY <2>1, <2>2, <2>5, <2>6, <2>7 DEF Touched
<1> QED
  BY <1>3, <1>4

(* After Finish nothing of the identifier is left but clients that end.    *)
LEMMA FinishPreserves ==
  ASSUME TInv, NEW s \in Session, NEW now, Touched(s, now), Finish(s, now),
         reused' \in [Session -> BOOLEAN],
         \A t \in Session \ {s} : reused'[t] = reused[t]
  PROVE  TInv'
<1>1. /\ sessions' = [sessions EXCEPT ![s] = None]
      /\ hub' = [hub EXCEPT ![s] = "closed"]
      /\ client' \in [Client -> ClientState]
      /\ \A c \in Client :
           \/ client'[c] = client[c] /\ client[c].session # s
           \/ client'[c] = client[c] /\ (client[c].at = "unused" \/ client[c].ended)
           \/ client'[c] = Unused /\ client[c].session = s
           \/ /\ client'[c].session = s /\ client'[c].ended /\ client'[c].at # "unused"
              /\ client[c].session = s
  BY Finished
<1>2. /\ sessions' \in [Session -> {None} \cup Entry]
      /\ hub' \in [Session -> {"closed", "opening", "ready"}]
      /\ sessions'[s] = None /\ hub'[s] = "closed"
      /\ \A t \in Session \ {s} : sessions'[t] = sessions[t] /\ hub'[t] = hub[t]
  BY <1>1, TypesAre
<1>3. \A c \in Client : client[c].session # s => client'[c] = client[c]
  BY <1>1
<1>4. ASSUME NEW t \in Session, sessions'[t] # None
      PROVE  /\ t # s /\ sessions'[t] = sessions[t]
             /\ sessions[t].client \in Client /\ client[sessions[t].client].session = t
             /\ client'[sessions[t].client] = client[sessions[t].client]
             /\ sessions[t].stream # None =>
                  /\ sessions[t].stream \in Client /\ client[sessions[t].stream].session = t
                  /\ client'[sessions[t].stream] = client[sessions[t].stream]
  BY <1>2, <1>3, <1>4, TypesAre DEF TInv, SessionsOwn
<1>5. TTypeOK'
  <2>1. \A t \in Session : sessions'[t] # None /\ sessions'[t].stream # None =>
          client'[sessions'[t].stream].at = "shell"
    BY <1>4 DEF TInv, TTypeOK
  <2> QED
    BY <1>1, <1>2, <2>1 DEF TTypeOK, ClientState, Places
<1>6. ClientsBelong'
  BY <1>1 DEF TInv, ClientsBelong, Unused
<1>7. SessionsOwn'
  BY <1>4 DEF TInv, SessionsOwn
<1>8. HubKnowsEnd'
  BY <1>2 DEF TInv, HubKnowsEnd
<1>9. NoStrayClient'
  <2>1. SUFFICES ASSUME NEW c \in Client, client'[c].at # "unused", ~client'[c].ended
                 PROVE  sessions'[client'[c].session] # None
                          /\ sessions'[client'[c].session].client = c
    BY DEF NoStrayClient
  <2>2. client'[c] = client[c] /\ client[c].session # s
    BY <1>1, <2>1 DEF Unused
  <2>3. client[c].session \in Session
    BY <2>1, <2>2 DEF TInv, ClientsBelong
  <2> QED
    BY <1>2, <2>1, <2>2, <2>3 DEF TInv, NoStrayClient
<1>10. HubAgrees'
  BY <1>2 DEF TInv, HubAgrees
<1> QED
  BY <1>5, <1>6, <1>7, <1>8, <1>9, <1>10 DEF TInv

-----------------------------------------------------------------------------
(* The handlers that end a session                                         *)

(* A client that is there is one of its identifier.                        *)
LEMMA OwnSession ==
  ASSUME TInv, NEW c \in Client, client[c].at # "unused"
  PROVE  client[c].session \in Session
BY DEF TInv, ClientsBelong

LEMMA UntouchedIs ==
  ASSUME TInv, NEW s \in Session
  PROVE  Touched(s, client)
BY TypesAre DEF Touched

LEMMA MovedTouches ==
  ASSUME TInv, NEW c \in Client, client[c].at # "unused",
         NEW p \in Places \ {"unused"}
  PROVE  Touched(client[c].session, [client EXCEPT ![c].at = p])
<1> DEFINE now == [client EXCEPT ![c].at = p]
<1>1. client \in [Client -> ClientState]
  BY TypesAre
<1>2. /\ now \in [Client -> ClientState]
      /\ now[c].at = p /\ now[c].session = client[c].session
      /\ now[c].ended = client[c].ended
      /\ \A d \in Client : d # c => now[d] = client[d]
  BY <1>1, Placed
<1> HIDE DEF now
<1>3. Touched(client[c].session, now)
  BY <1>2 DEF Touched
<1> QED
  BY <1>3 DEF now

LEMMA BrokenTouches ==
  ASSUME TInv, NEW c \in Client, client[c].at # "unused"
  PROVE  Touched(client[c].session, [client EXCEPT ![c].at = "broken", ![c].ended = TRUE])
<1> DEFINE m == [client[c] EXCEPT !.at = "broken"]
           k == [m EXCEPT !.ended = TRUE]
           now == [client EXCEPT ![c].at = "broken", ![c].ended = TRUE]
<1>1. client[c] \in ClientState /\ client \in [Client -> ClientState]
  BY TypesAre
<1>2. m \in ClientState /\ m.at = "broken" /\ m.session = client[c].session
  BY <1>1 DEF ClientState, Places
<1>3. now = [client EXCEPT ![c] = k]
  OBVIOUS
<1> HIDE DEF m, now
<1>4. k \in ClientState /\ k.at = "broken" /\ k.session = client[c].session /\ k.ended
  BY <1>2 DEF ClientState
<1> HIDE DEF k
<1>5. Touched(client[c].session, now)
  BY <1>1, <1>3, <1>4 DEF Touched
<1> QED
  BY <1>5 DEF now

LEMMA GoneTouches ==
  ASSUME TInv, NEW c \in Client, client[c].at # "unused"
  PROVE  Touched(client[c].session, [client EXCEPT ![c] = Unused])
<1>1. Unused \in ClientState
  BY DEF Unused, ClientState, Places
<1> QED
  BY <1>1, TypesAre DEF Touched

(* terminal-close, a shell that is not granted or left, an error and the   *)
(* close of a client, also of one that is no longer its session's.         *)
LEMMA EndsPreserve ==
  ASSUME TInv,
         \/ \E s \in Session : Close(s)
         \/ \E c \in Client : ShellFails(c) \/ StreamCloses(c) \/ ClientError(c) \/ ClientCloses(c)
  PROVE  TInv'
<1>0. reused \in [Session -> BOOLEAN]
  BY DEF TInv, TTypeOK
<1>1. ASSUME NEW s \in Session, Close(s)
      PROVE  TInv'
  BY <1>0, <1>1, UntouchedIs, FinishPreserves DEF Close
<1>2. ASSUME NEW c \in Client, ShellFails(c) \/ StreamCloses(c)
      PROVE  TInv'
  <2>1. client[c].at # "unused" /\ UNCHANGED reused
        /\ Finish(client[c].session, [client EXCEPT ![c].at = "connected"])
    BY <1>2 DEF ShellFails, StreamCloses
  <2>2. client[c].session \in Session /\ "connected" \in Places \ {"unused"}
    BY <2>1, OwnSession DEF Places
  <2>3. Touched(client[c].session, [client EXCEPT ![c].at = "connected"])
    BY <2>1, <2>2, MovedTouches
  <2> QED
    BY <1>0, <2>1, <2>2, <2>3, FinishPreserves
<1>3. ASSUME NEW c \in Client, ClientError(c)
      PROVE  TInv'
  <2>1. client[c].at # "unused" /\ UNCHANGED reused
    BY <1>3 DEF ClientError
  <2> QED
    BY <1>0, <1>3, <2>1, OwnSession, BrokenTouches, FinishPreserves DEF ClientError
<1>4. ASSUME NEW c \in Client, ClientCloses(c)
      PROVE  TInv'
  <2> DEFINE s == client[c].session
  <2>1. /\ client[c].at # "unused" /\ Finish(s, [client EXCEPT ![c] = Unused])
        /\ reused' = [reused EXCEPT ![s] = @ /\ (Clients(s) # {c})]
    BY <1>4 DEF ClientCloses
  <2>2. s \in Session
    BY <2>1, OwnSession
  <2>3. (reused[s] /\ (Clients(s) # {c})) \in BOOLEAN
    BY Zenon
  <2>4. /\ reused' \in [Session -> BOOLEAN]
        /\ \A t \in Session \ {s} : reused'[t] = reused[t]
    BY <1>0, <2>1, <2>2, <2>3, Zenon
  <2> QED
    BY <2>1, <2>2, <2>4, GoneTouches, FinishPreserves
<1> QED
  BY <1>1, <1>2, <1>3, <1>4

-----------------------------------------------------------------------------
(* The handlers that open one and keep it going                            *)

(* A second terminal-open tells the Hub that the first is closed: from     *)
(* then on the identifier counts as reused.                                *)
LEMMA OpenTwicePreserves ==
  ASSUME TInv, NEW s \in Session, OpenTwice(s)
  PROVE  TInv'
<1>1. /\ UNCHANGED <<sessions, client>> /\ hub' = [hub EXCEPT ![s] = "closed"]
      /\ reused' = [reused EXCEPT ![s] = TRUE]
  BY DEF OpenTwice, Told
<1>2. reused \in [Session -> BOOLEAN]
  BY DEF TInv, TTypeOK
<1>3. reused' \in [Session -> BOOLEAN] /\ reused'[s]
        /\ \A t \in Session \ {s} : reused'[t] = reused[t]
  BY <1>1, <1>2
<1>4. /\ hub' \in [Session -> {"closed", "opening", "ready"}] /\ hub'[s] = "closed"
      /\ \A t \in Session \ {s} : hub'[t] = hub[t]
  BY <1>1, TypesAre
<1>5. TTypeOK' /\ ClientsBelong' /\ SessionsOwn' /\ NoStrayClient'
  BY <1>1, <1>3, <1>4
     DEF TInv, TTypeOK, ClientsBelong, SessionsOwn, NoStrayClient
<1>6. HubKnowsEnd' /\ HubAgrees'
  BY <1>1, <1>3, <1>4 DEF TInv, HubKnowsEnd, HubAgrees
<1> QED
  BY <1>5, <1>6 DEF TInv

(* terminal-open takes a client that belongs to nobody.                    *)
LEMMA OpenPreserves ==
  ASSUME TInv, NEW s \in Session, NEW c \in Client, Open(s, c)
  PROVE  TInv'
<1>1. sessions[s] = None /\ client[c] = Unused
  BY DEF Open
<1>2. reused \in [Session -> BOOLEAN]
  BY DEF TInv, TTypeOK
<1>3. CASE Misconfigured(s)
  <2>1. hub[s] = "closed"
    BY <1>1 DEF TInv, HubKnowsEnd
  <2>2. UNCHANGED <<sessions, client, hub, reused>>
    BY <1>3, <2>1, TypesAre DEF Misconfigured, Told
  <2> QED
    BY <2>2 DEF TInv, TTypeOK, ClientsBelong, SessionsOwn, HubKnowsEnd, NoStrayClient,
                HubAgrees
<1>4. ASSUME NEW at \in {"connecting", "inert"},
             client' = [client EXCEPT ![c] = [at |-> at, session |-> s, ended |-> FALSE]],
             sessions' = [sessions EXCEPT ![s] = [client |-> c, stream |-> None]],
             Told(s, "opening"),
             reused' = [reused EXCEPT ![s] = @ \/ Clients(s) # {}]
      PROVE  TInv'
  <2> DEFINE k == [at |-> at, session |-> s, ended |-> FALSE]
             e == [client |-> c, stream |-> None]
  <2>1. k \in ClientState /\ k.at = at /\ k.session = s /\ ~k.ended
    BY DEF ClientState, Places
  <2>2. e \in Entry /\ e.client = c /\ e.stream = None /\ e # None
    BY TerminalAssumption DEF Entry
  <2> HIDE DEF k, e
  <2>3. /\ client' \in [Client -> ClientState] /\ client'[c] = k
        /\ \A d \in Client : d # c => client'[d] = client[d]
    BY <1>4, <2>1, TypesAre DEF k
  <2>4. /\ sessions' \in [Session -> {None} \cup Entry] /\ sessions'[s] = e
        /\ \A t \in Session : t # s => sessions'[t] = sessions[t]
    BY <1>4, <2>2, TypesAre DEF e
  <2>5. /\ hub' \in [Session -> {"closed", "opening", "ready"}] /\ hub'[s] = "opening"
        /\ \A t \in Session : t # s => hub'[t] = hub[t]
    BY <1>4, TypesAre DEF Told
  <2>6. /\ reused' \in [Session -> BOOLEAN]
        /\ \A t \in Session : t # s => reused'[t] = reused[t]
    <3>1. (reused[s] \/ (Clients(s) # {})) \in BOOLEAN
      BY Zenon
    <3> QED
      BY <1>2, <1>4, <3>1, Zenon
  <2>7. \A t \in Session : t # s /\ sessions[t] # None =>
          /\ sessions[t].client \in Client /\ sessions[t].client # c
          /\ sessions[t].stream # None => sessions[t].stream \in Client /\ sessions[t].stream # c
    <3>1. client[c].at = "unused" /\ client[c].session = None
      BY <1>1 DEF Unused
    <3> QED
      BY <3>1, TypesAre, TerminalAssumption DEF TInv, SessionsOwn
  <2>8. TTypeOK'
    <3>1. \A t \in Session : sessions'[t] # None /\ sessions'[t].stream # None =>
            client'[sessions'[t].stream].at = "shell"
      BY <2>2, <2>3, <2>4, <2>7 DEF TInv, TTypeOK
    <3> QED
      BY <2>3, <2>4, <2>5, <2>6, <3>1 DEF TTypeOK, ClientState, Places
  <2>9. ClientsBelong' /\ NoStrayClient'
    <3>1. ASSUME NEW d \in Client, d # c, client[d].at # "unused", ~client[d].ended
          PROVE  client[d].session \in Session \ {s}
      BY <1>1, <3>1 DEF TInv, NoStrayClient, ClientsBelong
    <3> QED
      BY <2>1, <2>2, <2>3, <2>4, <3>1 DEF TInv, ClientsBelong, NoStrayClient
  <2>10. SessionsOwn'
    BY <2>1, <2>2, <2>3, <2>4, <2>7 DEF TInv, SessionsOwn
  <2>11. HubKnowsEnd' /\ HubAgrees'
    BY <2>2, <2>4, <2>5, <2>6 DEF TInv, HubKnowsEnd, HubAgrees
  <2> QED
    BY <2>8, <2>9, <2>10, <2>11 DEF TInv
<1> QED
  BY <1>3, <1>4 DEF Open

(* A client moves on and its session with it.                              *)
LEMMA GoesOn ==
  ASSUME TInv, NEW c \in Client, NEW p \in {"asking", "connected"},
         client[c].at \in {"connecting", "asking"},
         client' = [client EXCEPT ![c].at = p], UNCHANGED <<sessions, hub, reused>>
  PROVE  TInv'
<1>1. /\ client' \in [Client -> ClientState]
      /\ client'[c].at = p /\ client'[c].session = client[c].session
      /\ client'[c].ended = client[c].ended
      /\ \A d \in Client : d # c => client'[d] = client[d]
  <2>1. client \in [Client -> ClientState] /\ p \in Places
    BY TypesAre DEF Places
  <2> DEFINE now == [client EXCEPT ![c].at = p]
  <2>2. /\ now \in [Client -> ClientState]
        /\ now[c].at = p /\ now[c].session = client[c].session
        /\ now[c].ended = client[c].ended
        /\ \A d \in Client : d # c => now[d] = client[d]
    BY <2>1, Placed
  <2>3. client' = now
    OBVIOUS
  <2> QED
    BY <2>2, <2>3
<1>2. ASSUME NEW s \in Session, sessions[s] # None, sessions[s].stream # None
      PROVE  sessions[s].stream \in Client /\ sessions[s].stream # c
  BY <1>2, TypesAre DEF TInv, TTypeOK
<1>3. TTypeOK'
  BY <1>1, <1>2 DEF TInv, TTypeOK, ClientState, Places
<1>4. SessionsOwn'
  BY <1>1, <1>2, TypesAre DEF TInv, SessionsOwn
<1>5. ClientsBelong'
  BY <1>1 DEF TInv, ClientsBelong
<1>6. NoStrayClient'
  BY <1>1 DEF TInv, NoStrayClient
<1> QED
  BY <1>3, <1>4, <1>5, <1>6 DEF TInv, HubKnowsEnd, HubAgrees

(* The shell is granted: it is the stream of what the map holds by now.    *)
LEMMA ShellOpensPreserves ==
  ASSUME TInv, NEW c \in Client, ShellOpens(c)
  PROVE  TInv'
<1> DEFINE s == client[c].session
<1>1. client[c].at = "asking" /\ s \in Session
  BY OwnSession DEF ShellOpens
<1>2. CASE sessions[s] = None
  BY <1>1, <1>2, GoesOn DEF ShellOpens
<1>3. CASE sessions[s] # None
  <2> DEFINE e == [sessions[s] EXCEPT !.stream = c]
  <2>1. /\ client' = [client EXCEPT ![c].at = "shell"]
        /\ sessions' = [sessions EXCEPT ![s] = e]
        /\ hub' = [hub EXCEPT ![s] = "ready"] /\ UNCHANGED reused
    BY <1>3 DEF ShellOpens, Told
  <2>2. e \in Entry /\ e.client = sessions[s].client /\ e.stream = c /\ e # None
    BY <1>1, <1>3, TypesAre, TerminalAssumption DEF Entry
  <2> HIDE DEF e
  <2>3. /\ client' \in [Client -> ClientState]
        /\ client'[c].at = "shell" /\ client'[c].session = s
        /\ client'[c].ended = client[c].ended
        /\ \A d \in Client : d # c => client'[d] = client[d]
    <3>1. client \in [Client -> ClientState] /\ "shell" \in Places
      BY TypesAre DEF Places
    <3> DEFINE now == [client EXCEPT ![c].at = "shell"]
    <3>2. /\ now \in [Client -> ClientState]
          /\ now[c].at = "shell" /\ now[c].session = s
          /\ now[c].ended = client[c].ended
          /\ \A d \in Client : d # c => now[d] = client[d]
      BY <3>1, Placed
    <3>3. client' = now
      BY <2>1
    <3> QED
      BY <3>2, <3>3
  <2> HIDE DEF s
  <2>4. /\ sessions' \in [Session -> {None} \cup Entry] /\ sessions'[s] = e
        /\ \A t \in Session : t # s => sessions'[t] = sessions[t]
    BY <1>1, <2>1, <2>2, TypesAre
  <2>5. /\ hub' \in [Session -> {"closed", "opening", "ready"}] /\ hub'[s] = "ready"
        /\ \A t \in Session : t # s => hub'[t] = hub[t]
    BY <1>1, <2>1, TypesAre
  <2>6. c # None
    BY TerminalAssumption
  <2>7. TTypeOK'
    <3>1. \A t \in Session : sessions'[t] # None /\ sessions'[t].stream # None =>
            client'[sessions'[t].stream].at = "shell"
      <4>1. ASSUME NEW t \in Session, t # s, sessions[t] # None, sessions[t].stream # None
            PROVE  client'[sessions[t].stream].at = "shell"
        <5>1. client[sessions[t].stream].at = "shell" /\ sessions[t].stream \in Client
          BY <4>1, TypesAre DEF TInv, TTypeOK
        <5> QED
          BY <2>3, <5>1
      <4>2. sessions'[s].stream # None => client'[sessions'[s].stream].at = "shell"
        BY <2>2, <2>3, <2>4
      <4> QED
        BY <2>4, <4>1, <4>2
    <3>2. reused' \in [Session -> BOOLEAN]
      BY <2>1 DEF TInv, TTypeOK
    <3> QED
      BY <2>3, <2>4, <2>5, <3>1, <3>2 DEF TTypeOK, ClientState, Places
  <2>8. ClientsBelong'
    BY <1>1, <2>3 DEF TInv, ClientsBelong
  <2>9. SessionsOwn'
    BY <1>1, <1>3, <2>2, <2>3, <2>4, TypesAre DEF TInv, SessionsOwn, s
  <2>10. NoStrayClient'
    BY <1>1, <1>3, <2>2, <2>3, <2>4 DEF TInv, NoStrayClient, ClientsBelong, s
  <2>11. HubKnowsEnd' /\ HubAgrees'
    BY <1>3, <2>1, <2>2, <2>4, <2>5, <2>6 DEF TInv, HubKnowsEnd, HubAgrees
  <2> QED
    BY <2>7, <2>8, <2>9, <2>10, <2>11 DEF TInv
<1> QED
  BY <1>2, <1>3

LEMMA TerminalsPreserved ==
  ASSUME TInv, TNext
  PROVE  TInv'
<1>1. ASSUME NEW c \in Client, Ready(c)
      PROVE  TInv'
  BY <1>1, GoesOn DEF Ready
<1> QED
  BY <1>1, OpenTwicePreserves, OpenPreserves, ShellOpensPreserves, EndsPreserve DEF TNext

(* Nothing is left of the terminals after a restart, and the Hub sees it.  *)
LEMMA NoTerminals ==
  /\ TInit => TInv
  /\ TRestart => TInv'
<1>1. Unused \in ClientState /\ Unused.at = "unused"
  BY DEF Unused, ClientState, Places
<1>2. ASSUME TInit
      PROVE  TInv
  BY <1>1, <1>2 DEF TInit, TInv, TTypeOK, ClientsBelong, SessionsOwn, HubKnowsEnd, NoStrayClient,
                    HubAgrees, ClientState, Places
<1>3. ASSUME TRestart
      PROVE  TInv'
  BY <1>1, <1>3 DEF TRestart, TInv, TTypeOK, ClientsBelong, SessionsOwn, HubKnowsEnd,
                    NoStrayClient, HubAgrees, ClientState, Places
<1> QED
  BY <1>2, <1>3

-----------------------------------------------------------------------------
(* The connect request                                                     *)

Stages == {"none", "reading", "fetching", "heard", "clearing"}

(* An answer moves on, and the others stay where they are.                 *)
LEMMA AnswerMoves ==
  ASSUME NTypeOK, NEW a \in Reply, NEW from \in Stages, NEW to \in Stages, ReplyAt(a, from, to)
  PROVE  /\ answers' \in [Reply -> Stages]
         /\ answers[a] = from /\ answers'[a] = to
         /\ \A b \in Reply : b # a => answers'[b] = answers[b]
BY DEF NTypeOK, ReplyAt, Stages

(* The history keeps its types.                                            *)
LEMMA HistoryTypes ==
  ASSUME NTypeOK, NNext
  PROVE  stale' \subseteq Reply /\ lost' \in BOOLEAN
<1>1. stale \subseteq Reply /\ lost \in BOOLEAN
  BY DEF NTypeOK
<1>2. CASE ConnectRequest \/ Saved \/ SaveFails
  <2>1. stale' \subseteq Reply
    BY <1>1, <1>2 DEF ConnectRequest, Saved, SaveFails
  <2>2. lost' \in BOOLEAN
    BY <1>1, <1>2, Zenon DEF ConnectRequest, Saved, SaveFails
  <2> QED
    BY <2>1, <2>2
<1>3. ASSUME NEW a \in Reply,
             Respond(a) \/ Identified(a) \/ HubHears(a) \/ FetchFails(a) \/ Resolves(a) \/ Clear(a)
      PROVE  stale' \subseteq Reply /\ lost' \in BOOLEAN
  <2>1. stale' \subseteq Reply
    BY <1>1, <1>3 DEF Respond, Identified, HubHears, FetchFails, Resolves, Clear
  <2>2. lost' \in BOOLEAN
    BY <1>1, <1>3, Zenon DEF Respond, Identified, HubHears, FetchFails, Resolves, Clear
  <2> QED
    BY <2>1, <2>2
<1> QED
  BY <1>2, <1>3 DEF NNext

(* A new request waits for its row and for its answer; no row has it yet.  *)
LEMMA ConnectRequestPreserves ==
  ASSUME NInv, ConnectRequest
  PROVE  NInv'
<1>1. /\ issued \in Nat /\ MaxRequests \in Nat /\ issued < MaxRequests
      /\ issued' = issued + 1 /\ outstanding' = issued + 1
      /\ UNCHANGED <<row, saved, answers, stale, lost>>
  BY RequestAssumption DEF NInv, NTypeOK, ConnectRequest
<1>2. saving \in Seq(1..MaxRequests) /\ Len(saving) \in Nat /\ Len(saving) < MaxSaving
  BY LenProperties DEF NInv, NTypeOK, ConnectRequest
<1>3. /\ saving' \in Seq(1..MaxRequests) /\ Len(saving') = Len(saving) + 1
      /\ saving'[Len(saving) + 1] = issued + 1
      /\ \A i \in 1 .. Len(saving) : saving'[i] = saving[i]
  BY <1>1, <1>2, AppendProperties DEF ConnectRequest
<1>4. saved \in 0 .. issued
  BY DEF NInv, NTypeOK
<1>5. NTypeOK'
  BY <1>1, <1>2, <1>3, RequestAssumption, HistoryTypes DEF NInv, NTypeOK, NNext
<1>6. SavingIsIssued'
  <2>1. SUFFICES ASSUME NEW i \in 1 .. Len(saving) + 1
                 PROVE  saving'[i] \in 1 .. issued + 1
    BY <1>1, <1>3 DEF SavingIsIssued
  <2>2. i \in 1 .. Len(saving) \/ i = Len(saving) + 1
    BY <1>2, <2>1
  <2>3. CASE i \in 1 .. Len(saving)
    <3>1. saving[i] \in 1 .. issued
      BY <2>3 DEF NInv, SavingIsIssued
    <3> QED
      BY <1>1, <1>3, <2>3, <3>1
  <2>4. CASE i = Len(saving) + 1
    BY <1>1, <1>3, <2>4
  <2> QED
    BY <2>2, <2>3, <2>4
<1>7. HeardIsKnown' /\ RequestKept'
  BY <1>1, <1>4 DEF HeardIsKnown, RequestKept
<1> QED
  BY <1>5, <1>6, <1>7 DEF NInv

(* The request at the head is put into the row, or is not.                 *)
LEMMA SavePreserves ==
  ASSUME NInv, Saved \/ SaveFails
  PROVE  NInv'
<1>1. /\ saving \in Seq(1..MaxRequests) /\ saving # <<>> /\ saving' = Tail(saving)
      /\ UNCHANGED <<issued, outstanding, answers>> /\ issued \in Nat /\ MaxSaving \in Nat
  <2>1. saving # <<>> /\ saving' = Tail(saving) /\ UNCHANGED <<issued, outstanding, answers>>
    BY DEF Saved, SaveFails
  <2>2. MaxRequests \in Nat /\ MaxSaving \in Nat
    BY RequestAssumption
  <2> QED
    BY <2>1, <2>2 DEF NInv, NTypeOK
<1>2. /\ saving' \in Seq(1..MaxRequests) /\ Len(saving') = Len(saving) - 1
      /\ Len(saving) \in Nat \ {0}
      /\ \A i \in 1 .. Len(saving) - 1 : saving'[i] = saving[i + 1]
      /\ Head(saving) = saving[1]
  BY <1>1, HeadTailProperties, EmptySeq
<1>3. Head(saving) \in 1 .. issued
  BY <1>2 DEF NInv, SavingIsIssued
<1>4. stale' \subseteq Reply /\ lost' \in BOOLEAN
  BY HistoryTypes DEF NInv, NNext
<1>5. SavingIsIssued'
  BY <1>1, <1>2 DEF NInv, SavingIsIssued
<1>6. CASE Saved
  <2>1. row' = Head(saving) /\ saved' = Head(saving)
    BY <1>6 DEF Saved
  <2>2. stale' = {a \in Reply : answers[a] \in {"heard", "clearing"}}
    BY <1>6 DEF Saved
  <2>3. NTypeOK'
    BY <1>1, <1>2, <1>3, <1>4, <2>1 DEF NInv, NTypeOK
  <2>4. HeardIsKnown' /\ RequestKept'
    BY <1>1, <2>1, <2>2 DEF HeardIsKnown, RequestKept
  <2> QED
    BY <1>5, <2>3, <2>4 DEF NInv
<1>7. CASE SaveFails
  <2>1. UNCHANGED <<row, saved, stale, lost>>
    BY <1>7 DEF SaveFails
  <2>2. NTypeOK'
    BY <1>1, <1>2, <2>1 DEF NInv, NTypeOK
  <2>3. HeardIsKnown' /\ RequestKept'
    BY <1>1, <2>1 DEF NInv, HeardIsKnown, RequestKept
  <2> QED
    BY <1>5, <2>2, <2>3 DEF NInv
<1> QED
  BY <1>6, <1>7

(* An answer deletes the row only after the Hub has had it.                *)
LEMMA AnswerPreserves ==
  ASSUME NInv, NEW a \in Reply,
         Respond(a) \/ Identified(a) \/ HubHears(a) \/ FetchFails(a) \/ Resolves(a) \/ Clear(a)
  PROVE  NInv'
<1>1. UNCHANGED <<issued, saving, saved>>
  BY DEF Respond, Identified, HubHears, FetchFails, Resolves, Clear
<1>2. stale' \subseteq Reply /\ lost' \in BOOLEAN
  BY HistoryTypes DEF NInv, NNext
<1>3. /\ answers' \in [Reply -> Stages]
      /\ \A b \in Reply : b # a => answers'[b] = answers[b]
  BY AnswerMoves DEF NInv, Respond, Identified, HubHears, FetchFails, Resolves, Clear, Stages
<1>4. outstanding' \in {outstanding, 0} /\ row' \in {row, 0}
  BY DEF Respond, Identified, HubHears, FetchFails, Resolves, Clear
<1>5. NTypeOK'
  BY <1>1, <1>2, <1>3, <1>4 DEF NInv, NTypeOK, Stages
<1>6. \A b \in Reply : b # a /\ b \in stale => b \in stale'
  BY DEF Respond, Identified, HubHears, FetchFails, Resolves, Clear
<1>7. SavingIsIssued'
  BY <1>1 DEF NInv, SavingIsIssued
<1>8. CASE Respond(a) \/ Identified(a) \/ FetchFails(a)
  <2>1. answers'[a] \in {"none", "reading", "fetching"} /\ UNCHANGED <<row, lost>>
    BY <1>8, AnswerMoves DEF NInv, Respond, Identified, FetchFails, Stages
  <2>2. HeardIsKnown'
    BY <1>1, <1>3, <1>4, <1>6, <2>1 DEF NInv, HeardIsKnown
  <2>3. RequestKept'
    BY <1>1, <1>4, <2>1 DEF NInv, RequestKept
  <2> QED
    BY <1>5, <1>7, <2>2, <2>3 DEF NInv
<1>9. CASE HubHears(a)
  <2>1. outstanding' = 0 \/ a \in stale'
    BY <1>9 DEF HubHears
  <2>2. HeardIsKnown'
    BY <1>1, <1>3, <1>4, <1>6, <2>1 DEF NInv, HeardIsKnown
  <2>3. UNCHANGED <<row, lost>>
    BY <1>9 DEF HubHears
  <2>4. RequestKept'
    BY <1>1, <1>4, <2>3 DEF NInv, RequestKept
  <2> QED
    BY <1>5, <1>7, <2>2, <2>4 DEF NInv
<1>10. CASE Resolves(a)
  <2>1. answers[a] = "heard" /\ UNCHANGED <<row, lost, stale, outstanding>>
    BY <1>10 DEF Resolves, ReplyAt
  <2>2. HeardIsKnown'
    BY <1>1, <1>3, <2>1 DEF NInv, HeardIsKnown
  <2>3. RequestKept'
    BY <1>1, <2>1 DEF NInv, RequestKept
  <2> QED
    BY <1>5, <1>7, <2>2, <2>3 DEF NInv
<1>11. CASE Clear(a)
  <2>1. answers[a] = "clearing" /\ UNCHANGED outstanding /\ answers'[a] = "none"
    BY <1>11, AnswerMoves DEF NInv, Clear, Stages
  <2>2. HeardIsKnown'
    BY <1>1, <1>3, <1>6, <2>1 DEF NInv, HeardIsKnown
  <2>3. UNCHANGED <<row, lost>> \/ (lost' <=> lost \/ a \in stale)
    BY <1>11, Zenon DEF Clear
  <2>4. outstanding # 0 /\ saved = outstanding => a \in stale
    BY <2>1 DEF NInv, HeardIsKnown
  <2>5. RequestKept'
    BY <1>1, <2>1, <2>3, <2>4 DEF NInv, RequestKept
  <2> QED
    BY <1>5, <1>7, <2>2, <2>5 DEF NInv
<1> QED
  BY <1>8, <1>9, <1>10, <1>11

LEMMA RequestsPreserved ==
  ASSUME NInv, NNext
  PROVE  NInv'
BY ConnectRequestPreserves, SavePreserves, AnswerPreserves DEF NNext

(* The row survives a restart, what was under way does not.                *)
LEMMA RowSurvives ==
  /\ NInit => NInv
  /\ NInv /\ NRestart => NInv'
<1>1. ASSUME NInit
      PROVE  NInv
  <2>1. stale = {} /\ lost \in BOOLEAN
    BY <1>1, Zenon DEF NInit
  <2> QED
    BY <1>1, <2>1, EmptySeq, RequestAssumption
       DEF NInit, NInv, NTypeOK, SavingIsIssued, HeardIsKnown, RequestKept
<1>2. ASSUME NInv, NRestart
      PROVE  NInv'
  <2>1. saving' = <<>> /\ Len(saving') = 0 /\ saving' \in Seq(1..MaxRequests)
    BY <1>2, EmptySeq DEF NRestart
  <2>2. \A a \in Reply : answers'[a] = "none"
    BY <1>2 DEF NRestart
  <2>3. UNCHANGED <<issued, outstanding, row, saved, lost>> /\ stale' = {}
    BY <1>2 DEF NRestart
  <2>4. answers' \in [Reply -> {"none", "reading", "fetching", "heard", "clearing"}]
    BY <1>2 DEF NRestart
  <2>5. MaxSaving \in Nat
    BY RequestAssumption
  <2> QED
    BY <1>2, <2>1, <2>2, <2>3, <2>4, <2>5
       DEF NInv, NTypeOK, SavingIsIssued, HeardIsKnown, RequestKept
<1> QED
  BY <1>1, <1>2

-----------------------------------------------------------------------------
(* The invariant and what follows from it                                  *)

LEMMA InitInvariant ==
  ASSUME Init
  PROVE  IInv
BY NoTerminals, RowSurvives DEF Init, IInv

LEMMA StepPreserves ==
  ASSUME IInv, [Next]_vars
  PROVE  IInv'
<1>1. ASSUME UNCHANGED tvars
      PROVE  TInv'
  BY <1>1 DEF tvars, IInv, TInv, TTypeOK, ClientsBelong, SessionsOwn, HubKnowsEnd, NoStrayClient,
              HubAgrees
<1>2. ASSUME UNCHANGED nvars
      PROVE  NInv'
  BY <1>2 DEF nvars, IInv, NInv, NTypeOK, SavingIsIssued, HeardIsKnown, RequestKept
<1> QED
  BY <1>1, <1>2, TerminalsPreserved, RequestsPreserved, NoTerminals, RowSurvives
     DEF Next, Restart, vars, IInv

(* The inductive invariant of terminals and requests holds in every order  *)
(* of their handlers, and across restarts.                                 *)
THEOREM Invariance == Spec => []IInv
BY InitInvariant, StepPreserves, PTL DEF Spec

(* Every variable keeps its type, the shell of a session is an open one,   *)
(* and the row names the last request that was saved, or none.             *)
THEOREM TypeCorrect == Spec => []TypeOK
<1>1. IInv => TypeOK
  BY DEF IInv, TInv, NInv, TypeOK
<1> QED
  BY <1>1, Invariance, PTL

(* Every client that was not told to end is the one of its session.        *)
THEOREM NothingLeftOver == Spec => []NoStrayClient
<1>1. IInv => NoStrayClient
  BY DEF IInv, TInv
<1> QED
  BY <1>1, Invariance, PTL

(* The Hub was last told of each terminal what the map has of it.          *)
THEOREM HubKnows == Spec => []HubAgrees
<1>1. IInv => HubAgrees
  BY DEF IInv, TInv
<1> QED
  BY <1>1, Invariance, PTL

(* A request the Hub waits for stays in its row once it is there, unless    *)
(* respondToRequest() deletes it for an answer that did not settle it.     *)
THEOREM RequestStays == Spec => []RequestKept
<1>1. IInv => RequestKept
  BY DEF IInv, NInv
<1> QED
  BY <1>1, Invariance, PTL
=============================================================================
