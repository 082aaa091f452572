----------------------------- MODULE SshTerminal -----------------------------
(***************************************************************************)
(* SshTerminalService: shells on the host, opened by the Hub under an      *)
(* identifier of its own, each with an SSH client whose events arrive when *)
(* they like.  Everything about a session is keyed by the identifier, also *)
(* in the callbacks of a client that is no longer the one of the session.  *)
(*                                                                         *)
(* The ssh2 library and the host are external: what they may do next is    *)
(* all that is assumed of them.                                            *)
(***************************************************************************)
EXTENDS FiniteSets

CONSTANTS
  Session,     \* identifiers the Hub uses
  Client,      \* ssh2 clients
  None

(* What the map holds for an identifier that is open.                      *)
Entry == [client : Client, stream : Client \cup {None}]

ASSUME TerminalAssumption == None \notin Session \cup Client \cup Entry

VARIABLES
  sessions,    \* the map: client and stream of each identifier, or None
  client,      \* the clients: where they are, and whether end() was called
  hub,         \* what the Hub was last told of the identifier
  reused       \* history: an identifier was opened again while a client of
               \* an earlier opening was still there

tvars == <<sessions, client, hub, reused>>

Unused == [at |-> "unused", session |-> None, ended |-> FALSE]

TInit ==
  /\ sessions = [s \in Session |-> None]
  /\ client = [c \in Client |-> Unused]
  /\ hub = [s \in Session |-> "closed"]
  /\ reused = [s \in Session |-> FALSE]

Clients(s) == {c \in Client : client[c].session = s}

-----------------------------------------------------------------------------

\* What the callbacks of a session send to the Hub.
Told(s, what) == hub' = [hub EXCEPT ![s] = what]

\* client.end(): 'close' follows, unless connect() never got anywhere.
EndOf(k) ==
  CASE k.at = "unused" -> k
    [] k.at = "inert"  -> Unused
    [] OTHER           -> [k EXCEPT !.ended = TRUE]

\* Mutants: the connection is left to itself; the Hub is not told.
FinishLeaks(s, now) ==
  IF sessions[s] = None THEN client' = now /\ UNCHANGED <<sessions, hub>>
  ELSE /\ sessions' = [sessions EXCEPT ![s] = None]
       /\ client' = now
       /\ Told(s, "closed")

FinishSilently(s, now) ==
  IF sessions[s] = None THEN client' = now /\ UNCHANGED <<sessions, hub>>
  ELSE /\ sessions' = [sessions EXCEPT ![s] = None]
       /\ client' = [now EXCEPT ![sessions[s].client] = EndOf(@)]
       /\ UNCHANGED hub

\* finish(), in a handler after which the clients are "now": close the stream,
\* end the client (of the session, whoever called), tell the Hub; once.
Finish(s, now) ==
  IF sessions[s] = None THEN client' = now /\ UNCHANGED <<sessions, hub>>
  ELSE /\ sessions' = [sessions EXCEPT ![s] = None]
       /\ client' = [now EXCEPT ![sessions[s].client] = EndOf(@)]
       /\ Told(s, "closed")

\* terminal-open while the session exists: the Hub is told that it is closed.
OpenTwice(s) ==
  /\ sessions[s] # None
  /\ Told(s, "closed")
  /\ reused' = [reused EXCEPT ![s] = TRUE]
  /\ UNCHANGED <<sessions, client>>

\* createConnectConfig() throws (no user name, no secret, no key file).
Misconfigured(s) == Told(s, "closed") /\ UNCHANGED <<sessions, client, reused>>

\* terminal-open: a session and a client.  connect() itself may throw (a key
\* that does not parse): the listener logs it, and the client is inert.
Open(s, c) ==
  /\ sessions[s] = None /\ client[c] = Unused
  /\ \/ Misconfigured(s)
     \/ /\ sessions' = [sessions EXCEPT ![s] = [client |-> c, stream |-> None]]
        /\ \E at \in {"connecting", "inert"} :
             client' = [client EXCEPT ![c] = [at |-> at, session |-> s, ended |-> FALSE]]
        /\ Told(s, "opening")
        /\ reused' = [reused EXCEPT ![s] = @ \/ Clients(s) # {}]

\* terminal-close.
Close(s) ==
  /\ Finish(s, client)
  /\ UNCHANGED reused

\* 'ready': a shell is asked for.
Ready(c) ==
  /\ client[c].at = "connecting" /\ ~client[c].ended
  /\ client' = [client EXCEPT ![c].at = "asking"]
  /\ UNCHANGED <<sessions, hub, reused>>

\* The host grants the shell: it belongs to what is in the map by now.
ShellOpens(c) ==
  LET s == client[c].session IN
  /\ client[c].at = "asking"
  /\ IF sessions[s] = None
       THEN /\ client' = [client EXCEPT ![c].at = "connected"]
            /\ UNCHANGED <<sessions, hub>>
       ELSE /\ client' = [client EXCEPT ![c].at = "shell"]
            /\ sessions' = [sessions EXCEPT ![s].stream = c]
            /\ Told(s, "ready")
  /\ UNCHANGED reused

\* Mutant: the error goes nowhere.
ShellFailsSilently(c) ==
  /\ client[c].at = "asking"
  /\ client' = [client EXCEPT ![c].at = "connected"]
  /\ UNCHANGED <<sessions, hub, reused>>

ShellFails(c) ==
  /\ client[c].at = "asking"
  /\ Finish(client[c].session, [client EXCEPT ![c].at = "connected"])
  /\ UNCHANGED reused

\* Mutant: nobody listens for it.
StreamClosesUnnoticed(c) ==
  /\ client[c].at = "shell"
  /\ client' = [client EXCEPT ![c].at = "connected"]
  /\ UNCHANGED <<sessions, hub, reused>>

\* The shell is left: the stream closes, and with it the session.
StreamCloses(c) ==
  /\ client[c].at = "shell"
  /\ Finish(client[c].session, [client EXCEPT ![c].at = "connected"])
  /\ UNCHANGED reused

\* 'error' (also readyTimeout and a keepalive without an answer); 'close' follows.
ClientError(c) ==
  /\ client[c].at \in {"connecting", "asking", "shell", "connected"}
  /\ Finish(client[c].session, [client EXCEPT ![c].at = "broken", ![c].ended = TRUE])
  /\ UNCHANGED reused

\* 'close' of the client.  An identifier whose last client is gone is as good
\* as new.
ClientCloses(c) ==
  LET s == client[c].session IN
  /\ client[c].at \notin {"unused", "inert"}
  /\ Finish(s, [client EXCEPT ![c] = Unused])
  /\ reused' = [reused EXCEPT ![s] = @ /\ (Clients(s) # {c})]

\* The process dies, and every connection with it; onModuleDestroy() does the
\* same in order.
TRestart ==
  /\ sessions' = [s \in Session |-> None]
  /\ client' = [c \in Client |-> Unused]
  /\ hub' = [s \in Session |-> "closed"]
  /\ reused' = [s \in Session |-> FALSE]

\* What the SSH side owes: an answer, an error or a close.
Answer(c) ==
  \/ Ready(c) \/ ShellOpens(c) \/ ShellFails(c)
  \/ client[c].at \in {"connecting", "asking"} /\ ClientError(c)
Gone(c)   == client[c].ended /\ ClientCloses(c)

TNext ==
  \/ \E s \in Session : OpenTwice(s) \/ Close(s) \/ \E c \in Client : Open(s, c)
  \/ \E c \in Client :
       Ready(c) \/ ShellOpens(c) \/ ShellFails(c) \/ StreamCloses(c) \/ ClientError(c) \/ ClientCloses(c)

TSpec == TInit /\ [][TNext]_tvars /\ \A c \in Client : WF_tvars(Answer(c)) /\ WF_tvars(Gone(c))

-----------------------------------------------------------------------------

\* The variables have their types, and the stream of a session is an open one:
\* nothing is written to a shell that is gone.
TTypeOK ==
  /\ sessions \in [Session -> {None} \cup Entry]
  /\ client \in [Client -> [at : {"unused", "connecting", "asking", "connected", "shell", "broken", "inert"},
                            session : Session \cup {None}, ended : BOOLEAN]]
  /\ hub \in [Session -> {"closed", "opening", "ready"}]
  /\ reused \in [Session -> BOOLEAN]
  /\ \A s \in Session :
       sessions[s] # None /\ sessions[s].stream # None => client[sessions[s].stream].at = "shell"

\* No connection to the host is left over: a client that was not told to end
\* is the one of its session, also when an identifier is used again.
NoStrayClient ==
  \A c \in Client :
    client[c].at # "unused" /\ ~client[c].ended =>
      LET s == client[c].session IN sessions[s] # None /\ sessions[s].client = c

\* The Hub knows: it was told ready or nothing yet exactly of the sessions that
\* are there, and ready of those with a shell; unless it reuses an identifier.
HubAgrees ==
  \A s \in Session : ~reused[s] =>
    /\ hub[s] = "closed" <=> sessions[s] = None
    /\ hub[s] = "ready" <=> sessions[s] # None /\ sessions[s].stream # None

Inert(s) == sessions[s] # None /\ client[sessions[s].client].at = "inert"

\* A terminal that was asked for gets ready, or the Hub is told that it closed;
\* unless connect() threw, which nobody hears of: the identifier is taken until
\* the Hub closes it.
TerminalAnswers ==
  \A s \in Session : hub[s] = "opening" ~> hub[s] # "opening" \/ Inert(s)
=============================================================================
