---------------------------- MODULE SignedEvents ----------------------------
(***************************************************************************)
(* The way of a signed event from the Hub to its handler: the listener of  *)
(* createSocketListener.util.ts, verify() and the ReplayGuard of           *)
(* hash.util.ts (both under src/src/utility).                              *)
(*                                                                         *)
(* The Hub and the network are external.  A message may be lost, delayed,  *)
(* overtaken and delivered again, also after the agent has restarted with  *)
(* the secret it keeps in its database and an empty replay guard.  The     *)
(* digest is modelled by the secret it was made with, and a nonce by the   *)
(* identity of the message that carries it.                                *)
(***************************************************************************)
EXTENDS Integers

CONSTANTS
  Message,     \* the events the Hub signs, each with a nonce of its own
  Window,      \* DEFAULT_MAX_CLOCK_SKEW_MS, for verify and for the guard
  HubLag,      \* bound: how far the Hub's clock may be behind the agent's
  HubLead,     \* bound: how far it may be ahead
  MaxSecrets,  \* bound: secrets the Hub issues
  MaxTime      \* bound: the agent's clock

ASSUME ClockAssumption ==
         /\ Window \in Nat /\ HubLag \in Nat /\ HubLead \in Nat
         /\ MaxSecrets \in Nat /\ MaxTime \in Nat

VARIABLES
  now,        \* Date.now() of the agent
  sent,       \* messages the Hub has sent
  ts,         \* _ts of each message
  key,        \* the secret _sig was made with; 0 for a missing signature
  hubSecret,  \* the secret the Hub last issued
  secret,     \* what readSigningSecret() returns; 0 for null
  seen,       \* the messages whose nonces the guard remembers
  handled,    \* how often this process invoked the handler of each message,
              \* counted to 2
  early       \* history: what it handled before the time of its timestamp

vars == <<now, sent, ts, key, hubSecret, secret, seen, handled, early>>

Init ==
  /\ now = 0 /\ sent = {}
  /\ ts = [m \in Message |-> 0] /\ key = [m \in Message |-> 0]
  /\ hubSecret = 0 /\ secret = 0
  /\ seen = {} /\ handled = [m \in Message |-> 0] /\ early = {}

-----------------------------------------------------------------------------
Apart(a, b) == IF a < b THEN b - a ELSE a - b

(* Mutant of Prune: forgets a nonce one tick before verify() refuses it.   *)
PruneEarly(m) == {n \in seen : Apart(ts[m], ts[n]) < Window}

(* prune(): what the guard still remembers once it has been shown the      *)
(* timestamp of the message in hand.                                       *)
Prune(m) == {n \in seen : Apart(ts[m], ts[n]) <= Window}

(* The checks of verify() before the guard is asked.                       *)
Authentic(m) == secret # 0 /\ key[m] = secret
Expired(m)   == Apart(now, ts[m]) > Window

(* Mutant of Remember: keeps the timestamp for the nonce.                   *)
RememberTimestamp(m) == seen' = Prune(m) \cup {ts[m]}

(* ReplayGuard.remember(): prune, then look, then record.                  *)
Remember(m) == seen' = Prune(m) \cup {m}

-----------------------------------------------------------------------------
(* The Hub                                                                 *)

Issue ==
  /\ hubSecret < MaxSecrets
  /\ hubSecret' = hubSecret + 1
  /\ UNCHANGED <<now, sent, ts, key, secret, seen, handled, early>>

Send(m) ==
  /\ m \notin sent
  /\ sent' = sent \cup {m}
  /\ \E t \in (now - HubLag) .. (now + HubLead) : ts' = [ts EXCEPT ![m] = t]
  /\ \E k \in {0, hubSecret} : key' = [key EXCEPT ![m] = k]
  /\ UNCHANGED <<now, hubSecret, secret, seen, handled, early>>

-----------------------------------------------------------------------------
(* The agent                                                               *)

(* A register response passes unverified and carries the new secret.       *)
ReceiveSecret ==
  /\ secret # hubSecret
  /\ secret' = hubSecret
  /\ UNCHANGED <<now, sent, ts, key, hubSecret, seen, handled, early>>

(* Mutant of DropUnverified: asks the guard first, and burns the nonce.    *)
DropBurnsNonce(m) ==
  /\ m \in sent
  /\ ~Authentic(m) \/ Expired(m)
  /\ Remember(m)
  /\ UNCHANGED <<now, sent, ts, key, hubSecret, secret, handled, early>>

(* The listener drops what verify() refuses before the guard is asked.     *)
DropUnverified(m) ==
  /\ m \in sent
  /\ ~Authentic(m) \/ Expired(m)
  /\ UNCHANGED vars

(* remember() answers false for a nonce it knows, but has pruned all the   *)
(* same.                                                                   *)
DropReplayed(m) ==
  /\ m \in sent /\ Authentic(m) /\ ~Expired(m)
  /\ m \in Prune(m)
  /\ Remember(m)
  /\ UNCHANGED <<now, sent, ts, key, hubSecret, secret, handled, early>>

Handle(m) ==
  /\ m \in sent /\ Authentic(m) /\ ~Expired(m)
  /\ m \notin Prune(m)
  /\ Remember(m)
  /\ handled' = [handled EXCEPT ![m] = IF @ = 0 THEN 1 ELSE 2]
  /\ early' = IF ts[m] > now THEN early \cup {m} ELSE early
  /\ UNCHANGED <<now, sent, ts, key, hubSecret, secret>>

(* A new process reads the secret from the database; the guard is new.     *)
Restart ==
  /\ seen' = {}
  /\ handled' = [m \in Message |-> 0] /\ early' = {}
  /\ UNCHANGED <<now, sent, ts, key, hubSecret, secret>>

Tick ==
  /\ now < MaxTime
  /\ now' = now + 1
  /\ UNCHANGED <<sent, ts, key, hubSecret, secret, seen, handled, early>>

Next ==
  \/ Issue \/ ReceiveSecret \/ Restart \/ Tick
  \/ \E m \in Message :
       Send(m) \/ DropUnverified(m) \/ DropReplayed(m) \/ Handle(m)

Spec == Init /\ [][Next]_vars

-----------------------------------------------------------------------------
(* Every variable has the type the source gives it.                        *)
TypeOK ==
  /\ now \in Nat /\ hubSecret \in Nat /\ secret \in Nat
  /\ sent \in SUBSET Message /\ seen \in SUBSET Message
  /\ ts \in [Message -> Int] /\ key \in [Message -> Nat]
  /\ handled \in [Message -> 0..2] /\ early \in SUBSET Message

(* Another message was handled whose timestamp is more than a window away, *)
(* and the later of the two came before the time of its timestamp: being   *)
(* shown it, the guard forgot a nonce that verify() still accepts.         *)
Outrun(m) ==
  \E n \in Message :
    /\ handled[n] > 0
    /\ \/ n \in early /\ ts[n] > ts[m] + Window
       \/ m \in early /\ ts[m] > ts[n] + Window

(* However a message is delayed, overtaken and delivered again, and        *)
(* whichever way the clocks differ, one process runs its handler at most   *)
(* once, unless a message ahead of the agent's clock was handled beside it *)
(* and more than a window apart: prune() goes by the timestamp in hand.    *)
(* Whatever else the guard forgets has expired.                            *)
AtMostOnce == \A m \in Message : handled[m] > 1 => Outrun(m)

(* The guard remembers only messages that were handled: one refused for    *)
(* its signature (the secret it needs has not arrived yet) or its age does *)
(* not burn its nonce, and can still be handled when delivered again.      *)
OnlyHandledRemembered == \A m \in seen : handled[m] > 0

(* The guard does not grow with the traffic: it holds only nonces from one *)
(* window around the last timestamp it was shown.                          *)
SeenIsRecent == \A m, n \in seen : Apart(ts[m], ts[n]) <= 2 * Window

(* ReplayGuard keeps no more than it needs: what was handled, of late.     *)
GuardIsExact == OnlyHandledRemembered /\ SeenIsRecent

=============================================================================
