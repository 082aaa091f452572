------------------------- MODULE SignedEventsProofs -------------------------
(* At-most-once handling of signed events, for any number of messages, any *)
(* window, any difference of the clocks and any schedule of delays and     *)
(* repeated deliveries.                                                    *)
EXTENDS SignedEvents, TLAPS

(* A handled message that is not in early has reached its timestamp.       *)
EarlyIsEarly ==
  /\ \A m \in Message : handled[m] > 0 => m \in early \/ ts[m] <= now
  /\ \A m \in early : handled[m] > 0

(* A handled message is remembered, too old to be accepted, or outrun.     *)
RememberedOrRefused ==
  \A m \in Message :
    handled[m] > 0 => m \in seen \/ now > ts[m] + Window \/ Outrun(m)

(* Only what was sent is handled and remembered.                           *)
OnlySent ==
  /\ \A m \in Message : handled[m] > 0 => m \in sent
  /\ seen \subseteq sent

IInv == /\ TypeOK /\ OnlySent /\ EarlyIsEarly /\ RememberedOrRefused
        /\ AtMostOnce /\ OnlyHandledRemembered /\ SeenIsRecent

-----------------------------------------------------------------------------
(* What the guard forgets while it is shown an acceptable message m has    *)
(* expired by then, or one of the two is ahead of the clock: the heart of  *)
(* the argument.                                                           *)
LEMMA ForgottenIsRefused ==
  ASSUME TypeOK, OnlyHandledRemembered, EarlyIsEarly,
         NEW m \in Message, ~Expired(m), NEW n \in seen, n \notin Prune(m)
  PROVE  \/ now > ts[n] + Window
         \/ ts[m] > now /\ ts[m] > ts[n] + Window
         \/ n \in early /\ ts[n] > ts[m] + Window
<1>1. n \in Message /\ handled[n] > 0
  BY DEF TypeOK, OnlyHandledRemembered
<1>2. ts[m] \in Int /\ ts[n] \in Int /\ now \in Int /\ Window \in Int
  BY <1>1, ClockAssumption DEF TypeOK
<1>3. n \in early \/ ts[n] <= now
  BY <1>1 DEF EarlyIsEarly
<1>4. ~(Apart(now, ts[m]) > Window) /\ ~(Apart(ts[m], ts[n]) <= Window)
  BY DEF Expired, Prune
<1> QED
  BY <1>2, <1>3, <1>4 DEF Apart

(* What the guard remembers after remember(m) lies in one window of m.     *)
LEMMA RememberIsRecent ==
  ASSUME TypeOK, NEW m \in Message, Remember(m), UNCHANGED ts
  PROVE  SeenIsRecent'
<1>1. ASSUME NEW a \in seen', NEW b \in seen'
      PROVE  Apart(ts[a], ts[b]) <= 2 * Window
  <2>1. a \in Message /\ b \in Message
    BY <1>1 DEF Remember, Prune, TypeOK
  <2>2. ts[a] \in Int /\ ts[b] \in Int /\ ts[m] \in Int /\ Window \in Nat
    BY <2>1, ClockAssumption DEF TypeOK
  <2>3. Apart(ts[m], ts[a]) <= Window /\ Apart(ts[m], ts[b]) <= Window
    BY <1>1, <2>2 DEF Remember, Prune, Apart
  <2> QED
    BY <2>2, <2>3 DEF Apart
<1> QED
  BY <1>1 DEF SeenIsRecent

(* A message that is shown to the guard leaves every handled one           *)
(* remembered, expired or outrun.                                          *)
LEMMA ShownKeepsRemembered ==
  ASSUME IInv, NEW m \in Message, ~Expired(m), Remember(m),
         UNCHANGED <<now, ts>>,
         \A n \in Message : handled[n] > 0 => handled'[n] > 0,
         \A n \in Message : handled'[n] > 0 => n = m \/ handled[n] > 0,
         early \subseteq early', handled'[m] > 0,
         ts[m] > now => m \in early'
  PROVE  RememberedOrRefused'
<1>1. SUFFICES ASSUME NEW n \in Message, handled'[n] > 0,
                      n \notin seen', ~(now' > ts'[n] + Window)
               PROVE  Outrun(n)'
  BY DEF RememberedOrRefused
<1>2. n # m /\ handled[n] > 0
  BY <1>1 DEF Remember
<1>3. CASE n \in seen
  <2>1. n \notin Prune(m)
    BY <1>1 DEF Remember
  <2>2. \/ ts[m] > now /\ ts[m] > ts[n] + Window
        \/ n \in early /\ ts[n] > ts[m] + Window
    BY <1>1, <1>3, <2>1, ForgottenIsRefused DEF IInv
  <2> QED
    BY <2>2 DEF Outrun
<1>4. CASE Outrun(n)
  BY <1>4 DEF Outrun
<1> QED
  BY <1>1, <1>2, <1>3, <1>4 DEF IInv, RememberedOrRefused

(* Each step keeps the invariant.                                          *)
LEMMA StepPreserves ==
  ASSUME IInv, [Next]_vars
  PROVE  IInv'
<1> USE DEF IInv
<1>1. CASE Issue \/ ReceiveSecret
  BY <1>1 DEF Issue, ReceiveSecret, TypeOK, OnlySent, EarlyIsEarly,
         RememberedOrRefused, Outrun, AtMostOnce, OnlyHandledRemembered, SeenIsRecent
<1>2. CASE Restart
  BY <1>2 DEF Restart, TypeOK, OnlySent, EarlyIsEarly,
         RememberedOrRefused, AtMostOnce, OnlyHandledRemembered, SeenIsRecent
<1>3. CASE Tick
  <2>1. TypeOK' /\ OnlySent' /\ OnlyHandledRemembered' /\ SeenIsRecent'
    BY <1>3 DEF Tick, TypeOK, OnlySent, OnlyHandledRemembered, SeenIsRecent
  <2>2. now \in Nat /\ now' = now + 1 /\ ts \in [Message -> Int] /\ Window \in Nat
    BY <1>3, ClockAssumption DEF Tick, TypeOK
  <2>3. EarlyIsEarly'
    BY <1>3, <2>2 DEF Tick, EarlyIsEarly
  <2>4. \A m \in Message : Outrun(m) => Outrun(m)'
    BY <1>3 DEF Tick, Outrun
  <2>5. RememberedOrRefused'
    BY <1>3, <2>2, <2>4 DEF Tick, RememberedOrRefused
  <2>6. AtMostOnce'
    BY <1>3, <2>4 DEF Tick, AtMostOnce
  <2> QED
    BY <2>1, <2>3, <2>5, <2>6
<1>4. ASSUME NEW m \in Message, Send(m)
      PROVE  IInv'
  <2>1. PICK t \in (now - HubLag) .. (now + HubLead) : ts' = [ts EXCEPT ![m] = t]
    BY <1>4 DEF Send
  <2>2. PICK k \in {0, hubSecret} : key' = [key EXCEPT ![m] = k]
    BY <1>4 DEF Send
  <2>3. /\ m \notin sent /\ sent' = sent \cup {m}
        /\ UNCHANGED <<now, hubSecret, secret, seen, handled, early>>
    BY <1>4 DEF Send
  <2>4. t \in Int
    BY <2>1, ClockAssumption DEF TypeOK
  <2>5. TypeOK'
    BY <2>1, <2>2, <2>3, <2>4 DEF TypeOK
  <2>6. OnlySent' /\ OnlyHandledRemembered'
    BY <2>3 DEF OnlySent, OnlyHandledRemembered
  <2>7. \A n \in Message : handled[n] > 0 \/ n \in seen => n # m
    BY <2>3 DEF OnlySent
  <2>8. \A n \in Message : handled[n] > 0 \/ n \in seen => ts'[n] = ts[n]
    BY <2>1, <2>7 DEF TypeOK
  <2>9. EarlyIsEarly' /\ SeenIsRecent'
    BY <2>3, <2>8 DEF EarlyIsEarly, SeenIsRecent, TypeOK
  <2>10. \A n \in Message : handled[n] > 0 /\ Outrun(n) => Outrun(n)'
    BY <2>3, <2>8 DEF Outrun
  <2>11. RememberedOrRefused'
    BY <2>3, <2>8, <2>10 DEF RememberedOrRefused
  <2>12. \A n \in Message : handled[n] \in Nat /\ (handled[n] > 1 => handled[n] > 0)
    BY DEF TypeOK
  <2>13. AtMostOnce'
    BY <2>3, <2>10, <2>12 DEF AtMostOnce
  <2> QED
    BY <2>5, <2>6, <2>9, <2>11, <2>13
<1>5. ASSUME NEW m \in Message, DropReplayed(m)
      PROVE  IInv'
  <2>1. /\ m \in sent /\ ~Expired(m) /\ m \in Prune(m) /\ Remember(m)
        /\ UNCHANGED <<now, sent, ts, key, hubSecret, secret, handled, early>>
    BY <1>5 DEF DropReplayed
  <2>2. seen' \subseteq seen
    BY <2>1 DEF Prune, Remember
  <2>3. TypeOK' /\ OnlySent' /\ OnlyHandledRemembered' /\ EarlyIsEarly'
    BY <2>1, <2>2 DEF TypeOK, OnlySent, OnlyHandledRemembered, EarlyIsEarly
  <2>4. m \in seen /\ handled[m] > 0
    BY <2>1 DEF OnlyHandledRemembered, Prune
  <2>5. ts[m] > now => m \in early
    <3>1. ts[m] \in Int /\ now \in Int
      BY DEF TypeOK
    <3> QED
      BY <2>4, <3>1 DEF EarlyIsEarly
  <2>6. RememberedOrRefused'
    BY <2>1, <2>4, <2>5, ShownKeepsRemembered
  <2>7. SeenIsRecent'
    BY <2>1, RememberIsRecent
  <2>8. AtMostOnce'
    BY <2>1 DEF AtMostOnce, Outrun
  <2> QED
    BY <2>3, <2>6, <2>7, <2>8
<1>6. ASSUME NEW m \in Message, Handle(m)
      PROVE  IInv'
  <2>1. /\ m \in sent /\ ~Expired(m) /\ m \notin Prune(m) /\ Remember(m)
        /\ handled' = [handled EXCEPT ![m] = IF @ = 0 THEN 1 ELSE 2]
        /\ early' = IF ts[m] > now THEN early \cup {m} ELSE early
        /\ UNCHANGED <<now, sent, ts, key, hubSecret, secret>>
    BY <1>6 DEF Handle
  <2>2. ts[m] \in Int /\ now \in Int /\ Window \in Nat
    BY ClockAssumption DEF TypeOK
  <2>3. /\ handled'[m] = IF handled[m] = 0 THEN 1 ELSE 2
        /\ handled'[m] \in Nat /\ handled'[m] > 0
        /\ \A n \in Message : n # m => handled'[n] = handled[n]
    BY <2>1 DEF TypeOK
  <2>4. \A n \in Message : handled[n] > 0 => handled'[n] > 0
    BY <2>3
  <2>5. early \subseteq early' /\ early' \subseteq early \cup {m} /\ (ts[m] > now => m \in early')
    BY <2>1
  <2>6. seen' = Prune(m) \cup {m} /\ Prune(m) \subseteq seen
    BY <2>1 DEF Remember, Prune
  <2>7. TypeOK' /\ OnlySent' /\ OnlyHandledRemembered'
    <3>1. TypeOK'
      BY <2>1, <2>5, <2>6 DEF TypeOK
    <3>2. OnlySent' /\ OnlyHandledRemembered'
      BY <2>1, <2>3, <2>4, <2>6 DEF OnlySent, OnlyHandledRemembered, TypeOK
    <3> QED
      BY <3>1, <3>2
  <2>8. EarlyIsEarly'
    <3>1. \A n \in Message : handled'[n] > 0 => n \in early' \/ ts[n] <= now
      BY <2>2, <2>3, <2>5 DEF EarlyIsEarly
    <3>2. \A n \in early' : handled'[n] > 0
      BY <2>3, <2>4, <2>5 DEF EarlyIsEarly, TypeOK
    <3> QED
      BY <2>1, <3>1, <3>2 DEF EarlyIsEarly
  <2>9. RememberedOrRefused'
    BY <2>1, <2>3, <2>4, <2>5, ShownKeepsRemembered
  <2>10. \A n \in Message : Outrun(n) => Outrun(n)'
    BY <2>1, <2>4, <2>5 DEF Outrun
  <2>11. handled[m] = 0 \/ Outrun(m)
    <3>1. CASE m \in seen
      BY <2>1, <2>2, <3>1 DEF Prune, Apart
    <3>2. CASE now > ts[m] + Window
      BY <2>1, <2>2, <3>2 DEF Expired, Apart
    <3>3. handled[m] \in Nat
      BY DEF TypeOK
    <3> QED
      BY <3>1, <3>2, <3>3 DEF RememberedOrRefused
  <2>12. AtMostOnce'
    BY <2>3, <2>10, <2>11 DEF AtMostOnce
  <2>13. SeenIsRecent'
    BY <2>1, RememberIsRecent
  <2> QED
    BY <2>7, <2>8, <2>9, <2>12, <2>13
<1>7. CASE UNCHANGED vars
  BY <1>7 DEF vars, TypeOK, OnlySent, EarlyIsEarly, RememberedOrRefused, Outrun,
         AtMostOnce, OnlyHandledRemembered, SeenIsRecent
<1> QED
  BY <1>1, <1>2, <1>3, <1>4, <1>5, <1>6, <1>7 DEF Next, DropUnverified

(* The invariant is established and kept, whichever way the clocks differ. *)
THEOREM GuardInvariant == Spec => []IInv
<1>1. Init => IInv
  BY DEF Init, IInv, TypeOK, OnlySent, EarlyIsEarly, RememberedOrRefused,
         AtMostOnce, OnlyHandledRemembered, SeenIsRecent
<1>2. IInv /\ [Next]_vars => IInv'
  BY StepPreserves
<1> QED
  BY <1>1, <1>2, PTL DEF Spec

(* The guard, the secrets and the clock keep their types.                  *)
THEOREM SignedTypes == Spec => []TypeOK
<1>1. IInv => TypeOK
  BY DEF IInv
<1> QED
  BY <1>1, GuardInvariant, PTL

(* One process handles a signed event at most once, however often and late *)
(* it is delivered, unless a message that was ahead of the agent's clock   *)
(* was handled more than a window apart from it.                           *)
THEOREM HandledAtMostOnce == Spec => []AtMostOnce
<1>1. IInv => AtMostOnce
  BY DEF IInv
<1> QED
  BY <1>1, GuardInvariant, PTL

(* ReplayGuard remembers no nonce of an event that was refused, and only   *)
(* nonces that come from two windows.                                      *)
THEOREM GuardStaysExact == Spec => []GuardIsExact
<1>1. IInv => GuardIsExact
  BY DEF IInv, GuardIsExact
<1> QED
  BY <1>1, GuardInvariant, PTL
=============================================================================
