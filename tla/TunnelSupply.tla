---------------------------- MODULE TunnelSupply ----------------------------
(***************************************************************************)
(* What the pool of pre-connected sockets promises to the tunnel server,   *)
(* in numbers: how many sockets are ready, how many are being made, and    *)
(* whether the agent has been told to stop.  New ones are made within the  *)
(* target, one at a time while none is ready, none while halted, and only  *)
(* a registration ends the halt.  PreconnectPool is shown to implement it. *)
(***************************************************************************)
EXTENDS Naturals

CONSTANT Target

VARIABLES ready, inflight, halted

svars == <<ready, inflight, halted>>

SInit == ready = 0 /\ inflight = 0 /\ halted = FALSE

Limit(r) == IF r = 0 THEN 1 ELSE Target

\* After an event that leaves r ready and f in flight, some are ordered.
Orders(r, f) ==
  /\ ready' = r
  /\ \E n \in 0 .. Target :
       /\ inflight' = f + n
       /\ n > 0 => ~halted' /\ r + f + n <= Limit(r)

Refill == UNCHANGED halted /\ Orders(ready, inflight)
Accept == inflight > 0 /\ UNCHANGED halted /\ Orders(ready + 1, inflight - 1)
Use    == ready > 0 /\ UNCHANGED halted /\ Orders(ready - 1, inflight)

\* A failure orders nothing; a rejection may be the end of it.
Fail ==
  /\ inflight > 0
  /\ inflight' = inflight - 1 /\ ready' = ready
  /\ halted' \in {halted, TRUE}

Register == halted' = FALSE /\ Orders(ready, inflight)

SNext == Refill \/ Accept \/ Use \/ Fail \/ Register

SSpec == SInit /\ [][SNext]_svars
=============================================================================
