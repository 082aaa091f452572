-------------------------- MODULE SelfUpdateProofs --------------------------
(* The update of the agent, for any set of versions: .env and the agent's  *)
(* container agree outside an update, the script says what is, and every   *)
(* step implements VersionSwitch.                                          *)
EXTENDS SelfUpdate, TLAPS

(* What each stretch of the script knows of .env and of the container.     *)
OnTheWay ==
  /\ updater.at \in Active => updater.target \in Tag
  /\ updater.at \in {"pull", "write"} => updater.previous = env
  /\ updater.at \in Forward => env = updater.target
  /\ updater.at \in {"settle", "rb_settle"} => agent.tag = env

(* On the way back .env has the target until it is restored, and keeps it  *)
(* when that fails, which is recorded.                                     *)
WayBack ==
  /\ updater.at \in Back => env \in {updater.target, updater.previous}
  /\ updater.at \in Back \ {"rb_write"} /\ ~upset => env = updater.previous

(* A handler that is about to start an updater has removed the one before. *)
NoneBefore == delegating # None => updater.at = "none"

IInv == TypeOK /\ NoDrift /\ OnTheWay /\ WayBack /\ NoneBefore

Places == {"none"} \cup Active \cup Ended

-----------------------------------------------------------------------------
(* Types                                                                   *)

(* The flags stay Boolean.                                                 *)
Flags == following \in BOOLEAN /\ waiting \in BOOLEAN /\ upset \in BOOLEAN

LEMMA FlagsPreserved ==
  ASSUME Flags, [Next]_vars
  PROVE  Flags'
<1> USE DEF Flags, process
<1>1. CASE Check \/ Pull \/ WriteTag
  BY <1>1, Zenon DEF Check, Pull, WriteTag
<1>2. CASE ComposeUp \/ Recreate
  BY <1>2, Zenon DEF ComposeUp, Recreate, Upset
<1>3. CASE Settle \/ RbWrite \/ UpdaterKilled
  BY <1>3, Zenon DEF Settle, RbWrite, UpdaterKilled, Upset
<1>4. CASE AgentStops \/ AgentDies \/ HostUp \/ FollowerCloses
  BY <1>4, Zenon DEF AgentStops, AgentDies, HostUp, ProcessGone, FollowerCloses, Reports
<1>5. ASSUME NEW version \in Tag,
             UpdateAgent(version) \/ ResolveFails(version) \/ RemoveUpdater(version)
      PROVE  Flags'
  BY <1>5, Zenon DEF UpdateAgent, ResolveFails, RemoveUpdater
<1>6. CASE RunUpdater
  BY <1>6, Zenon DEF RunUpdater
<1>7. CASE UNCHANGED vars
  BY <1>7, Zenon DEF vars
<1> QED
  BY <1>1, <1>2, <1>3, <1>4, <1>5, <1>6, <1>7, Zenon DEF Next, Script, Handler

(* The updater stays an updater.                                           *)
LEMMA Moved ==
  ASSUME TypeOK, NEW place \in Places, At(place)
  PROVE  /\ updater'.at = place
         /\ updater'.target = updater.target /\ updater'.previous = updater.previous
         /\ updater' \in [at : Places, target : Tag \cup {None}, previous : Tag \cup {None}]
BY DEF TypeOK, At, Places

(* What a step of the script leaves alone, and where the script is then.   *)
LEMMA ScriptSteps ==
  ASSUME TypeOK, Script
  PROVE  /\ UNCHANGED process
         /\ updater.at \in Active
         /\ updater'.target = updater.target
         /\ updater' \in [at : Places, target : Tag \cup {None}, previous : Tag \cup {None}]
<1> USE DEF Places, Active, Forward, Back, Ended
<1>1. CASE Check
  <2>1. CASE At("unchanged")
    BY <1>1, <2>1, Moved DEF Check
  <2>2. CASE updater' = [updater EXCEPT !.at = "pull", !.previous = env]
    BY <1>1, <2>2 DEF Check, TypeOK
  <2> QED
    BY <1>1, <2>1, <2>2 DEF Check
<1>2. CASE Pull \/ WriteTag
  BY <1>2, Moved DEF Pull, WriteTag
<1>3. CASE ComposeUp
  BY <1>3, Moved DEF ComposeUp, Settling, UpFails
<1>4. CASE Recreate
  BY <1>4, Moved DEF Recreate, Settling, UpFails
<1>5. CASE Settle
  BY <1>5, Moved DEF Settle, UpFails
<1>6. CASE RbWrite
  BY <1>6, Moved DEF RbWrite
<1> QED
  BY <1>1, <1>2, <1>3, <1>4, <1>5, <1>6 DEF Script

LEMMA ScriptTypes ==
  ASSUME TypeOK, OnTheWay, Script
  PROVE  TypeOK'
<1> USE UpdateAssumption DEF Places, Active, Forward, Back, Ended, process, Alive
<1>1. Flags'
  BY FlagsPreserved DEF TypeOK, Flags, Next
<1>2. /\ UNCHANGED <<asking, delegating, following, orphaned, waiting>>
      /\ updater' \in [at : Places, target : Tag \cup {None}, previous : Tag \cup {None}]
      /\ updater.at \in Active
  BY ScriptSteps
<1>3. env' \in Tag
  BY DEF TypeOK, OnTheWay, Script, Check, Pull, WriteTag, ComposeUp, Recreate, Settle, RbWrite
<1>4. /\ agent' \in [tag : Tag, at : {"running", "stopping", "down"}]
      /\ agent.at # "down" => agent'.at # "down"
      /\ agent'.at = "down" => agent.at = "down"
  BY DEF TypeOK, Script, Check, Pull, WriteTag, ComposeUp, Recreate, Settle, RbWrite
<1>5. updater'.at \in {"write"} \cup Forward \cup Back => updater'.previous \in Tag
  <2>1. CASE Check
    <3>1. CASE At("unchanged")
      BY <3>1, Moved
    <3>2. CASE updater' = [updater EXCEPT !.at = "pull", !.previous = env]
      BY <3>2 DEF TypeOK
    <3> QED
      BY <2>1, <3>1, <3>2 DEF Check
  <2>2. CASE Pull
    BY <2>2, Moved DEF Pull, TypeOK, OnTheWay
  <2>3. CASE WriteTag \/ ComposeUp \/ Recreate \/ Settle \/ RbWrite
    <3>1. updater.at \in {"write"} \cup Forward \cup Back /\ updater'.previous = updater.previous
      BY <2>3, Moved DEF WriteTag, ComposeUp, Recreate, Settle, RbWrite, Settling, UpFails
    <3> QED
      BY <3>1 DEF TypeOK
  <2> QED
    BY <2>1, <2>2, <2>3 DEF Script
<1>6. ~Alive' => asking' = {} /\ delegating' = None /\ ~following'
  BY <1>2, <1>4 DEF TypeOK
<1> QED
  <2>1. following' \in BOOLEAN /\ waiting' \in BOOLEAN /\ upset' \in BOOLEAN
    BY <1>1 DEF Flags
  <2>2. asking' \subseteq Tag /\ delegating' \in Tag \cup {None} /\ orphaned' \in 0..MaxOrphans
    BY <1>2 DEF TypeOK
  <2> QED
    BY <1>2, <1>3, <1>4, <1>5, <1>6, <2>1, <2>2 DEF TypeOK

(* The agent's process, its handlers and what happens to its container     *)
(* leave .env to the script.                                               *)
Around ==
  \/ RunUpdater \/ FollowerCloses \/ AgentStops \/ AgentDies \/ HostUp \/ UpdaterKilled
  \/ \E version \in Tag :
       UpdateAgent(version) \/ ResolveFails(version) \/ RemoveUpdater(version)

LEMMA AroundTypes ==
  ASSUME TypeOK, Around
  PROVE  TypeOK' /\ UNCHANGED env
<1> USE UpdateAssumption DEF Places, Active, Forward, Back, Ended, Alive
<1>1. Flags'
  BY FlagsPreserved DEF TypeOK, Flags, Next, Handler, Around
<1>2. following' \in BOOLEAN /\ waiting' \in BOOLEAN /\ upset' \in BOOLEAN
  BY <1>1 DEF Flags
<1>3. CASE AgentStops \/ AgentDies
  <2>1. agent' \in [tag : Tag, at : {"running", "stopping", "down"}] /\ UNCHANGED <<env, updater>>
        /\ asking' = {} /\ delegating' = None /\ ~following' /\ orphaned' = 0
    BY <1>3 DEF AgentStops, AgentDies, ProcessGone, TypeOK
  <2> QED
    BY <1>2, <2>1 DEF TypeOK
<1>4. CASE HostUp
  <2>1. agent' = [tag |-> env, at |-> "running"]
        /\ UNCHANGED <<env, updater, asking, delegating, orphaned>>
    BY <1>4 DEF HostUp, process
  <2> QED
    BY <1>2, <2>1 DEF TypeOK
<1>5. CASE UpdaterKilled
  <2>1. updater' = NoUpdater /\ UNCHANGED <<env, agent, asking, delegating, orphaned, following>>
    BY <1>5 DEF UpdaterKilled, process
  <2> QED
    BY <1>2, <2>1 DEF TypeOK, NoUpdater
<1>6. CASE FollowerCloses
  <2>1. UNCHANGED <<env, agent, updater, asking, delegating>> /\ orphaned' \in 0..MaxOrphans /\ Alive
    BY <1>6 DEF FollowerCloses, TypeOK
  <2> QED
    BY <1>2, <2>1 DEF TypeOK
<1>7. CASE RunUpdater
  <2>1. /\ UNCHANGED <<env, agent, asking, orphaned>> /\ delegating' = None /\ Alive
        /\ delegating \in Tag
        /\ \/ updater' = [at |-> "check", target |-> delegating, previous |-> None]
           \/ UNCHANGED updater
    BY <1>7 DEF RunUpdater, TypeOK
  <2> QED
    BY <1>2, <2>1 DEF TypeOK
<1>8. ASSUME NEW version \in Tag,
             UpdateAgent(version) \/ ResolveFails(version) \/ RemoveUpdater(version)
      PROVE  TypeOK' /\ UNCHANGED env
  <2>1. /\ UNCHANGED <<env, agent>> /\ Alive /\ asking' \subseteq Tag
        /\ delegating' \in Tag \cup {None} /\ orphaned' \in 0..MaxOrphans
        /\ updater' = NoUpdater \/ UNCHANGED updater
    BY <1>8 DEF UpdateAgent, ResolveFails, RemoveUpdater, TypeOK
  <2> QED
    BY <1>2, <2>1 DEF TypeOK, NoUpdater
<1> QED
  BY <1>3, <1>4, <1>5, <1>6, <1>7, <1>8 DEF Around

-----------------------------------------------------------------------------
(* The script                                                              *)

(* Up to its first write the script disturbs nothing.                      *)
LEMMA BeforePreserves ==
  ASSUME IInv, Check \/ Pull \/ WriteTag
  PROVE  NoDrift' /\ OnTheWay' /\ WayBack' /\ NoneBefore'
<1> USE DEF Places, Active, Forward, Back, Ended, IInv, NoDrift, OnTheWay, WayBack,
            NoneBefore, process
<1>1. CASE Check
  <2>1. CASE At("unchanged")
    BY <1>1, <2>1, Moved DEF Check
  <2>2. CASE updater' = [updater EXCEPT !.at = "pull", !.previous = env]
    <3>1. updater'.at = "pull" /\ updater'.previous = env /\ updater'.target = updater.target
      BY <2>2 DEF TypeOK
    <3> QED
      BY <1>1, <3>1 DEF Check
  <2> QED
    BY <1>1, <2>1, <2>2 DEF Check
<1>2. CASE Pull
  BY <1>2, Moved DEF Pull
<1>3. CASE WriteTag
  BY <1>3, Moved DEF WriteTag
<1> QED
  BY <1>1, <1>2, <1>3

(* A script that loses its way says so.                                    *)
LEMMA LostIsUpset ==
  ASSUME Upset, updater'.at = "lost" \/ upset
  PROVE  upset'
BY Zenon DEF Upset

(* compose moves the container to what .env says, or the script turns      *)
(* back, or ends on the way back.                                          *)
LEMMA ComposePreserves ==
  ASSUME IInv, ComposeUp \/ Recreate
  PROVE  NoDrift' /\ OnTheWay' /\ WayBack' /\ NoneBefore'
<1> USE DEF Places, Active, Forward, Back, Ended, IInv
<1>1. /\ UNCHANGED <<env, delegating>> /\ Upset
      /\ updater.at \in {"up", "rb_up", "recreate", "rb_recreate"}
  BY DEF ComposeUp, Recreate, process
<1>2. updater'.at = "lost" \/ upset => upset'
  BY <1>1, LostIsUpset
<1>3. updater'.target = updater.target /\ updater'.previous = updater.previous
  BY Moved DEF ComposeUp, Recreate, Settling, UpFails
<1>4. \/ updater.at \in Forward /\ updater'.at \in {"recreate", "settle", "rb_write"}
      \/ updater.at \in Back /\ updater'.at \in {"rb_recreate", "rb_settle", "lost"}
  BY <1>1, Moved DEF ComposeUp, Recreate, Settling, UpFails
<1>5. updater'.at \in {"settle", "rb_settle"} => agent'.tag = env
  BY <1>1, Moved DEF ComposeUp, Recreate, Settling, UpFails, TypeOK
<1>6. NoDrift'
  BY <1>2, <1>4 DEF NoDrift
<1>7. OnTheWay'
  BY <1>1, <1>3, <1>4, <1>5 DEF OnTheWay
<1>8. WayBack'
  BY <1>1, <1>2, <1>3, <1>4 DEF WayBack, OnTheWay
<1>9. NoneBefore'
  BY <1>1 DEF NoneBefore
<1> QED
  BY <1>6, <1>7, <1>8, <1>9

(* The look at the container decides; .env is restored before the way back.*)
LEMMA DecisionPreserves ==
  ASSUME IInv, Settle \/ RbWrite
  PROVE  NoDrift' /\ OnTheWay' /\ WayBack' /\ NoneBefore'
<1> USE DEF Places, Active, Forward, Back, Ended, IInv
<1>1. UNCHANGED <<agent, delegating>> /\ updater.at \in Active
  BY DEF Settle, RbWrite, process
<1>2. updater'.target = updater.target /\ updater'.previous = updater.previous
  BY Moved DEF Settle, RbWrite, UpFails
<1>3. CASE Settle
  <2>1. UNCHANGED env /\ updater.at \in {"settle", "rb_settle"} /\ agent.tag = env
    BY <1>3 DEF Settle, OnTheWay
  <2>2. \/ updater'.at \in {"updated", "rolledback"}
        \/ updater.at = "settle" /\ updater'.at = "rb_write"
        \/ updater.at = "rb_settle" /\ updater'.at = "lost" /\ Upset
    BY <1>3, Moved DEF Settle, UpFails
  <2>3. updater'.at = "lost" => upset'
    BY <2>2, LostIsUpset
  <2> QED
    BY <1>1, <1>2, <2>1, <2>2, <2>3 DEF NoDrift, OnTheWay, WayBack, NoneBefore
<1>4. CASE RbWrite
  <2>1. updater.at = "rb_write" /\ updater'.at = "rb_up"
    BY <1>4, Moved DEF RbWrite
  <2>2. \/ env' = updater.previous
        \/ UNCHANGED env /\ upset'
    BY <1>4, Zenon DEF RbWrite
  <2> QED
    BY <1>1, <1>2, <2>1, <2>2 DEF NoDrift, OnTheWay, WayBack, NoneBefore
<1> QED
  BY <1>3, <1>4

-----------------------------------------------------------------------------
(* What happens around the script                                          *)

(* An updater that is taken away on its way is recorded.                   *)
LEMMA BrokenOff ==
  ASSUME updater' = NoUpdater, upset' = (upset \/ updater.at \in Forward \cup Back)
  PROVE  /\ updater'.at = "none"
         /\ upset \/ updater.at \in Forward \cup Back => upset'
BY Zenon DEF NoUpdater

(* Nothing but the script moves .env, and nobody takes an updater away     *)
(* unnoticed.                                                              *)
LEMMA AroundPreserves ==
  ASSUME IInv, Around
  PROVE  NoDrift' /\ OnTheWay' /\ WayBack' /\ NoneBefore'
<1> USE DEF Places, Active, Forward, Back, Ended, IInv
<1>1. TypeOK' /\ UNCHANGED env
  BY AroundTypes
<1> USE DEF NoDrift, OnTheWay, WayBack, NoneBefore
<1>2. CASE AgentStops \/ AgentDies
  <2>1. /\ agent'.tag = agent.tag /\ UNCHANGED <<updater, upset>> /\ delegating' = None
    BY <1>2 DEF AgentStops, AgentDies, ProcessGone, TypeOK
  <2> QED
    BY <1>1, <2>1
<1>3. CASE HostUp
  <2>1. /\ agent'.tag = env /\ UNCHANGED <<updater, delegating>> /\ updater.at \notin Active
    BY <1>3 DEF HostUp, process
  <2> QED
    BY <1>1, <2>1
<1>4. CASE UpdaterKilled
  <2>1. UNCHANGED <<agent, delegating>> /\ updater.at \in Active /\ updater'.at = "none"
        /\ (upset \/ updater.at \in Forward \cup Back => upset')
    BY <1>4, BrokenOff DEF UpdaterKilled, process
  <2> QED
    BY <1>1, <2>1
<1>5. CASE FollowerCloses
  BY <1>1, <1>5 DEF FollowerCloses
<1>6. CASE RunUpdater
  <2>1. UNCHANGED <<agent, upset>> /\ delegating' = None /\ updater.at = "none" /\ delegating \in Tag
    BY <1>6 DEF RunUpdater, TypeOK
  <2>2. \/ UNCHANGED updater
        \/ updater'.at = "check" /\ updater'.target = delegating
    BY <1>6 DEF RunUpdater
  <2> QED
    BY <1>1, <2>1, <2>2
<1>7. ASSUME NEW version \in Tag, UpdateAgent(version) \/ ResolveFails(version)
      PROVE  NoDrift' /\ OnTheWay' /\ WayBack' /\ NoneBefore'
  BY <1>1, <1>7 DEF UpdateAgent, ResolveFails
<1>8. ASSUME NEW version \in Tag, RemoveUpdater(version)
      PROVE  NoDrift' /\ OnTheWay' /\ WayBack' /\ NoneBefore'
  <2>1. UNCHANGED agent /\ updater'.at = "none"
        /\ (upset \/ updater.at \in Forward \cup Back => upset')
    BY <1>8, BrokenOff DEF RemoveUpdater
  <2> QED
    BY <1>1, <2>1
<1> QED
  BY <1>2, <1>3, <1>4, <1>5, <1>6, <1>7, <1>8 DEF Around

-----------------------------------------------------------------------------
(* The invariant and what follows from it                                  *)

LEMMA NextIs ==
  Next <=> Script \/ Around
BY DEF Next, Handler, Around

LEMMA InitInvariant ==
  ASSUME Init
  PROVE  IInv
<1>1. Flags
  BY Zenon DEF Init, Flags
<1> QED
  BY <1>1, UpdateAssumption
     DEF Init, IInv, TypeOK, NoDrift, OnTheWay, WayBack, NoneBefore, Flags, NoUpdater, Alive,
         Active, Ended, Forward, Back

LEMMA StepPreserves ==
  ASSUME IInv, [Next]_vars
  PROVE  IInv'
<1>1. CASE Script
  <2>1. TypeOK'
    BY <1>1, ScriptTypes DEF IInv
  <2> QED
    BY <1>1, <2>1, BeforePreserves, ComposePreserves, DecisionPreserves DEF IInv, Script
<1>2. CASE Around
  BY <1>2, AroundTypes, AroundPreserves DEF IInv
<1>3. CASE UNCHANGED vars
  BY <1>3 DEF vars, process, IInv, TypeOK, NoDrift, OnTheWay, WayBack, NoneBefore, Alive
<1> QED
  BY <1>1, <1>2, <1>3, NextIs

(* The inductive invariant of the update holds wherever the script, the    *)
(* agent or the updater is interrupted.                                    *)
THEOREM Invariance == Spec => []IInv
BY InitInvariant, StepPreserves, PTL DEF Spec

(* Every variable keeps its type, and a script that writes knows the way   *)
(* back.                                                                   *)
THEOREM TypeCorrect == Spec => []TypeOK
<1>1. IInv => TypeOK
  BY DEF IInv
<1> QED
  BY <1>1, Invariance, PTL

(* Outside an update .env names the version the agent's container has.     *)
THEOREM EnvIsTrue == Spec => []NoDrift
<1>1. IInv => NoDrift
  BY DEF IInv
<1> QED
  BY <1>1, Invariance, PTL

(* "updated to" and "rolled back to" say what .env and the container are.  *)
THEOREM LastWordIsTrue == Spec => SaysWhatIs
<1> DEFINE Says ==
      /\ updater.at = "settle" /\ updater'.at = "updated" =>
           env' = updater.target /\ agent'.tag = updater.target /\ agent'.at # "down"
      /\ updater.at = "rb_settle" /\ updater'.at = "rolledback" /\ ~upset =>
           env' = updater.previous /\ agent'.tag = updater.previous /\ agent'.at # "down"
<1>1. ASSUME IInv, Next,
             \/ updater.at = "settle" /\ updater'.at = "updated"
             \/ updater.at = "rb_settle" /\ updater'.at = "rolledback"
      PROVE  Settle /\ AgentRunning /\ agent.tag = env
  <2>1. agent.tag = env
    BY <1>1 DEF IInv, OnTheWay
  <2>2. ~Around
    BY <1>1 DEF Around, RunUpdater, FollowerCloses, AgentStops, AgentDies, HostUp,
                UpdaterKilled, UpdateAgent, ResolveFails, RemoveUpdater, NoUpdater
  <2>3. Settle
    BY <1>1, <2>2, NextIs DEF Script, Check, Pull, WriteTag, ComposeUp, Recreate, RbWrite
  <2>4. AgentRunning
    BY <1>1, <2>3, Moved DEF Settle, UpFails, IInv, Places, Active, Forward, Back, Ended
  <2> QED
    BY <2>1, <2>3, <2>4
<1>2. IInv /\ [Next]_vars => [Says]_vars
  BY <1>1 DEF IInv, OnTheWay, WayBack, Settle, AgentRunning, Alive, Forward, Back, vars
<1> QED
  BY <1>2, Invariance, PTL DEF Spec, SaysWhatIs

-----------------------------------------------------------------------------
(* The update implements VersionSwitch                                     *)

Leads(way) == [target |-> updater.target, fallback |-> updater.previous, way |-> way]

(* The mapped plan follows the place of the script.                        *)
Mapped ==
  /\ updater.at \in Forward => Plan = Leads("forward")
  /\ updater.at \in Back => Plan = Leads("back")
  /\ updater.at \notin Forward \cup Back => Plan = NoPlan

LEMMA PlanIs ==
  /\ Mapped /\ Mapped'
  /\ Leads("forward") # NoPlan /\ Leads("back") # NoPlan
  /\ Leads("forward").way = "forward" /\ Leads("back").way = "back"
  /\ [Leads("forward") EXCEPT !.way = "back"] = Leads("back")
  /\ \A way \in {"forward", "back"} :
       Leads(way).target = updater.target /\ Leads(way).fallback = updater.previous
BY DEF Mapped, Plan, NoPlan, Leads, Forward, Back

Stutters == UNCHANGED <<agent.tag, Plan, upset>>

(* A script that ends without having written, or goes on, stutters; its    *)
(* first write begins.                                                     *)
LEMMA BeginImplements ==
  ASSUME IInv, Check \/ Pull \/ WriteTag
  PROVE  \/ \E target, fallback \in Tag : Abstract!Begin(target, fallback)
         \/ Stutters
<1> USE DEF Places, Active, Forward, Back, Ended, IInv
<1>1. UNCHANGED <<agent, upset>> /\ Plan = NoPlan
  BY PlanIs DEF Check, Pull, WriteTag, Mapped
<1>2. CASE updater'.at \in {"up"}
  <2>1. /\ updater.at = "write"
        /\ updater'.target = updater.target /\ updater'.previous = updater.previous
        /\ updater.previous = env
    <3>1. ~Check
      BY <1>2 DEF Check, At, TypeOK
    <3> QED
      BY <1>2, <3>1, Moved DEF Pull, WriteTag, OnTheWay
  <2>2. Plan' = [target |-> updater.target, fallback |-> updater.previous, way |-> "forward"]
    BY <1>2, <2>1, PlanIs DEF Mapped, Leads
  <2>3. updater.target \in Tag /\ updater.previous \in Tag
    BY <2>1 DEF OnTheWay, TypeOK
  <2>4. updater.previous = agent.tag \/ upset
    BY <2>1 DEF NoDrift
  <2> QED
    BY <1>1, <2>2, <2>3, <2>4 DEF Abstract!Begin
<1>3. CASE updater'.at \notin {"up"}
  <2>1. updater'.at \in {"unchanged", "pull", "write"}
    BY <1>3 DEF Check, Pull, WriteTag, TypeOK, At
  <2>2. Plan' = NoPlan
    BY <2>1, PlanIs DEF Mapped
  <2> QED
    BY <1>1, <2>2 DEF Stutters
<1> QED
  BY <1>2, <1>3

(* compose moves the agent, or is given up, or breaks off on the way back. *)
LEMMA MoveImplements ==
  ASSUME IInv, ComposeUp \/ Recreate
  PROVE  Abstract!Move \/ Abstract!GiveUp \/ Abstract!Break \/ Stutters
<1> USE DEF Places, Active, Forward, Back, Ended, IInv
<1>1. /\ updater.at \in {"up", "rb_up", "recreate", "rb_recreate"} /\ Upset
      /\ agent'.tag \in {agent.tag, env}
  BY DEF ComposeUp, Recreate, TypeOK
<1>2. updater'.target = updater.target /\ updater'.previous = updater.previous
  BY Moved DEF ComposeUp, Recreate, Settling, UpFails
<1>3. updater'.at # "lost" => upset' = upset
  BY <1>1, Zenon DEF Upset, TypeOK
<1>4. CASE updater.at \in Forward
  <2>1. updater'.at \in {"recreate", "settle", "rb_write"} /\ upset' = upset
    BY <1>3, <1>4, Moved DEF ComposeUp, Recreate, Settling, UpFails
  <2>2. /\ Plan = Leads("forward") /\ env = updater.target
        /\ Plan' = IF updater'.at = "rb_write" THEN Leads("back") ELSE Leads("forward")
    BY <1>2, <1>4, <2>1, PlanIs DEF OnTheWay, Mapped, Leads
  <2> QED
    BY <1>1, <2>1, <2>2, PlanIs DEF Abstract!Move, Abstract!GiveUp, Stutters
<1>5. CASE updater.at \in Back
  <2>1. updater'.at \in {"rb_recreate", "rb_settle", "lost"}
    BY <1>1, <1>5, Moved DEF ComposeUp, Recreate, Settling, UpFails
  <2>2. /\ Plan = Leads("back") /\ (env = updater.previous \/ (upset /\ env = updater.target))
        /\ Plan' = IF updater'.at = "lost" THEN NoPlan ELSE Leads("back")
    BY <1>1, <1>2, <1>5, <2>1, PlanIs DEF WayBack, Mapped, Leads
  <2>3. CASE updater'.at = "lost"
    <3>1. upset' = TRUE
      BY <1>1, <2>3, Zenon DEF Upset
    <3> QED
      BY <1>1, <2>2, <2>3, <3>1, PlanIs DEF Abstract!Break
  <2>4. CASE updater'.at # "lost"
    BY <1>1, <1>3, <2>2, <2>4, PlanIs DEF Abstract!Move, Stutters
  <2> QED
    BY <2>3, <2>4
<1> QED
  BY <1>1, <1>4, <1>5

(* The look at the container ends the update, gives up or breaks off.      *)
LEMMA SettleImplements ==
  ASSUME IInv, Settle
  PROVE  Abstract!End \/ Abstract!GiveUp \/ Abstract!Break
<1> USE DEF Places, Active, Forward, Back, Ended, IInv
<1>1. /\ updater.at \in {"settle", "rb_settle"} /\ agent.tag = env /\ UNCHANGED agent
      /\ updater'.target = updater.target /\ updater'.previous = updater.previous
  BY Moved DEF Settle, UpFails, OnTheWay
<1>2. CASE updater'.at \in {"updated", "rolledback"}
  <2>1. upset' = FALSE
    BY <1>1, <1>2, Moved DEF Settle, UpFails
  <2>2. Plan' = NoPlan
    BY <1>2, PlanIs DEF Mapped
  <2> QED
    BY <1>1, <1>2, <2>1, <2>2, PlanIs DEF Abstract!End, Settle, UpFails, Mapped, OnTheWay, WayBack
<1>3. CASE updater'.at \notin {"updated", "rolledback"} /\ updater.at = "settle"
  <2>1. updater'.at = "rb_write" /\ Upset
    BY <1>3, Moved DEF Settle, UpFails
  <2>2. upset' = upset
    BY <2>1, Zenon DEF Upset, TypeOK
  <2>3. Plan = Leads("forward") /\ Plan' = Leads("back")
    BY <1>1, <1>3, <2>1, PlanIs DEF Mapped, Leads
  <2> QED
    BY <1>1, <2>2, <2>3, PlanIs DEF Abstract!GiveUp
<1>4. CASE updater'.at \notin {"updated", "rolledback"} /\ updater.at = "rb_settle"
  <2>1. updater'.at = "lost" /\ Upset
    BY <1>4, Moved DEF Settle, UpFails
  <2>2. upset' = TRUE
    BY <2>1, Zenon DEF Upset
  <2>3. Plan = Leads("back") /\ Plan' = NoPlan
    BY <1>4, <2>1, PlanIs DEF Mapped
  <2> QED
    BY <1>1, <2>2, <2>3, PlanIs DEF Abstract!Break
<1> QED
  BY <1>1, <1>2, <1>3, <1>4

(* A tag that cannot be restored is a slip on the way back.                *)
LEMMA RestoreImplements ==
  ASSUME IInv, RbWrite
  PROVE  Abstract!Slip \/ Stutters
<1> USE DEF Places, Active, Forward, Back, Ended, IInv
<1>1. /\ updater.at = "rb_write" /\ updater'.at = "rb_up" /\ UNCHANGED agent
      /\ updater'.target = updater.target /\ updater'.previous = updater.previous
      /\ upset' = upset \/ upset' = TRUE
  BY Moved DEF RbWrite
<1>2. Plan = Leads("back") /\ Plan' = Plan
  BY <1>1, PlanIs DEF Mapped, Leads
<1> QED
  BY <1>1, <1>2, PlanIs DEF Abstract!Slip, Stutters

(* An updater that is taken away breaks the update off.                    *)
LEMMA BreakImplements ==
  ASSUME IInv, updater' = NoUpdater, UNCHANGED agent,
         upset' = (upset \/ updater.at \in Forward \cup Back)
  PROVE  Abstract!Break \/ Stutters
<1>1. updater'.at = "none"
  BY DEF NoUpdater
<1>2. Plan' = NoPlan
  BY <1>1, PlanIs DEF Mapped, Forward, Back
<1>3. CASE updater.at \in Forward \cup Back
  <2>1. upset' = TRUE
    BY <1>3, Zenon
  <2> QED
    BY <1>2, <1>3, <2>1, PlanIs DEF Abstract!Break, Mapped
<1>4. CASE updater.at \notin Forward \cup Back
  <2>1. upset \in BOOLEAN
    BY DEF IInv, TypeOK
  <2>2. upset' = upset
    BY <1>4, <2>1, Zenon
  <2> QED
    BY <1>2, <1>4, <2>2, PlanIs DEF Stutters, Mapped
<1> QED
  BY <1>3, <1>4

(* What happens around the script breaks it off, repairs or stutters.      *)
LEMMA AroundImplements ==
  ASSUME IInv, Around
  PROVE  Abstract!Break \/ Abstract!Repair \/ Stutters
<1> USE DEF Places, Active, Forward, Back, Ended, IInv
<1>1. CASE UpdaterKilled
  BY <1>1, BreakImplements DEF UpdaterKilled
<1>2. ASSUME NEW version \in Tag, RemoveUpdater(version)
      PROVE  Abstract!Break \/ Stutters
  BY <1>2, BreakImplements DEF RemoveUpdater
<1>3. CASE HostUp
  <2>1. /\ UNCHANGED updater /\ updater.at \notin Forward \cup Back
        /\ agent'.tag = env /\ env \in Tag /\ upset' = FALSE /\ upset \in BOOLEAN
    BY <1>3 DEF HostUp, TypeOK
  <2>2. Plan = NoPlan /\ Plan' = NoPlan
    BY <2>1, PlanIs DEF Mapped
  <2>3. CASE upset
    BY <2>1, <2>2, <2>3 DEF Abstract!Repair
  <2>4. CASE ~upset
    BY <2>1, <2>2, <2>4 DEF Stutters, NoDrift
  <2> QED
    BY <2>3, <2>4
<1>4. CASE RunUpdater
  <2>1. UNCHANGED <<agent, upset>> /\ updater.at = "none"
        /\ (UNCHANGED updater \/ updater'.at = "check")
    BY <1>4 DEF RunUpdater, NoneBefore
  <2>2. Plan = NoPlan /\ Plan' = NoPlan
    BY <2>1, PlanIs DEF Mapped
  <2> QED
    BY <2>1, <2>2 DEF Stutters
<1>5. ASSUME \/ FollowerCloses \/ AgentStops \/ AgentDies
             \/ \E version \in Tag : UpdateAgent(version) \/ ResolveFails(version)
      PROVE  Stutters
  BY <1>5 DEF FollowerCloses, AgentStops, AgentDies, UpdateAgent, ResolveFails,
              Stutters, Plan, TypeOK
<1> QED
  BY <1>1, <1>2, <1>3, <1>4, <1>5 DEF Around

(* Every step of the script, the process and the host is a step of         *)
(* VersionSwitch or none.                                                  *)
LEMMA StepImplements ==
  ASSUME IInv, [Next]_vars
  PROVE  [Abstract!SNext]_(Abstract!svars)
<1>1. Stutters => UNCHANGED Abstract!svars
  BY DEF Stutters, Abstract!svars
<1>2. CASE Script
  BY <1>1, <1>2, BeginImplements, MoveImplements, SettleImplements, RestoreImplements
     DEF Script, Abstract!SNext
<1>3. CASE Around
  BY <1>1, <1>3, AroundImplements DEF Abstract!SNext
<1>4. CASE UNCHANGED vars
  BY <1>4 DEF vars, Plan, Abstract!svars
<1> QED
  BY <1>2, <1>3, <1>4, NextIs

(* The script and the process that starts it implement VersionSwitch,      *)
(* wherever they are interrupted.                                          *)
THEOREM Implements == Spec => SwitchesVersion
<1>1. Init => Abstract!SInit
  BY PlanIs DEF Init, Mapped, NoUpdater, Forward, Back, Abstract!SInit
<1>2. IInv /\ [Next]_vars => [Abstract!SNext]_(Abstract!svars)
  BY StepImplements
<1> QED
  BY <1>1, <1>2, Invariance, PTL DEF Spec, SwitchesVersion, Abstract!SSpec
=============================================================================
