----------------------------- MODULE SelfUpdate -----------------------------
(***************************************************************************)
(* The agent replaces itself: AppService.updateAgent() starts a container  *)
(* that runs entrypoints/update.sh and outlives the agent; the agent       *)
(* follows its log for as long as it lives and tells the Hub when the log  *)
(* ends.  A second update removes the updater of the first.                *)
(*                                                                         *)
(* A version is its tag; compose recreates the agent's container exactly   *)
(* when the tag in .env is not the one it was made from.                   *)
(***************************************************************************)
EXTENDS Naturals

CONSTANTS
  Tag,          \* versions the Hub may ask for (they match TAG_PATTERN)
  None,
  MaxOrphans    \* bound: followers whose updater was removed under them

ASSUME UpdateAssumption == None \notin Tag /\ MaxOrphans \in Nat

VARIABLES
  env,         \* AGENT_IMAGE_TAG in .env
  agent,       \* the agent's container: its tag, and whether it runs
  asking,      \* versions whose handler awaits resolveComposeProject()
  delegating,  \* the version between docker rm -f and docker run
  updater,     \* the updater container: where its script is, and its variables
  following,   \* docker logs -f of that container runs
  orphaned,    \* followers of updaters that were removed
  waiting,     \* the Hub waits for this agent to report or to be replaced
  upset        \* history: an update was broken off, or could not restore .env

process == <<asking, delegating, following, orphaned, waiting>>
vars == <<env, agent, updater, process, upset>>

Alive == agent.at \in {"running", "stopping"}

Forward == {"up", "recreate", "settle"}
Back    == {"rb_write", "rb_up", "rb_recreate", "rb_settle"}
Ended   == {"unchanged", "updated", "rolledback", "lost"}
Active  == {"check", "pull", "write"} \cup Forward \cup Back

NoUpdater == [at |-> "none", target |-> None, previous |-> None]

Init ==
  /\ env \in Tag /\ agent = [tag |-> env, at |-> "running"]
  /\ updater = NoUpdater
  /\ asking = {} /\ delegating = None
  /\ following = FALSE /\ orphaned = 0 /\ waiting = FALSE
  /\ upset = FALSE

-----------------------------------------------------------------------------
(* The script *)

At(place) == updater' = [updater EXCEPT !.at = place]

\* Mutants: the way back leads to the target; or is never looked up.
BackToTarget ==
  /\ updater.at = "check"
  /\ updater' = [updater EXCEPT !.at = "pull", !.previous = updater.target]
  /\ UNCHANGED <<env, agent, process, upset>>

NoWayBack ==
  /\ updater.at = "check"
  /\ At("pull")
  /\ UNCHANGED <<env, agent, process, upset>>

\* Is there a project?  Then PREVIOUS_TAG is read.
Check ==
  /\ updater.at = "check"
  /\ \/ At("unchanged")
     \/ updater' = [updater EXCEPT !.at = "pull", !.previous = env]
  /\ UNCHANGED <<env, agent, process, upset>>

\* Mutant: the tag is written before the pull that may fail.
PullWritten ==
  /\ updater.at = "pull"
  /\ At("unchanged") \/ At("write")
  /\ env' = updater.target
  /\ UNCHANGED <<agent, process, upset>>

Pull ==
  /\ updater.at = "pull"
  /\ At("unchanged") \/ At("write")
  /\ UNCHANGED <<env, agent, process, upset>>

\* set -e: the script ends if the tag cannot be written.
WriteTag ==
  /\ updater.at = "write"
  /\ \/ env' = updater.target /\ At("up")
     \/ UNCHANGED env /\ At("unchanged")
  /\ UNCHANGED <<agent, process, upset>>

\* rollback() after a failure on the way; a failure in it ends the script.
UpFails == At(IF updater.at \in Forward THEN "rb_write" ELSE "lost")
Settling == At(IF updater.at \in Forward THEN "settle" ELSE "rb_settle")
Upset == upset' = (upset \/ updater'.at = "lost")

\* docker compose up -d: nothing to do but to start it; or the container has
\* another tag and is told to stop; or it fails at once.
ComposeUp ==
  /\ updater.at \in {"up", "rb_up"}
  /\ \/ /\ agent.tag = env /\ Settling
        /\ agent' = [agent EXCEPT !.at = IF @ = "down" THEN "running" ELSE @]
     \/ /\ agent.tag # env /\ At(IF updater.at = "up" THEN "recreate" ELSE "rb_recreate")
        /\ agent' = [agent EXCEPT !.at = IF @ = "running" THEN "stopping" ELSE @]
     \/ UpFails /\ UNCHANGED agent
  /\ Upset
  /\ UNCHANGED <<env, process>>

\* The old container is gone: the new one is made and started, or not.
Recreate ==
  /\ updater.at \in {"recreate", "rb_recreate"} /\ agent.at = "down"
  /\ \/ agent' = [tag |-> env, at |-> "running"] /\ Settling
     \/ agent' = [tag |-> env, at |-> "down"] /\ UpFails
     \/ UNCHANGED agent /\ UpFails
  /\ Upset
  /\ UNCHANGED <<env, process>>

\* Mutant: whatever is there after the wait is good.
TakenForRunning == TRUE

AgentRunning == Alive

\* settle_and_check(): one look after HEALTH_WAIT seconds, which finds no agent
\* too where docker compose ps or docker inspect fails.
Settle ==
  /\ updater.at \in {"settle", "rb_settle"}
  /\ \/ /\ AgentRunning
        /\ At(IF updater.at = "settle" THEN "updated" ELSE "rolledback")
        /\ upset' = FALSE
     \/ UpFails /\ Upset
  /\ UNCHANGED <<env, agent, process>>

\* If .env cannot be restored compose is tried all the same.
RbWrite ==
  /\ updater.at = "rb_write" /\ At("rb_up")
  /\ \/ env' = updater.previous /\ UNCHANGED upset
     \/ UNCHANGED env /\ upset' = TRUE
  /\ UNCHANGED <<agent, process>>

\* The host, or a person, removes the updater.
UpdaterKilled ==
  /\ updater.at \in Active
  /\ updater' = NoUpdater
  /\ upset' = (upset \/ updater.at \in Forward \cup Back)
  /\ UNCHANGED <<env, agent, process>>

-----------------------------------------------------------------------------
(* The agent's process *)

\* What dies with the process; its socket tells the Hub.
ProcessGone ==
  /\ asking' = {} /\ delegating' = None
  /\ following' = FALSE /\ orphaned' = 0 /\ waiting' = FALSE

\* The grace of a container that was told to stop is over.
AgentStops ==
  /\ agent.at = "stopping"
  /\ agent' = [agent EXCEPT !.at = "down"]
  /\ ProcessGone
  /\ UNCHANGED <<env, updater, upset>>

AgentDies ==
  /\ agent.at = "running"
  /\ agent' = [agent EXCEPT !.at = "down"]
  /\ ProcessGone
  /\ UNCHANGED <<env, updater, upset>>

\* docker compose up -d on the host (compose sets no restart policy).
HostUp ==
  /\ agent.at = "down" /\ updater.at \notin Active
  /\ agent' = [tag |-> env, at |-> "running"]
  /\ upset' = FALSE
  /\ UNCHANGED <<env, updater, process>>

\* update-agent, up to the await of resolveComposeProject().
UpdateAgent(version) ==
  /\ Alive /\ delegating = None
  /\ asking' = asking \cup {version} /\ waiting' = TRUE
  /\ UNCHANGED <<env, agent, updater, delegating, following, orphaned, upset>>

\* The labels do not say where the project is: update-failed.
ResolveFails(version) ==
  /\ Alive /\ delegating = None
  /\ version \in asking /\ asking' = asking \ {version}
  /\ waiting' = FALSE
  /\ UNCHANGED <<env, agent, updater, delegating, following, orphaned, upset>>

\* docker rm -f of what is left of the update before, or still at work.
RemoveUpdater(version) ==
  /\ Alive /\ delegating = None
  /\ version \in asking /\ asking' = asking \ {version}
  /\ delegating' = version
  /\ following => orphaned < MaxOrphans
  /\ orphaned' = IF following THEN orphaned + 1 ELSE orphaned
  /\ following' = FALSE
  /\ updater' = NoUpdater
  /\ upset' = (upset \/ updater.at \in Forward \cup Back)
  /\ UNCHANGED <<env, agent, waiting>>

\* docker run, and docker logs -f if it started; else update-failed.
RunUpdater ==
  /\ Alive /\ delegating # None
  /\ delegating' = None
  /\ \/ /\ updater' = [at |-> "check", target |-> delegating, previous |-> None]
        /\ following' = TRUE /\ UNCHANGED waiting
     \/ waiting' = FALSE /\ UNCHANGED <<updater, following>>
  /\ UNCHANGED <<env, agent, asking, orphaned, upset>>

\* Mutant: an updater that ends well is not worth a report.
ReportsErrors == waiting' = (waiting /\ updater.at = "updated")

\* The report that follows the end of the log, whatever its exit code.
Reports == waiting' = FALSE

\* onClose: the log of an updater ends while the process lives.
FollowerCloses ==
  /\ Alive /\ delegating = None
  /\ \/ following /\ updater.at \notin Active /\ following' = FALSE /\ UNCHANGED orphaned
     \/ orphaned > 0 /\ orphaned' = orphaned - 1 /\ UNCHANGED following
  /\ Reports
  /\ UNCHANGED <<env, agent, updater, asking, delegating, upset>>

-----------------------------------------------------------------------------

Script  == Check \/ Pull \/ WriteTag \/ ComposeUp \/ Recreate \/ Settle \/ RbWrite
Handler == RunUpdater \/ \E version \in Tag : ResolveFails(version) \/ RemoveUpdater(version)

Next ==
  \/ Script \/ Handler \/ FollowerCloses \/ AgentStops
  \/ AgentDies \/ HostUp \/ UpdaterKilled
  \/ \E version \in Tag : UpdateAgent(version)

\* The script, the process and the daemon go on; nobody has to restart an
\* agent that is down, and nothing has to break.
Spec ==
  /\ Init /\ [][Next]_vars
  /\ WF_vars(Script) /\ WF_vars(Handler) /\ WF_vars(FollowerCloses) /\ WF_vars(AgentStops)

-----------------------------------------------------------------------------
(* Properties *)

\* The variables have their types, the tag to go back to is known before .env is
\* touched (set -u), and what belongs to the process is gone with it.
TypeOK ==
  /\ env \in Tag
  /\ agent \in [tag : Tag, at : {"running", "stopping", "down"}]
  /\ updater \in [at : {"none"} \cup Active \cup Ended,
                  target : Tag \cup {None}, previous : Tag \cup {None}]
  /\ updater.at \in {"write"} \cup Forward \cup Back => updater.previous \in Tag
  /\ asking \subseteq Tag /\ delegating \in Tag \cup {None}
  /\ following \in BOOLEAN /\ orphaned \in 0..MaxOrphans
  /\ waiting \in BOOLEAN /\ upset \in BOOLEAN
  /\ ~Alive => asking = {} /\ delegating = None /\ ~following

\* The last word of the script is true: after "updated to" the agent runs the
\* target and .env says so; after "rolled back to" the same of the previous
\* version, unless .env could not be restored or an earlier update was broken
\* off.
SaysWhatIs ==
  [][/\ updater.at = "settle" /\ updater'.at = "updated" =>
          env' = updater.target /\ agent'.tag = updater.target /\ agent'.at # "down"
     /\ updater.at = "rb_settle" /\ updater'.at = "rolledback" /\ ~upset =>
          env' = updater.previous /\ agent'.tag = updater.previous /\ agent'.at # "down"]_vars

\* Outside an update .env names the version the agent has, so that an up by
\* hand changes nothing, unless an update was broken off.
NoDrift == ~upset /\ updater.at \notin Forward \cup Back => env = agent.tag

\* What VersionSwitch sees of the script: where it leads, and whether it is on
\* its way there or back.
NoPlan == [way |-> "none"]
Plan ==
  CASE updater.at \in Forward ->
         [target |-> updater.target, fallback |-> updater.previous, way |-> "forward"]
    [] updater.at \in Back ->
         [target |-> updater.target, fallback |-> updater.previous, way |-> "back"]
    [] OTHER -> NoPlan

Abstract == INSTANCE VersionSwitch WITH
  running <- agent.tag, plan <- Plan, drift <- upset

\* The script and the process that starts it implement VersionSwitch: every
\* step moves the agent to the version asked for or back to the one before.
SwitchesVersion == Abstract!SSpec

\* The Hub is not left waiting: the process that took the request reports, or
\* is replaced or gone (the socket tells).
HubLearns == waiting ~> ~waiting
=============================================================================
