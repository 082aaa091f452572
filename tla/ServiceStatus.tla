--------------------------- MODULE ServiceStatus ---------------------------
(***************************************************************************)
(* What the Hub is told about the deployed services.  The commands of the  *)
(* Hub run as concurrent asynchronous handlers (TunnelService), each a      *)
(* sequence of Docker operations with the event loop free in between;      *)
(* ServiceLifecycleService keeps a snapshot of every service and pushes a  *)
(* status after each command and after each Docker event it understands.   *)
(* Docker itself, and the people who use its CLI, are the environment.     *)
(*                                                                         *)
(* A service is one container here.  syncContainerStatus() asks Docker     *)
(* synchronously and emits in the microtask that follows, so it is one     *)
(* step; the docker command it runs may fail, and then it has seen no      *)
(* container.  The socket to the Hub is taken to be up (HubSession models  *)
(* it).                                                                    *)
(***************************************************************************)
EXTENDS Naturals, FiniteSets, Sequences, SequencesExt

CONSTANTS
  Service,         \* the services the Hub knows
  Handler,         \* slots for command handlers that run at the same time
  Commands,        \* the commands the Hub may send to each service
  ComposePreset,   \* services whose preset is not DOCKERFILE
  ComposeBuilt,    \* of those, the ones whose repository has a compose file
  HasHealthcheck,  \* services whose image declares a health check
  TaggedLatest,    \* services whose version is the tag Docker assumes
  Shadows,         \* <<t, s>>: the container of s is named like t with "-..."
  MaxChunk,        \* bound: Docker events that may arrive in one chunk
  MaxEvents,       \* bound: Docker events under way at a time
  MaxPerService,   \* bound: handlers of one service at a time
  MaxRestarts      \* bound: restarts of the agent

AllCommands == {"DEPLOY", "START", "STOP", "CONTAINER_START", "CONTAINER_STOP",
                "CONTAINER_RESTART", "DELETE_CONTAINERS", "DELETE_SERVICE",
                "SYNC_CONTAINER_STATUS"}

ASSUME ServiceAssumption ==
  /\ Commands \in [Service -> SUBSET AllCommands]
  /\ ComposeBuilt \subseteq ComposePreset
  /\ ComposePreset \cup HasHealthcheck \cup TaggedLatest \subseteq Service
  /\ Shadows \subseteq Service \X Service
  /\ MaxChunk \in Nat \ {0} /\ {MaxEvents, MaxPerService, MaxRestarts} \subseteq Nat

VARIABLES
  container,   \* Docker: the state of each service's container
  image,       \* Docker: the services with a built image
  workdir,     \* the services with a build directory
  events,      \* Docker events on their way to the agent
  tracked,     \* trackedServices, a Map: its keys in the order they came in
  snapshot,    \* containerSnapshots, or "none"
  hubStatus,   \* the last service-status the Hub received, or "none"
  handler,     \* the command handlers and where each one waits
  missed,      \* history: something is so, or happened, that no sync has seen
  restarts

vars == <<container, image, workdir, events, tracked, snapshot, hubStatus,
          handler, missed, restarts>>
docker == <<container, image, events>>
told == <<tracked, snapshot, hubStatus, missed>>

Idle == [at |-> "idle"]
Waits == {"marker", "inspect", "stop", "remove", "clone", "build", "create",
          "start", "up", "restart", "down", "forget"}
Statuses == {"building", "starting", "restarting", "running", "stopped",
             "failed", "removed"}

Init ==
  /\ container = [s \in Service |-> "absent"]
  /\ image = {}
  /\ workdir = {}
  /\ events = <<>>
  /\ tracked = <<>>
  /\ snapshot = [s \in Service |-> "none"]
  /\ hubStatus = [s \in Service |-> "none"]
  /\ handler = [h \in Handler |-> Idle]
  /\ missed = {}
  /\ restarts = 0

-----------------------------------------------------------------------------
(* Reading Docker and telling the Hub *)

\* normalizeContainerStatus(): warming is a container whose health check has
\* not passed yet, sick one whose check fails, crashed one with an exit code.
\* A dead container counts as exited or crashed.
Normalized(state, exitCodeKnown) ==
  CASE state \in {"created", "warming", "restarting"} -> "starting"
    [] state = "running"                -> "running"
    [] state = "sick"                   -> "failed"
    [] state \in {"exited", "paused"}   -> "stopped"
    [] state = "crashed"                -> IF exitCodeKnown THEN "failed" ELSE "stopped"
    [] state = "removing"               -> "removed"
    [] state = "absent"                 -> "gone"

\* getContainerSnapshot() while docker answers: a compose service is looked up
\* by project, and without its build directory only docker ps answers, which
\* knows no exit code.
Seen(s) ==
  IF s \in ComposePreset
    THEN IF s \in ComposeBuilt THEN Normalized(container[s], s \in workdir) ELSE "gone"
    ELSE Normalized(container[s], TRUE)

\* Where docker inspect or docker ps exits with an error nothing is found;
\* docker ps answers as well where docker compose ps fails.
MaySee(s) ==
  {Seen(s), "gone"} \cup
  (IF s \in ComposeBuilt THEN {Normalized(container[s], FALSE)} ELSE {})

\* aggregateStatus() of one container.
Aggregate(seen) == IF seen = "removed" THEN "stopped" ELSE seen

\* Mutant: a list instead of a Map.
TrackTwice(s) == tracked' = Append(tracked, s)

Track(s) == tracked' = IF s \in ToSet(tracked) THEN tracked ELSE Append(tracked, s)

Says(s, status) == hubStatus' = [hubStatus EXCEPT ![s] = status]

\* emitSnapshot() with the one container expected: initContainerStates() and
\* emitExpectedContainers().
ExpectBuilding(s) ==
  /\ Track(s)
  /\ snapshot' = [snapshot EXCEPT ![s] = "building"]

Look(s, seen) ==
  /\ Track(s)
  /\ snapshot' = [snapshot EXCEPT ![s] = seen]

\* A service without containers gets an empty snapshot and no status: said is
\* the one sent just before.
Tell(s, seen, said) == Says(s, IF seen = "gone" THEN said ELSE Aggregate(seen))

\* What is missed once s has been looked at; a container overlooked is.
AfterLook(unseen, s, seen) ==
  IF seen = "gone" /\ Seen(s) # "gone" THEN unseen \cup {s} ELSE unseen \ {s}

\* Mutant: an empty answer of Docker is not recorded.
SyncSkipsEmpty(s, said) ==
  \E seen \in MaySee(s) :
    /\ IF seen = "gone" THEN Track(s) /\ UNCHANGED snapshot ELSE Look(s, seen)
    /\ Tell(s, seen, said)
    /\ missed' = AfterLook(missed, s, seen)

\* syncContainerStatus().
Sync(s, said) ==
  \E seen \in MaySee(s) :
    /\ Look(s, seen)
    /\ Tell(s, seen, said)
    /\ missed' = AfterLook(missed, s, seen)

Resume(h, at) == handler' = [handler EXCEPT ![h].at = at, ![h].res = "pending"]
Finish(h) == handler' = [handler EXCEPT ![h] = Idle]

Waiting(h, cmds, at) == handler[h].at = at /\ handler[h].cmd \in cmds
Back(h, cmds, at, results) == Waiting(h, cmds, at) /\ handler[h].res \in results

Deletes == {"DELETE_CONTAINERS", "DELETE_SERVICE"}
ContainerCommands == {"CONTAINER_START", "CONTAINER_STOP", "CONTAINER_RESTART"}
Busy(s) == {h \in Handler : handler[h] # Idle /\ handler[h].svc = s}

-----------------------------------------------------------------------------
(* The commands arrive *)

Begin(h, c, s, at) ==
  /\ handler[h] = Idle
  /\ c \in Commands[s]
  /\ Cardinality(Busy(s)) < MaxPerService
  /\ handler' = [handler EXCEPT ![h] = [at |-> at, cmd |-> c, svc |-> s, res |-> "pending"]]

\* DEPLOY, REDEPLOY and START first write their session marker.
ReceiveMarked(h, c, s) ==
  /\ c \in {"DEPLOY", "START"}
  /\ Begin(h, c, s, "marker")
  /\ UNCHANGED <<docker, workdir, told, restarts>>

\* The others look at the containers first, then call Docker.
FirstCall(c, s) ==
  CASE c = "STOP"              -> "stop"
    [] c = "CONTAINER_START"   -> "start"
    [] c = "CONTAINER_STOP"    -> "stop"
    [] c = "CONTAINER_RESTART" -> "restart"
    [] c \in Deletes           -> IF s \in ComposePreset THEN "down" ELSE "inspect"

ReceiveSynced(h, c, s) ==
  /\ c \in {"STOP"} \cup ContainerCommands \cup Deletes
  /\ Begin(h, c, s, FirstCall(c, s))
  /\ Sync(s, hubStatus[s])
  /\ UNCHANGED <<docker, workdir, restarts>>

ReceiveSyncStatus(s) ==
  /\ "SYNC_CONTAINER_STATUS" \in Commands[s]
  /\ Sync(s, hubStatus[s])
  /\ UNCHANGED <<docker, workdir, handler, restarts>>

\* createServiceSessionMarker() is back.
DeployMarked(h) ==
  LET s == handler[h].svc IN
  /\ Waiting(h, {"DEPLOY"}, "marker")
  /\ ExpectBuilding(s)
  /\ Says(s, "building")
  /\ Resume(h, "inspect")
  /\ UNCHANGED <<docker, workdir, missed, restarts>>

StartMarked(h) ==
  LET s == handler[h].svc IN
  /\ Waiting(h, {"START"}, "marker")
  /\ \E seen \in MaySee(s) : Look(s, seen) /\ missed' = AfterLook(missed, s, seen)
  /\ Says(s, "restarting")
  /\ Resume(h, "restart")
  /\ UNCHANGED <<docker, workdir, restarts>>

\* A rejected query ends the handler: createSocketListener() logs the error.
DatabaseFails(h) ==
  /\ \/ Waiting(h, AllCommands, "marker")
     \/ Waiting(h, AllCommands, "forget")
  /\ Finish(h)
  /\ UNCHANGED <<docker, workdir, told, restarts>>

-----------------------------------------------------------------------------
(* DeployService.deploy() *)

\* removeExistingContainer() is over: every error means that nothing was there.
OldIsGone(h) ==
  \/ Back(h, {"DEPLOY"}, "inspect", {"err"})
  \/ Back(h, {"DEPLOY"}, "stop", {"err"})
  \/ Back(h, {"DEPLOY"}, "remove", {"ok", "err"})

\* removeBuildDir() is synchronous; the clone follows.
DeployClears(h) ==
  /\ OldIsGone(h)
  /\ workdir' = workdir \ {handler[h].svc}
  /\ Resume(h, "clone")
  /\ UNCHANGED <<docker, told, restarts>>

DeployStopsOld(h) ==
  /\ Back(h, {"DEPLOY"}, "inspect", {"up"})
  /\ Resume(h, "stop")
  /\ UNCHANGED <<docker, workdir, told, restarts>>

DeployRemovesOld(h) ==
  /\ \/ Back(h, {"DEPLOY"}, "inspect", {"down"})
     \/ Back(h, {"DEPLOY"}, "stop", {"ok"})
  /\ Resume(h, "remove")
  /\ UNCHANGED <<docker, workdir, told, restarts>>

\* resolveBuildContext(), permissions and shouldUseCompose() need the directory.
DeployCloned(h) ==
  LET s == handler[h].svc IN
  /\ Back(h, {"DEPLOY"}, "clone", {"ok"})
  /\ s \in workdir
  /\ IF s \in ComposeBuilt
       THEN ExpectBuilding(s) /\ Resume(h, "up")
       ELSE Resume(h, "build") /\ UNCHANGED <<tracked, snapshot>>
  /\ UNCHANGED <<docker, workdir, hubStatus, missed, restarts>>

DeployBuilt(h) ==
  /\ Back(h, {"DEPLOY"}, "build", {"ok"})
  /\ Says(handler[h].svc, "starting")
  /\ Resume(h, "create")
  /\ UNCHANGED <<docker, workdir, tracked, snapshot, missed, restarts>>

DeployCreated(h) ==
  /\ Back(h, {"DEPLOY"}, "create", {"ok"})
  /\ Resume(h, "start")
  /\ UNCHANGED <<docker, workdir, told, restarts>>

\* Mutant: the deploy does not look at the containers again.
DeployDoneUnseen(h) ==
  /\ \/ Back(h, {"DEPLOY"}, "start", {"ok"})
     \/ Back(h, {"DEPLOY"}, "up", {"ok"})
  /\ Says(handler[h].svc, "running")
  /\ Finish(h)
  /\ UNCHANGED <<docker, workdir, tracked, snapshot, missed, restarts>>

\* sendStatus(RUNNING), and the lifecycle service looks at the containers.
DeployDone(h) ==
  /\ \/ Back(h, {"DEPLOY"}, "start", {"ok"})
     \/ Back(h, {"DEPLOY"}, "up", {"ok"})
  /\ Sync(handler[h].svc, "running")
  /\ Finish(h)
  /\ UNCHANGED <<docker, workdir, restarts>>

\* The catch clause; removeBuildDir() may throw, and what is found missing after
\* the clone is an error too.
DeployFails(h) ==
  /\ \/ OldIsGone(h)
     \/ \E at \in {"clone", "build", "create", "start", "up"} :
          Back(h, {"DEPLOY"}, at, {"err"})
     \/ Back(h, {"DEPLOY"}, "clone", {"ok"})
  /\ Says(handler[h].svc, "failed")
  /\ Finish(h)
  /\ UNCHANGED <<docker, workdir, tracked, snapshot, missed, restarts>>

-----------------------------------------------------------------------------
(* ContainerLifeCycleService *)

\* restartService() and stopService() report what Docker answered, then the
\* handler looks at the containers.
StartDone(h) ==
  /\ Back(h, {"START"}, "restart", {"ok", "err"})
  /\ Sync(handler[h].svc, IF handler[h].res = "ok" THEN "running" ELSE "failed")
  /\ Finish(h)
  /\ UNCHANGED <<docker, workdir, restarts>>

StopDone(h) ==
  /\ Back(h, {"STOP"}, "stop", {"ok", "err"})
  /\ Sync(handler[h].svc, IF handler[h].res = "ok" THEN "stopped" ELSE "failed")
  /\ Finish(h)
  /\ UNCHANGED <<docker, workdir, restarts>>

\* startContainer(), stopContainer(), restartContainer() send no status.
ContainerDone(h) ==
  /\ \E at \in {"start", "stop", "restart"} :
       Back(h, ContainerCommands, at, {"ok", "err"})
  /\ Sync(handler[h].svc, hubStatus[handler[h].svc])
  /\ Finish(h)
  /\ UNCHANGED <<docker, workdir, restarts>>

DeleteStops(h) ==
  /\ Back(h, Deletes, "inspect", {"up"})
  /\ Resume(h, "stop")
  /\ UNCHANGED <<docker, workdir, told, restarts>>

DeleteRemoves(h) ==
  /\ \/ Back(h, Deletes, "inspect", {"down"})
     \/ Back(h, Deletes, "stop", {"ok"})
  /\ Resume(h, "remove")
  /\ UNCHANGED <<docker, workdir, told, restarts>>

\* Docker is done.  The image of a single container is looked up without a
\* version, and may stay; removeBuildDir() may throw, which is caught.
DeleteEnds(h) ==
  LET s == handler[h].svc
      whole == handler[h].cmd = "DELETE_SERVICE"
  IN
  /\ \/ Back(h, Deletes, "remove", {"ok"})
     \/ Back(h, Deletes, "down", {"ok"})
  /\ \/ UNCHANGED image
     \/ whole /\ handler[h].at = "remove" /\ s \in TaggedLatest /\ image' = image \ {s}
  /\ \/ Says(s, "removed") /\ workdir' = (IF whole THEN workdir \ {s} ELSE workdir)
     \/ Says(s, "failed") /\ whole /\ UNCHANGED workdir
  /\ Resume(h, "forget")
  /\ UNCHANGED <<container, events, tracked, snapshot, missed, restarts>>

DeleteFails(h) ==
  /\ \E at \in {"inspect", "stop", "remove", "down"} : Back(h, Deletes, at, {"err"})
  /\ Says(handler[h].svc, "failed")
  /\ Resume(h, "forget")
  /\ UNCHANGED <<docker, workdir, tracked, snapshot, missed, restarts>>

\* The markers are deleted; clearContainerStates(), whatever deleteService()
\* came to.
DeleteDone(h) ==
  LET s == handler[h].svc IN
  /\ Waiting(h, Deletes, "forget")
  /\ snapshot' = [snapshot EXCEPT ![s] = "gone"]
  /\ Says(s, "removed")
  /\ Finish(h)
  /\ UNCHANGED <<docker, workdir, tracked, missed, restarts>>

-----------------------------------------------------------------------------
(* DockerEventService, and the callback of ServiceLifecycleService *)

\* Mutant: the name of the service itself is not recognised.
BelongsByPrefix(s, t) == <<t, s>> \in Shadows

Belongs(s, t) == s = t \/ <<t, s>> \in Shadows

\* Where the map has a service whose name is a prefix of the container's: the
\* first of them is taken for the owner.
Owners(s) == {i \in DOMAIN tracked : Belongs(s, tracked[i])}

ReadEvent ==
  /\ events # <<>>
  /\ events' = Tail(events)
  /\ LET s == Head(events) IN
       IF Owners(s) = {} THEN UNCHANGED told
       ELSE LET t == tracked[Min(Owners(s))] IN
            \E seen \in MaySee(t) :
              /\ Look(t, seen)
              /\ Tell(t, seen, hubStatus[t])
              /\ missed' = AfterLook(missed \cup {s}, t, seen)
  /\ UNCHANGED <<container, image, workdir, handler, restarts>>

\* Two events in one chunk are not one JSON value: both are dropped.
ReadGluedEvents ==
  \E k \in 2..MaxChunk :
    /\ k <= Len(events)
    /\ events' = SubSeq(events, k + 1, Len(events))
    /\ missed' = missed \cup ToSet(SubSeq(events, 1, k))
    /\ UNCHANGED <<container, image, workdir, tracked, snapshot, hubStatus, handler, restarts>>

\* The agent starts again with empty maps; nothing asks Docker on the way up.
AgentRestarts ==
  /\ restarts < MaxRestarts
  /\ restarts' = restarts + 1
  /\ tracked' = <<>>
  /\ snapshot' = [s \in Service |-> "none"]
  /\ handler' = [h \in Handler |-> Idle]
  /\ events' = <<>>
  /\ missed' = Service
  /\ UNCHANGED <<container, image, workdir, hubStatus>>

-----------------------------------------------------------------------------
(* Docker carries out what a handler asked for *)

Up == {"warming", "running", "sick", "paused", "restarting"}
Started(s) == IF s \in HasHealthcheck THEN "warming" ELSE "running"

Becomes(s, state) ==
  /\ Len(events) < MaxEvents
  /\ container' = [container EXCEPT ![s] = state]
  /\ events' = Append(events, s)

\* Which container a call reaches: a project's containers are not called like
\* the service, and compose sees only those it made itself.
Reaches(h) ==
  LET s == handler[h].svc IN
  CASE handler[h].cmd = "DEPLOY"             -> (s \in ComposeBuilt) = (handler[h].at = "up")
    [] handler[h].cmd \in ContainerCommands  -> TRUE
    [] OTHER                                 -> s \in ComposePreset => s \in ComposeBuilt

View(h) == IF Reaches(h) THEN container[handler[h].svc] ELSE "absent"

ByCompose(h) ==
  /\ handler[h].svc \in ComposePreset
  /\ handler[h].cmd \in {"START", "STOP"} \cup Deletes

Asked(h, at) == Waiting(h, AllCommands, at) /\ handler[h].res = "pending"
Answer(h, res) == handler' = [handler EXCEPT ![h].res = res]

DockerRefuses(h) ==
  /\ \E at \in Waits \ {"marker", "forget"} : Asked(h, at)
  /\ Answer(h, "err")
  /\ UNCHANGED <<docker, workdir, told, restarts>>

DockerInspects(h) ==
  /\ Asked(h, "inspect")
  /\ View(h) # "absent"
  /\ Answer(h, IF View(h) \in Up THEN "up" ELSE "down")
  /\ UNCHANGED <<docker, workdir, told, restarts>>

\* A process that is told to stop may well exit with a code.
DockerStops(h) ==
  /\ Asked(h, "stop")
  /\ View(h) \in Up
  /\ \E state \in {"exited", "crashed"} : Becomes(handler[h].svc, state)
  /\ Answer(h, "ok")
  /\ UNCHANGED <<image, workdir, told, restarts>>

\* compose stop, restart and down have nothing to do, and say so with code 0.
DockerHasNothingToDo(h) ==
  /\ \/ Asked(h, "stop") /\ View(h) \notin Up
     \/ Asked(h, "restart") /\ View(h) = "absent"
     \/ Asked(h, "down") /\ View(h) = "absent"
  /\ ByCompose(h)
  /\ Answer(h, "ok")
  /\ UNCHANGED <<docker, workdir, told, restarts>>

DockerRemoves(h) ==
  LET s == handler[h].svc IN
  /\ \/ Asked(h, "remove") /\ View(h) \notin Up
     \/ Asked(h, "down")
  /\ View(h) # "absent"
  /\ Becomes(s, "absent")
  /\ image' = IF Waiting(h, {"DELETE_SERVICE"}, "down") THEN image \ {s} ELSE image
  /\ Answer(h, "ok")
  /\ UNCHANGED <<workdir, told, restarts>>

\* A restart stops the container first.
DockerStopsToRestart(h) ==
  /\ Asked(h, "restart")
  /\ View(h) \in Up
  /\ \E state \in {"exited", "crashed"} : Becomes(handler[h].svc, state)
  /\ UNCHANGED <<image, workdir, told, handler, restarts>>

DockerStarts(h) ==
  LET s == handler[h].svc IN
  /\ Asked(h, "start") \/ Asked(h, "restart")
  /\ View(h) \notin Up \cup {"absent", "removing"}
  /\ Becomes(s, Started(s))
  /\ Answer(h, "ok")
  /\ UNCHANGED <<image, workdir, told, restarts>>

\* git refuses to clone into a directory that is not empty.
GitClones(h) ==
  LET s == handler[h].svc IN
  /\ Asked(h, "clone")
  /\ s \notin workdir
  /\ workdir' = workdir \cup {s}
  /\ Answer(h, "ok")
  /\ UNCHANGED <<docker, told, restarts>>

DockerBuilds(h) ==
  /\ Asked(h, "build")
  /\ handler[h].svc \in workdir
  /\ image' = image \cup {handler[h].svc}
  /\ Answer(h, "ok")
  /\ UNCHANGED <<container, events, workdir, told, restarts>>

\* A container of that name must not exist.
DockerCreates(h) ==
  LET s == handler[h].svc IN
  /\ Asked(h, "create")
  /\ container[s] = "absent"
  /\ s \in image
  /\ Becomes(s, "created")
  /\ Answer(h, "ok")
  /\ UNCHANGED <<image, workdir, told, restarts>>

\* compose up builds and replaces the container; it may fail half way.
ComposeUp(h) ==
  LET s == handler[h].svc IN
  /\ Asked(h, "up")
  /\ s \in workdir
  /\ image' = image \cup {s}
  /\ \/ Becomes(s, Started(s)) /\ Answer(h, "ok")
     \/ Becomes(s, "created") /\ Answer(h, "err")
  /\ UNCHANGED <<workdir, told, restarts>>

-----------------------------------------------------------------------------
(* What happens to containers without the agent *)

Outside == UNCHANGED <<image, workdir, tracked, snapshot, hubStatus, handler, restarts>>

\* A compose file may ask for a restart where writeNoRestartOverride() failed.
ProcessExits(s) ==
  /\ container[s] \in Up
  /\ \/ \E state \in {"exited", "crashed"} : Becomes(s, state)
     \/ s \in ComposeBuilt /\ Becomes(s, "restarting")
  /\ Outside /\ UNCHANGED missed

CliStarts(s) ==
  /\ container[s] \in {"created", "exited", "crashed", "restarting"}
  /\ Becomes(s, Started(s))
  /\ Outside /\ UNCHANGED missed

\* docker rm -f: the container is gone before its first event is read.
CliRemoves(s) ==
  /\ container[s] # "absent"
  /\ Becomes(s, "absent")
  /\ Outside /\ UNCHANGED missed

\* Changes of which toStatusEvent() makes nothing: docker pause and unpause,
\* the health check, and a removal that takes its time or fails half way.
Silently(s) ==
  CASE container[s] = "paused"     -> {Started(s)}
    [] container[s] = "restarting" -> {}
    [] container[s] \in Up         ->
         {"paused"} \cup (IF s \in HasHealthcheck THEN {"running", "sick"} ELSE {})
    [] container[s] = "removing"   -> {"exited", "crashed"}
    [] container[s] = "absent"     -> {}
    [] OTHER                       -> {"removing"}

ChangesSilently(s) ==
  /\ \E state \in Silently(s) \ {container[s]} :
       container' = [container EXCEPT ![s] = state]
  /\ missed' = missed \cup {s}
  /\ Outside /\ UNCHANGED events

-----------------------------------------------------------------------------

HandlerStep(h) ==
  \/ \E c \in AllCommands, s \in Service : ReceiveMarked(h, c, s) \/ ReceiveSynced(h, c, s)
  \/ DeployMarked(h) \/ StartMarked(h) \/ DatabaseFails(h)
  \/ DeployClears(h) \/ DeployStopsOld(h) \/ DeployRemovesOld(h)
  \/ DeployCloned(h) \/ DeployBuilt(h) \/ DeployCreated(h)
  \/ DeployDone(h) \/ DeployFails(h)
  \/ StartDone(h) \/ StopDone(h) \/ ContainerDone(h)
  \/ DeleteStops(h) \/ DeleteRemoves(h)
  \/ DeleteEnds(h) \/ DeleteFails(h) \/ DeleteDone(h)

DockerStep(h) ==
  \/ DockerRefuses(h) \/ DockerInspects(h) \/ DockerStops(h)
  \/ DockerHasNothingToDo(h) \/ DockerRemoves(h) \/ DockerStopsToRestart(h)
  \/ DockerStarts(h) \/ GitClones(h) \/ DockerBuilds(h) \/ DockerCreates(h)
  \/ ComposeUp(h)

OutsideStep(s) ==
  \/ ProcessExits(s) \/ CliStarts(s) \/ CliRemoves(s) \/ ChangesSilently(s)

Next ==
  \/ \E h \in Handler : HandlerStep(h) \/ DockerStep(h)
  \/ \E s \in Service : ReceiveSyncStatus(s) \/ OutsideStep(s)
  \/ ReadEvent \/ ReadGluedEvents \/ AgentRestarts

Spec == Init /\ [][Next]_vars

-----------------------------------------------------------------------------
(* Properties *)

\* Every variable keeps its type.
TypeOK ==
  /\ container \in [Service -> Up \cup {"absent", "created", "exited", "crashed", "removing"}]
  /\ image \subseteq Service
  /\ workdir \subseteq Service
  /\ events \in Seq(Service) /\ Len(events) <= MaxEvents
  /\ tracked \in Seq(Service) /\ Len(tracked) = Cardinality(ToSet(tracked))
  /\ snapshot \in [Service -> {"none", "gone", "building", "starting", "running",
                               "stopped", "failed", "removed"}]
  /\ hubStatus \in [Service -> Statuses \cup {"none"}]
  /\ handler \in [Handler -> {Idle} \cup
       [at : Waits, cmd : AllCommands, svc : Service, res : {"pending", "ok", "err", "up", "down"}]]
  /\ missed \subseteq Service
  /\ restarts \in 0..MaxRestarts

\* Nothing that concerns s is under way.
Quiet(s) == Busy(s) = {} /\ s \notin ToSet(events)
Known(s) == s \in ToSet(tracked) /\ s \notin missed

\* The snapshot of s is what Docker would answer now.  Whether a compose
\* service exited with a code can be seen only while it has a directory.
Agrees(s) ==
  \/ snapshot[s] = Seen(s)
  \/ s \in ComposeBuilt /\ container[s] = "crashed" /\ snapshot[s] \in {"stopped", "failed"}

\* Once the handlers of a service are over and its events are read, the
\* snapshot (emitSnapshot) is the state Docker reports, unless the last look
\* failed, or what happened since was lost, misread or silent, or the Hub was
\* told of a failed deploy, which keeps "building", or of a DELETE, which
\* clears it unseen.
SnapshotFollows ==
  \A s \in Service :
    Quiet(s) /\ Known(s) =>
      \/ Agrees(s)
      \/ snapshot[s] \in {"building", "gone"} /\ hubStatus[s] \in {"failed", "removed"}

\* "running" is said only of a container that runs, or of one that has been
\* removed, about which syncContainerStatus() sends nothing.
RunningIsEarned ==
  \A s \in Service :
    Quiet(s) /\ Known(s) /\ hubStatus[s] = "running" => Seen(s) \in {"running", "gone"}

\* "building" and "restarting" are states of a command under way: however the
\* commands of one service overlap and whatever looks fail, they do not stay
\* behind, unless the agent restarted under the command and no look has found
\* a container since.
NothingStuckInProgress ==
  \A s \in Service :
    Quiet(s) /\ s \in ToSet(tracked) =>
      \/ hubStatus[s] \notin {"building", "restarting"}
      \/ restarts > 0 /\ snapshot[s] = "gone"

\* At rest the status the Hub shows (emitStatus) is neither that of an operation
\* that is over nor one the container has not earned.
StatusIsEarned == RunningIsEarned /\ NothingStuckInProgress

\* README.md, DELETE: a service whose deletion is reported has no container
\* left when the handler ends.
RemovedIsGone ==
  [][\A h \in Handler :
       DeleteDone(h) => container'[handler[h].svc] = "absent"]_vars
=============================================================================
