# OPTiCS-Agent: a verification project

OPTiCS-Agent is the process that runs on a user's host. It keeps one signed
socket.io connection to the Hub, executes the Hub's commands against docker,
reports status and logs, and keeps a pool of pre-opened TCP sockets towards the
tunnel server through which requests reach the services of the host. This
directory holds TLA+ models of that code, the TLC runs that check them, and
proofs that TLAPS checks. Paths below are relative to the repository; the code
is under `src/src/`.

## 1. The system

| part | state | operations | who it talks to |
|---|---|---|---|
| `ReverseTunnelService`, pool (`tunnel/reverse-tunnel.service.ts`) | `pool`, `pending`, `refillTimer`, `consecutiveFailures`, `suspended`, per socket `settled`, `unhealthy`, deadlines, heartbeat | `initPreconnectPool`, the events of each socket, the refill timer | tunnel server (lines over TCP), `TunnelService` (reads its secret) |
| same file, line reader and pipes | `buffer`, `detached`, paused or flowing sockets | `attachLineReader`, OPEN, `pipeToLocalService` | tunnel server, the local service |
| `TunnelService`, session (`tunnel/tunnel.service.ts` 124-249) | `agentUuid`, `signingSecret`, the rows of `agentInfo`, socket.io's `reconnection` | boot, `connect`, `register`, `disconnect` | Hub, database, pool |
| signed events (`utility/hash.util.ts`, `createSocketListener.util.ts`, `createSocketEmitter.util.ts`) | the replay guard's `seen` | sign, verify, remember, prune | every Hub event |
| `TunnelService`, commands (251-640) | none of its own; many handlers in progress | the command switch, terminal events, `connect-request`, `update-agent` | all services below |
| `ServiceLifecycleService` | `containerSnapshots`, `trackedServices` | sync, expected containers, markers, status pushes | Hub, docker, database |
| `ContainerLifeCycleService`, `DeployService`, `ImageBuildService`, `ComposeProjectService`, `BuildWorkspaceService` | docker's containers and images, the build directory | deploy, start, stop, restart, delete | docker, file system |
| `DockerEventService`, `ContainerInspectService` | the event stream | events to status events; inspect | docker, `ServiceLifecycleService` |
| `DockerLogService` | `logStreams` | stream, stop, load older | docker, Hub |
| `SshTerminalService` | `sessions` | open, write, resize, close | host sshd, Hub |
| `AppService`, `SelfInspectService`, `entrypoints/update.sh` | the updater container, `.env` | self update; metrics every second | docker compose, Hub, database |
| `NotifyService` | the pending connect request | save, answer, clear | Hub, dashboard |
| `SystemMetricsUtility`, `numberSlicer` | samples of the current window | sample, average | `AppService` |

How they interact: the Hub's events enter through one listener that verifies
them, and their handlers run concurrently, as the callbacks and awaits of a
single Node process allow. A register response gives the agent its uuid and
secret; the handler persists them and starts the pool, which reads the secret
through a callback each time it signs. Docker events and command handlers both
write the snapshots that go to the Hub.

What is hard about it: everything between two awaits or two callbacks. Section
"hazards" of `PROJECT.json` lists it line by line. The themes are: who gives a
counter back when five events can end a socket; who schedules the replacement;
answers that arrive after the state they are about has been replaced; peers that
vanish; crashes between two database writes that belong together; messages
delivered twice; commands on one service that overlap; docker state observed
through a lossy event stream; callbacks of a child process or an SSH client that
arrive when its successor has taken its place; an update that replaces the
process that started it.

## 2. What must hold, per component

* pool: the pending counter is exact; pooled plus pending never exceed the
  target; no timer outlives its phase; a failed socket is retried with back-off
  and one round at a time; after a fatal rejection nothing connects until
  re-registration; a vanished peer is evicted; a pool left alone recovers.
* line reader and hand-over: independent of chunking, every control line is
  handled once, the payload reaches the local service complete and in order.
* session: the uuid and secret in use belong together, in memory and in the
  table; no response erases a secret; the pool starts with an identity only.
* signed events: one process handles a message at most once, while no clock is
  ahead by more than the guard can tell; refused messages leave no trace; the
  guard stays small.
* commands and status: once a service is at rest, its snapshot is what docker
  reports and its status neither that of an operation that is over nor
  "running" without a container that runs; what is reported removed or stopped
  is removed or stopped.
* logs: every follower process that runs can be stopped, and STOP_LOG stops it;
  scrolling back reaches the start of the log, skips at most lines that share a
  border's millisecond and shows none twice.
* terminals: no SSH client is left over, also when an identifier is used again;
  the Hub knows which terminals are open and gets an answer to each it opens.
* self update: an update ends at the version asked for or at the one before,
  the script's last word is true, `.env` follows, and the Hub gets an answer.
* connect requests: a request stays until it was answered, unless an answer to
  an earlier one, or one the Hub refused, comes back behind it.

## 3. Modules

| module | models | refinement or composition |
|---|---|---|
| `TunnelSupply` | what the pool promises the tunnel server, in numbers (abstract) | |
| `PreconnectPool` | the pool, one action per event handler | implements `TunnelSupply` (`SuppliesTunnels`); proved about in `PreconnectPoolProofs` |
| `TunnelStream` | what one tunnel socket promises (abstract) | |
| `TunnelHandoff` | line reader, OPEN, pause, pipes | implements `TunnelStream` (`KeepsStream`); proved about in `TunnelHandoffProofs` |
| `HubSession` | boot, connect, register, disconnect, crash, database writes | proved about in `HubSessionProofs` |
| `SignedEvents` | listener, `verify`, `ReplayGuard` | proved about in `SignedEventsProofs` |
| `ServiceStatus` | the commands on services, their docker operations, docker's events, snapshots and status pushes | composes the handler of a command, the lifecycle service and docker in one state machine; proved about in `ServiceStatusProofs` |
| `ServiceLogs` | STREAM_LOG, STOP_LOG, LOAD_OLDER_LOG and `DockerLogService`, with the docker processes | proved about in `ServiceLogsProofs` |
| `VersionSwitch` | what an update promises (abstract) | |
| `SelfUpdate` | `updateAgent`, its log follower, `update.sh`, compose | implements `VersionSwitch` (`SwitchesVersion`); proved about in `SelfUpdateProofs` |
| `SshTerminal` | terminal events and `SshTerminalService` | part of `HubRequests` |
| `ConnectRequests` | connect-request, `NotifyService` and its controller | part of `HubRequests` |
| `HubRequests` | the process that serves both, and its restart | composes `SshTerminal` and `ConnectRequests`; proved about in `HubRequestsProofs` |
| `MC*` | constants for TLC | |

A definition whose comment begins with "Mutant" is no part of a model: it is the
one before it with a mistake the code could plausibly have, and shows that a
property notices.

**PreconnectPool.** Node runs one callback at a time, so one callback is one
action, including the helpers it calls: `Close` contains `settle`,
`scheduleRefill` and `formPreconnectPool`, and `formPreconnectPool` contains the
`preconnect()` calls it makes. A `Socket` is an identifier for one `net.Socket`
from `preconnect()` to its 'close' event. `settled` is the closure variable of
the same name; `unhealthy` the field; `timers[s]` the timers armed on the socket,
with the field `pongDeadline` kept after it has fired, as in the code;
`signedWith[s]` records which secret the PRE line was signed with. The server
answers only what it was asked (PRE:OK or PRE:ERR once per socket, OPEN only to a
pooled socket). The deadline of a PONG may also fire between the peer's FIN and
'close'. A deadline may fire although the peer is alive: the agent blocks
its event loop in `spawnSync`, so a PONG can wait in the socket buffer while its
deadline expires. The delay of the back-off is not modelled, only that it takes
a timer; `consecutiveFailures` saturates at `FailureCap`, as the delay does.

**TunnelHandoff.** A stream is a sequence of symbols with `nl` for a newline;
`open` and `bad` stand for OPEN with a usable and with an unusable port. The
reader's loop is the recursive function `Loop` on what the reader keeps (buffer,
lines handled, whether it is detached). `ReadChunk(n)` takes any
non-empty prefix of what is on the wire.

**HubSession.** The register handler awaits up to four upserts. `writes` is the
queue of upserts issued and not yet done: the database adapter has one
connection, so they are done in the order they were issued, and the rest of a
handler runs when its write is done. Code and ip are one write, since nothing
reads them between. The Hub is external: it enrols an agent without a uuid,
verifies the others, and may reissue a secret or refuse.

The history variable `refused` records that the Hub answered
`registration_failed` on this connection, which the agent only logs; `closed`
that the command DISCONNECT, or the Hub, closed the socket, after which
socket.io does not reconnect.

**ServiceStatus.** A command of the Hub starts an asynchronous handler, and the
event loop is free at each of its awaits. `handler[h]` says what handler `h`
waits for: the database (`marker`, `forget`), git (`clone`) or a docker call.
A docker call takes two steps. The environment carries it out or refuses it and
fills `res` (`DockerStops`, `DockerCreates`, `ComposeUp`, `DockerRefuses`, ...),
then the handler continues (`DeployCreated`, `DeleteFails`, ...), with the rest
of the code up to its next await in the same action. In between, other handlers
run, containers die, and people use docker's command line (`ProcessExits`,
`CliStarts`, `CliRemoves`). `container[s]` is docker's state, with `crashed` for
an exit code other than 0, `warming` and `sick` for a health check that has not
passed yet and one that fails. Each change sends an event to the agent; the
events that share a chunk are dropped (`ReadGluedEvents`), as `JSON.parse`
throws on them. What `toStatusEvent` makes nothing of happens `Silently`: docker
pause and unpause, a change of health, a removal that takes its time or fails.
`Seen(s)` is what `getContainerSnapshot` finds while docker answers: it depends
on the preset and on the build directory, not on how the service was built.
`MaySee(s)` adds what it finds when docker does not: nothing, where docker
inspect or docker ps fails, or a state without its exit code, where docker
compose ps fails and docker ps does not. Every look picks one of these; an empty
one gives an empty snapshot and no status, as in `syncContainerStatus`. Of
removals, `OldIsGone` is the end of `removeExistingContainer`, for which every
error means that nothing was there, and `DeleteEnds` the end of `deleteService`,
with the image that may stay and the directory whose removal may throw.
`Shadows` lists
the pairs of services whose names make `containerBelongsToService` take a
container of one for the other's; `Owners` are the places in `trackedServices`
at which the code's search would stop, and `ReadEvent` takes the first.

Simplifications, each of which removes no decision of the code: a service is
one container; a clone of several repositories is one step; generated compose
files, ports and environment are part of a step that may fail; the session rows
are a wait that may fail; the rows of the table `services` are left out, since
this code never creates them; a half event in a chunk is not distinguished from
a lost one; the event stream does not end; the connection to the Hub is up,
so that `hubStatus` is the last status pushed. `syncContainerStatus` calls
docker with `spawnSync` and emits in the microtask behind it, so it is atomic.
`missed` is a history variable: the services with a container the last look did
not see because docker failed, and those with a change of state that nothing has
looked at since (a lost or misread event, a silent change, a restart of the
agent). A look that works takes a service out of it. The properties speak of
services that are `Known`: tracked and not missed; only
`NothingStuckInProgress` speaks of missed ones too.

**ServiceLogs.** A docker process is an actor: it is started, attaches at some
later moment (and prints what is written from then on, `--tail 0`), prints in
chunks of whole lines, ends or is killed, and its 'close' comes when its pipe is
empty. `logStreams` is the map's entry of the one container. STREAM_LOG and
LOAD_OLDER_LOG await their session markers, before and after they read the log
respectively, as in the code. Time is counted in half milliseconds, so that
lines can share the millisecond the agent keeps (`Ms`) although docker tells
them apart; that is what paging goes wrong on if the bound is not exact. A
line may be `blank`: docker counts it for `--tail`, `runtimeLogEntry` drops it.
`FetchLogEntries` is every answer of a synchronous docker logs: read to its end
(`ReadToTheEnd`), with its first lines only because it failed or was cut at the
1 MiB `spawnSync` takes (`BrokenOff`, which the code takes for a whole page), or
one line that says it failed (`Refused`). `shown` is what the Hub shows from
histories and pages, `page` an answer under way, and the history variable `torn`
the lines a read that broke off left out. `EndOf` is what `hasMore` tells the
Hub; where the code says that the log ends without knowing (a limit above 5000, a
refusal, a read that broke off, a page with a blank line) it is "unknown".

**SelfUpdate.** `updater.at` is the line of `update.sh` that is next, each with
the failures the script handles; `env` is the tag in `.env`. Compose recreates
the agent exactly when that tag is not the one its container was made from. The look
at the end of the wait (`Settle`) may find no agent because docker itself fails. The
old container gets a grace period (`AgentStops`), during which the agent still
reads events. A `Tag` is a version that matches `TAG_PATTERN`. `orphaned` are
followers whose updater was removed, `waiting` the Hub's expectation of an
answer. `upset` is a history variable: an update was broken off on its way or
could not restore `.env`, so nobody is responsible for where the agent is.

**SshTerminal.** `sessions` and `client` are the map and the ssh2 clients; every
callback acts on the session its identifier names by then, which is what the
code does. `reused` marks an identifier that was opened again while an earlier
client of it was still there. An `inert` client is one on which `connect()`
threw. The states of a client are what ssh2 may do next and no more.

**ConnectRequests.** A request is a number; `row` is the database row, `saving`
the queue of upserts under way (one connection, in order), `answers[a]` where
each accept or reject has got to. The Hub has one outstanding request, because
an answer names the agent only. It takes or refuses an answer (`HubHears`) before
`fetch()` resolves at the agent (`Resolves`) or rejects (`FetchFails`); in between
the response is under way, and newer requests may be sent and saved. Two history
variables say when the row is deleted wrongly: `stale` holds the answers under way
that do not settle the request in the row, because the Hub had them before it was
saved or refused them, and `lost` that such an answer deleted the row.

**SignedEvents.** A nonce is the identity of its message, a digest the secret it
was made with. Delivery is any message that was sent, at any time, any number of
times. The Hub's clock may be behind the agent's or ahead of it; `verify` takes a
timestamp within the window on either side. `handled` counts to 2, and the history
variable `early` holds the messages handled before the time they name.

## 4. Runs

| run | instance | what it shows |
|---|---|---|
| `pool_safety` | 5 sockets, target 3, fatal and other rejections, back-off cap 2, symmetric | counters, bound, timers, halt, back-off; refines `TunnelSupply` |
| `pool_live` | 3 sockets, target 2, fatal rejections, 2 secrets, fairness | no stall, no socket hangs, recovery |
| `pool_refused` (violation) | 3 sockets, target 2, a non-fatal rejection | a refused socket is not retried |
| `hub_session` | 2 handlers, 2 uuids, 3 secrets, crashes, failed writes, DISCONNECT, fairness | identity stays consistent; registration succeeds once faults stop |
| `signed_events` | 3 messages, window 1, Hub clock up to 2 behind or 2 ahead, 2 secrets, time 4 | at most once but for messages from the future, clean refusals, small guard |
| `tunnel_handoff` | every stream of PRE:OK plus five symbols, every chunking | refines `TunnelStream`, everything delivered |
| `service_overlap` | one Dockerfile service, 2 handlers of DEPLOY, START, STOP or DELETE at once, 2 events under way | statuses and snapshots at rest, whatever overlaps |
| `service_compose` | a compose service with a health check, every command, one at a time, a service whose name is a prefix of its container's, one restart of the agent | the same, whatever the events are attributed to |
| `service_delete` (violation) | one service, deploy and delete | a refused deletion is reported as removed |
| `service_logs` | 2 docker processes, 4 lines, 1 of them blank, history 1, pages of at most 2, the Hub asks for 2 or 3, 1 STREAM_LOG waiting, symmetric | no process left over, paging complete but for what docker failed to print, and without repetition |
| `self_update` | 3 versions, 1 orphaned follower, every failure, fairness | refines `VersionSwitch`, the last word is true, no drift, the Hub learns |
| `hub_requests` | 1 identifier, 2 clients, 2 replies, 2 requests, restarts, fairness | no stray client, the Hub agrees, terminals answer, requests stay |

Why the bounds are enough. Five sockets and a target of three let a pool be
full, partly failed and refilled while two sockets are piped or refused at the
same time; with `MaxRetired` 2 the actions that retire a socket find a free
identifier for the replacement, so no action is disabled for want of one. The
liveness run uses fewer sockets and no symmetry. Two overlapping register
handlers are what one reconnect during a slow write produces. Three messages let
one be pruned by a second, also one from the future, while a third is replayed; two
is more than the window by which a clock may be off either way. Five symbols after PRE:OK
hold two OPENs with payload between and behind them.

In `ServiceStatus`, `MaxPerService` is the number of handlers of one service at
a time: two are enough for every pair of commands to interleave at every await,
and with one a second command still meets the late events of the first.
`MaxEvents` (2) holds back docker when the agent has not read its events; it
lets a stop and a removal, or a creation and a start, be under way together,
and `MaxChunk` (2) glues them. `MaxRestarts` (1) is one restart of the agent at
any point, after which the model goes on without bound. The restart is left out
of `service_overlap` (1.2 million states) and the overlap out of `service_compose`
(330 thousand) to keep both small.

In `ServiceLogs` two processes are the open stream and the one it replaces;
while both still live, a third STREAM_LOG waits. A history of 1 and pages of at
most 2 make four lines three reads, with limits at and above `MaxPage`
(HISTORY_TAIL is 10000 and a page 5000 lines in the code), and one blank line is
enough to shorten a page. The run has 11 million states and takes two to three
minutes. In `SelfUpdate` three versions are the one that runs, the one asked for
and that of a second update; one orphaned follower is what the second leaves.
In `HubRequests` one identifier with two clients is every reuse there is; two
requests and two replies are an answer that meets a newer request. `MaxRequests`
and `MaxSaving` only bound what the Hub sends.

Fairness. The agent's timers fire, a destroyed socket closes, and the server,
when reachable, accepts, acknowledges and answers PING (`AgentFairness`,
`ServerFairness`); a silent peer is exempt because its actions are not enabled.
`PoolRecovers` is conditional on the end of failures and consumption.
In `HubSession` nobody has to start a process that is down (`docker-compose.yml`
gives the agent no restart policy); while it is up, socket.io reconnects unless told
not to, writes complete and the Hub answers. In
`TunnelHandoff` arrived bytes are read and the local service accepts; neither
side is obliged to close, which is why that run does not check for deadlock: a
finished tunnel stops. In `SelfUpdate` the script, the handlers of the process,
the follower's 'close' and the daemon's grace period go on; nobody has to restart
an agent that is down. In `HubRequests` the host answers a client or its
connection breaks (`Answer`; ssh2 has a ready timeout and keepalives), and a
client that was ended closes (`Gone`). `ServiceLogs` and the service runs check
safety only.

What the violations mean. `pool_refused`: with a reason outside
`FATAL_REJECTIONS` the pool stays short, for good when nothing else is in flight.
`service_delete`: `deleteService` turns a refusal into a status and returns, and
its caller reports "removed" with an empty snapshot.

Stated preconditions. `AtMostOnce` excuses a message that one from the future has
pushed out of the guard (`Outrun`): the guard prunes by the timestamp of the message
in hand. `NeverStalls` needs a server that rejects with the fatal reasons only.
`Registers` excuses an agent that was told `registration_failed`, which it only
logs, for as long as that connection lasts, one that lost a database write,
which nothing retries, one whose connection was closed for good, and one whose
process is down. `SnapshotFollows` and `RunningIsEarned` are about services the last
look at which did not fail and no change of which was missed since: where docker
refuses the look after a die event, the snapshot is empty and "running" stays until
another event or command looks again. `NothingStuckInProgress` needs neither.
`SnapshotFollows` further excuses a failed deploy, which leaves "building" in the
snapshot, and a DELETE, which empties it unseen. What is built when two deploys of
one service overlap is no property: see section 6.
`OnlyOpenStreamsRun` counts a STREAM_LOG that still awaits its markers as a later
word than the STOP_LOG that overtook it, which is what the code makes of it.
`ScrollsBackToTheStart` takes "there is no more" at its word only of a page docker
was asked for in full, that was read to its end and has no blank line, and it
excuses the lines of a read that broke off; `ShownOnce` is about pages and
the process of the open stream, not about the last output of one it replaced.
`NoDrift`, `SaysWhatIs` and `SwitchesVersion` excuse an update that was broken off
on its way or could not restore `.env` (`upset`, `drift`), until the next update
or start puts it right; "runs" means at the script's one look after the wait.
`HubAgrees` excuses an identifier that is used again while its earlier client is
there, `TerminalAnswers` a client that `connect()` never started, `RequestKept` a row
that an answer deleted which the Hub had before the request was saved or which it
refused by its HTTP status (`stale`, `lost`).

## 5. Proofs

Each proof module states one invariant, `IInv`, proves that the initial states
satisfy it and every action keeps it (`Invariance`, one lemma per action or
group of actions of one shape), and derives the theorems from it. They hold for
all values of the constants that satisfy the named assumptions of the module
proved about; an assumption beyond those is part of the theorem's statement.
TLC checked each `IInv` on the instances of section 4 first.

**PreconnectPoolProofs.** `IInv` is `TypeOK`, `PendingExact`, `PoolBound`,
`TimersMatchPhase`, and two parts the runs do not list. `PhasesAgree` says which
phases settled and pooled sockets can be in and that only a live, unsettled
socket has a handshake timer: without it, `Close` and `PreOk` could not be shown
to take a socket out of the counter exactly once. `HaltIsQuiet` says that a
halted pool has no refill timer, which `HaltHolds` needs. The lemmas first
establish cardinalities of sets that gain or lose one socket, then what
`formPreconnectPool` preserves (`FormPreserves`) and that it opens exactly the
shortfall (`DeficitFills`), then one lemma per handler. `PoolNeverStalls` adds
the assumption that rejections are fatal. `ImplementsSupply` maps each handler to
the step of `TunnelSupply` it is (an order, a delivery, a loss, a halt, a reset)
or to a stutter; `BacksOff` is the action property, handler by handler.

**HubSessionProofs.** That a uuid and its secret belong together is not inductive:
it depends on what is on the wire and in the queue. `WireAgrees` says that the
request carries the uuid in memory and that an answer is for it; `QueueAgrees`
that every upsert still queued is for that uuid, with a secret issued to it;
`MemoryAgrees` that a secret is in use only when its uuid is in the table, which
is the order of the awaits in the register handler. `WritesAreDue`, which gives
`SettledMeansDurable`, says that what the table lacks is queued, the latest secret
last; it is where the single database connection is used.

**SignedEventsProofs** proves `TypeOK`, `AtMostOnce` and `GuardIsExact` from one
invariant (`GuardInvariant`) that relates the guard to the clock: only sent messages
are remembered, and a handled message is remembered, or its timestamp is further
than the window behind the clock, or it was outrun. The step that makes the guard
forget a nonce (`ForgottenIsRefused`) distinguishes which of the two messages came
before the time it names: if neither did, the forgotten one has expired. Nothing is
assumed of the clocks.

**ServiceStatusProofs.** The properties speak of services at rest, so the
invariant has to say what holds on the way. For a service whose events are read
and of which nothing was missed (`Settled`), `Follows` says that a snapshot docker
would not confirm is that of a deploy under way, or was left by a failed deploy
or a DELETE; `Earned` that a "running" is of a container that runs or is gone;
`Moving`, without that condition, that a status of progress has its command
(`UnderWay`). `CommandsTracked` says that who runs a command is in the map. The
lemmas distinguish what a step does to one service: nothing is said of it
(`Untold`; then its container did not change, or an event is under way or
recorded as missed), its containers are looked at, with whatever a docker that
works or fails may answer (`Looked`, `FoundIs`), or a handler says something without
looking, which the few actions that do so justify one by one. Commands of one
service may overlap without bound.

**ServiceLogsProofs.** `NextIsNew` is the heart of `NoLineTwice`: what the process of
the open stream has still to print comes after every line that is shown. It needs
`InOrder` (time stamps do not decrease), and `PageAgrees`, which says that an answer
that awaits its markers still has the last lines of its time although lines have
been written since. `NothingRunsOn` needs `StopIsLast`: a STREAM_LOG after STOP_LOG
takes its word back. `FetchedIs` says what any answer of docker logs has in common
(the lines of a tail that are neither blank nor torn, and how many), so that
`PageJoins` need not know whether it was whole, broken off or refused.

**SelfUpdateProofs.** `OnTheWay` and `WayBack` say for each stretch of `update.sh`
what `.env` and the container are; `NoneBefore` that `updateAgent` starts an updater
only when the last one is removed. `Implements` shows each step to be a step of
`VersionSwitch` or a stutter, with the plan of the update as refinement mapping
(`NoPlan` when there is none).

**HubRequestsProofs.** `SessionsOwn` says that the map's client of an identifier was
not told to end and belongs to it, also after the identifier was used again;
`HeardIsKnown` that an answer the Hub has had, its response under way or the row
about to be deleted, meets a Hub that waits for the request in the row only if it
is `stale`. The constant None has to differ from the entries
of the map (`TerminalAssumption`), as `undefined` does.

**TunnelHandoffProofs** needs two facts before any invariant. The first is that the
reader's loop is what its recursive definition says (`LoopIs`), for a buffer of any
length. The library's induction takes an operator as a parameter, so the argument
is made with sets: `Ends(q)` is where a run of finitely many rounds from `q` can
end, it has at most one member because a round is a function, and the shortest
buffer without one would have been cut shorter by a round (`LeastExists`, from the
well-foundedness of the naturals). The second is what `TunnelStream` calls the
lines: the k-th is the one whose end has rank k among the ends of control lines
(`RankIs`, `RankNext`, `LinesAre`), the last of which is OPEN (`OpenIsLast`).

The invariant is `NothingLost`: what is on the wire is the rest of the stream, and
`HandledTo(c)` holds for some position c, the start of the stream or the end of a
control line: the lines handled are those up to c, the reader is detached exactly
when c ends OPEN, and what arrived after c is in the buffer until the local service
is connected, and with the local service from then on. `LoopGoesOn` carries this
through the loop by the same least-counterexample argument, so that a chunk may
hold any number of lines and end anywhere. `ImplementsStream` maps a chunk to
`HandleLines` or a stutter, the first write and each piped chunk to `Deliver` or a
stutter, and all else to a stutter. `NothingWithheld` adds `NoneWaits`: the reader
leaves no whole line in its buffer (`LoopStops`), and the socket flows only while
the reader or the pipe takes its bytes. Hence once all bytes are read and the
socket flows, every line is handled and the payload delivered, which is the safety
half of `AllDelivered`; that this state is reached is left to TLC.

That a non-empty set of natural numbers has a least element, which `Min` of the
community modules chooses, and a bounded one a greatest, is proved from the
library's well-founded induction in the modules that need it (`MinIs`, `MaxIs`).

Only model-checked: the liveness properties (`NoSocketHangs`, `PoolRecovers`,
`Registers`, `AllDelivered`, `HubLearns`, `TerminalAnswers`), since the prover does
neither fairness nor ENABLED.

## 6. Divergences met while reading

The models contain these behaviours; the two that contradict the repository's own
text most plainly have a run (section 4). The others are no property of a run.

* A fatal PRE:ERR halts the pool whichever secret it was about
  (`reverse-tunnel.service.ts` 286), although the comment at 55 reasons that the
  same content would be signed again: after a re-registration it is another.
* After DISCONNECT the agent logs "Reconnecting" (`tunnel.service.ts` 249), but
  socket.io does not reconnect a socket that was closed on purpose (509).
* A reconnect between the writes of uuid and secret registers with a uuid and no
  signature (`tunnel.service.ts` 175).
* Two docker events in one chunk are both dropped (`docker-event.service.ts` 36,
  against the comment at 27), and a change of health is ignored (89).
* A preset other than DOCKERFILE and COMPOSE is built by what the repository
  contains but stopped by its name, as a compose project that has no containers:
  it is reported stopped while it runs (`service-lifecycle.service.ts` 184).
* An event is taken for another service's when one name is a prefix of the other
  (`service-lifecycle.service.ts` 144).
* A whole-service DELETE names the image without the version it was tagged with
  and leaves it (`container-lifecycle.service.ts` 183).
* `hasMore` (`tunnel.service.ts` 569) is wrong for a page the Hub asks more than
  5000 lines for and for one docker refuses. It is wrong too for a page with a blank
  line, which docker counts and `runtimeLogEntry` drops, and for one that is short
  because docker logs failed or was cut at 1 MiB, which `fetchLogEntries` returns as
  if it were whole (`docker-log.service.ts` 121-134): the Hub is told that the log
  ends where older lines exist.
* The comment on `ReplayGuard` (`hash.util.ts` 262-265) holds that a dropped nonce
  would be refused as expired anyway, and `README.md` 125-126 that a redelivered
  message is refused. `verify` takes a timestamp ahead of the clock (232), and
  `prune` measures by it. With a window of 5, a message stamped 0 is handled at 0;
  one stamped 8 is taken at 3 and makes the guard forget the first, which is taken
  again at 4.
* A docker inspect or docker ps that fails passes for a service without containers
  (`container-inspect.service.ts` 31 and 73): the snapshot is emptied, no status
  follows, and nothing looks again.
* Two deploys of one service at once share its build directory: the second removes
  what the first has cloned, and the first fails or builds what the second cloned
  (`deploy.service.ts` 52; `tunnel.service.ts` 283 starts both).
* Not in the models: `docker compose logs --tail n` takes n lines of each container,
  so pages of a project overlap or skip (`docker-log.service.ts` 110); chunks of a
  process are split into lines without a carry (`docker-output.util.ts` 11).
* A client whose key does not parse leaves a session that never says anything, and
  a second terminal-open of a live session is answered with "closed"
  (`ssh-terminal.service.ts` 71 and 30).
* An update to the version that runs, or one superseded by another, is reported
  failed (`app.service.ts` 181, where the comment takes the end of the log for a
  failure).
* An answer to a connect request is taken for heard whatever the HTTP status, and
  names no request (`notify.service.ts` 63); a request that is sent and saved while
  the response to an earlier answer is under way is deleted by it, unanswered (45).
* Not in the models: a metrics window with no CPU sample is stored as 0
  (`app.service.ts` 76).
* Not in the models: when the local connection fails, `end()` on a paused tunnel
  socket with unread bytes may never lead to 'close' (`reverse-tunnel.service.ts`
  439); that is the runtime's to decide.

## 7. Not modelled, and the plan

Not modelled: `open()` (a pair of pipes without a decision) and the error log (it
groups log lines); metrics and `numberSlicer` (averages of floating point samples
on which nothing else of the agent depends); the digest and the canonical form of
a signed event, which is pure string work that the repository's tests cover;
`processGuard`, gateways, controllers, modules and DTOs (wiring); docker, git,
compose, ssh2, socket.io and the Hub, which are external and do what the code's
use of them allows; wording and layout. `reverse-proxy` is left out because the
code says that the Hub never sends it.

Every safety property the passing runs check is a theorem, `NeverStalls` under the
assumption its run makes too. What is left is breadth:
the metrics and the docker output that is split without a carry, if they come to
matter.
