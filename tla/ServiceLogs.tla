----------------------------- MODULE ServiceLogs -----------------------------
(***************************************************************************)
(* The log of one service on its way to the Hub: DockerLogService and the  *)
(* commands STREAM_LOG, STOP_LOG and LOAD_OLDER_LOG of TunnelService.      *)
(*                                                                         *)
(* STREAM_LOG sends the last lines and then follows the container with a   *)
(* docker process; the Hub scrolls back page by page.  The container has   *)
(* one source of lines (a compose project with several has a tail of each, *)
(* see the README), and a chunk of the process is a number of whole lines. *)
(***************************************************************************)
EXTENDS Naturals, FiniteSets, Sequences, FiniteSetsExt

CONSTANTS
  Follower,     \* identifiers for docker logs --follow processes
  None,         \* no process, no page
  HistoryTail,  \* HISTORY_TAIL: lines of history a stream begins with
  MaxPage,      \* the most lines loadOlderContainerLogs() reads at once
  Limits,       \* page sizes the Hub asks for
  MaxLines,     \* bound: lines the container writes
  MaxBlank,     \* bound: how many of them are blank
  MaxAsked      \* bound: STREAM_LOG handlers waiting at a time

ASSUME LogAssumption ==
  /\ None \notin Follower
  /\ {HistoryTail, MaxPage} \subseteq Nat \ {0} /\ Limits \subseteq Nat \ {0}
  /\ {MaxLines, MaxBlank, MaxAsked} \subseteq Nat

VARIABLES
  written,     \* the time of each line, in half milliseconds
  blank,       \* the lines without a message: they are never shown
  follower,    \* the docker processes
  logStreams,  \* the entry of the container in the map of that name
  asked,       \* STREAM_LOG handlers that await loadRecentSessionMarkers()
  shown,       \* the Hub: lines it has from the history and from pages
  page,        \* an answer to LOAD_OLDER_LOG that awaits its markers
  torn,        \* history: lines that a read which broke off left out of a page
  end,         \* "reached": a page said hasMore = FALSE that had asked docker for
               \* all the Hub wanted, was read to its end and has no blank line;
               \* "unknown": another page said so
  stopped      \* history: the last word about the stream was STOP_LOG

stream  == <<follower, logStreams, asked, stopped>>
history == <<shown, page, torn, end>>
lines   == <<written, blank>>
vars == <<lines, stream, history>>

Free    == [at |-> "free", next |-> 1, last |-> 0]
Running == {"starting", "following"}
Over    == {"killed", "exited"}

Init ==
  /\ written = <<>> /\ blank = {}
  /\ follower = [f \in Follower |-> Free]
  /\ logStreams = None /\ asked = 0 /\ stopped = FALSE
  /\ shown = {} /\ page = None /\ torn = {} /\ end = "open"

\* docker stamps lines more finely than the milliseconds the agent keeps; the
\* first is written at the start or in the middle of one.
WriteLine ==
  /\ Len(written) < MaxLines
  /\ \E step \in 0..2 :
       written' = Append(written, IF written = <<>> THEN 4 + (step % 2)
                                  ELSE written[Len(written)] + step)
  /\ \/ UNCHANGED blank
     \/ Cardinality(blank) < MaxBlank /\ blank' = blank \cup {Len(written) + 1}
  /\ UNCHANGED <<stream, history>>

-----------------------------------------------------------------------------
(* Reading the log back *)

LastOf(S, n) == {i \in S : Cardinality({j \in S : j > i}) < n}
Ms(i) == written[i] \div 2
Oldest == Ms(Min(shown))

\* Mutants: the bound is the time itself; or two milliseconds before it.
UntilSame(before) == {i \in DOMAIN written : written[i] <= 2 * before}
UntilEarlier(before) == {i \in DOMAIN written : written[i] + 2 <= 2 * (before - 1)}

\* docker logs --until, one millisecond before the time the Hub names.
Until(before) == {i \in DOMAIN written : written[i] <= 2 * (before - 1)}

\* Mutant: the most that is read is what was asked for.
Unlimited(limit) == limit

SafeLimit(limit) == IF limit > MaxPage THEN MaxPage ELSE limit

HasMore(count, limit) == count >= limit

\* runtimeLogEntry() has no entry for a blank line.
Kept(S) == S \ blank

\* docker logs --tail n.
ReadToTheEnd(S, n) ==
  LET tail == LastOf(S, n) IN
  [ lines |-> Kept(tail), count |-> Cardinality(Kept(tail)), torn |-> {},
    full |-> tail \cap blank = {} ]

\* It fails after it has printed the first lines of the tail, or its output is
\* cut at the 1 MiB that spawnSync() takes: what is there is the answer.
BrokenOff(S, n, last) ==
  LET tail == LastOf(S, n)
      read == {i \in tail : i <= last} IN
  [ lines |-> Kept(read), count |-> Cardinality(Kept(read)), torn |-> tail \ read,
    full |-> FALSE ]

\* It fails and there is nothing: a line that says so and names no time.
Refused == [lines |-> {}, count |-> 1, torn |-> {}, full |-> FALSE]

FetchLogEntries(S, n) ==
  {ReadToTheEnd(S, n), Refused}
    \cup {read \in {BrokenOff(S, n, last) : last \in S} : read.lines # {}}

LoadOlderContainerLogs(before, limit) == FetchLogEntries(Until(before), SafeLimit(limit))

\* What the reply says of the end of the history.
EndOf(fetched, limit) ==
  IF HasMore(fetched.count, limit) THEN "open"
  ELSE IF fetched.full /\ limit <= MaxPage THEN "reached" ELSE "unknown"

\* LOAD_OLDER_LOG reads synchronously, then awaits the markers of that time.
LoadOlder(limit) ==
  /\ page = None /\ shown # {}
  /\ \E fetched \in LoadOlderContainerLogs(Oldest, limit) :
       page' = [before |-> Oldest, lines |-> fetched.lines, torn |-> fetched.torn,
                end |-> EndOf(fetched, limit)]
  /\ UNCHANGED <<lines, stream, shown, torn, end>>

\* The reply names its "before": the Hub puts it in front of what it shows,
\* unless it shows something else by now.
PageArrives ==
  /\ page # None
  /\ IF shown # {} /\ page.before = Oldest
       THEN /\ shown' = shown \cup page.lines
            /\ torn' = torn \cup page.torn
            /\ end' = page.end
       ELSE UNCHANGED <<shown, torn, end>>
  /\ page' = None
  /\ UNCHANGED <<lines, stream>>

MarkersFail ==
  /\ \/ asked > 0 /\ asked' = asked - 1 /\ UNCHANGED page
     \/ page # None /\ page' = None /\ UNCHANGED asked
  /\ UNCHANGED <<lines, follower, logStreams, stopped, shown, torn, end>>

-----------------------------------------------------------------------------
(* Following *)

\* How far a process that ends now had written into its pipe.
LastWords(f) ==
  IF follower[f].at = "following"
    THEN follower[f].next - 1 .. Len(written)
    ELSE {follower[f].next - 1}

Ended(f, how, last) == [follower EXCEPT ![f].at = how, ![f].last = last]

\* stopContainerLog(): the processes, once the one in the map is killed.
Stopped ==
  IF logStreams # None /\ follower[logStreams].at \in Running
    THEN {Ended(logStreams, "killed", last) : last \in LastWords(logStreams)}
    ELSE {follower}

\* STREAM_LOG, up to its first await.
AskStream ==
  /\ asked < MaxAsked
  /\ asked' = asked + 1
  /\ stopped' = FALSE
  /\ UNCHANGED <<lines, follower, logStreams, history>>

\* The markers are there: the open stream is stopped, the history read and the
\* next process started with no await in between.
StreamContainerLog(f) ==
  /\ asked > 0 /\ asked' = asked - 1
  /\ follower[f].at = "free"
  /\ \E processes \in Stopped :
       follower' = [processes EXCEPT ![f].at = "starting"]
  /\ logStreams' = f
  /\ \E fetched \in FetchLogEntries(DOMAIN written, HistoryTail) : shown' = fetched.lines
  /\ torn' = {} /\ end' = "open"
  /\ UNCHANGED <<lines, page, stopped>>

\* --tail 0: the first line a process that attaches now is to print.
NewLines == Len(written) + 1

Attach(f) ==
  /\ follower[f].at = "starting"
  /\ follower' = [follower EXCEPT ![f].at = "following", ![f].next = NewLines]
  /\ UNCHANGED <<lines, logStreams, asked, stopped, history>>

\* pushLines(): also of a process that is over, until its pipe is empty.
PushLines(f) ==
  /\ follower[f].at \in {"following"} \cup Over
  /\ \E i \in follower[f].next ..
              (IF follower[f].at \in Over THEN follower[f].last ELSE Len(written)) :
       follower' = [follower EXCEPT ![f].next = i + 1]
  /\ UNCHANGED <<lines, logStreams, asked, stopped, history>>

\* The container is gone, or docker gives up.
FollowerEnds(f) ==
  /\ follower[f].at \in Running
  /\ \E last \in LastWords(f) : follower' = Ended(f, "exited", last)
  /\ UNCHANGED <<lines, logStreams, asked, stopped, history>>

\* Mutant: the entry goes, whoever it belongs to by now.
Forget(f) == None

\* onClose: the entry goes if it is still of this process.
EntryAfter(f) == IF logStreams = f THEN None ELSE logStreams

Close(f) ==
  /\ follower[f].at \in Over
  /\ follower[f].next > follower[f].last
  /\ follower' = [follower EXCEPT ![f] = Free]
  /\ logStreams' = EntryAfter(f)
  /\ UNCHANGED <<lines, asked, stopped, history>>

\* STOP_LOG is the last word unless a STREAM_LOG still awaits its markers.
StopLog ==
  /\ follower' \in Stopped
  /\ logStreams' = None
  /\ stopped' = (asked = 0)
  /\ UNCHANGED <<lines, asked, history>>

Next ==
  \/ WriteLine \/ AskStream \/ StopLog \/ PageArrives \/ MarkersFail
  \/ \E limit \in Limits : LoadOlder(limit)
  \/ \E f \in Follower :
       StreamContainerLog(f) \/ Attach(f) \/ PushLines(f) \/ FollowerEnds(f) \/ Close(f)

Spec == Init /\ [][Next]_vars

-----------------------------------------------------------------------------
(* Properties *)

\* A page never holds more than MaxPage lines, whatever the Hub asked for
\* (safeLimit), and the variables have their types.
TypeOK ==
  /\ written \in Seq(Nat) /\ blank \subseteq DOMAIN written
  /\ follower \in [Follower -> [at : {"free"} \cup Running \cup Over, next : Nat, last : Nat]]
  /\ logStreams \in Follower \cup {None}
  /\ asked \in 0..MaxAsked /\ stopped \in BOOLEAN
  /\ shown \subseteq DOMAIN written \ blank /\ torn \subseteq DOMAIN written
  /\ end \in {"open", "reached", "unknown"}
  /\ page # None => /\ page.lines \subseteq DOMAIN written \ blank
                    /\ page.torn \subseteq DOMAIN written
                    /\ Cardinality(page.lines) <= MaxPage

\* Every process that still runs is the one in the map, so that some later
\* STOP_LOG or STREAM_LOG can kill it: whatever the order in which a new stream
\* is opened, the old one is killed and the 'close' of the old one arrives.
NoOrphan == \A f \in Follower : follower[f].at \in Running => logStreams = f

\* Once STOP_LOG has had the last word, nothing follows the container.
StopHolds ==
  stopped => logStreams = None /\ \A f \in Follower : follower[f].at \notin Running

\* The docker processes are those of open streams (streamContainerLog,
\* stopContainerLog): none is left over, none survives STOP_LOG.
OnlyOpenStreamsRun == NoOrphan /\ StopHolds

\* Scrolling back skips at most what was written within a millisecond and the
\* one before it, of a line that is shown, and what a read that broke off left
\* out: another line that is missing between two shown ones is blank, or less
\* than two milliseconds older than one of them.
HolesAreNarrow ==
  shown # {} =>
    \A i \in Min(shown) .. Max(shown) :
      \/ i \in shown \cup blank \cup torn
      \/ \E j \in shown : j > i /\ Ms(i) + 1 >= Ms(j)

\* When a page said that there is nothing more, and had asked docker for as
\* many lines as the Hub wanted, read them to the end and found none blank,
\* there is nothing more.
EndIsTheEnd == end = "reached" => Until(Oldest) \subseteq shown \cup blank

\* LOAD_OLDER_LOG, called again and again, shows the whole log but for the
\* lines that share their time with the border of a page, or that docker failed
\* to print; a page that was shortened by blank lines or by a failure may say
\* that there is nothing more when there is.
ScrollsBackToTheStart == HolesAreNarrow /\ EndIsTheEnd

\* The process of the open stream repeats no line of the history that the Hub
\* was sent before it, or of a page (--tail 0).  The last lines of a process
\* that has been replaced may.
NoEcho ==
  \A f \in Follower :
    logStreams = f /\ follower[f].at = follower'[f].at =>
      (follower[f].next .. follower'[f].next - 1) \cap shown = {}

\* A page that is put in front of what the Hub shows repeats none of it,
\* although docker's --until includes the time it is given and several lines
\* may have the same millisecond.
PagesDisjoint ==
  shown' # shown /\ page' = None /\ page # None => page.lines \cap shown = {}

\* No line is shown twice, by streamContainerLog() or loadOlderContainerLogs().
ShownOnce == [][NoEcho /\ PagesDisjoint]_vars
=============================================================================
