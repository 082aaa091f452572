--------------------------- MODULE ConnectRequests ---------------------------
(***************************************************************************)
(* A workspace asks to be connected to the agent: the Hub sends the        *)
(* request, the agent keeps the latest one in a row and shows it on the    *)
(* dashboard, a person accepts or rejects it, the agent tells the Hub and  *)
(* deletes the row (NotifyService and its controller, the connect-request  *)
(* handler of TunnelService).                                              *)
(*                                                                         *)
(* An answer names the agent, not the request: the Hub takes it for the    *)
(* request it has outstanding.  The database has one connection and does   *)
(* what it is asked in order.                                              *)
(***************************************************************************)
EXTENDS Naturals, Sequences

CONSTANTS
  Reply,         \* identifiers for POST .../accept and .../reject
  MaxRequests,   \* bound: requests the Hub sends
  MaxSaving      \* bound: requests whose upsert is awaited at a time

ASSUME RequestAssumption == {MaxRequests, MaxSaving} \subseteq Nat

VARIABLES
  issued,        \* the Hub: requests so far; a request is its number
  outstanding,   \* the Hub: the request that waits for an answer, or 0
  saving,        \* requests whose upsert is awaited
  row,           \* pending-connect-request, or 0
  saved,         \* the last request that was put into the row
  answers,       \* where the handler of each answer is
  stale,         \* history: answers that do not settle the request in the
                 \* row: the Hub had them before it was saved, or refused them
  lost           \* history: a stale answer deleted the row

nvars == <<issued, outstanding, saving, row, saved, answers, stale, lost>>

NInit ==
  /\ issued = 0 /\ outstanding = 0
  /\ saving = <<>> /\ row = 0 /\ saved = 0
  /\ answers = [a \in Reply |-> "none"]
  /\ stale = {} /\ lost = FALSE

ReplyAt(a, from, to) == answers[a] = from /\ answers' = [answers EXCEPT ![a] = to]

\* A new request replaces the one before, at the Hub too.
ConnectRequest ==
  /\ issued < MaxRequests /\ Len(saving) < MaxSaving
  /\ issued' = issued + 1 /\ outstanding' = issued + 1
  /\ saving' = Append(saving, issued + 1)
  /\ UNCHANGED <<row, saved, answers, stale, lost>>

\* savePendingRequest(), and the dashboard is shown the request.
Saved ==
  /\ saving # <<>> /\ saving' = Tail(saving)
  /\ row' = Head(saving) /\ saved' = Head(saving)
  /\ stale' = {a \in Reply : answers[a] \in {"heard", "clearing"}}
  /\ lost' = FALSE
  /\ UNCHANGED <<issued, outstanding, answers>>

\* The upsert is rejected: the request is neither kept nor shown.
SaveFails ==
  /\ saving # <<>> /\ saving' = Tail(saving)
  /\ UNCHANGED <<issued, outstanding, row, saved, answers, stale, lost>>

\* respondToRequest(), up to the rows agent-code and agent-uuid; whether there
\* is a row to answer is not looked at.
Respond(a) ==
  /\ ReplyAt(a, "none", "reading")
  /\ UNCHANGED <<issued, outstanding, saving, row, saved, stale, lost>>

\* Both rows are there, or the answer fails.
Identified(a) ==
  /\ ReplyAt(a, "reading", "fetching") \/ ReplyAt(a, "reading", "none")
  /\ UNCHANGED <<issued, outstanding, saving, row, saved, stale, lost>>

\* The Hub takes the answer for the request it waits for, or refuses it by its
\* HTTP status; the response is on its way.
HubHears(a) ==
  /\ ReplyAt(a, "fetching", "heard")
  /\ \/ outstanding' = 0 /\ stale' = stale \ {a}
     \/ UNCHANGED outstanding /\ stale' = stale \cup {a}
  /\ UNCHANGED <<issued, saving, row, saved, lost>>

\* Mutant: the row is deleted whether or not the Hub was reached.
FetchFailsUnnoticed(a) ==
  /\ ReplyAt(a, "fetching", "clearing")
  /\ UNCHANGED <<issued, outstanding, saving, row, saved, stale, lost>>

\* fetch() rejects, before or after the Hub has had the answer.
FetchFails(a) ==
  /\ ReplyAt(a, "fetching", "none") \/ ReplyAt(a, "heard", "none")
  /\ stale' = stale \ {a}
  /\ UNCHANGED <<issued, outstanding, saving, row, saved, lost>>

\* fetch() resolves whatever the status is, and the status is not looked at.
Resolves(a) ==
  /\ ReplyAt(a, "heard", "clearing")
  /\ UNCHANGED <<issued, outstanding, saving, row, saved, stale, lost>>

\* clearPendingRequest() deletes the row by its key, whichever request it has;
\* or is rejected.
Clear(a) ==
  /\ ReplyAt(a, "clearing", "none")
  /\ \/ row' = 0 /\ lost' = (lost \/ a \in stale)
     \/ UNCHANGED <<row, lost>>
  /\ stale' = stale \ {a}
  /\ UNCHANGED <<issued, outstanding, saving, saved>>

\* The process dies; the row stays.
NRestart ==
  /\ saving' = <<>>
  /\ answers' = [a \in Reply |-> "none"] /\ stale' = {}
  /\ UNCHANGED <<issued, outstanding, row, saved, lost>>

NNext ==
  \/ ConnectRequest \/ Saved \/ SaveFails
  \/ \E a \in Reply :
       Respond(a) \/ Identified(a) \/ HubHears(a) \/ FetchFails(a) \/ Resolves(a) \/ Clear(a)

NSpec == NInit /\ [][NNext]_nvars

-----------------------------------------------------------------------------

\* The variables have their types, and the row never names another request than
\* the last one that was saved.
NTypeOK ==
  /\ issued \in 0..MaxRequests
  /\ {outstanding, row, saved} \subseteq 0..issued
  /\ saving \in Seq(1..MaxRequests) /\ Len(saving) <= MaxSaving
  /\ answers \in [Reply -> {"none", "reading", "fetching", "heard", "clearing"}]
  /\ row \in {0, saved}
  /\ stale \subseteq Reply /\ lost \in BOOLEAN

\* A request that waits at the Hub and has reached the row stays in it, so that
\* the dashboard can answer it after a reload or a restart.  The row goes only
\* with an answer the Hub has taken for it, or with one that is not for it: an
\* answer whose response was on its way or which was deleting already when the
\* request was saved, or one the Hub refused by its status.
RequestKept ==
  outstanding # 0 /\ saved = outstanding => row = saved \/ lost
=============================================================================
