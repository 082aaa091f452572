---------------------------- MODULE HubRequests ----------------------------
(***************************************************************************)
(* The process of the agent with what the Hub asks of it beside services   *)
(* and tunnels: terminals (SshTerminal) and connect requests               *)
(* (ConnectRequests).  They share the event loop, so that their handlers   *)
(* take turns, and the process, which takes both down when it dies: the    *)
(* row of the connect request survives, the terminals do not.              *)
(***************************************************************************)
EXTENDS SshTerminal, ConnectRequests

vars == <<tvars, nvars>>

Init == TInit /\ NInit

\* The container of the agent is started again.
Restart == TRestart /\ NRestart

Next ==
  \/ TNext /\ UNCHANGED nvars
  \/ NNext /\ UNCHANGED tvars
  \/ Restart

\* The host answers or its connection breaks; a client that was ended closes.
Spec ==
  /\ Init /\ [][Next]_vars
  /\ \A c \in Client : WF_vars(Answer(c) /\ UNCHANGED nvars) /\ WF_vars(Gone(c) /\ UNCHANGED nvars)

-----------------------------------------------------------------------------
(* Properties; NoStrayClient, HubAgrees and TerminalAnswers of SshTerminal,  *)
(* RequestKept of ConnectRequests.                                         *)

\* The variables of both have their types, at every moment of the other.
TypeOK == TTypeOK /\ NTypeOK
=============================================================================
