---------------------------- MODULE MCServiceLogs ----------------------------
(* ServiceLogs on a small instance. *)
EXTENDS ServiceLogs, TLC

\* The processes are interchangeable.
Symmetry == Permutations(Follower)
=============================================================================
