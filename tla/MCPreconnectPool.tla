-------------------------- MODULE MCPreconnectPool --------------------------
(* Small instances of PreconnectPool for TLC.                              *)
EXTENDS PreconnectPool, TLC

SocketSymmetry == Permutations(Socket)

FatalOnly == {"fatal"}
AnyRejection == {"fatal", "retryable"}
=============================================================================
