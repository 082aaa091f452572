--------------------------- MODULE MCSignedEvents ---------------------------
(* Small instances of SignedEvents for TLC.                                *)
EXTENDS SignedEvents, TLC

MessageSymmetry == Permutations(Message)
=============================================================================
