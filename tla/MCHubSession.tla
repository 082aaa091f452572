---------------------------- MODULE MCHubSession ----------------------------
(* Small instances of HubSession for TLC.                                  *)
EXTENDS HubSession

EveryRefusal == {"deprecated_protocol_version", "unknown_protocol_version",
                 "invalid_signature", "registration_failed"}
=============================================================================
