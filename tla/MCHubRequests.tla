--------------------------- MODULE MCHubRequests ---------------------------
(* HubRequests on a small instance. *)
EXTENDS HubRequests
=============================================================================
