-------------------------- MODULE MCServiceStatus --------------------------
(***************************************************************************)
(* Small instances of ServiceStatus.                                       *)
(***************************************************************************)
EXTENDS ServiceStatus

CONSTANTS web, api, h1, h2

Only(cmds) == [s \in Service |-> IF s = web THEN cmds ELSE {"SYNC_CONTAINER_STATUS"}]

Everything == Only(AllCommands)
Overlapping == Only({"DEPLOY", "START", "STOP", "DELETE_SERVICE"})
DeployAndDelete == Only({"DEPLOY"} \cup Deletes)

\* The container of web has a name that begins with "api-".
WebLooksLikeApi == {<<api, web>>}
=============================================================================
