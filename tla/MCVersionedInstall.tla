------------------------- MODULE MCVersionedInstall -------------------------
(* One version with a shared App Server and two with worker units. *)
EXTENDS VersionedInstall
CONSTANTS v1, v2, v3
MCVersions == {v1, v2, v3}
MCWorkerVersions == {v2, v3}
=============================================================================
