--------------------------- MODULE MCSyncDataPort ---------------------------
(* SyncDataPort with the constants of the runs.                            *)
EXTENDS SyncDataPort

AllKinds == {"silent", "closes", "huge", "empty", "foreign", "old",
             "speaks", "leaves", "seals", "garbled"}
=============================================================================
