--------------------------- MODULE StoredRecords ---------------------------
(***************************************************************************)
(* The peers that the API reads beside the nodes they were stored for: the *)
(* functions of NodeRecord in a system that stores, updates and serves.    *)
(***************************************************************************)
EXTENDS QueryServer, NodeRecord

(* The functions of NodeRecord do not look at the state: they are compared *)
(* with their definitions once, before the crawler's first write.          *)
FirstWrite == writes = 0 /\ phase = "idle" /\ records = {}

(* What is stored of a node is what the node said: that it can be dialled, *)
(* its name, version and OS, how far it is behind, and its next fork       *)
(* (crawl.go, 176-183; util.go, 22-76; peer.go, 185-309;                   *)
(* marshallable_epoch.go, 15-47).                                          *)
RecordsTrue == FirstWrite => AllDialled /\ AgentDefinite /\ DistanceHonest /\ EpochSurvives
=============================================================================
