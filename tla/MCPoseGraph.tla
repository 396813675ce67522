----------------------------- MODULE MCPoseGraph -----------------------------
(* Small instances of PoseGraph for TLC: the .cfg files give all values. *)
EXTENDS PoseGraph
=============================================================================
