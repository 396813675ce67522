-------------------------- MODULE MCPoseGraphNode --------------------------
(* Small instances of PoseGraphNode for TLC: the .cfg file gives the values. *)
EXTENDS PoseGraphNode

CONSTANTS ImagesOfAnyStamp, AnyStamp

\* Any short stream; and one that goes on steadily after a gap, long enough for its second
\* session to get past the skipped matches and make a keyframe.
Explored ==
  \/ Len(camera) <= ImagesOfAnyStamp /\ \A n \in Images : Stamp(n) <= AnyStamp
  \/ /\ keys = 0 /\ ~overtaken
     /\ \A n \in Images : n > 1 => Stamp(n) = Stamp(n - 1) + IF n = 2 THEN Second + 1 ELSE 1
=============================================================================
