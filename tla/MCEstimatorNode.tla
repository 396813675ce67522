------------------------- MODULE MCEstimatorNode -------------------------
(* Small instances of EstimatorNode for TLC. *)
EXTENDS EstimatorNode

ThreeStamps == 1..3
FourStamps  == 1..4
FixedTd     == {0}
DriftingTd  == {0, 1}
=============================================================================
