----------------------------- MODULE Libraries -----------------------------
(* The algorithms the nodes call that have a specification with a proof: each *)
(* is an instance of its module, with variables of its own.                   *)
EXTENDS Integers, Sequences, FiniteSets

CONSTANTS
  W, Landmarks, MaxBetween, MinCorres, MinPoints,
  NumThreads, Size, Graphs,
  Ids, OldKeypoints, MIN_LOOP_NUM, Stamps, Second,
  MaxViews, MinViews, Corners,
  SCARAMUZZA_CAMERA_NUM_PARAMS

\* A window has frames, and images between them can be counted.
ASSUME WindowAssumption == W \in Nat \ {0} /\ MaxBetween \in Nat
\* Ids are given to landmarks by counting up, and there are finitely many by now.
ASSUME IdsAssumption == Ids \subseteq Nat /\ IsFiniteSet(Ids)
\* There is a thread; blocks have a size; every residual block is evaluated on
\* different parameter blocks, of which some are dropped.
ASSUME MarginAssumption ==
  /\ NumThreads \in Nat \ {0}
  /\ \A b \in DOMAIN Size : Size[b] \in Nat \ {0}
  /\ \A graph \in Graphs : \A f \in DOMAIN graph :
       /\ f \in Nat
       /\ \A i \in DOMAIN graph[f].blocks : graph[f].blocks[i] \in DOMAIN Size
       /\ graph[f].drop \subseteq DOMAIN graph[f].blocks
       /\ \A i, j \in DOMAIN graph[f].blocks : graph[f].blocks[i] = graph[f].blocks[j] => i = j
\* A chessboard has a number of corners.
ASSUME CalAssumption == Corners \in Nat
\* A camera has a number of parameters.
ASSUME CostAssumption == SCARAMUZZA_CAMERA_NUM_PARAMS \in Nat

VARIABLES
  sfmPc, pairs, headers, seen, ref, posed, at, support, keyOf, source, velocity,
  marginPc, factors, columns, pos, firstKept, saved, value, todo, sums, total, joining, kept,
  reloPc, stamp, listed, matched, status, inliers, message, messageStamp, reloHeaders, info,
  eligible, unvisited, retrive_feature_index, reloFactors, arbitrary,
  calPc, camera, views, poses, calFile, data, setsPut, node, session, sessionPc, cursor, setsDue,
  costPc, model, request, cost, read

Sfm == INSTANCE InitialStructure
Margin == INSTANCE Marginalization
Relo == INSTANCE Relocalization WITH headers <- reloHeaders, factors <- reloFactors
Cal == INSTANCE Calibration WITH file <- calFile
Costs == INSTANCE CostFunctions
-----------------------------------------------------------------------------
\* The properties of the five modules, each stated and explained in its own.

\* Structure from motion uses only poses it has computed (initial_sfm.cpp).
StructureSupported == Sfm!StructureSupported
\* A frame is started with its own velocity (estimator.cpp:421-429).
OwnVelocityWhileAllKeys == Sfm!OwnVelocityWhileAllKeys
\* A prior is the sum of the factors that gave it (marginalization_factor.cpp).
PriorOfItsFactors == Margin!PriorOfItsFactors
\* Each match of a relocalization constrains its landmark (keyframe.cpp, estimator.cpp).
EveryMatchConstrains == Relo!EveryMatchConstrains
\* A calibrated camera reaches the node that reads its file (CameraFactory.cc).
CalibrationReachesNode == Cal!CalibrationReachesNode
\* Residuals fit the blocks they are evaluated on (CostFunctionFactory.cc).
CostFunctionsFit == Costs!CostFunctionsFit
=============================================================================
