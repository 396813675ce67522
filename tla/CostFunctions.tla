---------------------------- MODULE CostFunctions ----------------------------
(* CostFunctionFactory: for a camera and a set of flags, the functor that    *)
(* compares a projected point with an observed one, and the parameter blocks *)
(* it is evaluated on. A block is known by its name and its size; evaluating *)
(* a functor is the list of what it reads of its blocks and of its members.  *)
EXTENDS Integers, Sequences, FiniteSets

CONSTANT SCARAMUZZA_CAMERA_NUM_PARAMS   \* 30

VARIABLES
  costPc,    \* "request", "generated" or "evaluated"
  model,     \* modelType of the camera
  request,   \* the overload of generateCostFunction, its flags, optimize_cam_odo_z
  cost,      \* the cost function: functor, its camera class, members, blocks
  read       \* what evaluating it reads

costVars == <<costPc, model, request, cost, read>>

Models == {"KANNALA_BRANDT", "PINHOLE", "MEI", "SCARAMUZZA"}
Class == [KANNALA_BRANDT |-> "EquidistantCamera", PINHOLE |-> "PinholeCamera",
          MEI |-> "CataCamera", SCARAMUZZA |-> "OCAMCamera"]
\* Size of the vector a class's spaceToPlane takes, parameterCount of its camera.
Intrinsics(class) ==
  CASE class = "CataCamera" -> 9 [] class = "OCAMCamera" -> SCARAMUZZA_CAMERA_NUM_PARAMS [] OTHER -> 8

Block(name, size) == [name |-> name, size |-> size]
\* The template arguments of AutoDiffCostFunction after the number of residuals:
\* the blocks of every flag, in the order intrinsics, camera, odometry, point.
Blocks(m, flags, z) ==
  LET If(flag, blocks) == IF flag \in flags THEN blocks ELSE <<>>
  IN  If("CAMERA_INTRINSICS", <<Block("intrinsics", Intrinsics(Class[m]))>>)
        \o If("CAMERA_POSE", <<Block("q", 4), Block("t", 3)>>)
        \o If("CAMERA_ODOMETRY_TRANSFORM", <<Block("q_cam_odo", 4), Block("t_cam_odo", IF z THEN 3 ELSE 2)>>)
        \o If("ODOMETRY_3D_POSE", <<Block("p_odo", 2), Block("att_odo", 1)>>)
        \o If("ODOMETRY_6D_POSE", <<Block("p_odo", 3), Block("att_odo", 3)>>)
        \o If("POINT_3D", <<Block("point", 3)>>)

\* A cost function over the blocks of the flags; members are those its
\* constructor sets, useZ is m_optimize_cam_odo_z, true in most constructors.
Cost(functor, class, members, useZ, m, flags, z) ==
  [functor |-> functor, class |-> class, members |-> members, useZ |-> useZ, blocks |-> Blocks(m, flags, z)]

CameraFlags == {"CAMERA_INTRINSICS", "CAMERA_POSE"}
Transform == "CAMERA_ODOMETRY_TRANSFORM"
Pose6 == {Transform, "ODOMETRY_6D_POSE"}
Pose3 == {Transform, "ODOMETRY_3D_POSE"}

\* Observed 3D and 2D point: the calibration's own request, for which the
\* Scaramuzza camera has a functor of its own, and odometry poses.
FromPoint(m, flags, z) ==
  IF flags = CameraFlags
    THEN Cost(IF m = "SCARAMUZZA" THEN "ComprehensionError" ELSE "ReprojectionError1",
              Class[m], {"precision"}, TRUE, m, flags, z)
    ELSE Cost("ReprojectionError1", Class[m], {"intrinsics"}, TRUE, m, flags, z)

\* The same with a precision matrix.
FromWeightedPoint(m, flags, z) == Cost("ReprojectionError1", Class[m], {"precision"}, TRUE, m, flags, z)

\* Observed 2D point: camera pose and 3D point.
FromPixelAndPose(m, flags, z) == Cost("ReprojectionError2", Class[m], {"intrinsics"}, TRUE, m, flags, z)

\* The class the cases of KANNALA_BRANDT name when the z of the transform is not
\* optimised is PinholeCamera.
OdometryClass(m, z) == IF m = "KANNALA_BRANDT" /\ ~z THEN "PinholeCamera" ELSE Class[m]
OdometryFunctor(members, m, flags, z) ==
  Cost("ReprojectionError3", OdometryClass(m, z), members, TRUE, m, flags, z)

\* Mutant: a constructor leaves the intrinsics unset.
FromPixelUnset(m, flags, z) == OdometryFunctor({"precision"}, m, flags, z)
\* Observed 2D point, camera in the odometry's frame, known intrinsics.
FromPixelAndOdometry(m, flags, z) == OdometryFunctor({"intrinsics", "precision"}, m, flags, z)
\* The same with intrinsics to optimise.
FromPixelWithIntrinsics(m, flags, z) == OdometryFunctor({"precision"}, m, flags, z)
\* Both with a precision matrix.
FromWeightedPixel(m, flags, z) ==
  OdometryFunctor(IF "CAMERA_INTRINSICS" \in flags THEN {"precision"} ELSE {"intrinsics", "precision"},
                  m, flags, z)
\* Known odometry: the only constructor that takes optimize_cam_odo_z.
FromOdometry(m, flags, z) ==
  Cost("ReprojectionError3", Class[m], {"intrinsics", "odometry"}, z, m, flags, z)
\* Known odometry and camera in its frame.
FromCameraAndOdometry(m, flags, z) ==
  Cost("ReprojectionError3", Class[m], {"intrinsics", "odometry", "transform"}, TRUE, m, flags, z)
\* Two cameras of one model, which are the two of a pair.
Stereo(m) ==
  [functor |-> "StereoReprojectionError", class |-> Class[m], members |-> {}, useZ |-> TRUE,
   blocks |-> <<Block("intrinsics", Intrinsics(Class[m])), Block("intrinsics", Intrinsics(Class[m])),
                Block("q", 4), Block("t", 3), Block("q", 4), Block("t", 3)>>]

\* The overloads and the flags each has a case for; others give no cost function.
Point == {"POINT_3D"}
Cases == [FromPoint |-> {CameraFlags, Pose6},
          FromWeightedPoint |-> {CameraFlags},
          FromPixelAndPose |-> {{"CAMERA_POSE"} \cup Point},
          FromPixelAndOdometry |-> {Pose3 \cup Point, Pose6 \cup Point},
          FromPixelWithIntrinsics |-> {{"CAMERA_INTRINSICS"} \cup Pose3 \cup Point,
                                       {"CAMERA_INTRINSICS"} \cup Pose6 \cup Point},
          FromWeightedPixel |-> {Pose6 \cup Point, {"CAMERA_INTRINSICS"} \cup Pose6 \cup Point},
          FromOdometry |-> {{Transform} \cup Point},
          FromCameraAndOdometry |-> {Point},
          Stereo |-> {{}}]
Requests == UNION {{[overload |-> o, flags |-> f, z |-> z] : f \in Cases[o], z \in BOOLEAN} : o \in DOMAIN Cases}

Generated(r, m) ==
  CASE r.overload = "FromPoint" -> FromPoint(m, r.flags, r.z)
    [] r.overload = "FromWeightedPoint" -> FromWeightedPoint(m, r.flags, r.z)
    [] r.overload = "FromPixelAndPose" -> FromPixelAndPose(m, r.flags, r.z)
    [] r.overload = "FromPixelAndOdometry" -> FromPixelAndOdometry(m, r.flags, r.z)
    [] r.overload = "FromPixelWithIntrinsics" -> FromPixelWithIntrinsics(m, r.flags, r.z)
    [] r.overload = "FromWeightedPixel" -> FromWeightedPixel(m, r.flags, r.z)
    [] r.overload = "FromOdometry" -> FromOdometry(m, r.flags, r.z)
    [] r.overload = "FromCameraAndOdometry" -> FromCameraAndOdometry(m, r.flags, r.z)
    [] r.overload = "Stereo" -> Stereo(m)

NoCost == [functor |-> "none"]
NoRequest == [overload |-> "none"]
CostInit ==
  /\ costPc = "request"
  /\ model = "none"
  /\ request = NoRequest
  /\ cost = NoCost
  /\ read = [blocks |-> <<>>, members |-> {}]

GenerateCostFunction ==
  /\ costPc = "request"
  /\ model' \in Models
  /\ request' \in Requests
  /\ cost' = Generated(request', model')
  /\ costPc' = "generated"
  /\ UNCHANGED read

Reads(blocks, members) == [blocks |-> blocks, members |-> members]
InQT == <<Block("q", 4), Block("t", 3)>>
\* What worldToCameraTransform reads of its four arguments.
WorldToCameraTransform(useZ) ==
  <<Block("q_cam_odo", 4), Block("t_cam_odo", IF useZ THEN 3 ELSE 2), Block("p_odo", 3), Block("att_odo", 3)>>

\* The operators of the functors: the overload is the one that takes as many
\* arrays as there are blocks.
ReprojectionError1(c) ==
  IF Len(c.blocks) = 3
    THEN Reads(<<Block("intrinsics", Intrinsics(c.class))>> \o InQT, {"precision"})
    ELSE Reads(WorldToCameraTransform(TRUE), {"intrinsics"})
ReprojectionError2(c) == Reads(InQT \o <<Block("point", 3)>>, {"intrinsics"})
ReprojectionError3(c) ==
  LET all == WorldToCameraTransform(c.useZ)
      point == <<Block("point", 3)>>
      n == Len(c.blocks)
  IN  CASE n = 6 -> Reads(<<Block("intrinsics", Intrinsics(c.class))>> \o all \o point, {"precision"})
        [] n = 5 -> Reads(all \o point, {"intrinsics", "precision"})
        [] n = 3 -> Reads(SubSeq(all, 1, 2) \o point, {"intrinsics", "odometry"})
        [] n = 1 -> Reads(point, {"intrinsics", "odometry", "transform"})
StereoReprojectionError(c) ==
  LET intrinsics == <<Block("intrinsics", Intrinsics(c.class))>>
  IN  Reads(intrinsics \o intrinsics \o InQT \o InQT, {})
ComprehensionError(c) == Reads(<<Block("intrinsics", Intrinsics(c.class))>> \o InQT, {"precision"})

Evaluated(c) ==
  CASE c.functor = "ReprojectionError1" -> ReprojectionError1(c)
    [] c.functor = "ReprojectionError2" -> ReprojectionError2(c)
    [] c.functor = "ReprojectionError3" -> ReprojectionError3(c)
    [] c.functor = "StereoReprojectionError" -> StereoReprojectionError(c)
    [] c.functor = "ComprehensionError" -> ComprehensionError(c)
Evaluate ==
  /\ costPc = "generated"
  /\ read' = Evaluated(cost)
  /\ costPc' = "evaluated"
  /\ UNCHANGED <<model, request, cost>>

CostNext == GenerateCostFunction \/ Evaluate
CostSpec == CostInit /\ [][CostNext]_costVars
-----------------------------------------------------------------------------
\* Evaluated, a cost function reads each of its blocks as what the flags say it
\* is and not past its end, reads no member its constructor left unset, and
\* projects with the camera's own model. Left out are the requests for which the
\* code does not: with the z of the transform not optimised (the pinhole class
\* for KANNALA_BRANDT, and a third component read of a block of two), and with a
\* planar odometry pose (three components read of blocks of two and one); the
\* calibration asks for neither (CostFunctionFactory.cc:57-482, 501-1206).
CostFunctionsFit ==
  costPc = "evaluated" /\ request.z /\ "ODOMETRY_3D_POSE" \notin request.flags =>
    /\ Len(read.blocks) = Len(cost.blocks)
    /\ \A i \in DOMAIN cost.blocks : /\ read.blocks[i].name = cost.blocks[i].name
                                     /\ read.blocks[i].size <= cost.blocks[i].size
    /\ read.members \subseteq cost.members
    /\ cost.class = Class[model]
=============================================================================
