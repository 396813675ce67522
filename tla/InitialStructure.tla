-------------------------- MODULE InitialStructure --------------------------
(* Initialisation of the estimator: the calibration of the extrinsic         *)
(* rotation, the search of a reference frame, the structure from motion of   *)
(* GlobalSFM::construct, the pose of every image since the oldest frame and  *)
(* the alignment with the IMU, in the order of Estimator::initialStructure.  *)
(* Poses and points are abstracted to where they come from: a landmark is    *)
(* known by the two frames it was triangulated from.                         *)
EXTENDS Integers, FiniteSets, Sequences, FiniteSetsExt

CONSTANTS
  W,           \* WINDOW_SIZE
  Landmarks,   \* 1..n, the positions in f_manager.feature
  MaxBetween,  \* bound: images that are in no frame of the window
  MinCorres,   \* correspondences relativePose asks for (20, 15 in solveRelativeRT)
  MinPoints    \* points solvePnP asks for (10 for a frame, 6 for an image)

VARIABLES
  sfmPc,      \* the statement initialStructure is at
  pairs,      \* InitialEXRotation::frame_count, counted up to WINDOW_SIZE
  headers,    \* Headers: the stamp of every frame of the window
  seen,       \* first and last frame of the window that observe a landmark
  ref,        \* l, the frame paired with the newest one
  posed,      \* frames of the window with a Pose
  at,         \* the frame or the image the current loop is at
  support,    \* frames a landmark was triangulated from, {} while state is false
  keyOf,      \* i, the frame the next key image is compared with
  source,     \* what the pose of an image of all_image_frame comes from
  velocity    \* the image whose velocity Vs holds, for every frame

vars == <<sfmPc, pairs, headers, seen, ref, posed, at, support, keyOf, source, velocity>>

Frames == 0..W
NoFrame == -1
Newest == headers[W]
\* The keys of all_image_frame: slideWindow has erased the ones before Headers[0].
Images == headers[0]..headers[W]
Observes(f, i) == seen[f].first <= i /\ i <= seen[f].last
Common(i, j) == {f \in Landmarks : Observes(f, i) /\ Observes(f, j)}
Tracked == {f \in Landmarks : support[f] # {}}

\* The windows initialStructure can find: images since the oldest frame, some
\* of them dropped from the window as second newest, landmarks in the order
\* they were first seen.
Windows == {h \in [Frames -> 0..(W + MaxBetween)] :
              h[0] = 0 /\ \A i \in 1..W : h[i - 1] < h[i]}
Sightings == {s \in [Landmarks -> [first : Frames, last : Frames]] :
                /\ \A f \in Landmarks : s[f].first <= s[f].last
                /\ \A f, g \in Landmarks : f < g => s[f].first <= s[g].first}

Init ==
  /\ sfmPc = "window"
  /\ pairs = 0
  /\ headers = [i \in Frames |-> 0]
  /\ seen = [f \in Landmarks |-> [first |-> 0, last |-> 0]]
  /\ ref = NoFrame
  /\ posed = {}
  /\ at = 0
  /\ support = [f \in Landmarks |-> {}]
  /\ keyOf = 0
  /\ source = <<>>
  /\ velocity = [i \in Frames |-> NoFrame]

Goto(pc) == sfmPc' = pc
Failed == Goto("failed") /\ at' = at

\* processImage with a full window; ESTIMATE_EXTRINSIC is 2, or it is not.
FullWindow ==
  /\ sfmPc = "window"
  /\ headers' \in Windows
  /\ seen' \in Sightings
  /\ source' = [m \in headers'[0]..headers'[W] |-> "none"]
  /\ \/ Goto("calibrate")
     \/ Goto("relativePose")
  /\ UNCHANGED <<pairs, ref, posed, at, support, keyOf, velocity>>

\* CalibrationExRotation: one rotation pair for an image; solveRelativeR gives
\* the identity when there are too few correspondences, and the pair counts
\* all the same. The singular value that shows enough rotation is an outcome.
CalibrationExRotation ==
  /\ sfmPc = "calibrate"
  /\ pairs' = Min({pairs + 1, W})
  /\ \/ Goto("calibrate")
     \/ pairs' >= W /\ Goto("relativePose")
  /\ UNCHANGED <<headers, seen, ref, posed, at, support, keyOf, source, velocity>>

\* relativePose: the oldest frame with enough correspondences and parallax with
\* the newest one whose relative motion can be solved.
RelativePose ==
  /\ sfmPc = "relativePose"
  /\ \/ \E l \in 0..(W - 1) :
          /\ Cardinality(Common(l, W)) >= MinCorres
          /\ ref' = l
          /\ at' = l
          /\ posed' = {l, W}
          /\ Goto("forward")
     \/ Failed /\ UNCHANGED <<ref, posed>>
  /\ UNCHANGED <<pairs, headers, seen, support, keyOf, source, velocity>>

\* triangulateTwoFrames: landmarks both frames observe and none has given yet.
Triangulated(i, j) ==
  [f \in Landmarks |-> IF support[f] = {} /\ f \in Common(i, j) THEN {i, j} ELSE support[f]]

\* The landmarks solveFrameByPnP can use for frame i.
Usable(i) == {f \in Tracked : Observes(f, i)}
SolveFrameByPnP(i) == Cardinality(Usable(i)) >= MinPoints /\ posed' = posed \cup {i}

\* The loop from l to the newest frame: a pose from the landmarks known so far,
\* then landmarks from this frame and the newest.
Forward ==
  /\ sfmPc = "forward"
  /\ at < W
  /\ \/ /\ IF at = ref THEN posed' = posed ELSE SolveFrameByPnP(at)
        /\ support' = Triangulated(at, W)
        /\ at' = at + 1
        /\ Goto("forward")
     \/ at > ref /\ Failed /\ UNCHANGED <<posed, support>>
  /\ UNCHANGED <<pairs, headers, seen, ref, keyOf, source, velocity>>

ForwardDone ==
  /\ sfmPc = "forward"
  /\ at = W
  /\ at' = ref + 1
  /\ Goto("across")
  /\ UNCHANGED <<pairs, headers, seen, ref, posed, support, keyOf, source, velocity>>

\* Landmarks of l and each later frame.
Across ==
  /\ sfmPc = "across"
  /\ IF at < W
       THEN /\ support' = Triangulated(ref, at)
            /\ at' = at + 1
            /\ Goto("across")
       ELSE /\ support' = support
            /\ at' = ref - 1
            /\ Goto("backward")
  /\ UNCHANGED <<pairs, headers, seen, ref, posed, keyOf, source, velocity>>

\* The loop from l down to the oldest frame.
Backward ==
  /\ sfmPc = "backward"
  /\ at >= 0
  /\ \/ /\ SolveFrameByPnP(at)
        /\ support' = Triangulated(at, ref)
        /\ at' = at - 1
        /\ Goto("backward")
     \/ Failed /\ UNCHANGED <<posed, support>>
  /\ UNCHANGED <<pairs, headers, seen, ref, keyOf, source, velocity>>

\* Mutant: the rest is triangulated while frames before l have no pose.
PosesDoneEarly == TRUE
\* The frame the loops over poses must have come to before the rest is triangulated.
PosesDone == at < 0

\* All other landmarks, from the first and the last frame that observe them.
Remaining ==
  [f \in Landmarks |-> IF support[f] = {} /\ seen[f].first < seen[f].last
                         THEN {seen[f].first, seen[f].last} ELSE support[f]]

TriangulateRemaining ==
  /\ sfmPc = "backward"
  /\ PosesDone
  /\ support' = Remaining
  /\ Goto("adjust")
  /\ UNCHANGED <<pairs, headers, seen, ref, posed, at, keyOf, source, velocity>>

\* The frames whose poses full bundle adjustment reads: every observation of a
\* tracked landmark is a residual.
Adjusted == {i \in Frames : \E f \in Tracked : Observes(f, i)}

\* Bundle adjustment over the rotations and translations of all frames; its
\* convergence (or a cost below 5e-3) is an outcome.
BundleAdjustment ==
  /\ sfmPc = "adjust"
  /\ \/ Goto("images") /\ at' = headers[0]
     \/ Failed
  /\ UNCHANGED <<pairs, headers, seen, ref, posed, support, keyOf, source, velocity>>

\* A key image takes the pose of its frame and moves on to the next frame.
KeyImage ==
  /\ at = headers[keyOf]
  /\ source' = [source EXCEPT ![at] = "frame"]
  /\ keyOf' = keyOf + 1
  /\ at' = at + 1
  /\ Goto("images")

\* Another image is posed by PnP on the tracked landmarks among its points,
\* starting from the frame's pose; the points it has are an input.
OtherImage ==
  /\ at # headers[keyOf]
  /\ LET next == IF at > headers[keyOf] THEN keyOf + 1 ELSE keyOf
     IN  /\ keyOf' = next
         /\ \/ \E points \in SUBSET Landmarks :
                 /\ Cardinality(points \cap Tracked) >= MinPoints
                 /\ source' = [source EXCEPT ![at] = "pnp"]
                 /\ at' = at + 1
                 /\ Goto("images")
            \/ Failed /\ source' = source

PoseImages ==
  /\ sfmPc = "images"
  /\ at <= Newest
  /\ KeyImage \/ OtherImage
  /\ UNCHANGED <<pairs, headers, seen, ref, posed, support, velocity>>

KeyImages == {m \in Images : source[m] = "frame"}

\* The images in the order of the map: the velocity at 3 * kv of the solution of
\* LinearAlignment, which has three entries for each of them.
VelocityAt(kv) == headers[0] + kv

\* Mutant: kv counts the image itself.
KeyIndexFromOne(m) == Cardinality({n \in KeyImages : n <= m})
\* kv of a key image: the number of key images before it.
KeyIndex(m) == Cardinality({n \in KeyImages : n < m})

\* visualInitialAlign: the gyroscope bias, the linear alignment and the
\* refinement of gravity; a wrong gravity or a negative scale ends it.
VisualInitialAlign ==
  /\ sfmPc = "images"
  /\ at > Newest
  /\ \/ /\ velocity' = [i \in Frames |-> VelocityAt(KeyIndex(headers[i]))]
        /\ Goto("done")
     \/ Goto("failed") /\ velocity' = velocity
  /\ UNCHANGED <<pairs, headers, seen, ref, posed, at, support, keyOf, source>>

Next ==
  \/ FullWindow \/ CalibrationExRotation \/ RelativePose \/ Forward \/ ForwardDone
  \/ Across \/ Backward \/ TriangulateRemaining \/ BundleAdjustment
  \/ PoseImages \/ VisualInitialAlign

Spec == Init /\ [][Next]_vars
-----------------------------------------------------------------------------
\* No landmark is triangulated from a Pose that has not been computed, and none
\* from a frame that does not observe it: construct poses and triangulates in
\* turns, and Pose is an uninitialised array (initial_sfm.cpp:143, 160-219). Every
\* frame bundle adjustment read has a pose by then, and when the IMU is aligned so
\* has every image; the frames are exactly the key images, so that
\* all_image_frame[Headers[i]] never inserts, and Headers is not read past its
\* last frame (estimator.cpp:302-320).
StructureSupported ==
  /\ \A f \in Tracked : support[f] \subseteq posed /\ \A i \in support[f] : Observes(f, i)
  /\ sfmPc \in {"images", "done"} => posed = Frames /\ Adjusted \subseteq posed
  /\ sfmPc = "images" /\ at <= Newest => keyOf \in Frames
  /\ sfmPc = "done" => /\ KeyImages = {headers[i] : i \in Frames}
                       /\ \A m \in Images : source[m] # "none"

\* A frame is started with its own velocity unless an image that is in no frame
\* comes before it: visualInitialAlign numbers key images only, LinearAlignment
\* solves for all of them (estimator.cpp:421-429).
OwnVelocityWhileAllKeys ==
  sfmPc = "done" =>
    \A i \in Frames : headers[i] = i => velocity[i] = headers[i]
=============================================================================
