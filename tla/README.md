# Verification of VINS-MONO-ROS2

TLA+ models of the visual-inertial odometry system in this repository, the TLC runs that
check them on small instances, and TLAPS proofs of what holds for every instance. The
models are translated from the C++ sources under `src/`; each definition and the lines it
stands for are listed under `map` in `PROJECT.json`.

## 1. The system

```
 camera ──image──► feature_tracker ──features, restart──► vins_estimator ◄──imu── IMU
    │                                                        │      ▲
    │                                   keyframe pose, points│      │match_points
    └───────────────image───────────────► pose_graph ◄───────┘      │ (relocalization)
                                             └──────────────────────┘

 vins_estimator ──odometry──► benchmark_publisher      ──camera_pose, points──► ar_demo
 intrinsic_calib ──camera YAML──► every node above      DBoW vocabulary and database ◄── pose_graph
 dataset_e2e.py starts tracker and estimator, a monitor and the bag player
```

| Component | State it keeps | Operations | Module |
|---|---|---|---|
| feature tracker (`feature_tracker.cpp`, `feature_tracker_node.cpp`) | parallel vectors of points, ids, track counts, velocities; rate counters | `img_callback`: discontinuity, rate control, optical flow, F-matrix rejection, mask, new corners, ids, publication | `FeatureTracker`, abstract `TrackStream` |
| estimator node (`estimator_node.cpp`) | IMU, feature and relocalization buffers, batch, integration time, prediction | IMU, feature, restart and relocalization callbacks; `getMeasurements`; `process`; `predict`/`update`; end of `main` | `EstimatorNode`, abstract `MeasurementFusion` |
| estimator window (`estimator.cpp`, `feature_manager.cpp`) | frames, pre-integrations, landmarks, `all_image_frame`, prior, relocalization frame | `processIMU`, `processImage`, `optimization`, `slideWindow`, `setReloFrame`, `clearState` | `SlidingWindow` |
| initialisation (`initialStructure`, `initial_sfm.cpp`, `initial_aligment.cpp`) | poses of frames and images, points, velocities | `relativePose`, `GlobalSFM::construct`, PnP of the other images, `visualInitialAlign` | `InitialStructure` |
| marginalization (`marginalization_factor.cpp`) | factors, layout of the columns, sums of the threads, kept blocks | `addResidualBlockInfo`, `preMarginalize`, `marginalize`, `getParameterBlocks` | `Marginalization` |
| fast relocalization (`keyframe.cpp`, `estimator.cpp`) | the six vectors of a match, the message, `match_points` | `findConnection`, `PnPRANSAC`, `setReloFrame`, the loop of `optimization` | `Relocalization` |
| pose graph (`pose_graph.cpp`, `keyframe.cpp`) | keyframe list, loop queue, drift, sequence frames, paths | add and load keyframes, detect loops, optimise in four degrees of freedom, update paths, fast relocalization | `PoseGraph` |
| pose graph node (`pose_graph_node.cpp`) | image, pose and point buffers, sequence counter, skip counters | callbacks, matching in `process`, `new_sequence` by gap or key | `PoseGraphNode` |
| place recognition (`TemplatedVocabulary.h`, `TemplatedDatabase.h`, `ScoringObject.cpp`) | tree of clusters, words and weights; inverted and direct file | `create`, `transform`, `save`, `load`, copy; `add`, `delete_entry`, `query` | `Vocabulary`, `Database` |
| cameras and calibration (`camera_model`) | intrinsics as members, vector and file; chessboards; cost functions | `calibrate`, `optimize`, `writeParams`, `CameraFactory`, `CostFunctionFactory` | `Calibration`, `CostFunctions` |
| AR demo | image buffer, cube | image, pose and point callbacks | `ArDemo` |
| benchmark publisher | rows, index, base | `main`, `odom_callback` | `BenchmarkPublisher` |
| dataset runner (`dataset_e2e.py`, `dataset_e2e_monitor.py`) | processes, counters, result file | `run`, `wait_for_nodes`, `cleanup_process`, the monitor's callbacks | `DatasetRunner` |

Components interact by ROS topics (lossless in order per topic, in no order between
topics) and, inside a node, by shared memory: the estimator node has a spin thread and a
process thread with `m_buf`, `m_state`, `m_estimator` and the condition variable `con`;
the pose graph node has a spin thread, a matching thread, a keyboard thread and the
optimisation thread with `m_buf`, `m_process`, `m_keyframelist`, `m_optimize_buf`,
`m_path` and `m_drift`.

What is hard in this code, and listed line by line under `hazards`:

- a restart from the tracker arrives while the process thread works on older messages;
- `getMeasurements` walks two queues with tests on stamps only, and blocks on a condition
  variable that callbacks and the end of `main` notify;
- five structures of the window are shifted by different functions on every frame;
- parallel vectors of the tracker are reduced, sorted and extended one by one;
- the pose graph announces a keyframe to two threads before it is in the list, and writes
  some of its shared variables without a lock;
- three topics are matched by stamp while a new sequence empties the buffers;
- arrays are filled from both ends, lists are erased while they are walked, vectors that
  must agree are written and read by different functions, in the initial structure, the
  database, the vocabulary, a relocalization and the cameras;
- the runner must judge and clean up after processes that may die at any moment.

## 2. Modules

**EstimatorNode.** Each action is one critical section, or one iteration of a loop that the
other thread can interleave with. `spin` and `proc` are the program counters of the two
threads. `ImuCallback` is the section under `m_buf` with the out-of-order guard,
`Predict` the one under `m_state`; the restart callback is three actions because it takes
`m_buf`, `m_estimator` and (by assignment) the reference of the guard one after the other.
The wait predicate (`EvaluatePredicate` to `ReturnMeasurements`) holds `m_buf` throughout:
what it pops from `imu_buf` and `feature_buf` is what the code pops, `Block` gives the lock
up atomically, and `SpuriousWakeup` is the environment's. `accepted`, `fed`, `fused` and
`stale` are history. The estimator inside is reduced to `solver_flag`, `td` and the
outcomes of `processImage`. Stamps are small naturals: every branch of the node compares
stamps. The periodic status timer only logs and is left out.

**MeasurementFusion** is the sequential promise behind it: samples arrive in order, images
are fused in order, each with exactly the samples up to it. `EstimatorNode` implements it
(`samples <- accepted, fusion <- fused`) as long as there is no restart.

**SlidingWindow.** Frames are stamps, a pre-integration is the set of image intervals it
covers, an observation is the stamp of its image, a block of the prior is a kind, an index
and the stamp of the frame it was linearised for. With that, "aligned" can be stated and
every shift, merge and erase of the code can break it. `FlagsAllowed` gives the
marginalization flags the parallax test can choose; solver results, triangulation and the
initial structure are outcomes (`Initialized`, `NotInitialized`, `FailureDetected`,
`failed`).

**FeatureTracker.** A point is the number of its track; losses, rejections, masks and
detections are nondeterministic, the vectors are handled as the code handles them.
**TrackStream** is what the estimator relies on, a feature that a message leaves out never
returns, and stamps do not go back without a restart; `FeatureTracker` implements it.

**PoseGraph.** The adding thread goes through `connect`, `shift`, `push` and `insert`, with
the optimiser's `TakeLoop`, `BuildProblem`, `UpdatePoses` and `UpdatePath` between any two.
A pose is remembered by what it was computed with (a drift, a solution) and by the odometry
pose it was computed from (`from`), an odometry pose by the loop its sequence was shifted
with (`vio`), so that two poses that ought to fit together can be compared without numbers.
The shift of a sequence takes no lock: `ShiftKeyFrame` is half an `updateVioPose` of one
keyframe, and between two of them the optimiser may build its `problem` from odometry poses
that are shifted, not shifted or half written (`Half`), and write the poses found from it. `detectLoop` works on the
results of an external database query. The constant `EmptySequences` says whether a new
sequence may begin before the last one has a keyframe.

**PoseGraphNode.** A message is the number of its image; camera, tracker and estimator are
the environment, their stamps may jump forwards and back, and any topic may be late. The
history variable `overtaken` records that a keyframe's message came before its image.

**InitialStructure** is `initialStructure` as a sequence of loops: the search for a
reference frame, the passes of `GlobalSFM::construct`, the pose of every image since the
oldest frame, and the velocities that `visualInitialAlign` starts from. A landmark is known
by the two frames it was triangulated from, a pose by what it was computed from; whether a
PnP, the adjustment or the alignment succeeds is an outcome. `KeyIndex` is what
`estimator.cpp:427` reads: it numbers key images only, while the solution has a velocity
for every image. After an image that is in no frame of the window the frames therefore
start with another's velocity, which `OwnVelocityWhileAllKeys` leaves out.

**Marginalization.** Each thread takes one factor at a time, so threads interleave; an entry
of the matrix is the sequence of factors added to it. The maps are unordered: the loops
that lay out columns (`LayOutDropped`, `LayOutOther`, one block a step) and
`GetParameterBlocks` may meet their keys in any order, each time another. The residual
graphs are a constant.

**Relocalization** joins a keyframe's points, the matches and inliers of `findConnection`,
the message and the factors of `optimization`. A stamp counts nanoseconds, because the
message's stamp is made from one that counts seconds (`MessageStamp`). The loop of
`optimization` visits one landmark a step, in the order of `f_manager.feature` (`listed`).
That order need not be the one of the ids: `removeFailures` erases a landmark that is still
tracked, and its next observation appends it behind greater ones, so `Orders` admits every
order. The loop compares ids all the same and can walk past a match, and
`EveryMatchConstrains` says past which. Reading past the end of `match_points` is a
nondeterministic outcome, kept apart in `arbitrary`.

**Vocabulary, Database.** A descriptor is a set of bits, k-means runs on it as the code
does, weights are abstracted to `N - Ni`, zero for the same words and in the same order as
the logarithm. The database's queries are translated piece by piece as the code sums them,
and compared with the scores of `ScoringObject.cpp`, translated from that file.
`Fraction`, `Sqrt` and `Divergence` stand for the real functions: query and score must
agree whatever they are. What the model keeps of the code's own ways: `operator=` ends with
`setVocabulary`, which clears what was just copied, so that an assigned database is empty;
`load` restores no `m_dBowfile`, so a loaded entry that is deleted stays in the inverted
file for good (`removed` and `deleted` differ); saving after `allocate` gives a file whose
loading trips the assertion at line 1326; `delete_entry` without the direct index reads past
its end.

**Calibration, CostFunctions.** A value is known by the parameter it belongs to and where it
comes from, so that an exchange of two parameters anywhere between estimate, vector, file
and the node's camera shows. The data file is a sequence of integers, written and read set
by set with a cursor. `CostFunctions` has every overload with its blocks, the class
and members it sets, and what its functor reads. It fits everywhere but in requests the
program never makes: KANNALA_BRANDT without the transform's z builds `PinholeCamera`
functors (`CostFunctionFactory.cc:664`, 725, 786, 847, 926, 987), `worldToCameraTransform`
reads a third component of a block of two, and with a planar odometry pose three of blocks
of two and one. The factory compares `model_type` regardless of case and
`readFromYamlFile` exactly: a file with another case gives a camera of zeros.

**ArDemo, BenchmarkPublisher, DatasetRunner.** Each is a node or script with its
environment. Images and poses of the AR demo reach it in any order between topics; reading
`front()` of the emptied buffer ends the node or goes on. The stream's stamps go forward or
jump back, which starts a new session of tracker and estimator; `img_buf` is not emptied
then, and `DrawnWithItsPose` says which wrong pairs this gives. The benchmark publisher's
last row is lost without a final newline; index and base outlive the restart of the
estimator. The runner's processes may end, be killed or be interrupted at every step, a
deadline may pass whenever the code looks at it. `dsm-client prepare-run` (line 154) and
`ros2 node list` (272) are waited for without one: `CallReturns` is an action of the
environment that need not come. A step of `finally` that raises leaves its own process and
the later ones running (`LeftBy`), and may leave an earlier run's `PASS` file, which
`PassIsEvidence` tells from this run's.

The `MC...` modules supply constants for TLC. `Libraries` instantiates the five algorithms
that are proved about, with the assumptions on their constants; `MCLibraries` extends it
by `Vocabulary` and `Database`, whose recursive operators no proof can reach, and by the
small residual graphs, trainings and words. `MCLibraries` and `MCOuterNodes` hold several
specifications that share no variable: the variable `part` picks one for a behaviour, and
the variables of the others keep their first value, which is the same in every behaviour.
The state space is the sum of the parts, as if each had a run of its own. Definitions
marked "Mutant" are the plausible bugs listed under `mutants`; the specifications do not
use them.

## 3. Runs

| Run | Checks | Shows |
|---|---|---|
| `estimator_restart` | `TypeOK` `FrontDefined` `SessionBuffer` `TimeAdvancesUnlessStale` `IntegratedOnce` `PredictionComplete` | with a restart and a moving `td`: front() is never called on an empty buffer, the buffer holds the running session, integration goes forward and uses no sample twice, the prediction misses none |
| `estimator_fusion` | `FusesInOrder` `ImageServed` | refinement of `MeasurementFusion`; no wake-up is lost |
| `estimator_shutdown` | `ShutdownCompletes` (violated) | finding 1 |
| `estimator_stale_batch` | `TimeAdvances` (violated) | finding 2 |
| `window` | `FeaturesAligned` `ImuFactorsSpan` `LookupsSucceed` `PriorAligned` `RelocalizationAligned` | alignment over every sequence of flags, failures, resets; when a stale stamp can be matched |
| `tracker` | `VectorsAligned` `VelocitiesMatch` `PublicationRate` `FeaturesNeverReturn` | parallel vectors and identifiers; frequency control neither exceeds nor starves |
| `pose_graph` | `LoopsInProblem` `MissingOnlyWhileInserting` `SequenceInOneFrame` `PosesFollowDrift` `PathsMatch` `LoopsOptimized` | the optimisation thread against the adding one, in the midst of a shift too, and the relocalizations |
| `pose_graph_sequences` | `SequenceLoopInRange` (violated) | finding 3 |
| `matching` | `SameStampInOrder` `NeverInOlderSequence` `ImagesOfSession` `PoseServed` | matching and sequence counting; no pose blocks the matching |
| `libraries` | `StructureSupported` `OwnVelocityWhileAllKeys` `PriorOfItsFactors` `EveryMatchConstrains` `TrainingReachesItsCluster` `MeaningSurvives` `QueryIsScore` `CalibrationReachesNode` `CostFunctionsFit` | the algorithms the nodes call |
| `outer_nodes` | `DrawnWithItsPose` `RowOfItsTime` `PassIsEvidence` `RunnerEnds` | the programs around the estimator |
| `relocalization_stamp` | `RelocalizationFrameSet` (violated) | finding 4 |

`LoopsInProblem` includes that a loop is to a keyframe more than `Recent` older,
`LookupsSucceed` both that `find` never misses an image of the window and that every image
used has its pre-integration. `RelocalizationAligned` is about resets as well:
`clearState` leaves `Headers` as they were, so that a relocalization can match a frame of the
old session; it says that only the first optimisation after a reset can use one that is not
at its index, and that no frame of the window has its stamp then. `SequenceInOneFrame` has
two parts: when no shift is under way the odometry poses of a sequence are in one frame;
and when, in addition, no optimisation is due, every pose and the drift come from an
odometry pose that its keyframe still has. In between they do not: TLC reaches
problems built from half a shift, and poses and drift computed from what the walk has
replaced since. `PosesFollowDrift` and `SequenceInOneFrame` both say that it does not last,
because the shift is followed by a loop in the queue.

### Bounds

- *estimator_restart*: four stamps, four images, one restart, `td` in {0, 1}. Four samples
  give two images, each with a sample before and after it, in one batch: `td` can move
  between them. A second restart meets the same states as the first.
  *estimator_fusion*: four stamps, four images (the first is skipped by `init_feature`, one
  may be thrown), one relocalization.
- *window*: `W = 3` has an oldest, a second newest, a newest frame and one between; two
  landmarks (symmetric, only compared) let one be dropped while the other stays; nine
  images slide a full window several times; one reset, one relocalization.
- *tracker*: six ticks a second, two images a second wanted, up to sixteen ticks and nine
  images. Frequency control does not look at points, so `Explored` (`MCFeatureTracker`)
  follows a stream in which a corner was found for six images and thirteen ticks only (two
  points tracked at a time, four detected in all), a featureless one to the end.
- *pose_graph*: two loaded keyframes and up to five in all, two live sequences,
  `Recent = 1` in place of 50, so loops within the live sequence and into the map both occur,
  and a sequence is shifted that has a keyframe in the list (about 340000 states).
- *matching*: one tick to the second, skip counts of 1. `Explored` (`MCPoseGraphNode`)
  follows any stream of four images with stamps up to three, and one stream of six images
  that goes on steadily after a gap, long enough for its second session to get past the
  skipped matches and make a keyframe. It restricts what the camera, the network and the
  keyboard have done, never what the node does next, so no step of the threads is cut and
  `PoseServed` is not satisfied by a truncated behaviour.
- *libraries*: structure from motion with `W = 3`, three landmarks and one image that is in
  no frame; three threads and the shapes of residual graphs `optimization` builds; three
  points, two old keypoints, so that an inlier can be lost before, between and after
  others, in every order of the landmark list; a tree of two levels with two branches over
  three bits, sixteen training sets (equal descriptors within and across documents, more and fewer than the branches);
  two entries of three words, one of which has weight zero; three views;
  every cost function. Stamps are 0 and 1 of a second of 9: only an image stamped 0 gets its
  relocalization into the window, see finding 4, and that is the one that reaches the
  optimisation here.
- *outer_nodes*: four images with stamps up to three, so that a stream can jump back twice
  and its leftover images be met, four ranges, three views; three rows, three messages, one
  restart; three odometry messages of which two are required, an earlier result of `PASS`.

`CHECK_DEADLOCK` is on in every run of a node's threads: each environment or thread can go
on, and the end of `main` is the explicit action `Finished`. It is off in `libraries`,
`outer_nodes` and `relocalization_stamp`, whose algorithms and scripts end.

### Fairness

- `EstimatorNode!FairSpec`: the scheduler runs the process thread and lets the spin thread
  finish a callback it has started and the end of `main`. No message, signal or spurious
  wake-up is assumed to come. `ImageServed` is about notifications only, so this is enough.
- `PoseGraph!FairSpec`: weak fairness of the optimiser, an endless loop with a two second
  sleep, as long as it has not crashed.
- `PoseGraphNode!FairSpec`: each of the three threads is scheduled. The camera, the
  estimator and the keyboard may stop at any point.
- `DatasetRunner!FairRunSpec`: the script goes on with every step that waits for no command,
  a process sent `SIGKILL` ends, and the deadline of `wait_for_nodes` passes although the
  loop looks at it only between two node lists (strong fairness: time goes on while they
  run). No process is assumed to end by itself or to obey the other signals, and no command
  to return: `RunnerEnds` states what it needs of them itself (`CallsReturn`), since a
  download or a node list that hangs holds the runner for ever.

### Findings

1. `estimator_node.cpp:526`: `con.notify_all()` without `m_buf` can fall between the wait
   predicate (which has read `rclcpp::ok()` as true) and the wait; `join` then never returns.
2. `estimator_node.cpp:342`: a batch taken before a restart is integrated after it; the
   old samples set `current_time` of the new session, its first batch starts before that,
   and the assertion `dt >= 0` (357, compiled out in release builds) fails. `TimeAdvances`
   is that assertion and the one of line 374, no more. `TimeAdvancesUnlessStale` shows there
   is no other way as long as the offsets `td` stay within one stamp of each other
   (`OffsetsClose`), and adds that no other batch interpolates from a time never set
   (`StartsKnown`, which no assertion states).
3. `pose_graph.cpp:104`: `sequence_loop` grows with keyframes, its index with calls of
   `new_sequence`; two of these without a keyframe between them index past its end.
4. `keyframe.cpp:491`: the stamp of a relocalization message is `rclcpp::Time(time_stamp)`
   with a `double` of seconds where the constructor takes an integer of nanoseconds; no
   frame of the window has that stamp, and fast relocalization never takes effect.

More observations have no run of their own. A batch is gathered with one `td` and worked through
with the ones that `processImage` estimates from it; a sample between two such offsets is
popped for an image it no longer precedes, and the assertion of `estimator_node.cpp:374`
can fail without any restart (TLC finds it with offsets 0 and 2, which are more than one
stamp apart: `OffsetsClose` leaves that out of `TimeAdvancesUnlessStale` and
`PredictionComplete`; the run's offsets 0 and 1 satisfy it, `IntegratedOnce` needs nothing
of the kind). When the images' stamps jump back, a pose from before
the jump that arrives after the buffers were emptied is combined with an image of a later
stamp: `SameStampInOrder` is stated for stamps that go forward. The AR demo draws into
images left over from before such a jump with poses from after it, and throws images from
after it for poses from before (`ar_demo_node.cpp:482`). `estimator.cpp:427`
gives a frame the velocity of another image after one that is in no frame. With a landmark
list [3, 10, 5] and matches of 3 and 5 the walk of `estimator.cpp:799` loses the match of 5.
After a reset a relocalization can be set for a slot whose stamp is of the old session, and
the first optimisation uses it (`estimator.cpp:1156`). And the dataset runner waits without a
deadline for `dsm-client` and for `ros2 node list` (`dataset_e2e.py:154`, 272), although
`docs/DATASET_E2E.md:64` lists a timeout among the explicit `FAIL` results.

## 4. Proofs

Each theorem holds for every value of the constants that satisfies the assumptions its
module declares by name (stamps and bounds are naturals, a window has two frames at least,
rates are positive, ...). What a theorem assumes beyond them is in the table; for the
properties the table does not name, see the end of this section.

| Module | Theorem: property | Beyond the module's assumptions |
|---|---|---|
| `EstimatorNodeProofs` | `TypeCorrect`: `TypeOK`; `FrontAlwaysDefined`: `FrontDefined`; `BufferOfSession`: `SessionBuffer` | |
| `EstimatorNodeFusionProofs` | `TimeNeverRunsBack`: `TimeAdvancesUnlessStale`; `NoSampleTwice`: `IntegratedOnce`; `PredictionMissesNothing`: `PredictionComplete` | |
| | `ImplementsFusion`: `FusesInOrder`, the refinement of `MeasurementFusion` | `MaxRestarts = 0`, `TdValues = {TD}` |
| `SlidingWindowProofs` | `ObservationsInTheirSlots`: `FeaturesAligned`; `FactorsSpanTheirFrames`: `ImuFactorsSpan`; `NothingIsMissing`: `LookupsSucceed`; `PriorInItsSlots`: `PriorAligned`; `RelocalizationInItsSlot`: `RelocalizationAligned` | |
| `FeatureTrackerProofs` | `VectorsStayAligned`: `VectorsAligned`; `VelocitiesOfTheirPoints`: `VelocitiesMatch`; `RateIsKept`: `PublicationRate`; `ImplementsTrackStream`: `FeaturesNeverReturn`, the refinement of `TrackStream` | |
| `PoseGraphProofs` | `NoLoopOutsideProblem`: `LoopsInProblem`; `AnnouncedIsListed`: `MissingOnlyWhileInserting` | |
| | `OneFramePerSequence`: `SequenceInOneFrame`; `OneDriftPerSequence`: `PosesFollowDrift`; `PathsShowTheList`: `PathsMatch` | `EmptySequences = FALSE` |
| `PoseGraphNodeProofs` | `OneStampMatched`: `SameStampInOrder`; `SequenceCountsSessions`: `NeverInOlderSequence`; `OneSessionBuffered`: `ImagesOfSession` | |
| `OuterNodesProofs` | `OnlyTheRowOfItsTime`: `RowOfItsTime`; `PassOnlyWithEvidence`: `PassIsEvidence`; `ImagesKeepTheirPose`: `DrawnWithItsPose` | |
| `LibrariesProofs` | `PosesBeforeUse`: `StructureSupported`; `OwnVelocities`: `OwnVelocityWhileAllKeys`; `PriorSumsItsFactors`: `PriorOfItsFactors`; `MatchesConstrain`: `EveryMatchConstrains`; `FileReachesNode`: `CalibrationReachesNode`; `RequestsFit`: `CostFunctionsFit` | |

The two hypotheses are cases the code has. `MeasurementFusion` knows neither restarts nor
a moving offset (`estimate_td: 0`). With an empty sequence, which two calls of
`new_sequence` without a keyframe between them give (finding 3), TLC finds
`SequenceInOneFrame` and `PosesFollowDrift` violated for three sequences, and `PathsMatch`
for two: `addKeyFrame` appends a keyframe of sequence 2 to the path of `sequence_cnt`, which
has only reached 1. The hypothesis cannot be dropped.

All proofs have the same shape: an inductive invariant made of named parts, one lemma per
part and thread with one step per action, a lemma that joins them, and a temporal step. The
invariants were checked by TLC on the runs' instances before they were proved.

**Front and session of the IMU buffer** (`EstimatorNodeProofs`), with
`IInv == TypeInv /\ FrontInv /\ SessionBuffer`:

- `TypeInv` adds to `TypeOK` that the process thread has a measurement wherever it reads
  `measurements.front()`, and that `Predict` has a sample: without them the types of what
  those actions compute do not follow.
- `FrontDefined` alone is not inductive: the loop of lines 230-235 pops before it tests, so
  the buffer must contain, beyond the samples it pops, one it will not pop. `FrontInv` says
  that while the loop runs the newest sample in the buffer is beyond the image plus `td`
  (`NewestBeyondImage`), the fact that `getMeasurements` tested on `back()` before. Pops at
  the front leave it in place; pushes happen under `m_buf`, which the loop holds. `td` may
  only change elsewhere: `ProcessImage` runs on the same thread, and a restart resets `td`
  after it has emptied both buffers, which stay empty until its callback ends, since only
  callbacks fill them (`ClearedInRestart`): the loop, which an image in the buffer must
  start, is not running then.
- `SessionBuffer` is inductive with these: a sample is pushed behind older ones because of
  the guard of `imu_callback`, and a restart empties the buffer before it resets the guard.

**Time, batch and prediction** (`EstimatorNodeFusionProofs`). `SessionInv` follows a sample
from the buffer through the batch into the estimator. `OrderInv` puts the estimator's time,
the samples of the batch in their order and the buffer on one line, where only the sample
that closes a measurement occurs again, first in what follows (`Chained`); `LengthInv` and
`CloseInv` say that a measurement has a sample that its image is not older than, and which
sample may be later than its image, for whatever offset it is worked through with;
`OnceInv` which samples have been integrated; `CoverInv` that none is lost between the
three, and that the integrated ones are those up to the estimator's time; `PredInv` what the
prediction has been propagated through at each point of `imu_callback`. `FuseInv` adds for
the refinement that images are in order with samples on both sides. The refinement maps the
arrival of a sample to `Arrive`, `ProcessImage` to the fusion of its image, and every other
step to a stutter.

**The window** (`SlidingWindowProofs`). The frames stand in the order of their stamps and
the newest is the last image (`HeadersInv`); each of the five structures is described by
those stamps: `all_image_frame` holds the images since the oldest frame (`ImagesInv`), a
slot's integration is the interval since the frame before it (`ImuInv`), an observation
stands in the slot of its image (`FeatureInv`), a block of the prior is that of the frame in
its slot, or, after marginalization, of the one that slides into it (`PriorInv`). `PhaseInv`
says which step works on which window. Every shift must keep these together, for every `W`.

**The tracker** (`FeatureTrackerProofs`). `VectorInv` states for the vectors what an index
means in each phase: no point twice, the count of `age`, the id of `named`, the points
without an id at the end. `MapInv` and `VelocityInv` follow a point through
`prev_un_pts_map` into its velocity. `RateInv` carries the rate control between two
publications: the limit holds since the control was reset, held before, and therefore in
all; its arithmetic is in `RatesAdd`, `RateLater`, `HeldBackBriefly`. `StreamInv` is what
the refinement needs: a point that is still tracked and was ever published was in the last
message.

**The pose graph** (`PoseGraphProofs`). A keyframe is queued, relocalized and optimised
before it is in the list: `Announced` is what the optimiser may be told of, by the stage
of the adding thread, and `QueueInv`, `AnswersInv` say that it is told of nothing else.
`EarliestInv` and `ProblemInv` say that `earliest_loop_index` is at most every confirmed
loop, and that it was so for the keyframes up to the one taken when the optimiser read it.
`VioInv` and `DriftInv` relate shift and drift to the sequence, during a shift for the
keyframes the walk has come past. What an optimisation under way has read or a relocalization has
computed may be out of date: `FreshInv` says that a pose which is not from the odometry pose
its keyframe has now is half written or within reach of an optimisation still to come
(`ToBeSolved`), and that drift and problem are out of date only when one is due; `SolvedInv`
ties the problem's places to those of the list. A path is the keyframes of
its sequence by their places in the list (`Positions`, `Nth`): a keyframe put at the end of
the list is the last of its path and of no other (`ShownGrown`), and a pose replaced leaves
every path as it was (`ShownKept`). `updatePath` empties only the paths up to
`sequence_cnt` before it fills them again: `SequenceInv` is what makes the others empty.

**The matching node** (`PoseGraphNodeProofs`). The buffers hold, without a gap, what was
delivered last on each topic (`BufferInv`); the images in them are of one session but for
the one whose stamp is yet to be checked (`SpinInv`); a match taken while stamps go forward
is of one image, and its points are those of the pose because they are popped only with
their image (`ImageInv`, `PointInv`).

**Publisher and runner** (`OuterNodesProofs`). The index stands at the row of the newest time
followed (`IndexInv`), also when a restart sends the time back; a published row is the one
of its own time as long as it is of the first session (`PathInv`). For the runner, counters
and history agree (`HeardInv`), a written output is all the monitor counted (`ProcessInv`),
`alive` is recorded as long as both nodes are there and cannot be lost after the bag has
ended (`AliveInv`), and `PASS` is only set with an accepted output (`StatusInv`): so it is
still evidence when a later step fails or is interrupted.

**The AR demo** (`OuterNodesProofs`). Stamps increase in a session and sessions follow each
other (`StreamInv`); images and poses are taken in the order they came in (`NewerInv`,
`ImagesInv`), but the two topics are read in any order. `ThereInv` says that the image of a
pose still to come is waiting, was thrown before the first pose, is already drawn, or was
thrown for a pose of an earlier session: for a pose of its own session the loop throws
older images only. So a pose that is drawn with a later image has no image of its own left
(`OwnImageGone`), and images and poses are both drawn in ascending order (`TakenInOrder`). `FacesMeet` goes through the
eight rows of `point_group`: each gives three sides that share the nearest corner alone.

**Initial structure** (`LibrariesProofs`). `PosedInv` gives, for each of the loops, the frames
it has come past, `SupportInv` that a landmark comes from posed frames that see it,
`ImagesInv` which images the pass over `all_image_frame` has left to PnP: it moves two
indices, and must reach each key image when the images do. `VelocityInv` counts key images.

**Marginalization.** The columns laid out so far are disjoint and fill everything below `pos`
(`LayoutInv`), dropped blocks below `m` (`DroppedInv`). Each factor is dealt to one thread;
`SumsInv` says that at the columns of two blocks a thread has, each once, the factors it has
added that connect them, and the total those of the threads joined. It rests on `columns`
being injective, which disjoint columns of positive size are.

**Relocalization.** The six vectors describe the same points in the order of the landmark
list through both reductions (`Parallel`), those left are the inliers (`HoldsInliers`,
`MessageInv`). The walk goes through two lists that are both in that order, but it compares
ids, which are in none. `IndexInv` says of a match still to come, which nothing overtakes,
that the index is not past it and is past every match with a greater id in front of it;
`FactorsInv` that all matches come past have their factor but those overtaken.

**The relocalization frame** (`SlidingWindowProofs`). `ReloInv` says that a relocalization in
a non-linear window is pending only between `setReloFrame` and the optimisation that uses
it, at the slot of its frame; before the window is initialised every keyframe ever sent is
of before the reset and older than all frames of the window.

**Calibration and cost functions.** `CameraInv`, `PosesInv` and `FileInv` follow the
parameters through estimate, vector and file; `ViewsInv` and `DataInv` describe the part of
the data file that is written, set by set at `SetEnd`, and `SessionInv` where the reader's
cursor stands in it. `RequestsFit` is by cases over the overloads of the factory, for
every number of parameters of the Scaramuzza camera.

What stays with TLC:

- `ImageServed`, `LoopsOptimized`, `PoseServed`, `RunnerEnds`: liveness under fairness;
- `TrainingReachesItsCluster`, `MeaningSurvives`, `QueryIsScore`: what recursive definitions
  compute for every tree, training set and database is induction over data, out of the
  provers' reach;
- the four properties that are violated.

## 5. Not modelled

- IMU and projection factors, the Schur complement's numbers, triangulation, the solver,
  the linear systems of the alignment, `solve_5pts.cpp`, `integration_base.h`: floating-point
  computation. Success or failure is an outcome of the actions that call them.
- `Chessboard.cc`, `gpl.cc`, the projections and undistortion of the cameras: functions of
  pixels and geometry without state; a model could only say found or not found.
- DUtils and DVision (random numbers, clock, the BRIEF descriptor of a patch).
- Parameters (read once before the threads start; constants here), message formatting,
  visualisation, logging, the contents of the saved pose graph.
- Release tooling, containers, launch files: packaging and configuration.
- Data races on single variables (`estimator.solver_flag` in `imu_callback`, `relo_buf` in
  `process`, the drift in `vio_callback`): they read an old or a new
  value that no property here tells apart, or corrupt a queue, which has no outcomes to
  choose from.
- The velocities' sign after a discontinuity (`feature_tracker.cpp:287`), the first features
  after a restart, which `init_feature` no longer skips (`estimator_node.cpp:277`), and the
  bound of 1000 landmarks (`estimator.cpp:542`), far beyond an instance's size.
- The drift between an `updateKeyFrameLoop` and the next optimisation
  (`pose_graph.cpp:916`): the intended relation to the poses in the list is not documented.
- The runner's list of nodes is assumed to show the nodes that run when it answers, and its
  own death by a signal that skips `finally` is left out; a launch killed from outside leaves
  its nodes running.

## 6. Plan

Done: every component with state of its own, the libraries they call as far as they are
not numbers, twelve runs, and a theorem for every safety property of a passing run but the
three of vocabulary and database.

Next, extending the model:

1. `Relocalization` inside `PoseGraph` and `SlidingWindow`, with `updateKeyFrameLoop`;
2. the drift of a new sequence against an optimisation of the previous one;
3. the status timer and its counters (`docs/LOGGING_UK.md` says from when they count).
