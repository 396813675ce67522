--------------------------- MODULE SlidingWindow ---------------------------
(***************************************************************************)
(* The Estimator's sliding window: vins_estimator/src/estimator.cpp,       *)
(* feature_manager.cpp and the bookkeeping of marginalization_factor.cpp.  *)
(*                                                                         *)
(* processImage keeps five structures aligned by frame index: Headers, the *)
(* IMU pre-integrations and their replay buffers, the features' runs of    *)
(* observations, all_image_frame, and the parameter blocks of the prior.   *)
(* Each is shifted by its own code when the oldest or the second newest    *)
(* frame leaves.  The numbers (poses, depths, residuals) are left out: a   *)
(* frame is its stamp, an integration is the set of image intervals it     *)
(* covers, an observation is the stamp of the image it was made in, a      *)
(* prior block remembers the stamp of the frame it was linearised for.     *)
(*                                                                         *)
(* The n-th image the estimator is given has stamp n, and interval n ends  *)
(* with it.  processImage runs under m_estimator; its stages are steps so  *)
(* that the alignment is visible where the code relies on it.              *)
(***************************************************************************)
EXTENDS Integers, FiniteSets, Sequences

CONSTANTS
  W,             \* WINDOW_SIZE: the window has slots 0..W
  Ids,           \* feature ids
  MinTrack,      \* tracked features below which a frame is a keyframe (20 in the code)
  MaxSumDt,      \* intervals after which an IMU factor is not marginalised (10 s)
  Calibrate,     \* ESTIMATE_EXTRINSIC = 2 at the start
  MaxStamp,      \* bound: images
  MaxRelo,       \* bound: relocalization messages
  MaxResets,     \* bound: restarts and detected failures
  NULL           \* a null pointer

ASSUME WindowAssumption == W \in Nat /\ W >= 2
ASSUME ThresholdAssumption == MinTrack \in Nat /\ MaxSumDt \in Nat /\ Calibrate \in BOOLEAN
ASSUME BoundAssumption == MaxStamp \in Nat /\ MaxRelo \in Nat /\ MaxResets \in Nat
ASSUME NullAssumption == \A intervals \in SUBSET (1..MaxStamp) : NULL # intervals

Slots == 0..W

VARIABLES
  phase,                \* the stage of processIMU / processImage that comes next
  now,                  \* stamp of the last image
  frame_count,
  solver_flag,
  marginalization_flag, \* "OLD" or "SECOND_NEW"
  Headers,              \* stamp of each slot, 0 if never set
  pre_integrations,     \* intervals integrated in each slot, or NULL
  dt_buf,               \* intervals buffered for replay in each slot
  tmp_pre_integration,  \* intervals integrated since the last image, or NULL
  all_image_frame,      \* stamp -> integration that led to the image, or NULL
  feature,              \* id -> first slot and the images of its observations
  last_image,           \* ids in the last image
  failed,               \* ids with solve_flag 2 after the last optimisation
  prior,                \* pose and speed-bias blocks of the last marginalisation
  calibrating,          \* ESTIMATE_EXTRINSIC = 2
  relo,                 \* relocalization_info, relo_frame_local_index, relo_frame_stamp
  keyframes,            \* stamps published as keyframes
  relos, resets         \* relocalizations and resets so far (bounds)

window   == <<frame_count, Headers, pre_integrations, dt_buf>>
counters == <<relos, resets>>
vars == <<phase, now, frame_count, solver_flag, marginalization_flag, Headers,
          pre_integrations, dt_buf, tmp_pre_integration, all_image_frame, feature,
          last_image, failed, prior, calibrating, relo, keyframes, relos, resets>>

NoRelo == [info |-> FALSE, index |-> 0, stamp |-> 0]

Init ==
  /\ phase = "idle"
  /\ now = 0
  /\ frame_count = 0
  /\ solver_flag = "INITIAL"
  /\ marginalization_flag = "OLD"
  /\ Headers = [i \in Slots |-> 0]
  /\ pre_integrations = [i \in Slots |-> NULL]
  /\ dt_buf = [i \in Slots |-> {}]
  /\ tmp_pre_integration = NULL
  /\ all_image_frame = [s \in {} |-> NULL]
  /\ feature = [id \in {} |-> NULL]
  /\ last_image = {}
  /\ failed = {}
  /\ prior = {}
  /\ calibrating = Calibrate
  /\ relo = NoRelo
  /\ keyframes = {}
  /\ relos = 0 /\ resets = 0

-----------------------------------------------------------------------------
(* processIMU *)

\* The samples between the last image and the next one, interval now + 1.  Slot 0 gets
\* an integration object and nothing else: there is no earlier frame to integrate from.
ProcessIMU ==
  /\ phase = "idle"
  /\ now < MaxStamp
  /\ phase' = "image"
  /\ LET slot == frame_count
         had  == IF pre_integrations[slot] = NULL THEN {} ELSE pre_integrations[slot]
         new  == IF slot = 0 THEN {} ELSE {now + 1}
     IN /\ pre_integrations' = [pre_integrations EXCEPT ![slot] = had \cup new]
        /\ dt_buf' = [dt_buf EXCEPT ![slot] = @ \cup new]
        /\ tmp_pre_integration' = IF slot = 0 THEN tmp_pre_integration
                                  ELSE tmp_pre_integration \cup new
  /\ UNCHANGED <<now, frame_count, solver_flag, marginalization_flag, Headers,
                 all_image_frame, feature, last_image, failed, prior, calibrating, relo,
                 keyframes, counters>>

-----------------------------------------------------------------------------
(* setReloFrame *)

\* The pose graph has matched keyframe s.  The stamp is looked for in slots 0..W-1,
\* whatever frame_count is; the flag stays as it was when no slot has it.
SetReloFrame(s) ==
  /\ phase = "image"
  /\ relos < MaxRelo
  /\ relos' = relos + 1
  /\ phase' = "relo_set"
  /\ LET matches == {i \in 0..(W - 1) : Headers[i] = s}
     IN relo' = IF matches = {} THEN [relo EXCEPT !.stamp = s]
                ELSE [info |-> TRUE, stamp |-> s,
                      index |-> CHOOSE i \in matches : \A j \in matches : j <= i]
  /\ UNCHANGED <<now, window, solver_flag, marginalization_flag, tmp_pre_integration,
                 all_image_frame, feature, last_image, failed, prior, calibrating,
                 keyframes, resets>>

-----------------------------------------------------------------------------
(* FeatureManager *)

Known     == DOMAIN feature
EndFrame(f) == f.start + Len(f.obs) - 1

\* A feature the optimisation uses: seen at least twice, first seen early enough.
UsedIn(fs) == {id \in DOMAIN fs : Len(fs[id].obs) >= 2 /\ fs[id].start < W - 2}

\* addFeatureCheckParallax: known ids get one more observation, others are appended.
Observed(ids, stamp) ==
  [id \in Known \cup ids |->
     IF id \notin ids THEN feature[id]
     ELSE IF id \in Known THEN [feature[id] EXCEPT !.obs = Append(@, stamp)]
     ELSE [start |-> frame_count, obs |-> <<stamp>>]]

\* Features seen in both the second and the third newest frame, whose parallax decides.
Parallaxes(fs) ==
  {id \in DOMAIN fs : fs[id].start <= frame_count - 2 /\ EndFrame(fs[id]) >= frame_count - 1}

\* The frame counts as a keyframe at the start, when few features are tracked, when no
\* parallax is known, and otherwise when the parallax is large.
FlagsAllowed(ids) ==
  IF frame_count < 2 \/ Cardinality(ids \cap Known) < MinTrack
       \/ Parallaxes(Observed(ids, now + 1)) = {}
    THEN {"OLD"} ELSE {"OLD", "SECOND_NEW"}

Restricted(fs, ids) == [id \in ids |-> fs[id]]

\* removeBack and removeBackShiftDepth: the oldest frame leaves.  A feature that loses
\* its first observation is erased when fewer than keep observations are left.
WithoutBack(fs, keep) ==
  LET moved == [id \in DOMAIN fs |->
                  IF fs[id].start # 0 THEN [fs[id] EXCEPT !.start = @ - 1]
                  ELSE [fs[id] EXCEPT !.obs = Tail(@)]]
  IN Restricted(moved, {id \in DOMAIN fs : fs[id].start # 0 \/ Len(moved[id].obs) >= keep})

\* Mutant: the observation after the one that leaves is erased.
ErasedNext(s, n) == SubSeq(s, 1, n + 1) \o SubSeq(s, n + 3, Len(s))

\* The sequence without its n-th element, counted from 0 (vector::erase).
Erased(s, n) == SubSeq(s, 1, n) \o SubSeq(s, n + 2, Len(s))

\* removeFront: the second newest frame leaves.
WithoutFront(fs) ==
  LET moved == [id \in DOMAIN fs |->
                  IF fs[id].start = frame_count THEN [fs[id] EXCEPT !.start = @ - 1]
                  ELSE IF EndFrame(fs[id]) < frame_count - 1 THEN fs[id]
                  ELSE [fs[id] EXCEPT !.obs = Erased(@, W - 1 - fs[id].start)]]
  IN Restricted(moved, {id \in DOMAIN fs : moved[id].obs # <<>>})

-----------------------------------------------------------------------------
(* clearState *)

\* clearState and setParameter.  Headers, marginalization_flag, ESTIMATE_EXTRINSIC and
\* the last relocalization keep their values.
ClearState ==
  /\ frame_count' = 0
  /\ solver_flag' = "INITIAL"
  /\ pre_integrations' = [i \in Slots |-> NULL]
  /\ dt_buf' = [i \in Slots |-> {}]
  /\ tmp_pre_integration' = NULL
  /\ all_image_frame' = [s \in {} |-> NULL]
  /\ feature' = [id \in {} |-> NULL]
  /\ failed' = {}
  /\ prior' = {}
  /\ relo' = [relo EXCEPT !.info = FALSE]

\* restart_callback, between two images.
Restart ==
  /\ phase = "idle"
  /\ resets < MaxResets
  /\ resets' = resets + 1
  /\ ClearState
  /\ UNCHANGED <<phase, now, marginalization_flag, Headers, last_image, calibrating,
                 keyframes, relos>>

\* processImage when failureDetection returns true after an optimisation.
FailureDetected ==
  /\ phase = "detect"
  /\ resets < MaxResets
  /\ resets' = resets + 1
  /\ ClearState
  /\ phase' = "idle"
  /\ UNCHANGED <<now, marginalization_flag, Headers, last_image, calibrating, keyframes,
                 relos>>

-----------------------------------------------------------------------------
(* processImage *)

\* The tracker never brings an id back: one that FeatureManager knows and the last
\* image did not show is lost.  An id FeatureManager does not know is as good as new.
CanShow(ids) == ids \cap Known \subseteq last_image

\* processImage creates the integration object of the next image, still empty.
Created == {}

\* processImage up to the solver: features, header, all_image_frame, calibration.
AddImage(ids, flag) ==
  /\ phase \in {"image", "relo_set"}
  /\ CanShow(ids)
  /\ flag \in FlagsAllowed(ids)
  /\ now' = now + 1
  /\ feature' = Observed(ids, now + 1)
  /\ last_image' = ids
  /\ marginalization_flag' = flag
  /\ Headers' = [Headers EXCEPT ![frame_count] = now + 1]
  /\ all_image_frame' = [s \in DOMAIN all_image_frame \cup {now + 1} |->
                           IF s = now + 1 THEN tmp_pre_integration ELSE all_image_frame[s]]
  /\ tmp_pre_integration' = Created
  /\ \/ calibrating' = calibrating
     \/ calibrating /\ frame_count # 0 /\ calibrating' = FALSE
  /\ IF solver_flag = "INITIAL" /\ frame_count < W
       THEN frame_count' = frame_count + 1 /\ phase' = "idle"
       ELSE /\ frame_count' = frame_count
            /\ phase' = IF solver_flag = "INITIAL" THEN "initialize" ELSE "optimize"
  /\ UNCHANGED <<solver_flag, pre_integrations, dt_buf, failed, prior, relo, keyframes,
                 counters>>

\* initialStructure fails or is not tried (calibration pending, or within 0.1 s of the
\* last attempt).  A failed global SfM makes the frame a keyframe.
NotInitialized ==
  /\ phase = "initialize"
  /\ \/ marginalization_flag' = marginalization_flag
     \/ ~calibrating /\ marginalization_flag' = "OLD"
  /\ phase' = "slide"
  /\ UNCHANGED <<now, window, solver_flag, tmp_pre_integration, all_image_frame, feature,
                 last_image, failed, prior, calibrating, relo, keyframes, counters>>

\* initialStructure succeeds.
Initialized ==
  /\ phase = "initialize"
  /\ ~calibrating
  /\ solver_flag' = "NON_LINEAR"
  /\ phase' = "first_optimize"
  /\ UNCHANGED <<now, window, marginalization_flag, tmp_pre_integration, all_image_frame,
                 feature, last_image, failed, prior, calibrating, relo, keyframes, counters>>

-----------------------------------------------------------------------------
(* optimization: the prior *)

\* The parameter block of a slot, linearised for the frame that is in the slot now.
\* The extrinsic and td blocks have no slot and are left out.
Block(kind, i) == [kind |-> kind, idx |-> i, stamp |-> Headers[i]]

\* para_ blocks move one slot down (addr_shift).
Down(b) == [b EXCEPT !.idx = @ - 1]

\* The residuals that touch frame 0: the prior, the IMU factor to frame 1 unless it
\* covers too long a time, and the features first seen in frame 0.
TouchFirst ==
  prior
    \cup (IF Cardinality(pre_integrations[1]) < MaxSumDt
            THEN {Block(k, i) : k \in {"Pose", "SpeedBias"}, i \in {0, 1}} ELSE {})
    \cup {Block("Pose", i) :
            i \in UNION {0..EndFrame(feature[id]) :
                           id \in {g \in UsedIn(feature) : feature[g].start = 0}}}

\* Mutant: the blocks that stay keep their address.
PriorNotShifted == {b \in TouchFirst : b.idx # 0}

\* MARGIN_OLD: the blocks of frame 0 are marginalised, the others stay.
PriorWithoutOldest == {Down(b) : b \in {c \in TouchFirst : c.idx # 0}}

\* MARGIN_SECOND_NEW: only if the prior knows the second newest pose; that block goes,
\* and the newest frame's blocks move to its slot.
PriorWithoutSecondNewest ==
  IF \A b \in prior : ~(b.kind = "Pose" /\ b.idx = W - 1) THEN prior
  ELSE {IF b.idx = W THEN Down(b) ELSE b :
          b \in {c \in prior : ~(c.kind = "Pose" /\ c.idx = W - 1)}}

\* Mutant: a relocalization is used again by the next optimisation.
ReloPending == relo

\* optimization uses a pending relocalization up.
ReloUsed == [relo EXCEPT !.info = FALSE]

\* solveOdometry: triangulate and optimise; depths that come out negative are marked
\* (solve_flag 2), a pending relocalization is used up, the prior is renewed.
Optimize(bad) ==
  /\ phase \in {"first_optimize", "optimize"}
  /\ bad \subseteq UsedIn(feature)
  /\ failed' = bad
  /\ relo' = ReloUsed
  /\ prior' = IF marginalization_flag = "OLD" THEN PriorWithoutOldest
              ELSE PriorWithoutSecondNewest
  /\ phase' = IF phase = "optimize" THEN "detect" ELSE "slide"
  /\ UNCHANGED <<now, window, solver_flag, marginalization_flag, tmp_pre_integration,
                 all_image_frame, feature, last_image, calibrating, keyframes, counters>>

-----------------------------------------------------------------------------
(* slideWindow *)

\* Every slot takes its successor's content; the newest header stays in slot W too.
ShiftedHeaders == [i \in Slots |-> IF i < W THEN Headers[i + 1] ELSE Headers[W]]
Shifted(buf)   == [i \in Slots |-> IF i < W THEN buf[i + 1] ELSE {}]

\* Mutant: one frame too many is erased.
ImagesAfterNext(t) == [s \in {u \in DOMAIN all_image_frame : u > Headers[1]} |-> all_image_frame[s]]

\* all_image_frame is erased up to and including the frame that leaves.
ImagesAfter(t) == [s \in {u \in DOMAIN all_image_frame : u > t} |-> all_image_frame[s]]

\* MARGIN_OLD.  A failed feature is erased by removeFailures after the shift.
SlideOld ==
  /\ marginalization_flag = "OLD"
  /\ Headers' = ShiftedHeaders
  /\ pre_integrations' = Shifted(pre_integrations)
  /\ dt_buf' = Shifted(dt_buf)
  /\ all_image_frame' = ImagesAfter(Headers[0])
  /\ LET slid == WithoutBack(feature, IF solver_flag = "NON_LINEAR" THEN 2 ELSE 1)
     IN feature' = Restricted(slid, DOMAIN slid \ failed)

\* Mutant: the newest frame's samples are not replayed.
NotMerged(buf) == [buf EXCEPT ![W] = {}]

\* The second newest slot takes over the newest frame; what was integrated up to the
\* newest frame is replayed from its buffer onto the second newest integration.
Merged(buf) == [buf EXCEPT ![W - 1] = @ \cup dt_buf[W], ![W] = {}]

\* MARGIN_SECOND_NEW.
SlideSecondNew ==
  /\ marginalization_flag = "SECOND_NEW"
  /\ Headers' = [Headers EXCEPT ![W - 1] = Headers[W]]
  /\ pre_integrations' = Merged(pre_integrations)
  /\ dt_buf' = Merged(dt_buf)
  /\ LET slid == WithoutFront(feature)
     IN feature' = Restricted(slid, DOMAIN slid \ failed)
  /\ UNCHANGED all_image_frame

\* slideWindow, removeFailures and pubKeyframe, which publishes the frame in slot W - 2
\* of a non-linear estimator that has just let its oldest frame go.
SlideWindow ==
  /\ phase \in {"slide", "detect"}
  /\ phase' = "idle"
  /\ SlideOld \/ SlideSecondNew
  /\ failed' = {}
  /\ keyframes' = IF solver_flag = "NON_LINEAR" /\ marginalization_flag = "OLD"
                    THEN keyframes \cup {Headers'[W - 2]} ELSE keyframes
  /\ UNCHANGED <<now, frame_count, solver_flag, marginalization_flag, tmp_pre_integration,
                 last_image, prior, calibrating, relo, counters>>

\* Every image of the bound has been processed.
Finished == phase = "idle" /\ now = MaxStamp /\ UNCHANGED vars

Next ==
  \/ ProcessIMU
  \/ \E s \in keyframes : SetReloFrame(s)
  \/ \E ids \in SUBSET Ids, flag \in {"OLD", "SECOND_NEW"} : AddImage(ids, flag)
  \/ NotInitialized \/ Initialized
  \/ \E bad \in SUBSET Ids : Optimize(bad)
  \/ FailureDetected
  \/ SlideWindow
  \/ Restart
  \/ Finished

Spec == Init /\ [][Next]_vars

-----------------------------------------------------------------------------
(* Properties *)

\* The window is full and a frame is being worked on.
Solving == phase \in {"initialize", "first_optimize", "optimize"}

\* Each observation of a feature stands in the slot of the image it was made in: the
\* features' first slots and runs of observations and the headers, shifted by different
\* code (removeBack, removeBackShiftDepth, removeFront, slideWindow), stay aligned.
FeaturesAligned ==
  phase \in {"idle", "image", "relo_set", "initialize", "first_optimize", "optimize"} =>
    \A id \in Known :
      /\ feature[id].obs # <<>>
      /\ EndFrame(feature[id]) <= W
      /\ \A k \in DOMAIN feature[id].obs :
           Headers[feature[id].start + k - 1] = feature[id].obs[k]

\* The IMU factor between two neighbouring slots covers exactly the time between their
\* frames, after any number of shifts, merges and replays; so does its replay buffer.
ImuFactorsSpan ==
  Solving => \A j \in 1..W : /\ pre_integrations[j] = (Headers[j - 1] + 1)..Headers[j]
                             /\ dt_buf[j] = pre_integrations[j]

\* What is looked up without a test is there: slideWindow dereferences
\* all_image_frame.find(t_0) and initialStructure looks every header up, so each frame of a
\* full window is in all_image_frame, oldest first; processIMU dereferences
\* tmp_pre_integration in every slot but the first, and initialStructure the
\* pre-integration of every image but the first.
LookupsSucceed ==
  /\ Solving => /\ \A i \in Slots : Headers[i] \in DOMAIN all_image_frame
                /\ \A i \in 1..W : Headers[i - 1] < Headers[i]
                /\ Headers[W] = now
  /\ (phase \in {"idle", "image"} /\ frame_count # 0) => tmp_pre_integration # NULL
  /\ phase = "initialize" =>
       \A s \in DOMAIN all_image_frame :
         (\E u \in DOMAIN all_image_frame : u < s) => all_image_frame[s] # NULL

\* Each block of the prior constrains the frame it was linearised for: addr_shift and
\* slideWindow move parameter blocks and frames alike, whatever the sequence of flags.  The
\* prior never holds the second newest speed and bias (the assertion of optimization,
\* estimator.cpp:964): it holds none but the oldest, and no block of the newest frame.
PriorAligned ==
  Solving => \A b \in prior : /\ b.stamp = Headers[b.idx]
                              /\ b.idx < W
                              /\ b.kind = "SpeedBias" => b.idx = 0

\* The relocalization that the optimisation of a non-linear window uses is about the slot that
\* holds the matched keyframe, whatever was slid and reset before. The first optimisation after
\* an initialisation has none, but after a reset: then setReloFrame may have matched a header
\* that clearState leaves behind, and no slot of the new window holds that keyframe.
RelocalizationAligned ==
  /\ phase = "optimize" /\ relo.info => Headers[relo.index] = relo.stamp
  /\ phase = "first_optimize" /\ relo.info =>
       resets > 0 /\ \A i \in Slots : Headers[i] # relo.stamp
=============================================================================
