--------------------------- MODULE EstimatorNode ---------------------------
(***************************************************************************)
(* The vins_estimator node: vins_estimator/src/estimator_node.cpp.         *)
(*                                                                         *)
(* Two threads share the node's buffers.  The spin thread runs the         *)
(* subscription callbacks one at a time (rclcpp::spin uses a               *)
(* single-threaded executor); the process thread waits on the condition    *)
(* variable con until getMeasurements has paired an image with the IMU     *)
(* samples around it, then integrates the samples and processes the image. *)
(* m_buf protects the buffers, m_estimator the estimator, m_state the      *)
(* high-rate prediction.                                                   *)
(*                                                                         *)
(* Each action is one critical section, or one step of a loop that another *)
(* thread can interleave with.  Time stamps are natural numbers; sample    *)
(* values are left out, the stamps decide every branch.  What processImage *)
(* does to the window is the subject of SlidingWindow: here it may start   *)
(* or lose the non-linear state and move the camera-IMU time offset td.    *)
(***************************************************************************)
EXTENDS Integers, Sequences

CONSTANTS
  Stamps,       \* the stamps a message can carry
  TD,           \* the configured camera-IMU offset, clearState resets td to it
  TdValues,     \* the offsets the optimisation may estimate; {TD} unless ESTIMATE_TD
  MaxFeatures,  \* bound: feature messages delivered
  MaxRestarts,  \* bound: restart messages delivered
  MaxRelo       \* bound: relocalization messages delivered

ASSUME StampsAssumption == Stamps \subseteq Nat \ {0}
ASSUME TdAssumption     == TdValues \subseteq Int /\ TD \in TdValues
ASSUME BoundsAssumption == MaxFeatures \in Nat /\ MaxRestarts \in Nat /\ MaxRelo \in Nat

VARIABLES
  imu_buf, feature_buf, relo_buf,  \* stamps of the queued messages (m_buf)
  last_imu_t,      \* stamp of the last accepted IMU sample, 0 for none
  init_feature,    \* the first feature message has been skipped
  ok,              \* rclcpp::ok()
  spin,            \* where the spin thread is: "idle", inside a callback, or leaving main
  imu_arg,         \* stamp of the sample imu_callback is predicting with
  proc,            \* where the process thread is
  measurements,    \* the batch in the process thread's hands
  relo_msg,        \* the relocalization message taken for the current image, 0 for NULL
  current_time,    \* stamp the estimator is integrated up to, -1 for none
  solver_flag,     \* estimator.solver_flag
  td,              \* estimator.td
  latest_time,     \* stamp the prediction is propagated to
  tmp,             \* the predicted state: the window stamp it starts from (0 for none)
                   \* and the samples it has been propagated through
  features, restarts, relos,       \* messages delivered so far (bounds)
  accepted, fed,   \* history of this session: samples accepted, samples integrated
  fused,           \* history: the last image processed, the time the estimator was
                   \* integrated up to then, and the samples integrated by then
  stale            \* history: a restart cleared the estimator while the process thread
                   \* had a batch in hand that it had not started on

buffers   == <<imu_buf, feature_buf>>
estimator == <<solver_flag, td>>
predicted == <<latest_time, tmp>>
counts    == <<features, restarts, relos>>
history   == <<accepted, fed, fused, stale>>
vars == <<imu_buf, feature_buf, relo_buf, last_imu_t, init_feature, ok, spin, imu_arg,
          proc, measurements, relo_msg, current_time, solver_flag, td,
          latest_time, tmp, features, restarts, relos, accepted, fed, fused, stale>>

-----------------------------------------------------------------------------
\* The elements of a sequence.
Elems(s) == {s[i] : i \in DOMAIN s}

\* The process thread holds m_buf while it evaluates the wait predicate.
HoldsBuf == proc \in {"gather", "collect", "sleep"}

\* The process thread holds m_estimator while it works through its batch.
HoldsEstimator == proc = "batch"

NoFusion == [img |-> 0, at |-> 0, used |-> {}]
NoState  == [base |-> 0, seen |-> {}]

Init ==
  /\ imu_buf = <<>> /\ feature_buf = <<>> /\ relo_buf = <<>>
  /\ last_imu_t = 0
  /\ init_feature = FALSE
  /\ ok = TRUE
  /\ spin = "idle"
  /\ imu_arg = 0
  /\ proc = "loop"
  /\ measurements = <<>>
  /\ relo_msg = 0
  /\ current_time = -1
  /\ solver_flag = "INITIAL"
  /\ td = TD
  /\ latest_time = 0
  /\ tmp = NoState
  /\ features = 0 /\ restarts = 0 /\ relos = 0
  /\ accepted = {} /\ fed = {}
  /\ fused = NoFusion
  /\ stale = FALSE

-----------------------------------------------------------------------------
(* The spin thread *)

\* Mutant: nobody is notified.
NotifyNobody == UNCHANGED proc

\* con.notify_one and con.notify_all: a blocked process thread wakes up and goes
\* on to re-evaluate its predicate.
Notify == proc' = IF proc = "blocked" THEN "pred" ELSE proc

\* imu_callback accepts a sample only if it is newer than the last accepted one.
InOrder(t) == t > last_imu_t

\* imu_callback up to con.notify_one.  A sample that is not newer than the last
\* accepted one is dropped ("imu message in disorder!"): it changes nothing here.
ImuCallback(t) ==
  /\ spin = "idle" /\ ok
  /\ InOrder(t)
  /\ ~HoldsBuf
  /\ last_imu_t' = t
  /\ imu_buf' = Append(imu_buf, t)
  /\ accepted' = accepted \cup {t}
  /\ Notify
  /\ spin' = "predict"
  /\ imu_arg' = t
  /\ UNCHANGED <<feature_buf, relo_buf, init_feature, ok, measurements, relo_msg,
                 current_time, fed, fused, stale, estimator, predicted, counts>>

\* predict: the first sample ever (init_imu) only sets latest_time; afterwards the
\* state moves by t - latest_time.
Propagated(state, from, t) ==
  IF from = 0 \/ t = from THEN state ELSE [state EXCEPT !.seen = @ \cup {t}]

\* imu_callback under m_state: predict, then publish if NON_LINEAR.
Predict ==
  /\ spin = "predict"
  /\ latest_time' = imu_arg
  /\ tmp' = Propagated(tmp, latest_time, imu_arg)
  /\ spin' = "idle"
  /\ imu_arg' = 0
  /\ UNCHANGED <<buffers, relo_buf, last_imu_t, init_feature, ok, proc, measurements,
                 relo_msg, current_time, estimator, counts, history>>

\* feature_callback: the first message only sets init_feature.
FeatureCallback(t) ==
  /\ spin = "idle" /\ ok
  /\ features < MaxFeatures
  /\ features' = features + 1
  /\ init_feature' = TRUE
  /\ IF init_feature
       THEN ~HoldsBuf /\ feature_buf' = Append(feature_buf, t) /\ Notify
       ELSE UNCHANGED <<feature_buf, proc>>
  /\ UNCHANGED <<imu_buf, relo_buf, last_imu_t, ok, spin, imu_arg, measurements, relo_msg,
                 current_time, restarts, relos, estimator, predicted, history>>

\* Mutant: only the images are discarded.
FeaturesCleared == feature_buf' = <<>> /\ UNCHANGED imu_buf

\* restart_callback pops both sensor buffers empty.
BuffersCleared == feature_buf' = <<>> /\ imu_buf' = <<>>

\* restart_callback under m_buf: both sensor buffers are emptied, relo_buf is not.
RestartClear ==
  /\ spin = "idle" /\ ok
  /\ restarts < MaxRestarts
  /\ restarts' = restarts + 1
  /\ ~HoldsBuf
  /\ BuffersCleared
  /\ spin' = "restart_estimator"
  /\ UNCHANGED <<relo_buf, last_imu_t, init_feature, ok, imu_arg, proc, measurements,
                 relo_msg, current_time, features, relos, estimator, predicted, history>>

\* restart_callback under m_estimator: clearState and setParameter.
RestartEstimator ==
  /\ spin = "restart_estimator"
  /\ ~HoldsEstimator
  /\ solver_flag' = "INITIAL"
  /\ td' = TD
  /\ stale' = (stale \/ proc = "batch_taken")
  /\ spin' = "restart_reset"
  /\ UNCHANGED <<buffers, relo_buf, last_imu_t, init_feature, ok, imu_arg, proc,
                 measurements, relo_msg, current_time, predicted, counts, accepted, fed, fused>>

\* restart_callback after both locks are released.  The history starts a new session.
RestartReset ==
  /\ spin = "restart_reset"
  /\ current_time' = -1
  /\ last_imu_t' = 0
  /\ accepted' = {} /\ fed' = {}
  /\ fused' = NoFusion
  /\ spin' = "idle"
  /\ UNCHANGED <<buffers, relo_buf, init_feature, ok, imu_arg, proc, measurements,
                 relo_msg, estimator, predicted, counts, stale>>

\* relocalization_callback: pushes under m_buf and does not notify.
RelocalizationCallback(t) ==
  /\ spin = "idle" /\ ok
  /\ relos < MaxRelo
  /\ relos' = relos + 1
  /\ ~HoldsBuf
  /\ relo_buf' = Append(relo_buf, t)
  /\ UNCHANGED <<buffers, last_imu_t, init_feature, ok, spin, imu_arg, proc, measurements,
                 relo_msg, current_time, features, restarts, estimator, predicted, history>>

\* SIGINT ends rclcpp::ok() at any moment, from outside both threads.
Shutdown ==
  /\ ok
  /\ ok' = FALSE
  /\ UNCHANGED <<buffers, relo_buf, last_imu_t, init_feature, spin, imu_arg, proc,
                 measurements, relo_msg, current_time, estimator, predicted, counts, history>>

\* main after rclcpp::spin has returned: con.notify_all, then join.  m_buf is not held.
NotifyAll ==
  /\ spin = "idle" /\ ~ok
  /\ Notify
  /\ spin' = "join"
  /\ UNCHANGED <<buffers, relo_buf, last_imu_t, init_feature, ok, imu_arg, measurements,
                 relo_msg, current_time, estimator, predicted, counts, history>>

Join ==
  /\ spin = "join" /\ proc = "exited"
  /\ spin' = "done"
  /\ UNCHANGED <<buffers, relo_buf, last_imu_t, init_feature, ok, imu_arg, proc, measurements,
                 relo_msg, current_time, estimator, predicted, counts, history>>

-----------------------------------------------------------------------------
(* The process thread *)

\* Everything the process thread leaves alone while it fills a batch.
NotGathering == <<relo_buf, last_imu_t, init_feature, ok, spin, imu_arg, relo_msg,
                  current_time, estimator, predicted, counts, history>>

\* process: the loop condition, then m_buf and the wait.
ProcessLoop ==
  /\ proc = "loop"
  /\ proc' = IF ok THEN "pred" ELSE "exited"
  /\ UNCHANGED <<buffers, measurements, NotGathering>>

\* The wait predicate under m_buf: !ok ends the wait and the loop, otherwise
\* getMeasurements starts an empty batch.
EvaluatePredicate ==
  /\ proc = "pred"
  /\ proc' = IF ok THEN "gather" ELSE "exited"
  /\ measurements' = <<>>
  /\ UNCHANGED <<buffers, NotGathering>>

\* Mutant: the newest IMU sample is not compared with the image.
ImageReadyTooSoon == imu_buf # <<>> /\ feature_buf # <<>>

\* getMeasurements can look at an image: both buffers are non-empty and the newest
\* IMU sample is later than the oldest image.
ImageReady ==
  /\ imu_buf # <<>> /\ feature_buf # <<>>
  /\ imu_buf[Len(imu_buf)] > Head(feature_buf) + td

\* Mutant: an image is never thrown away.
AnyImage == TRUE

\* The oldest IMU sample precedes the oldest image.
ImuBeforeImage == Head(imu_buf) < Head(feature_buf) + td

\* getMeasurements drops an image that no older IMU sample precedes ("throw img").
ThrowImage ==
  /\ proc = "gather" /\ ImageReady
  /\ ~ImuBeforeImage
  /\ feature_buf' = Tail(feature_buf)
  /\ UNCHANGED <<imu_buf, proc, measurements, NotGathering>>

\* getMeasurements takes an image and starts collecting its IMU samples.
TakeImage ==
  /\ proc = "gather" /\ ImageReady
  /\ ImuBeforeImage
  /\ measurements' = Append(measurements, [img |-> Head(feature_buf), imus |-> <<>>])
  /\ feature_buf' = Tail(feature_buf)
  /\ proc' = "collect"
  /\ UNCHANGED <<imu_buf, NotGathering>>

\* imu_buf.front() is older than the image whose samples are being collected.
FrontPrecedes == Head(imu_buf) < measurements[Len(measurements)].img + td

\* The sample at the front of imu_buf joins the last measurement.
WithFront == [measurements EXCEPT ![Len(measurements)].imus = Append(@, Head(imu_buf))]

CollectSample ==
  /\ proc = "collect" /\ FrontPrecedes
  /\ measurements' = WithFront
  /\ imu_buf' = Tail(imu_buf)
  /\ UNCHANGED <<feature_buf, proc, NotGathering>>

\* Mutant: the measurement ends with the last sample before its image.
ClosedEarly == measurements

\* The measurement ends with the first sample at or after its image.
Closed == WithFront

\* The first sample after the image is copied, not popped: the next image needs it too.
CloseMeasurement ==
  /\ proc = "collect" /\ ~FrontPrecedes
  /\ measurements' = Closed
  /\ proc' = "gather"
  /\ UNCHANGED <<buffers, NotGathering>>

\* getMeasurements returns: with a batch the wait is over and ok is read once more
\* before m_buf is released; without one the thread is about to block.
ReturnMeasurements ==
  /\ proc = "gather" /\ ~ImageReady
  /\ proc' = IF measurements = <<>> THEN "sleep" ELSE IF ok THEN "batch_taken" ELSE "exited"
  /\ UNCHANGED <<buffers, measurements, NotGathering>>

\* con.wait releases m_buf and blocks.  What is notified between the evaluation of
\* the predicate and this step is lost.
Block ==
  /\ proc = "sleep"
  /\ proc' = "blocked"
  /\ UNCHANGED <<buffers, measurements, NotGathering>>

\* A condition variable may wake up without a notification; nothing promises it will.
SpuriousWakeup ==
  /\ proc = "blocked"
  /\ proc' = "pred"
  /\ UNCHANGED <<buffers, measurements, NotGathering>>

\* m_estimator.lock() for the whole batch.
LockEstimator ==
  /\ proc = "batch_taken"
  /\ proc' = "batch"
  /\ UNCHANGED <<buffers, measurements, NotGathering>>

\* The measurement being processed, its next sample and the image's time.
Current  == Head(measurements)
Sample   == Head(Current.imus)
ImageTime == Current.img + td
MoreSamples == proc = "batch" /\ Current.imus # <<>>

\* processIMU(dt, ...) of a sample that is not later than the image.
IntegrateSample ==
  /\ MoreSamples /\ Sample <= ImageTime
  /\ current_time' = Sample
  /\ fed' = fed \cup {Sample}
  /\ measurements' = [measurements EXCEPT ![1].imus = Tail(@)]
  /\ UNCHANGED <<buffers, relo_buf, last_imu_t, init_feature, ok, spin, imu_arg, proc,
                 relo_msg, estimator, predicted, counts, accepted, fused, stale>>

\* processIMU(dt_1, ...) with the sample after the image, interpolated at the image.
InterpolateAtImage ==
  /\ MoreSamples /\ Sample > ImageTime
  /\ current_time' = ImageTime
  /\ measurements' = [measurements EXCEPT ![1].imus = Tail(@)]
  /\ UNCHANGED <<buffers, relo_buf, last_imu_t, init_feature, ok, spin, imu_arg, proc,
                 relo_msg, estimator, predicted, counts, history>>

\* Relocalization messages are drained without m_buf; only the last one is kept.
DrainRelo ==
  /\ proc = "batch" /\ ~MoreSamples
  /\ relo_buf # <<>>
  /\ relo_msg' = Head(relo_buf)
  /\ relo_buf' = Tail(relo_buf)
  /\ UNCHANGED <<buffers, last_imu_t, init_feature, ok, spin, imu_arg, proc, measurements,
                 current_time, estimator, predicted, counts, history>>

\* Mutant: a failure leaves td unset.
ImageOutcomesUnset == {<<"INITIAL", -1>>, <<"NON_LINEAR", TD>>}

\* What processImage can do to the estimator: initialisation may succeed; a non-linear
\* step re-estimates td or fails, and a failure clears the state.
ImageOutcomes ==
  {<<"NON_LINEAR", d>> : d \in TdValues}
    \cup (IF solver_flag = "INITIAL" THEN {<<"INITIAL", td>>} ELSE {<<"INITIAL", TD>>})

\* setReloFrame (when relo_msg is not NULL), processImage and the publications.  After
\* the last measurement m_estimator is released.
ProcessImage ==
  /\ proc = "batch" /\ ~MoreSamples
  /\ relo_buf = <<>>
  /\ \E outcome \in ImageOutcomes : solver_flag' = outcome[1] /\ td' = outcome[2]
  /\ fused' = [img |-> Current.img, at |-> current_time, used |-> fed]
  /\ relo_msg' = 0
  /\ measurements' = Tail(measurements)
  /\ proc' = IF Len(measurements) = 1 THEN "update" ELSE "batch"
  /\ UNCHANGED <<buffers, relo_buf, last_imu_t, init_feature, ok, spin, imu_arg,
                 current_time, predicted, counts, accepted, fed, stale>>

\* Mutant: the samples that arrived during the batch are not replayed.
NotReplayed == [base |-> fused.at, seen |-> {}]

\* update: the prediction restarts from the window's newest state and is propagated
\* through every sample still in imu_buf.  A sample at latest_time adds nothing.
Replayed ==
  [base |-> fused.at, seen |-> Elems(imu_buf) \ {current_time}]

\* process under m_buf and m_state, after m_estimator is released.
Update ==
  /\ proc = "update"
  /\ proc' = "loop"
  /\ IF solver_flag = "NON_LINEAR"
       THEN /\ tmp' = Replayed
            /\ latest_time' = IF imu_buf = <<>> THEN current_time ELSE imu_buf[Len(imu_buf)]
       ELSE UNCHANGED predicted
  /\ UNCHANGED <<buffers, relo_buf, last_imu_t, init_feature, ok, spin, imu_arg, measurements,
                 relo_msg, current_time, estimator, counts, history>>

-----------------------------------------------------------------------------
SpinThread ==
  \/ \E t \in Stamps : ImuCallback(t) \/ FeatureCallback(t) \/ RelocalizationCallback(t)
  \/ Predict
  \/ RestartClear \/ RestartEstimator \/ RestartReset
  \/ NotifyAll \/ Join

GetMeasurements ==
  ThrowImage \/ TakeImage \/ CollectSample \/ CloseMeasurement \/ ReturnMeasurements

ProcessBatch ==
  LockEstimator \/ IntegrateSample \/ InterpolateAtImage \/ DrainRelo \/ ProcessImage \/ Update

\* The process thread but for spurious wake-ups, which nothing obliges to happen.
ProcessThread == ProcessLoop \/ EvaluatePredicate \/ GetMeasurements \/ Block \/ ProcessBatch

\* main has returned.
Finished == spin = "done" /\ UNCHANGED vars

Next == SpinThread \/ ProcessThread \/ SpuriousWakeup \/ Shutdown \/ Finished

Spec == Init /\ [][Next]_vars

\* The scheduler runs the process thread, finishes a callback it has started, and
\* lets main leave once rclcpp::ok() is false.  Messages and SIGINT need not come.
Fairness ==
  /\ WF_vars(ProcessThread)
  /\ WF_vars(Predict) /\ WF_vars(RestartEstimator) /\ WF_vars(RestartReset)
  /\ WF_vars(NotifyAll) /\ WF_vars(Join)

FairSpec == Spec /\ Fairness

-----------------------------------------------------------------------------
(* Properties *)

Times == Stamps \cup {t + d : t \in Stamps, d \in TdValues} \cup {-1}

\* Every variable has its type.
TypeOK ==
  /\ imu_buf \in Seq(Stamps) /\ feature_buf \in Seq(Stamps) /\ relo_buf \in Seq(Stamps)
  /\ last_imu_t \in Stamps \cup {0} /\ imu_arg \in Stamps \cup {0}
  /\ relo_msg \in Stamps \cup {0}
  /\ init_feature \in BOOLEAN /\ ok \in BOOLEAN
  /\ spin \in {"idle", "predict", "restart_estimator", "restart_reset", "join", "done"}
  /\ proc \in {"loop", "pred", "gather", "collect", "sleep", "blocked", "batch_taken",
               "batch", "update", "exited"}
  /\ measurements \in Seq([img : Stamps, imus : Seq(Stamps)])
  /\ current_time \in Int /\ latest_time \in Int
  /\ solver_flag \in {"INITIAL", "NON_LINEAR"} /\ td \in TdValues
  /\ tmp \in [base : Int, seen : SUBSET Stamps]
  /\ features \in 0..MaxFeatures /\ restarts \in 0..MaxRestarts /\ relos \in 0..MaxRelo
  /\ accepted \in SUBSET Stamps /\ fed \in SUBSET Stamps
  /\ fused \in [img : Stamps \cup {0}, at : Int, used : SUBSET Stamps]
  /\ stale \in BOOLEAN

\* getMeasurements reads and pops imu_buf.front() in a loop that tests only time stamps
\* (estimator_node.cpp:230-235): the buffer never runs empty under it, although
\* restart_callback moves td and empties the buffers from the other thread.
FrontDefined == proc = "collect" => imu_buf # <<>>

\* Outside a restart the IMU buffer holds samples of the current session only, oldest
\* first, none of them newer than last_imu_t: what process and update replay is in order.
SessionBuffer ==
  spin \in {"idle", "predict"} =>
    /\ Elems(imu_buf) \subseteq accepted
    /\ \A i, j \in DOMAIN imu_buf : i < j => imu_buf[i] < imu_buf[j]
    /\ \A t \in accepted : t <= last_imu_t

\* The assertions of process on the time it hands to processIMU: `dt >= 0`
\* (estimator_node.cpp:357) and `dt_1 >= 0` (374).  Those on dt_2 and on the sum (375, 376)
\* then hold of a sample after the image.
TimeAdvances ==
  MoreSamples =>
    IF Sample <= ImageTime
      THEN current_time < 0 \/ Sample >= current_time
      ELSE ImageTime >= current_time

\* The interpolation at the image starts from a sample of the session, not from the -1 of
\* an estimator that has integrated nothing: no assertion says so.
StartsKnown == MoreSamples /\ Sample > ImageTime => current_time >= 0

\* No stamp lies strictly between two offsets of one image.  A batch is gathered with one
\* offset and worked through with others, processImage estimates them in between: a sample
\* between them would be popped for an image that it no longer precedes.
OffsetsClose == \A d, e \in TdValues : d - e <= 1

\* As long as the offsets stay close, restarts break those assertions in one way only: the
\* process thread has taken its batch when restart_callback gets m_estimator before it does.
\* In every other batch the interpolation also starts from a known time.
TimeAdvancesUnlessStale == (OffsetsClose /\ ~stale) => TimeAdvances /\ StartsKnown

\* No sample moves the estimator twice: one it has already integrated comes back only
\* as the copy that closed the previous measurement, and then with dt = 0.
IntegratedOnce ==
  (~stale /\ MoreSamples /\ Sample <= ImageTime /\ Sample \in fed) => current_time = Sample

\* Until a restart, and as long as the offsets stay close, the high-rate prediction that
\* imu_callback publishes has been propagated through every sample accepted since the window
\* state it starts from, whatever order imu_callback's critical sections and update run in.
PredictionComplete ==
  (OffsetsClose /\ restarts = 0 /\ spin = "idle" /\ tmp.base # 0) =>
    tmp.seen = {t \in accepted : t > tmp.base}

\* An image that its IMU samples have caught up with is taken and processed: no wake-up
\* is lost while the node runs.
ImageServed == ImageReady ~> ~ok \/ (~ImageReady /\ measurements = <<>>)

\* Once rclcpp::ok() is false main is able to join the process thread and return: the
\* contract of main's con.notify_all() and measurement_process.join().
ShutdownCompletes == ~ok ~> spin = "done"

\* The node implements the fusion its buffers promise: as long as the estimator is not
\* restarted and td is the configured one, images are fused in order, each with exactly
\* the samples up to it, however the callbacks and the process thread interleave.
Fusion == INSTANCE MeasurementFusion WITH samples <- accepted, fusion <- fused
FusesInOrder == Fusion!Spec
=============================================================================
