--------------------- MODULE EstimatorNodeFusionProofs ---------------------
(***************************************************************************)
(* Theorems about what the process thread of EstimatorNode does with its   *)
(* batches: time handed to processIMU advances, no sample is integrated    *)
(* twice, the prediction misses none, and without restarts the two threads *)
(* implement MeasurementFusion.                                            *)
(***************************************************************************)
EXTENDS EstimatorNodeProofs

-----------------------------------------------------------------------------
(* The inductive invariant *)

\* The process thread has a batch in hand or is filling one.
Active == proc \in {"gather", "collect", "batch_taken", "batch"}

\* restart_callback is between its critical sections.
InRestart == spin \in {"restart_estimator", "restart_reset"}

\* The samples of measurement k are still being collected.
Open(k) == proc = "collect" /\ k = Len(measurements)

\* A batch is in hand when a restart resets the estimator only if that is recorded.
StageInv ==
  /\ InRestart /\ proc = "gather" => measurements = <<>>
  /\ spin = "restart_reset" /\ ~stale => proc \notin {"batch_taken", "batch"}
  /\ restarts = 0 => ~stale /\ ~InRestart

\* SessionBuffer, which holds during a restart too.
BufferInv ==
  /\ \A i \in 1..Len(imu_buf) : imu_buf[i] \in accepted
  /\ \A i, j \in 1..Len(imu_buf) : i < j => imu_buf[i] < imu_buf[j]
  /\ \A t \in accepted : t <= last_imu_t

\* The estimator's time, the samples of the batch and the buffer follow each other; only the
\* sample that closes a measurement occurs again.
OrderInv ==
  ~stale =>
    /\ current_time <= last_imu_t
    /\ \A j \in 1..Len(imu_buf) : current_time <= imu_buf[j]
    /\ Active => \A k \in 1..Len(measurements) : \A i \in 1..Len(measurements[k].imus) :
         /\ measurements[k].imus[i] \in accepted
         /\ current_time <= measurements[k].imus[i]
         /\ \A j \in 1..Len(imu_buf) : /\ measurements[k].imus[i] <= imu_buf[j]
                                       /\ Open(k) => measurements[k].imus[i] < imu_buf[j]
         /\ \A j \in 1..Len(measurements[k].imus) :
              i < j => measurements[k].imus[i] < measurements[k].imus[j]
         /\ \A l \in 1..Len(measurements) : k < l =>
              \A j \in 1..Len(measurements[l].imus) :
                measurements[k].imus[i] <= measurements[l].imus[j]

\* A measurement has a sample besides the one that closes it, until it is integrated.
LengthInv ==
  ~stale /\ Active => \A k \in 1..Len(measurements) :
    /\ Open(k) /\ measurements[k].imus = <<>> => imu_buf[1] < measurements[k].img + td
    /\ ~Open(k) => \/ Len(measurements[k].imus) >= 2
                   \/ /\ k = 1 /\ proc = "batch"
                      /\ measurements[k].imus = <<>> \/ current_time < measurements[k].imus[1]

\* A sample that is integrated and comes again is the one the estimator's time stands at.
OnceInv ==
  ~stale =>
    /\ fed \subseteq accepted
    /\ \A j \in 1..Len(imu_buf) : imu_buf[j] \in fed => imu_buf[j] = current_time
    /\ Active => \A k \in 1..Len(measurements) : \A i \in 1..Len(measurements[k].imus) :
         measurements[k].imus[i] \in fed => measurements[k].imus[i] = current_time

\* With close offsets only the sample that closes a measurement can be later than its image.
CloseInv ==
  OffsetsClose /\ ~stale /\ Active =>
    /\ \A k \in 1..Len(measurements) : \A i \in 1..Len(measurements[k].imus) :
         (Open(k) \/ i < Len(measurements[k].imus)) =>
           \A d \in TdValues : measurements[k].imus[i] <= measurements[k].img + d
    /\ proc = "batch" => \/ Len(measurements[1].imus) >= 2
                         \/ 0 <= current_time /\ current_time <= measurements[1].img + td

\* No accepted sample is lost: it is integrated, or it is in the buffer or in the batch.
Covered ==
  proc # "exited" => \A t \in accepted :
    \/ t <= current_time
    \/ \E j \in 1..Len(imu_buf) : imu_buf[j] = t
    \/ Active /\ \E k \in 1..Len(measurements) : \E i \in 1..Len(measurements[k].imus) :
                    measurements[k].imus[i] = t

\* The samples up to the estimator's time are integrated, and no others.
FedInTime == fed = {t \in accepted : t <= current_time}

\* The sample that closes a measurement is the first that follows it in batch and buffer.
Chained ==
  Active => \A k \in 1..Len(measurements) : ~Open(k) =>
    /\ imu_buf # <<>>
    /\ measurements[k].imus # <<>> =>
         measurements[k].imus[Len(measurements[k].imus)] =
           IF k < Len(measurements) /\ measurements[k + 1].imus # <<>>
             THEN measurements[k + 1].imus[1] ELSE imu_buf[1]

\* update finds a sample in the buffer, and the window's newest state at the estimator's time.
UpdateReady == proc = "update" => imu_buf # <<>> /\ fused.at = current_time

\* All of this holds until a restart, with close offsets.
CoverInv ==
  OffsetsClose /\ restarts = 0 => Covered /\ FedInTime /\ Chained /\ UpdateReady

\* Until a restart the prediction has been propagated through every sample up to latest_time.
PredInv ==
  OffsetsClose /\ restarts = 0 /\ spin \in {"idle", "predict"} =>
    /\ last_imu_t # 0 => imu_buf # <<>> /\ imu_buf[Len(imu_buf)] = last_imu_t
    /\ latest_time <= last_imu_t
    /\ spin = "idle" => latest_time = last_imu_t
    /\ spin = "predict" => /\ imu_arg = last_imu_t /\ imu_arg \in accepted
                           /\ \A t \in accepted : t <= latest_time \/ t = imu_arg
    /\ tmp.base # 0 => /\ tmp.base <= latest_time /\ latest_time # 0
                       /\ tmp.seen = {t \in accepted : tmp.base < t /\ t <= latest_time}

\* With one offset and no restart the images of the batch are in order, and each has samples on
\* both sides.
FuseInv ==
  restarts = 0 /\ TdValues = {TD} =>
    /\ fused.img # 0 => fused.img + TD <= current_time
    /\ Active => \A k \in 1..Len(measurements) :
         /\ measurements[k].img > fused.img
         /\ \E s \in accepted : s < measurements[k].img + TD
         /\ \E s \in accepted : s > measurements[k].img + TD
         /\ \A l \in 1..Len(measurements) : k < l => measurements[k].img < measurements[l].img
         /\ ~Open(k) /\ measurements[k].imus # <<>> =>
              measurements[k].imus[Len(measurements[k].imus)] >= measurements[k].img + TD
    /\ proc = "batch" /\ measurements[1].imus = <<>> => current_time = measurements[1].img + TD

-----------------------------------------------------------------------------
(* What the steps do to the buffer and the batch *)

HIDE DEF Batch

\* The lengths, samples and times that the steps work on.
LEMMA Shapes ==
  ASSUME TypeInv
  PROVE  /\ Len(imu_buf) \in Nat /\ (imu_buf = <<>> <=> Len(imu_buf) = 0)
         /\ \A j \in 1..Len(imu_buf) : imu_buf[j] \in Nat /\ imu_buf[j] \in Stamps
         /\ Len(measurements) \in Nat /\ (measurements = <<>> <=> Len(measurements) = 0)
         /\ \A k \in 1..Len(measurements) :
              /\ measurements[k].img \in Nat \ {0}
              /\ Len(measurements[k].imus) \in Nat
              /\ measurements[k].imus = <<>> <=> Len(measurements[k].imus) = 0
              /\ \A i \in 1..Len(measurements[k].imus) : measurements[k].imus[i] \in Nat
         /\ current_time \in Int /\ last_imu_t \in Nat /\ td \in Int
         /\ \A t \in accepted : t \in Nat \ {0}
<1>s. Stamps \subseteq Nat \ {0}
  BY StampsAssumption
<1>1. Len(imu_buf) \in Nat /\ (imu_buf = <<>> <=> Len(imu_buf) = 0)
  BY EmptySeq, LenProperties DEF TypeInv, TypeOK
<1>2. \A j \in 1..Len(imu_buf) : imu_buf[j] \in Nat /\ imu_buf[j] \in Stamps
  <2>1. ASSUME NEW j \in 1..Len(imu_buf)
        PROVE  imu_buf[j] \in Stamps
    BY ElementOfSeq DEF TypeInv, TypeOK
  <2> QED
    BY <1>s, <2>1
<1>3. measurements \in Seq(Batch)
  BY DEF TypeInv, TypeOK, Batch
<1>4. Len(measurements) \in Nat /\ (measurements = <<>> <=> Len(measurements) = 0)
  BY <1>3, EmptySeq, LenProperties
<1>5. ASSUME NEW k \in 1..Len(measurements)
      PROVE  /\ measurements[k].img \in Nat \ {0}
             /\ Len(measurements[k].imus) \in Nat
             /\ measurements[k].imus = <<>> <=> Len(measurements[k].imus) = 0
             /\ \A i \in 1..Len(measurements[k].imus) : measurements[k].imus[i] \in Nat
  <2>1. measurements[k] \in Batch
    BY <1>3, ElementOfSeq
  <2>2. measurements[k].img \in Stamps /\ measurements[k].imus \in Seq(Stamps)
    BY <2>1 DEF Batch
  <2>3. Len(measurements[k].imus) \in Nat /\ (measurements[k].imus = <<>> <=> Len(measurements[k].imus) = 0)
    BY <2>2, EmptySeq, LenProperties
  <2>4. ASSUME NEW i \in 1..Len(measurements[k].imus)
        PROVE  measurements[k].imus[i] \in Stamps
    BY <2>2, ElementOfSeq
  <2> QED
    BY <1>s, <2>2, <2>3, <2>4
<1>6. current_time \in Int /\ last_imu_t \in Nat /\ td \in Int /\ accepted \subseteq Stamps
  BY <1>s, TdAssumption DEF TypeInv, TypeOK
<1> QED
  BY <1>s, <1>1, <1>2, <1>4, <1>5, <1>6

\* The buffer without its first sample.
LEMMA BufferPopped ==
  ASSUME TypeInv, imu_buf # <<>>, imu_buf' = Tail(imu_buf)
  PROVE  /\ Len(imu_buf) \in Nat \ {0} /\ Head(imu_buf) = imu_buf[1] /\ imu_buf[1] \in Stamps
         /\ Len(imu_buf') = Len(imu_buf) - 1
         /\ \A j \in 1..(Len(imu_buf) - 1) : imu_buf'[j] = imu_buf[j + 1]
  BY Popped DEF TypeInv, TypeOK

\* TakeImage opens a measurement behind the others.
LEMMA ImageTaken ==
  ASSUME TypeInv, TakeImage
  PROVE  /\ Len(measurements') = Len(measurements) + 1
         /\ \A k \in 1..Len(measurements) : measurements'[k] = measurements[k]
         /\ measurements'[Len(measurements) + 1].img = Head(feature_buf)
         /\ measurements'[Len(measurements) + 1].imus = <<>>
         /\ Head(imu_buf) = imu_buf[1] /\ imu_buf[1] < Head(feature_buf) + td
         /\ imu_buf # <<>> /\ imu_buf[Len(imu_buf)] > Head(feature_buf) + td
         /\ Head(feature_buf) \in Stamps
<1> DEFINE e == [img |-> Head(feature_buf), imus |-> <<>>]
<1>1. /\ measurements' = Append(measurements, e)
      /\ imu_buf # <<>> /\ feature_buf # <<>>
      /\ imu_buf[Len(imu_buf)] > Head(feature_buf) + td
      /\ Head(imu_buf) < Head(feature_buf) + td
  BY DEF TakeImage, ImageReady, ImuBeforeImage
<1>2. measurements \in Seq(Batch) /\ imu_buf \in Seq(Stamps) /\ feature_buf \in Seq(Stamps)
  BY DEF TypeInv, TypeOK, Batch
<1>3. Head(feature_buf) \in Stamps /\ Head(imu_buf) = imu_buf[1]
  BY <1>1, <1>2, Popped
<1>4. e \in Batch /\ e.img = Head(feature_buf) /\ e.imus = <<>>
  BY <1>3, EmptySeq DEF Batch
<1> HIDE DEF e
<1> QED
  BY <1>1, <1>2, <1>3, <1>4, Pushed

\* CollectSample and CloseMeasurement put the front of the buffer behind the samples of the
\* last measurement.
LEMMA SampleAdded ==
  ASSUME TypeInv, measurements # <<>>, imu_buf # <<>>, measurements' = WithFront,
         NEW n, n = Len(measurements), NEW c, c = Len(measurements[n].imus)
  PROVE  /\ n \in Nat \ {0} /\ c \in Nat
         /\ Len(measurements') = n
         /\ \A k \in 1..n : k # n => measurements'[k] = measurements[k]
         /\ measurements'[n].img = measurements[n].img
         /\ Len(measurements'[n].imus) = c + 1
         /\ \A i \in 1..c : measurements'[n].imus[i] = measurements[n].imus[i]
         /\ measurements'[n].imus[c + 1] = imu_buf[1]
<1> DEFINE s == Append(measurements[n].imus, Head(imu_buf))
           e == [measurements[n] EXCEPT !.imus = s]
<1>1. measurements \in Seq(Batch) /\ imu_buf \in Seq(Stamps)
  BY DEF TypeInv, TypeOK, Batch
<1>2. n \in 1..Len(measurements) /\ n \in Nat \ {0}
  BY <1>1, EmptySeq, LenProperties
<1>3. measurements[n] \in Batch
  BY <1>1, <1>2, ElementOfSeq
<1>4. measurements[n].imus \in Seq(Stamps) /\ c \in Nat
  BY <1>3, LenProperties DEF Batch
<1>5. Head(imu_buf) \in Stamps /\ Head(imu_buf) = imu_buf[1]
  BY <1>1, Popped
<1>6. /\ s \in Seq(Stamps) /\ Len(s) = c + 1 /\ s[c + 1] = imu_buf[1]
      /\ \A i \in 1..c : s[i] = measurements[n].imus[i]
  BY <1>4, <1>5, Pushed
<1>7. measurements' = [measurements EXCEPT ![n] = e]
  BY DEF WithFront
<1> HIDE DEF s
<1>8. e \in Batch /\ e.img = measurements[n].img /\ e.imus = s
  BY <1>3, <1>6 DEF Batch
<1> HIDE DEF e
<1>9. Len(measurements') = n /\ measurements'[n] = e /\ \A k \in 1..n : k # n => measurements'[k] = measurements[k]
  BY <1>1, <1>2, <1>7, <1>8, ExceptSeq
<1> QED
  BY <1>2, <1>4, <1>6, <1>8, <1>9

\* The process thread takes the first sample of its batch.
LEMMA SampleUsed ==
  ASSUME TypeInv, MoreSamples, measurements' = [measurements EXCEPT ![1].imus = Tail(@)],
         NEW c, c = Len(measurements[1].imus)
  PROVE  /\ Len(measurements) \in Nat \ {0} /\ c \in Nat \ {0}
         /\ Len(measurements') = Len(measurements)
         /\ \A k \in 1..Len(measurements) : k # 1 => measurements'[k] = measurements[k]
         /\ measurements'[1].img = measurements[1].img
         /\ Len(measurements'[1].imus) = c - 1
         /\ \A i \in 1..(c - 1) : measurements'[1].imus[i] = measurements[1].imus[i + 1]
         /\ Sample = measurements[1].imus[1] /\ Sample \in Stamps /\ Current = measurements[1]
<1> DEFINE s == Tail(measurements[1].imus)
           e == [measurements[1] EXCEPT !.imus = s]
<1>1. measurements \in Seq(Batch)
  BY DEF TypeInv, TypeOK, Batch
<1>2. measurements # <<>> /\ Current \in Batch /\ Current = measurements[1]
  BY CurrentType DEF MoreSamples
<1>3. 1 \in 1..Len(measurements) /\ Len(measurements) \in Nat \ {0}
  BY <1>1, <1>2, EmptySeq, LenProperties
<1>4. measurements[1].imus \in Seq(Stamps) /\ measurements[1].imus # <<>>
  BY <1>2 DEF Batch, MoreSamples
<1>5. /\ s \in Seq(Stamps) /\ c \in Nat \ {0} /\ Len(s) = c - 1
      /\ \A i \in 1..(c - 1) : s[i] = measurements[1].imus[i + 1]
      /\ Sample = measurements[1].imus[1] /\ Sample \in Stamps
  BY <1>2, <1>4, Popped DEF Sample
<1>6. measurements' = [measurements EXCEPT ![1] = e]
  OBVIOUS
<1> HIDE DEF s
<1>7. e \in Batch /\ e.img = measurements[1].img /\ e.imus = s
  BY <1>2, <1>5 DEF Batch
<1> HIDE DEF e
<1>8. /\ Len(measurements') = Len(measurements) /\ measurements'[1] = e
      /\ \A k \in 1..Len(measurements) : k # 1 => measurements'[k] = measurements[k]
  BY <1>1, <1>3, <1>6, <1>7, ExceptSeq
<1> QED
  BY <1>2, <1>3, <1>5, <1>7, <1>8

\* processImage takes the first measurement of the batch, the others move up.
LEMMA MeasurementDone ==
  ASSUME TypeInv, ProcessImage
  PROVE  /\ Len(measurements) \in Nat \ {0}
         /\ Len(measurements') = Len(measurements) - 1
         /\ \A k \in 1..(Len(measurements) - 1) : measurements'[k] = measurements[k + 1]
         /\ Current = measurements[1] /\ measurements[1].imus = <<>>
<1>1. measurements' = Tail(measurements) /\ proc = "batch" /\ ~MoreSamples
  BY DEF ProcessImage
<1>2. measurements # <<>> /\ Current = measurements[1] /\ measurements \in Seq(Batch)
  BY <1>1, CurrentType DEF TypeInv, TypeOK, Batch
<1> QED
  BY <1>1, <1>2, Popped DEF MoreSamples

\* What a step changes that leaves samples, batch and estimator alone.
Quiet ==
  /\ UNCHANGED <<imu_buf, measurements, current_time, last_imu_t, accepted, fed, fused, stale, td, restarts>>
  /\ proc' # proc => /\ proc \notin {"gather", "collect", "batch_taken", "batch"}
                     /\ proc' \notin {"gather", "collect", "batch_taken", "batch", "update"}
  /\ InRestart' = InRestart /\ (spin' = "restart_reset" <=> spin = "restart_reset")
  /\ proc = "exited" => proc' = "exited"

\* The steps that are none of the session's business.
QuietStep ==
  \/ \E t \in Stamps : FeatureCallback(t) \/ RelocalizationCallback(t)
  \/ Predict \/ NotifyAll \/ Join \/ Shutdown
  \/ ProcessLoop \/ ThrowImage \/ Block \/ SpuriousWakeup \/ DrainRelo \/ Update
  \/ UNCHANGED vars

\* They are quiet.
LEMMA QuietSteps ==
  ASSUME QuietStep
  PROVE  Quiet
<1> USE DEF Quiet, InRestart, buffers, estimator, predicted, counts, history, NotGathering
<1>1. ASSUME NEW t \in Stamps, FeatureCallback(t)
      PROVE  Quiet
  <2>1. proc' = proc \/ Notify
    BY <1>1 DEF FeatureCallback
  <2>2. proc' # proc => proc' = "pred" /\ proc = "blocked"
    BY <2>1 DEF Notify
  <2> QED
    BY <1>1, <2>2 DEF FeatureCallback
<1>2. ASSUME NEW t \in Stamps, RelocalizationCallback(t)
      PROVE  Quiet
  BY <1>2 DEF RelocalizationCallback
<1>3. CASE Predict \/ Join \/ Shutdown
  BY <1>3 DEF Predict, Join, Shutdown
<1>4. CASE NotifyAll
  BY <1>4 DEF NotifyAll, Notify
<1>5. CASE ProcessLoop \/ ThrowImage \/ Block \/ SpuriousWakeup
  BY <1>5 DEF ProcessLoop, ThrowImage, Block, SpuriousWakeup
<1>6. CASE DrainRelo \/ Update
  BY <1>6 DEF DrainRelo, Update
<1>7. CASE UNCHANGED vars
  BY <1>7 DEF vars
<1> QED
  BY <1>1, <1>2, <1>3, <1>4, <1>5, <1>6, <1>7 DEF QuietStep

\* The other steps.
LEMMA StepKinds ==
  ASSUME [Next]_vars
  PROVE  \/ QuietStep
         \/ \E t \in Stamps : ImuCallback(t)
         \/ RestartClear \/ RestartEstimator \/ RestartReset
         \/ EvaluatePredicate \/ TakeImage \/ CollectSample \/ CloseMeasurement \/ ReturnMeasurements
         \/ LockEstimator \/ IntegrateSample \/ InterpolateAtImage \/ ProcessImage
  BY DEF Next, SpinThread, ProcessThread, GetMeasurements, ProcessBatch, QuietStep, Finished

\* What the callbacks do, and what they leave alone.
LEMMA SpinEffects ==
  /\ \A t : ImuCallback(t) =>
       /\ t > last_imu_t /\ last_imu_t' = t /\ imu_buf' = Append(imu_buf, t)
       /\ accepted' = accepted \cup {t}
       /\ ~HoldsBuf /\ (proc' = proc \/ (proc = "blocked" /\ proc' = "pred"))
       /\ spin = "idle" /\ spin' = "predict" /\ imu_arg' = t
       /\ UNCHANGED <<measurements, current_time, fed, fused, stale, td, restarts, latest_time, tmp>>
  /\ RestartClear =>
       /\ imu_buf' = <<>> /\ restarts' = restarts + 1 /\ ~HoldsBuf
       /\ spin' = "restart_estimator"
       /\ UNCHANGED <<measurements, current_time, last_imu_t, accepted, fed, fused, stale, td, proc>>
  /\ RestartEstimator =>
       /\ spin = "restart_estimator" /\ spin' = "restart_reset" /\ proc # "batch"
       /\ stale' = (stale \/ proc = "batch_taken") /\ td' = TD
       /\ UNCHANGED <<imu_buf, measurements, current_time, last_imu_t, accepted, fed, fused, proc, restarts>>
  /\ RestartReset =>
       /\ spin = "restart_reset" /\ spin' = "idle"
       /\ current_time' = -1 /\ last_imu_t' = 0 /\ accepted' = {} /\ fed' = {} /\ fused' = NoFusion
       /\ UNCHANGED <<imu_buf, measurements, stale, td, proc, restarts>>
<1> USE DEF buffers, estimator, predicted, counts, history
<1>1. ASSUME NEW t, ImuCallback(t)
      PROVE  /\ t > last_imu_t /\ last_imu_t' = t /\ imu_buf' = Append(imu_buf, t)
             /\ accepted' = accepted \cup {t}
             /\ ~HoldsBuf /\ (proc' = proc \/ (proc = "blocked" /\ proc' = "pred"))
             /\ spin = "idle" /\ spin' = "predict" /\ imu_arg' = t
             /\ UNCHANGED <<measurements, current_time, fed, fused, stale, td, restarts, latest_time, tmp>>
  BY <1>1 DEF ImuCallback, InOrder, Notify
<1>2. ASSUME RestartClear
      PROVE  /\ imu_buf' = <<>> /\ restarts' = restarts + 1 /\ ~HoldsBuf
             /\ spin' = "restart_estimator"
             /\ UNCHANGED <<measurements, current_time, last_imu_t, accepted, fed, fused, stale, td, proc>>
  BY <1>2 DEF RestartClear, BuffersCleared
<1>3. ASSUME RestartEstimator
      PROVE  /\ spin = "restart_estimator" /\ spin' = "restart_reset" /\ proc # "batch"
             /\ stale' = (stale \/ proc = "batch_taken") /\ td' = TD
             /\ UNCHANGED <<imu_buf, measurements, current_time, last_imu_t, accepted, fed, fused, proc, restarts>>
  BY <1>3 DEF RestartEstimator, HoldsEstimator
<1>4. ASSUME RestartReset
      PROVE  /\ spin = "restart_reset" /\ spin' = "idle"
             /\ current_time' = -1 /\ last_imu_t' = 0 /\ accepted' = {} /\ fed' = {} /\ fused' = NoFusion
             /\ UNCHANGED <<imu_buf, measurements, stale, td, proc, restarts>>
  BY <1>4 DEF RestartReset
<1> QED
  BY <1>1, <1>2, <1>3, <1>4

\* What the process thread leaves alone while it fills a batch, and while it works through one.
LEMMA ProcessEffects ==
  /\ EvaluatePredicate \/ TakeImage \/ CollectSample \/ CloseMeasurement \/ ReturnMeasurements \/ LockEstimator =>
       UNCHANGED <<current_time, last_imu_t, accepted, fed, fused, stale, td, restarts, spin, imu_arg,
                   latest_time, tmp>>
  /\ IntegrateSample \/ InterpolateAtImage =>
       /\ MoreSamples
       /\ measurements' = [measurements EXCEPT ![1].imus = Tail(@)]
       /\ UNCHANGED <<imu_buf, last_imu_t, accepted, fused, stale, td, restarts, spin, imu_arg,
                      latest_time, tmp, proc>>
  /\ ProcessImage =>
       UNCHANGED <<imu_buf, current_time, last_imu_t, accepted, fed, stale, restarts, spin, imu_arg,
                   latest_time, tmp>>
<1> USE DEF buffers, estimator, predicted, counts, history, NotGathering
<1>1. ASSUME EvaluatePredicate \/ TakeImage \/ CollectSample
      PROVE  UNCHANGED <<current_time, last_imu_t, accepted, fed, fused, stale, td, restarts, spin, imu_arg,
                         latest_time, tmp>>
  BY <1>1 DEF EvaluatePredicate, TakeImage, CollectSample
<1>2. ASSUME CloseMeasurement \/ ReturnMeasurements \/ LockEstimator
      PROVE  UNCHANGED <<current_time, last_imu_t, accepted, fed, fused, stale, td, restarts, spin, imu_arg,
                         latest_time, tmp>>
  BY <1>2 DEF CloseMeasurement, ReturnMeasurements, LockEstimator
<1>3. ASSUME IntegrateSample \/ InterpolateAtImage
      PROVE  /\ MoreSamples
             /\ measurements' = [measurements EXCEPT ![1].imus = Tail(@)]
             /\ UNCHANGED <<imu_buf, last_imu_t, accepted, fused, stale, td, restarts, spin, imu_arg,
                            latest_time, tmp, proc>>
  BY <1>3 DEF IntegrateSample, InterpolateAtImage
<1>4. ASSUME ProcessImage
      PROVE  UNCHANGED <<imu_buf, current_time, last_imu_t, accepted, fed, stale, restarts, spin, imu_arg,
                         latest_time, tmp>>
  BY <1>4 DEF ProcessImage
<1> QED
  BY <1>1, <1>2, <1>3, <1>4

-----------------------------------------------------------------------------
(* Each part of the invariant is preserved *)

\* A restart meets a batch only where that is recorded.
LEMMA StageNext ==
  ASSUME TypeInv, FrontInv, StageInv, [Next]_vars
  PROVE  StageInv'
<1> USE DEF StageInv, InRestart
<1>b. restarts \in Nat /\ (InRestart => imu_buf = <<>> /\ proc # "collect")
  BY BoundsAssumption DEF TypeInv, TypeOK, FrontInv, ClearedInRestart, NewestBeyondImage
<1>1. CASE QuietStep
  BY <1>1, QuietSteps DEF Quiet
<1>2. ASSUME NEW t \in Stamps, ImuCallback(t)
      PROVE  StageInv'
  BY <1>2, SpinEffects
<1>3. CASE RestartClear
  BY <1>3, <1>b, SpinEffects DEF HoldsBuf
<1>4. CASE RestartEstimator \/ RestartReset
  BY <1>4, <1>b, SpinEffects
<1>5. CASE EvaluatePredicate
  BY <1>5, ProcessEffects DEF EvaluatePredicate
<1>6. CASE TakeImage
  BY <1>6, <1>b, ProcessEffects DEF TakeImage, ImageReady
<1>7. CASE CollectSample \/ CloseMeasurement
  BY <1>7, <1>b, ProcessEffects DEF CollectSample, CloseMeasurement
<1>8. CASE ReturnMeasurements \/ LockEstimator
  BY <1>8, ProcessEffects DEF ReturnMeasurements, LockEstimator
<1>9. CASE IntegrateSample \/ InterpolateAtImage
  BY <1>9, ProcessEffects DEF MoreSamples
<1>10. CASE ProcessImage
  BY <1>10, ProcessEffects DEF ProcessImage
<1> QED
  BY <1>1, <1>2, <1>3, <1>4, <1>5, <1>6, <1>7, <1>8, <1>9, <1>10, StepKinds

\* The buffer after imu_callback.
LEMMA SamplePushed ==
  ASSUME TypeInv, NEW t \in Stamps, ImuCallback(t)
  PROVE  /\ Len(imu_buf') = Len(imu_buf) + 1 /\ imu_buf'[Len(imu_buf) + 1] = t
         /\ \A j \in 1..Len(imu_buf) : imu_buf'[j] = imu_buf[j]
         /\ t \in Nat \ {0}
<1>1. imu_buf' = Append(imu_buf, t) /\ imu_buf \in Seq(Stamps)
  BY SpinEffects DEF TypeInv, TypeOK
<1> QED
  BY <1>1, Pushed, StampsAssumption

\* The buffer holds accepted samples in their order.
LEMMA BufferNext ==
  ASSUME TypeInv, FrontInv, BufferInv, [Next]_vars
  PROVE  BufferInv'
<1> USE DEF BufferInv
<1>1. CASE UNCHANGED <<imu_buf, accepted, last_imu_t>>
  BY <1>1
<1>2. ASSUME NEW t \in Stamps, ImuCallback(t)
      PROVE  BufferInv'
  <2>1. t > last_imu_t /\ last_imu_t' = t /\ accepted' = accepted \cup {t}
    BY <1>2, SpinEffects
  <2>2. PICK n \in Nat : n = Len(imu_buf)
    BY Shapes
  <2>3. /\ Len(imu_buf') = n + 1 /\ imu_buf'[n + 1] = t /\ t \in Nat
        /\ \A j \in 1..n : imu_buf'[j] = imu_buf[j]
    BY <1>2, <2>2, SamplePushed
  <2>4. \A j \in 1..n : imu_buf[j] \in accepted /\ imu_buf[j] < t
    BY <2>1, <2>2, <2>3, Shapes
  <2>5. \A j \in 1..(n + 1) : j \in 1..n \/ j = n + 1
    BY <2>2
  <2>6. \A i \in 1..(n + 1) : imu_buf'[i] \in accepted'
    BY <2>1, <2>3, <2>4, <2>5
  <2>7. ASSUME NEW i \in 1..(n + 1), NEW j \in 1..(n + 1), i < j
        PROVE  imu_buf'[i] < imu_buf'[j]
    <3>1. i \in 1..n
      BY <2>2, <2>7
    <3>2. CASE j = n + 1
      BY <2>3, <2>4, <3>1, <3>2
    <3>3. CASE j \in 1..n
      BY <2>2, <2>3, <2>7, <3>1, <3>3
    <3> QED
      BY <2>5, <3>2, <3>3
  <2>8. \A s \in accepted' : s <= last_imu_t'
    BY <2>1, <2>3, Shapes
  <2> QED
    BY <2>3, <2>6, <2>7, <2>8
<1>3. CASE RestartClear \/ RestartReset
  <2>1. imu_buf' = <<>>
    BY <1>3, SpinEffects DEF FrontInv, ClearedInRestart
  <2>2. Len(imu_buf') = 0
    BY <2>1
  <2> QED
    BY <1>3, <2>2, SpinEffects
<1>4. CASE CollectSample
  <2>1. imu_buf # <<>> /\ imu_buf' = Tail(imu_buf) /\ UNCHANGED <<accepted, last_imu_t>>
    BY <1>4, ProcessEffects DEF CollectSample, FrontInv, NewestBeyondImage
  <2>2. PICK n \in Nat \ {0} : n = Len(imu_buf)
    BY <2>1, BufferPopped
  <2>3. Len(imu_buf') = n - 1 /\ \A j \in 1..(n - 1) : imu_buf'[j] = imu_buf[j + 1]
    BY <2>1, <2>2, BufferPopped
  <2>4. \A j \in 1..(n - 1) : j + 1 \in 1..n
    BY <2>2
  <2> QED
    BY <2>1, <2>2, <2>3, <2>4
<1>5. ASSUME ~CollectSample, ~RestartClear, ~RestartReset, \A t \in Stamps : ~ImuCallback(t)
      PROVE  UNCHANGED <<imu_buf, accepted, last_imu_t>>
  BY <1>5, StepKinds, QuietSteps, SpinEffects, ProcessEffects
  DEF Quiet, EvaluatePredicate, TakeImage, CloseMeasurement, ReturnMeasurements, LockEstimator,
      ProcessImage, NotGathering, buffers
<1> QED
  BY <1>1, <1>2, <1>3, <1>4, <1>5

\* A step that neither adds a sample nor opens a measurement.
Unpushed ==
  /\ UNCHANGED <<imu_buf, measurements, current_time, last_imu_t, accepted, fed, td>>
  /\ stale => stale'
  /\ Active' => /\ Active /\ \A k : Open(k)' <=> Open(k)
                /\ proc' = proc \/ (proc = "gather" /\ proc' = "batch_taken")
                                \/ (proc = "batch_taken" /\ proc' = "batch")

\* Quiet steps, and the steps between filling a batch and working through it.
LEMMA UnpushedSteps ==
  ASSUME Quiet \/ ReturnMeasurements \/ LockEstimator
  PROVE  Unpushed
<1>1. CASE Quiet
  BY <1>1 DEF Unpushed, Quiet, Active, Open
<1>2. CASE ReturnMeasurements
  BY <1>2, ProcessEffects DEF Unpushed, Active, Open, ReturnMeasurements, NotGathering, buffers
<1>3. CASE LockEstimator
  BY <1>3, ProcessEffects DEF Unpushed, Active, Open, LockEstimator, NotGathering, buffers
<1> QED
  BY <1>1, <1>2, <1>3

\* Time, batch and buffer stay in order.
LEMMA OrderNext ==
  ASSUME TypeInv, FrontInv, StageInv, BufferInv, OrderInv, [Next]_vars
  PROVE  OrderInv'
<1>1. ASSUME Quiet \/ ReturnMeasurements \/ LockEstimator
      PROVE  OrderInv'
  <2>1. Unpushed
    BY <1>1, UnpushedSteps
  <2> QED
    BY <2>1 DEF Unpushed, OrderInv
<1>2. ASSUME NEW t \in Stamps, ImuCallback(t)
      PROVE  OrderInv'
  <2>1. /\ UNCHANGED <<measurements, current_time, stale>> /\ accepted' = accepted \cup {t}
        /\ t > last_imu_t /\ last_imu_t' = t
        /\ proc \notin {"gather", "collect"} /\ (proc' = proc \/ proc' = "pred")
    BY <1>2, SpinEffects DEF HoldsBuf
  <2>2. /\ Len(imu_buf') = Len(imu_buf) + 1 /\ imu_buf'[Len(imu_buf) + 1] = t /\ t \in Nat
        /\ \A j \in 1..Len(imu_buf) : imu_buf'[j] = imu_buf[j]
    BY <1>2, SamplePushed
  <2>3. \A j \in 1..Len(imu_buf') : \/ j \in 1..Len(imu_buf) /\ imu_buf'[j] = imu_buf[j]
                                    \/ imu_buf'[j] = t
    BY <2>2, Shapes
  <2>4. SUFFICES ASSUME ~stale
                 PROVE  OrderInv'
    BY <2>1 DEF OrderInv
  <2>5. current_time < t /\ current_time <= last_imu_t'
    BY <2>1, <2>2, <2>4, Shapes DEF OrderInv
  <2>6. \A j \in 1..Len(imu_buf') : current_time <= imu_buf'[j]
    BY <2>2, <2>3, <2>4, <2>5, Shapes DEF OrderInv
  <2>7. ASSUME Active', NEW k \in 1..Len(measurements), NEW i \in 1..Len(measurements[k].imus)
        PROVE  /\ measurements[k].imus[i] \in accepted'
               /\ current_time <= measurements[k].imus[i]
               /\ \A j \in 1..Len(imu_buf') : /\ measurements[k].imus[i] <= imu_buf'[j]
                                              /\ Open(k)' => measurements[k].imus[i] < imu_buf'[j]
               /\ \A j \in 1..Len(measurements[k].imus) :
                    i < j => measurements[k].imus[i] < measurements[k].imus[j]
               /\ \A l \in 1..Len(measurements) : k < l =>
                    \A j \in 1..Len(measurements[l].imus) :
                      measurements[k].imus[i] <= measurements[l].imus[j]
    <3>1. Active /\ ~Open(k)'
      BY <2>1, <2>7 DEF Active, Open
    <3>2. /\ measurements[k].imus[i] \in accepted
          /\ current_time <= measurements[k].imus[i]
          /\ \A j \in 1..Len(imu_buf) : measurements[k].imus[i] <= imu_buf[j]
          /\ \A j \in 1..Len(measurements[k].imus) :
               i < j => measurements[k].imus[i] < measurements[k].imus[j]
          /\ \A l \in 1..Len(measurements) : k < l =>
               \A j \in 1..Len(measurements[l].imus) :
                 measurements[k].imus[i] <= measurements[l].imus[j]
      BY <2>4, <3>1 DEF OrderInv
    <3>3. measurements[k].imus[i] < t
      BY <2>1, <2>2, <3>2, Shapes DEF BufferInv
    <3>4. ASSUME NEW j \in 1..Len(imu_buf')
          PROVE  measurements[k].imus[i] <= imu_buf'[j]
      <4>1. CASE j \in 1..Len(imu_buf) /\ imu_buf'[j] = imu_buf[j]
        BY <3>2, <4>1
      <4>2. CASE imu_buf'[j] = t
        BY <2>2, <3>3, <4>2, Shapes
      <4> QED
        BY <2>3, <4>1, <4>2
    <3> QED
      BY <2>1, <3>1, <3>2, <3>4
  <2> QED
    BY <2>1, <2>5, <2>6, <2>7 DEF OrderInv
<1>3. CASE RestartClear
  <2>1. /\ UNCHANGED <<measurements, current_time, last_imu_t, accepted, stale, proc>>
        /\ Len(imu_buf') = 0 /\ ~HoldsBuf
    BY <1>3, SpinEffects
  <2> QED
    BY <2>1 DEF OrderInv, Active, Open
<1>4. CASE RestartEstimator
  <2>1. UNCHANGED <<imu_buf, measurements, current_time, last_imu_t, accepted, proc>> /\ (stale => stale')
    BY <1>4, SpinEffects
  <2> QED
    BY <2>1 DEF OrderInv, Active, Open
<1>5. CASE RestartReset
  <2>1. /\ UNCHANGED <<imu_buf, measurements, stale, proc>> /\ current_time' = -1 /\ last_imu_t' = 0
        /\ InRestart /\ spin = "restart_reset"
    BY <1>5, SpinEffects DEF InRestart
  <2>2. imu_buf = <<>> /\ proc # "collect" /\ Len(imu_buf) = 0
    BY <2>1, Shapes DEF InRestart, FrontInv, ClearedInRestart, NewestBeyondImage
  <2>3. ~stale /\ Active => Len(measurements) = 0
    BY <2>1, <2>2, Shapes DEF StageInv, Active
  <2> QED
    BY <2>1, <2>2, <2>3 DEF OrderInv, Active
<1>6. CASE EvaluatePredicate
  <2>1. /\ UNCHANGED <<imu_buf, current_time, last_imu_t, stale>> /\ Len(measurements') = 0
    BY <1>6, ProcessEffects DEF EvaluatePredicate, NotGathering, buffers
  <2> QED
    BY <2>1 DEF OrderInv
<1>7. CASE TakeImage
  <2>1. UNCHANGED <<imu_buf, current_time, last_imu_t, stale, accepted>> /\ proc = "gather"
    BY <1>7, ProcessEffects DEF TakeImage
  <2>2. PICK n \in Nat : n = Len(measurements)
    BY Shapes
  <2>3. /\ Len(measurements') = n + 1
        /\ \A k \in 1..n : measurements'[k] = measurements[k]
        /\ Len(measurements'[n + 1].imus) = 0
    BY <1>7, <2>2, ImageTaken
  <2>4. \A k \in 1..(n + 1) : \A i \in 1..Len(measurements'[k].imus) : k \in 1..n /\ ~Open(k)'
    BY <2>3 DEF Open
  <2>5. Active
    BY <2>1 DEF Active
  <2>6. \A l \in 1..(n + 1) : \A j \in 1..Len(measurements'[l].imus) : l \in 1..n /\ measurements'[l] = measurements[l]
    BY <2>3, <2>4
  <2> QED
    BY <2>1, <2>2, <2>3, <2>4, <2>5, <2>6 DEF OrderInv
<1>8. CASE CollectSample \/ CloseMeasurement
  <2>1. /\ UNCHANGED <<current_time, last_imu_t, stale, accepted>> /\ measurements' = WithFront
        /\ proc = "collect" /\ proc' \in {"collect", "gather"}
        /\ \/ proc' = "collect" /\ imu_buf' = Tail(imu_buf)
           \/ proc' = "gather" /\ imu_buf' = imu_buf
    BY <1>8, ProcessEffects DEF CollectSample, CloseMeasurement, Closed, buffers
  <2>2. imu_buf # <<>> /\ measurements # <<>>
    BY <2>1 DEF FrontInv, NewestBeyondImage, TypeInv, HoldsMeasurement
  <2>3. PICK n : n = Len(measurements)
    OBVIOUS
  <2>4. PICK c : c = Len(measurements[n].imus)
    OBVIOUS
  <2>5. /\ n \in Nat \ {0} /\ c \in Nat /\ Len(measurements') = n
        /\ \A k \in 1..n : k # n => measurements'[k] = measurements[k]
        /\ Len(measurements'[n].imus) = c + 1
        /\ \A i \in 1..c : measurements'[n].imus[i] = measurements[n].imus[i]
        /\ measurements'[n].imus[c + 1] = imu_buf[1]
    BY <2>1, <2>2, <2>3, <2>4, SampleAdded
  <2>6. PICK b \in Nat \ {0} : b = Len(imu_buf)
    BY <2>2, Shapes
  <2>7. \A j \in 1..Len(imu_buf') : \E g \in 1..b : imu_buf'[j] = imu_buf[g] /\ (proc' = "collect" => 1 < g)
    <3>1. CASE imu_buf' = imu_buf /\ proc' = "gather"
      BY <2>6, <3>1
    <3>2. CASE imu_buf' = Tail(imu_buf)
      <4>1. Len(imu_buf') = b - 1 /\ \A j \in 1..(b - 1) : imu_buf'[j] = imu_buf[j + 1]
        BY <2>2, <2>6, <3>2, BufferPopped
      <4>2. \A j \in 1..(b - 1) : j + 1 \in 1..b /\ 1 < j + 1
        BY <2>6
      <4> QED
        BY <4>1, <4>2
    <3> QED
      BY <2>1, <3>1, <3>2
  <2>8. /\ imu_buf[1] \in accepted /\ imu_buf[1] \in Nat
        /\ \A g \in 1..b : /\ imu_buf[1] <= imu_buf[g] /\ imu_buf[g] \in Nat
                           /\ 1 < g => imu_buf[1] < imu_buf[g]
    BY <2>6, Shapes DEF BufferInv
  <2>9. SUFFICES ASSUME ~stale
                 PROVE  OrderInv'
    BY <2>1 DEF OrderInv
  <2>10. Active /\ (\A k : Open(k) <=> k = n) /\ (\A k : Open(k)' <=> proc' = "collect" /\ k = n)
    BY <2>1, <2>3, <2>5 DEF Active, Open
  <2>11. ASSUME NEW k \in 1..n, NEW i \in 1..Len(measurements[k].imus)
         PROVE  /\ measurements[k].imus[i] \in accepted
                /\ current_time <= measurements[k].imus[i]
                /\ measurements[k].imus[i] \in Nat
                /\ \A j \in 1..b : /\ measurements[k].imus[i] <= imu_buf[j]
                                   /\ k = n => measurements[k].imus[i] < imu_buf[j]
                /\ \A j \in 1..Len(measurements[k].imus) :
                     i < j => measurements[k].imus[i] < measurements[k].imus[j]
                /\ \A l \in 1..n : k < l =>
                     \A j \in 1..Len(measurements[l].imus) :
                       measurements[k].imus[i] <= measurements[l].imus[j]
    BY <2>3, <2>6, <2>9, <2>10, Shapes DEF OrderInv
  <2>12. \A j \in 1..b : current_time <= imu_buf[j]
    BY <2>6, <2>9 DEF OrderInv
  <2>13. ASSUME NEW k \in 1..n, NEW i \in 1..Len(measurements'[k].imus)
         PROVE  \/ k = n /\ i = c + 1 /\ measurements'[k].imus[i] = imu_buf[1]
                \/ i \in 1..Len(measurements[k].imus) /\ measurements'[k].imus[i] = measurements[k].imus[i]
    <3>1. CASE k = n
      <4>1. i \in 1..(c + 1)
        BY <2>5, <3>1
      <4>2. i \in 1..c \/ i = c + 1
        BY <2>5, <4>1
      <4> QED
        BY <2>4, <2>5, <3>1, <4>2
    <3>2. CASE k # n
      BY <2>5, <3>2
    <3> QED
      BY <3>1, <3>2
  <2>14. ASSUME NEW k \in 1..n, NEW i \in 1..Len(measurements'[k].imus)
         PROVE  /\ measurements'[k].imus[i] \in accepted
                /\ current_time <= measurements'[k].imus[i]
                /\ \A j \in 1..Len(imu_buf') :
                     /\ measurements'[k].imus[i] <= imu_buf'[j]
                     /\ Open(k)' => measurements'[k].imus[i] < imu_buf'[j]
    <3>1. CASE measurements'[k].imus[i] = imu_buf[1]
      BY <2>6, <2>7, <2>8, <2>10, <2>12, <3>1
    <3>2. CASE i \in 1..Len(measurements[k].imus) /\ measurements'[k].imus[i] = measurements[k].imus[i]
      BY <2>7, <2>10, <2>11, <3>2
    <3> QED
      BY <2>13, <3>1, <3>2
  <2>15. ASSUME NEW k \in 1..n, NEW i \in 1..Len(measurements'[k].imus),
                NEW j \in 1..Len(measurements'[k].imus), i < j
         PROVE  measurements'[k].imus[i] < measurements'[k].imus[j]
    <3>1. CASE k # n
      BY <2>5, <2>11, <2>15, <3>1
    <3>2. CASE k = n
      <4>1. i \in 1..c /\ (j \in 1..c \/ j = c + 1)
        BY <2>5, <2>15, <3>2
      <4>2. measurements'[n].imus[i] = measurements[n].imus[i] /\ i \in 1..Len(measurements[n].imus)
        BY <2>4, <2>5, <4>1
      <4>3. CASE j = c + 1
        <5>1. n \in 1..n /\ 1 \in 1..b
          BY <2>5, <2>6
        <5> QED
          BY <2>5, <2>11, <3>2, <4>2, <4>3, <5>1
      <4>4. CASE j \in 1..c
        BY <2>4, <2>5, <2>11, <2>15, <3>2, <4>2, <4>4
      <4> QED
        BY <4>1, <4>3, <4>4
    <3> QED
      BY <3>1, <3>2
  <2>16. ASSUME NEW k \in 1..n, NEW i \in 1..Len(measurements'[k].imus),
                NEW l \in 1..n, k < l, NEW j \in 1..Len(measurements'[l].imus)
         PROVE  measurements'[k].imus[i] <= measurements'[l].imus[j]
    <3>1. k # n /\ measurements'[k] = measurements[k]
      BY <2>5, <2>16
    <3>2. CASE l = n /\ measurements'[l].imus[j] = imu_buf[1]
      <4>1. 1 \in 1..b
        BY <2>6
      <4> QED
        BY <2>11, <3>1, <3>2, <4>1
    <3>3. CASE j \in 1..Len(measurements[l].imus) /\ measurements'[l].imus[j] = measurements[l].imus[j]
      BY <2>11, <2>16, <3>1, <3>3
    <3> QED
      BY <2>13, <3>2, <3>3
  <2>17. \A j \in 1..Len(imu_buf') : current_time <= imu_buf'[j]
    BY <2>7, <2>12
  <2>18. current_time <= last_imu_t
    BY <2>9 DEF OrderInv
  <2>19. ASSUME NEW k \in 1..n, NEW i \in 1..Len(measurements'[k].imus)
         PROVE  /\ measurements'[k].imus[i] \in accepted
                /\ current_time <= measurements'[k].imus[i]
                /\ \A j \in 1..Len(imu_buf') :
                     /\ measurements'[k].imus[i] <= imu_buf'[j]
                     /\ Open(k)' => measurements'[k].imus[i] < imu_buf'[j]
                /\ \A j \in 1..Len(measurements'[k].imus) :
                     i < j => measurements'[k].imus[i] < measurements'[k].imus[j]
                /\ \A l \in 1..n : k < l =>
                     \A j \in 1..Len(measurements'[l].imus) :
                       measurements'[k].imus[i] <= measurements'[l].imus[j]
    BY <2>14, <2>15, <2>16
  <2>20. Len(measurements') = n /\ UNCHANGED <<current_time, last_imu_t, accepted>>
    BY <2>1, <2>5
  <2> QED
    BY <2>17, <2>18, <2>19, <2>20 DEF OrderInv
<1>9. CASE IntegrateSample \/ InterpolateAtImage
  <2>1. /\ UNCHANGED <<imu_buf, last_imu_t, accepted, stale, proc>> /\ MoreSamples
        /\ measurements' = [measurements EXCEPT ![1].imus = Tail(@)]
    BY <1>9, ProcessEffects
  <2>2. PICK n : n = Len(measurements)
    OBVIOUS
  <2>3. PICK c : c = Len(measurements[1].imus)
    OBVIOUS
  <2>4. /\ n \in Nat \ {0} /\ c \in Nat \ {0} /\ Len(measurements') = n
        /\ \A k \in 1..n : k # 1 => measurements'[k] = measurements[k]
        /\ Len(measurements'[1].imus) = c - 1
        /\ \A i \in 1..(c - 1) : measurements'[1].imus[i] = measurements[1].imus[i + 1]
        /\ Sample = measurements[1].imus[1]
    BY <2>1, <2>2, <2>3, SampleUsed
  <2>5. ImageTime \in Int /\ current_time' <= measurements[1].imus[1] /\ current_time' \in Int
    <3>1. Current = measurements[1] /\ 1 \in 1..n /\ 1 \in 1..c
      BY <2>1, <2>2, <2>3, <2>4, SampleUsed
    <3>2. ImageTime \in Int /\ Sample \in Nat
      BY <2>2, <2>3, <2>4, <3>1, Shapes DEF ImageTime
    <3> QED
      BY <1>9, <2>4, <3>2 DEF IntegrateSample, InterpolateAtImage
  <2>6. SUFFICES ASSUME ~stale
                 PROVE  OrderInv'
    BY <2>1 DEF OrderInv
  <2>7. Active /\ (\A k : ~Open(k)')
    BY <2>1 DEF Active, Open, MoreSamples
  <2>8. ASSUME NEW k \in 1..n, NEW i \in 1..Len(measurements[k].imus)
        PROVE  /\ measurements[k].imus[i] \in accepted
               /\ measurements[1].imus[1] <= measurements[k].imus[i]
               /\ measurements[k].imus[i] \in Nat
               /\ \A j \in 1..Len(imu_buf) : measurements[k].imus[i] <= imu_buf[j]
               /\ \A j \in 1..Len(measurements[k].imus) :
                    i < j => measurements[k].imus[i] < measurements[k].imus[j]
               /\ \A l \in 1..n : k < l =>
                    \A j \in 1..Len(measurements[l].imus) :
                      measurements[k].imus[i] <= measurements[l].imus[j]
    <3>1. /\ measurements[k].imus[i] \in accepted
          /\ measurements[k].imus[i] \in Nat
          /\ \A j \in 1..Len(imu_buf) : measurements[k].imus[i] <= imu_buf[j]
          /\ \A j \in 1..Len(measurements[k].imus) :
               i < j => measurements[k].imus[i] < measurements[k].imus[j]
          /\ \A l \in 1..n : k < l =>
               \A j \in 1..Len(measurements[l].imus) :
                 measurements[k].imus[i] <= measurements[l].imus[j]
      BY <2>2, <2>6, <2>7, Shapes DEF OrderInv
    <3>2. /\ \A l \in 1..n : 1 < l =>
               \A j \in 1..Len(measurements[l].imus) :
                 measurements[1].imus[1] <= measurements[l].imus[j]
          /\ \A j \in 1..c : 1 < j => measurements[1].imus[1] < measurements[1].imus[j]
          /\ measurements[1].imus[1] \in Nat
      <4>1. 1 \in 1..n /\ 1 \in 1..c
        BY <2>4
      <4> QED
        BY <2>2, <2>3, <2>6, <2>7, <4>1, Shapes DEF OrderInv
    <3>3. CASE k = 1
      <4>1. i \in 1..c /\ (i = 1 \/ 1 < i)
        BY <2>3, <2>4, <3>3
      <4> QED
        BY <3>1, <3>2, <3>3, <4>1
    <3>4. CASE k # 1
      <4>1. 1 < k
        BY <2>4, <3>4
      <4> QED
        BY <3>1, <3>2, <4>1
    <3> QED
      BY <3>3, <3>4
  <2>9. ASSUME NEW k \in 1..n, NEW i \in 1..Len(measurements'[k].imus)
        PROVE  \E g \in 1..Len(measurements[k].imus) :
                 /\ measurements'[k].imus[i] = measurements[k].imus[g]
                 /\ g = IF k = 1 THEN i + 1 ELSE i
    <3>1. CASE k = 1
      <4>1. i \in 1..(c - 1) /\ i + 1 \in 1..c
        BY <2>4, <3>1
      <4> QED
        BY <2>3, <2>4, <3>1, <4>1
    <3>2. CASE k # 1
      BY <2>4, <3>2
    <3> QED
      BY <3>1, <3>2
  <2>10. ASSUME NEW k \in 1..n, NEW i \in 1..Len(measurements'[k].imus)
         PROVE  /\ measurements'[k].imus[i] \in accepted
                /\ current_time' <= measurements'[k].imus[i]
                /\ \A j \in 1..Len(imu_buf) : measurements'[k].imus[i] <= imu_buf[j]
    <3>1. measurements[1].imus[1] \in Nat
      <4>1. 1 \in 1..n /\ 1 \in 1..c
        BY <2>4
      <4> QED
        BY <2>3, <2>8, <4>1
    <3>2. PICK g \in 1..Len(measurements[k].imus) : measurements'[k].imus[i] = measurements[k].imus[g]
      BY <2>9
    <3>3. measurements[1].imus[1] <= measurements[k].imus[g] /\ measurements[k].imus[g] \in Nat
      BY <2>8
    <3>4. current_time' <= measurements[k].imus[g]
      BY <2>5, <3>1, <3>3
    <3> QED
      BY <2>8, <3>2, <3>4
  <2>11. ASSUME NEW k \in 1..n, NEW i \in 1..Len(measurements'[k].imus),
                NEW j \in 1..Len(measurements'[k].imus), i < j
         PROVE  measurements'[k].imus[i] < measurements'[k].imus[j]
    <3>1. PICK g \in 1..Len(measurements[k].imus) :
                 /\ measurements'[k].imus[i] = measurements[k].imus[g]
                 /\ g = IF k = 1 THEN i + 1 ELSE i
      BY <2>9
    <3>2. PICK h \in 1..Len(measurements[k].imus) :
                 /\ measurements'[k].imus[j] = measurements[k].imus[h]
                 /\ h = IF k = 1 THEN j + 1 ELSE j
      BY <2>9
    <3>3. g < h
      BY <2>11, <3>1, <3>2
    <3> QED
      BY <2>8, <3>1, <3>2, <3>3
  <2>12. ASSUME NEW k \in 1..n, NEW i \in 1..Len(measurements'[k].imus),
                NEW l \in 1..n, k < l, NEW j \in 1..Len(measurements'[l].imus)
         PROVE  measurements'[k].imus[i] <= measurements'[l].imus[j]
    <3>1. PICK g \in 1..Len(measurements[k].imus) : measurements'[k].imus[i] = measurements[k].imus[g]
      BY <2>9
    <3>2. PICK h \in 1..Len(measurements[l].imus) : measurements'[l].imus[j] = measurements[l].imus[h]
      BY <2>9
    <3> QED
      BY <2>8, <2>12, <3>1, <3>2
  <2>13. \A j \in 1..Len(imu_buf) : current_time' <= imu_buf[j]
    <3>1. 1 \in 1..n /\ 1 \in 1..c
      BY <2>4
    <3>2. measurements[1].imus[1] \in Nat /\ \A j \in 1..Len(imu_buf) : measurements[1].imus[1] <= imu_buf[j]
      BY <2>3, <2>8, <3>1
    <3> QED
      BY <2>5, <3>2, Shapes
  <2>14. current_time' <= last_imu_t
    <3>1. 1 \in 1..n /\ 1 \in 1..c
      BY <2>4
    <3>2. measurements[1].imus[1] \in Nat /\ measurements[1].imus[1] \in accepted
      BY <2>3, <2>8, <3>1
    <3> QED
      BY <2>5, <3>2, Shapes DEF BufferInv
  <2> QED
    BY SMTT(30), <2>1, <2>4, <2>7, <2>10, <2>11, <2>12, <2>13, <2>14 DEF OrderInv
<1>10. CASE ProcessImage
  <2>1. UNCHANGED <<imu_buf, current_time, last_imu_t, accepted, stale>> /\ proc = "batch" /\ proc' # "collect"
    BY <1>10, ProcessEffects DEF ProcessImage
  <2>2. PICK n : n = Len(measurements)
    OBVIOUS
  <2>3. /\ n \in Nat \ {0} /\ Len(measurements') = n - 1
        /\ \A k \in 1..(n - 1) : measurements'[k] = measurements[k + 1]
    BY <1>10, <2>2, MeasurementDone
  <2>4. \A k \in 1..(n - 1) : k + 1 \in 1..n /\ ~Open(k)'
    BY <2>1, <2>3 DEF Open
  <2>5. Active
    BY <2>1 DEF Active
  <2>6. \A k, l \in 1..(n - 1) : k < l => k + 1 < l + 1
    BY <2>3
  <2> QED
    BY SMTT(30), <2>1, <2>2, <2>3, <2>4, <2>5, <2>6 DEF OrderInv
<1> QED
  BY <1>1, <1>2, <1>3, <1>4, <1>5, <1>6, <1>7, <1>8, <1>9, <1>10, StepKinds, QuietSteps

\* The front of the buffer has been put behind the samples of measurement n, the last one.
Added(n, c) ==
  /\ n \in Nat \ {0} /\ c \in Nat
  /\ n = Len(measurements) /\ Len(measurements') = n
  /\ c = Len(measurements[n].imus) /\ Len(measurements'[n].imus) = c + 1
  /\ \A k \in 1..n : measurements'[k].img = measurements[k].img
  /\ \A k \in 1..n : k # n => measurements'[k] = measurements[k]
  /\ \A i \in 1..c : measurements'[n].imus[i] = measurements[n].imus[i]
  /\ measurements'[n].imus[c + 1] = imu_buf[1]

\* CollectSample and CloseMeasurement do so, and CollectSample takes it out of the buffer.
LEMMA AddedSteps ==
  ASSUME TypeInv, FrontInv, CollectSample \/ CloseMeasurement
  PROVE  \E n, c \in Nat :
           /\ Added(n, c)
           /\ proc = "collect" /\ (\A k : Open(k) <=> k = n)
           /\ imu_buf # <<>> /\ Head(imu_buf) = imu_buf[1]
           /\ imu_buf[Len(imu_buf)] > measurements[n].img + td
           /\ CollectSample => /\ proc' = "collect" /\ (\A k : Open(k)' <=> k = n)
                               /\ imu_buf' = Tail(imu_buf) /\ imu_buf[1] < measurements[n].img + td
           /\ CloseMeasurement => /\ proc' = "gather" /\ (\A k : ~Open(k)')
                                  /\ imu_buf' = imu_buf /\ imu_buf[1] >= measurements[n].img + td
<1>1. /\ proc = "collect" /\ measurements' = WithFront
      /\ imu_buf # <<>> /\ measurements # <<>>
      /\ imu_buf[Len(imu_buf)] > measurements[Len(measurements)].img + td
  BY DEF CollectSample, CloseMeasurement, Closed, FrontInv, NewestBeyondImage, TypeInv, HoldsMeasurement
<1>2. PICK n : n = Len(measurements)
  OBVIOUS
<1>3. PICK c : c = Len(measurements[n].imus)
  OBVIOUS
<1>4. Added(n, c) /\ n \in Nat /\ c \in Nat
  BY SMTT(30), <1>1, <1>2, <1>3, SampleAdded DEF Added
<1>5. Head(imu_buf) = imu_buf[1] /\ imu_buf[1] \in Nat
  <2>1. Head(imu_buf) = imu_buf[1]
    BY <1>1, Popped DEF TypeInv, TypeOK
  <2>2. 1 \in 1..Len(imu_buf)
    BY <1>1, Shapes
  <2> QED
    BY <2>1, <2>2, Shapes
<1>6. measurements[n].img + td \in Int
  BY <1>2, <1>4, Shapes DEF Added
<1>7. ASSUME CollectSample
      PROVE  /\ proc' = "collect" /\ (\A k : Open(k)' <=> k = n)
             /\ imu_buf' = Tail(imu_buf) /\ imu_buf[1] < measurements[n].img + td
  BY <1>2, <1>4, <1>5, <1>7 DEF CollectSample, FrontPrecedes, Open, Added
<1>8. ASSUME CloseMeasurement
      PROVE  /\ proc' = "gather" /\ (\A k : ~Open(k)')
             /\ imu_buf' = imu_buf /\ imu_buf[1] >= measurements[n].img + td
  <2>1. proc' = "gather" /\ (\A k : ~Open(k)') /\ imu_buf' = imu_buf
    BY <1>8 DEF CloseMeasurement, Open, buffers
  <2>2. ~(imu_buf[1] < measurements[n].img + td)
    BY <1>2, <1>5, <1>8 DEF CloseMeasurement, FrontPrecedes
  <2> QED
    BY <1>5, <1>6, <2>1, <2>2
<1>9. \A k : Open(k) <=> k = n
  BY <1>1, <1>2 DEF Open
<1> QED
  BY <1>1, <1>2, <1>4, <1>5, <1>7, <1>8, <1>9

\* The first sample of the batch has been handed to processIMU.
Used(n, c) ==
  /\ n \in Nat \ {0} /\ c \in Nat \ {0}
  /\ n = Len(measurements) /\ Len(measurements') = n
  /\ c = Len(measurements[1].imus) /\ Len(measurements'[1].imus) = c - 1
  /\ \A k \in 1..n : measurements'[k].img = measurements[k].img
  /\ \A k \in 1..n : k # 1 => measurements'[k] = measurements[k]
  /\ \A i \in 1..(c - 1) : measurements'[1].imus[i] = measurements[1].imus[i + 1]

\* IntegrateSample takes the time to the sample, InterpolateAtImage to the image before it.
LEMMA UsedSteps ==
  ASSUME TypeInv, IntegrateSample \/ InterpolateAtImage
  PROVE  \E n, c \in Nat, s \in Nat \ {0}, at \in Int :
           /\ Used(n, c)
           /\ s = measurements[1].imus[1] /\ s = Sample
           /\ at = measurements[1].img + td /\ at = ImageTime
           /\ IntegrateSample => s <= at /\ current_time' = s /\ fed' = fed \cup {s}
           /\ InterpolateAtImage => s > at /\ current_time' = at /\ fed' = fed
           /\ proc = "batch" /\ proc' = "batch" /\ (\A k : ~Open(k) /\ ~Open(k)')
<1>1. MoreSamples /\ measurements' = [measurements EXCEPT ![1].imus = Tail(@)] /\ proc' = proc
  BY ProcessEffects
<1>2. PICK n : n = Len(measurements)
  OBVIOUS
<1>3. PICK c : c = Len(measurements[1].imus)
  OBVIOUS
<1>4. /\ Used(n, c) /\ n \in Nat /\ c \in Nat
      /\ Sample = measurements[1].imus[1] /\ Sample \in Stamps /\ Current = measurements[1]
  BY <1>1, <1>2, <1>3, SampleUsed DEF Used
<1>5. Sample \in Nat \ {0}
  BY <1>4, StampsAssumption
<1>6. ImageTime = measurements[1].img + td /\ ImageTime \in Int
  <2>1. 1 \in 1..Len(measurements)
    BY <1>2, <1>4 DEF Used
  <2> QED
    BY <1>4, <2>1, Shapes DEF ImageTime
<1>7. proc = "batch" /\ \A k : ~Open(k) /\ ~Open(k)'
  BY <1>1 DEF MoreSamples, Open
<1>8. /\ IntegrateSample => Sample <= ImageTime /\ current_time' = Sample /\ fed' = fed \cup {Sample}
      /\ InterpolateAtImage => Sample > ImageTime /\ current_time' = ImageTime /\ fed' = fed
  BY DEF IntegrateSample, InterpolateAtImage, history
<1> QED
  BY <1>1, <1>4, <1>5, <1>6, <1>7, <1>8

\* While a restart resets the estimator, the batch that is not stale is empty.
LEMMA ResetEmpty ==
  ASSUME TypeInv, FrontInv, StageInv, RestartReset
  PROVE  /\ UNCHANGED <<measurements, stale, proc>>
         /\ Len(imu_buf') = 0
         /\ ~stale /\ Active => Len(measurements) = 0 /\ proc = "gather"
<1>1. spin = "restart_reset" /\ UNCHANGED <<measurements, stale, proc, imu_buf>>
  BY SpinEffects
<1>2. imu_buf = <<>> /\ proc # "collect"
  BY <1>1 DEF FrontInv, ClearedInRestart, NewestBeyondImage
<1> QED
  BY <1>1, <1>2, Shapes DEF StageInv, Active, InRestart

\* Measurements keep a sample besides the closing one until it is integrated.
LEMMA LengthNext ==
  ASSUME TypeInv, FrontInv, StageInv, OrderInv, LengthInv, [Next]_vars
  PROVE  LengthInv'
<1>1. ASSUME Quiet \/ ReturnMeasurements \/ LockEstimator
      PROVE  LengthInv'
  <2>1. Unpushed
    BY <1>1, UnpushedSteps
  <2> QED
    BY <2>1 DEF Unpushed, LengthInv
<1>2. ASSUME NEW t \in Stamps, ImuCallback(t)
      PROVE  LengthInv'
  <2>1. /\ UNCHANGED <<measurements, current_time, stale, td>>
        /\ proc \notin {"gather", "collect"} /\ (proc' = proc \/ proc' = "pred")
    BY <1>2, SpinEffects DEF HoldsBuf
  <2> QED
    BY <2>1 DEF LengthInv, Active, Open
<1>3. CASE RestartClear
  <2>1. UNCHANGED <<measurements, current_time, stale, proc>> /\ proc \notin {"gather", "collect"}
    BY <1>3, SpinEffects DEF HoldsBuf
  <2> QED
    BY <2>1 DEF LengthInv, Active, Open
<1>4. CASE RestartEstimator
  <2>1. UNCHANGED <<imu_buf, measurements, current_time, proc>> /\ (stale => stale')
          /\ spin = "restart_estimator"
    BY <1>4, SpinEffects
  <2>2. proc # "collect"
    BY <2>1 DEF FrontInv, ClearedInRestart, NewestBeyondImage
  <2> QED
    BY <2>1, <2>2 DEF LengthInv, Active, Open
<1>5. CASE RestartReset
  BY <1>5, ResetEmpty DEF LengthInv, Active
<1>6. CASE EvaluatePredicate
  <2>1. Len(measurements') = 0
    BY <1>6 DEF EvaluatePredicate
  <2> QED
    BY <2>1 DEF LengthInv
<1>7. CASE TakeImage
  <2>1. UNCHANGED <<imu_buf, stale, td>> /\ proc = "gather" /\ proc' = "collect"
    BY <1>7, ProcessEffects DEF TakeImage
  <2>2. PICK n \in Nat : n = Len(measurements)
    BY Shapes
  <2>3. /\ Len(measurements') = n + 1
        /\ \A k \in 1..n : measurements'[k] = measurements[k]
        /\ imu_buf[1] < measurements'[n + 1].img + td
    BY <1>7, <2>2, ImageTaken
  <2>4. \A k \in 1..(n + 1) : k = n + 1 \/ (k \in 1..n /\ ~Open(k)')
    BY <2>2, <2>3 DEF Open
  <2>5. Active /\ (\A k : ~Open(k)) /\ Open(n + 1)'
    BY <2>1, <2>3 DEF Active, Open
  <2> QED
    BY <2>1, <2>2, <2>3, <2>4, <2>5 DEF LengthInv
<1>8. CASE CollectSample \/ CloseMeasurement
  <2>1. PICK n, c \in Nat :
           /\ Added(n, c)
           /\ proc = "collect" /\ (\A k : Open(k) <=> k = n)
           /\ imu_buf # <<>>
           /\ CollectSample => proc' = "collect" /\ (\A k : Open(k)' <=> k = n)
           /\ CloseMeasurement => /\ proc' = "gather" /\ (\A k : ~Open(k)')
                                  /\ imu_buf[1] >= measurements[n].img + td
    BY <1>8, AddedSteps
  <2>2. stale' = stale /\ Active
    BY <1>8, <2>1, ProcessEffects DEF Active
  <2>3. SUFFICES ASSUME ~stale, NEW k \in 1..n
                 PROVE  /\ ~(Open(k)' /\ measurements'[k].imus = <<>>)
                        /\ ~Open(k)' => Len(measurements'[k].imus) >= 2
    BY <2>1, <2>2 DEF LengthInv, Added
  <2>4. CASE k # n
    BY <1>8, <2>1, <2>2, <2>3, <2>4 DEF LengthInv, Added
  <2>5. CASE k = n
    <3>1. measurements'[n].imus # <<>>
      <4>1. Len(measurements'[n].imus) = c + 1
        BY <2>1 DEF Added
      <4> QED
        BY <4>1
    <3>2. CASE CollectSample
      BY <2>1, <2>5, <3>1, <3>2
    <3>3. CASE CloseMeasurement
      <4>1. imu_buf[1] \in Nat /\ measurements[n].img + td \in Int
        <5>1. 1 \in 1..Len(imu_buf) /\ n \in 1..Len(measurements)
          BY <2>1, Shapes DEF Added
        <5> QED
          BY <5>1, Shapes
      <4>2. measurements[n].imus # <<>>
        <5>1. n \in 1..Len(measurements)
          BY <2>1 DEF Added
        <5> QED
          BY <2>1, <2>2, <2>3, <3>3, <4>1, <5>1 DEF LengthInv
      <4>3. c # 0
        BY <2>1, <2>3, <2>5, <4>2, Shapes DEF Added
      <4>4. Len(measurements'[n].imus) >= 2
        BY <2>1, <4>3 DEF Added
      <4> QED
        BY <2>1, <2>5, <3>1, <3>3, <4>4
    <3> QED
      BY <1>8, <3>2, <3>3
  <2> QED
    BY <2>4, <2>5
<1>9. CASE IntegrateSample \/ InterpolateAtImage
  <2>1. PICK n, c \in Nat, s \in Nat \ {0}, at \in Int :
           /\ Used(n, c) /\ s = measurements[1].imus[1]
           /\ IntegrateSample => s <= at /\ current_time' = s
           /\ InterpolateAtImage => s > at /\ current_time' = at
           /\ proc = "batch" /\ proc' = "batch" /\ (\A k : ~Open(k) /\ ~Open(k)')
    BY <1>9, UsedSteps
  <2>2. stale' = stale /\ Active
    BY <1>9, <2>1, ProcessEffects DEF Active
  <2>3. SUFFICES ASSUME ~stale, NEW k \in 1..n
                 PROVE  \/ Len(measurements'[k].imus) >= 2
                        \/ /\ k = 1
                           /\ measurements'[k].imus = <<>> \/ current_time' < measurements'[k].imus[1]
    BY <2>1, <2>2 DEF LengthInv, Used
  <2>4. CASE k # 1
    BY <2>1, <2>2, <2>3, <2>4 DEF LengthInv, Used
  <2>5. CASE k = 1
    <3>1. current_time' <= s
      BY <1>9, <2>1
    <3>2. CASE c = 1
      <4>1. Len(measurements'[1].imus) = 0
        BY <2>1, <3>2 DEF Used
      <4>2. TypeInv'
        BY <1>9, TypeInvProcess DEF ProcessThread, ProcessBatch
      <4>3. measurements'[1].imus = <<>>
        <5>1. measurements' \in Seq(Batch) /\ 1 \in 1..Len(measurements')
          BY <2>1, <4>2 DEF Used, TypeInv, TypeOK, Batch
        <5>2. measurements'[1] \in Batch
          BY <5>1, ElementOfSeq
        <5>3. measurements'[1].imus \in Seq(Stamps)
          BY <5>2 DEF Batch
        <5> QED
          BY <4>1, <5>3, EmptySeq
      <4> QED
        BY <2>5, <4>3
    <3>3. CASE c # 1
      <4>0. c \in Nat \ {0} /\ n \in Nat \ {0}
        BY <2>1 DEF Used
      <4>1. 1 \in 1..(c - 1) /\ 1 \in 1..c /\ 2 \in 1..c /\ 1 \in 1..n
        BY <3>3, <4>0
      <4>2. measurements'[1].imus[1] = measurements[1].imus[2]
        BY <2>1, <4>1 DEF Used
      <4>3. measurements[1].imus[1] < measurements[1].imus[2] /\ measurements[1].imus[2] \in Nat
        BY <2>1, <2>2, <2>3, <4>1, Shapes DEF OrderInv, Used
      <4>4. current_time' \in Int
        BY <1>9, <2>1
      <4> QED
        BY <2>1, <2>5, <3>1, <4>2, <4>3, <4>4
    <3> QED
      BY <3>2, <3>3
  <2> QED
    BY <2>4, <2>5
<1>10. CASE ProcessImage
  <2>1. UNCHANGED <<current_time, stale>> /\ proc = "batch" /\ proc' # "collect"
    BY <1>10, ProcessEffects DEF ProcessImage
  <2>2. PICK n : n = Len(measurements)
    OBVIOUS
  <2>3. /\ n \in Nat \ {0} /\ Len(measurements') = n - 1
        /\ \A k \in 1..(n - 1) : measurements'[k] = measurements[k + 1]
    BY <1>10, <2>2, MeasurementDone
  <2>4. \A k \in 1..(n - 1) : k + 1 \in 1..n /\ k + 1 # 1 /\ ~Open(k)'
    BY <2>1, <2>3 DEF Open
  <2>5. Active /\ (\A k : ~Open(k))
    BY <2>1 DEF Active, Open
  <2> QED
    BY <2>1, <2>2, <2>3, <2>4, <2>5 DEF LengthInv
<1> QED
  BY <1>1, <1>2, <1>3, <1>4, <1>5, <1>6, <1>7, <1>8, <1>9, <1>10, StepKinds, QuietSteps

\* The first sample of the batch is no later than any that follows it in batch and buffer, and
\* earlier than the others of its measurement.
LEMMA FirstSample ==
  ASSUME TypeInv, OrderInv, ~stale, proc = "batch", NEW n, n = Len(measurements),
         NEW c, c = Len(measurements[1].imus), n \in Nat \ {0}, c \in Nat \ {0}
  PROVE  /\ measurements[1].imus[1] \in Nat /\ measurements[1].imus[1] \in accepted
         /\ current_time <= measurements[1].imus[1]
         /\ \A j \in 1..Len(imu_buf) : measurements[1].imus[1] <= imu_buf[j]
         /\ \A j \in 1..c : 1 < j => measurements[1].imus[1] < measurements[1].imus[j]
         /\ \A l \in 1..n : \A j \in 1..Len(measurements[l].imus) :
              measurements[1].imus[1] <= measurements[l].imus[j]
<1>1. 1 \in 1..n /\ 1 \in 1..c /\ Active
  BY DEF Active
<1>2. /\ measurements[1].imus[1] \in Nat /\ measurements[1].imus[1] \in accepted
      /\ current_time <= measurements[1].imus[1]
      /\ \A j \in 1..Len(imu_buf) : measurements[1].imus[1] <= imu_buf[j]
      /\ \A j \in 1..c : 1 < j => measurements[1].imus[1] < measurements[1].imus[j]
      /\ \A l \in 1..n : 1 < l => \A j \in 1..Len(measurements[l].imus) :
           measurements[1].imus[1] <= measurements[l].imus[j]
  BY <1>1, Shapes DEF OrderInv
<1>3. ASSUME NEW l \in 1..n, NEW j \in 1..Len(measurements[l].imus)
      PROVE  measurements[1].imus[1] <= measurements[l].imus[j]
  <2>1. CASE l = 1 /\ j = 1
    BY <1>2, <2>1
  <2>2. CASE l = 1 /\ j # 1
    <3>1. measurements[l].imus[j] \in Nat /\ Len(measurements[l].imus) \in Nat
      BY Shapes
    <3>2. 1 < j /\ j \in 1..c
      BY <2>2, <3>1
    <3> QED
      BY <1>2, <2>2, <3>1, <3>2
  <2>3. CASE l # 1
    <3>1. 1 < l
      BY <2>3
    <3> QED
      BY <1>2, <3>1
  <2> QED
    BY <2>1, <2>2, <2>3
<1> QED
  BY <1>2, <1>3

\* A sample left in the batch was there before, behind the first one.
LEMMA UsedLeft ==
  ASSUME NEW n, NEW c, Used(n, c), NEW k \in 1..n, NEW i \in 1..Len(measurements'[k].imus)
  PROVE  \E g \in 1..Len(measurements[k].imus) :
           /\ measurements'[k].imus[i] = measurements[k].imus[g]
           /\ g = IF k = 1 THEN i + 1 ELSE i
<1>1. CASE k = 1
  <2>1. c \in Nat /\ i \in 1..(c - 1)
    BY <1>1 DEF Used
  <2>2. i + 1 \in 1..c
    BY <2>1
  <2> QED
    BY <1>1, <2>1, <2>2 DEF Used
<1>2. CASE k # 1
  BY <1>2 DEF Used
<1> QED
  BY <1>1, <1>2

\* A sample of the batch to which one has been added was there before, or is the front of the
\* buffer.
LEMMA AddedLeft ==
  ASSUME NEW n, NEW c, Added(n, c), NEW k \in 1..n, NEW i \in 1..Len(measurements'[k].imus)
  PROVE  \/ k = n /\ i = c + 1 /\ measurements'[k].imus[i] = imu_buf[1]
         \/ /\ i \in 1..Len(measurements[k].imus)
            /\ measurements'[k].imus[i] = measurements[k].imus[i]
<1>1. CASE k = n
  <2>1. c \in Nat /\ i \in 1..(c + 1)
    BY <1>1 DEF Added
  <2>2. i \in 1..c \/ i = c + 1
    BY <2>1
  <2> QED
    BY <1>1, <2>2 DEF Added
<1>2. CASE k # n
  BY <1>2 DEF Added
<1> QED
  BY <1>1, <1>2

\* What is integrated comes again only as the sample the time stands at.
LEMMA OnceNext ==
  ASSUME TypeInv, FrontInv, StageInv, BufferInv, OrderInv, LengthInv, OnceInv, [Next]_vars
  PROVE  OnceInv'
<1>1. ASSUME Quiet \/ ReturnMeasurements \/ LockEstimator
      PROVE  OnceInv'
  <2>1. Unpushed
    BY <1>1, UnpushedSteps
  <2> QED
    BY <2>1 DEF Unpushed, OnceInv
<1>2. ASSUME NEW t \in Stamps, ImuCallback(t)
      PROVE  OnceInv'
  <2>1. /\ UNCHANGED <<measurements, current_time, stale, fed>> /\ accepted' = accepted \cup {t}
        /\ t > last_imu_t /\ (Active' => Active)
    BY <1>2, SpinEffects DEF Active
  <2>2. /\ Len(imu_buf') = Len(imu_buf) + 1 /\ imu_buf'[Len(imu_buf) + 1] = t /\ t \in Nat
        /\ \A j \in 1..Len(imu_buf) : imu_buf'[j] = imu_buf[j]
    BY <1>2, SamplePushed
  <2>3. \A j \in 1..Len(imu_buf') : \/ j \in 1..Len(imu_buf) /\ imu_buf'[j] = imu_buf[j]
                                    \/ imu_buf'[j] = t
    BY <2>2, Shapes
  <2>4. ~stale => t \notin fed
    BY <2>1, <2>2, Shapes DEF OnceInv, BufferInv
  <2> QED
    BY <2>1, <2>3, <2>4 DEF OnceInv
<1>3. CASE RestartClear
  <2>1. UNCHANGED <<measurements, current_time, accepted, fed, stale, proc>> /\ Len(imu_buf') = 0
    BY <1>3, SpinEffects
  <2> QED
    BY <2>1 DEF OnceInv, Active
<1>4. CASE RestartEstimator
  <2>1. UNCHANGED <<imu_buf, measurements, current_time, accepted, fed, proc>> /\ (stale => stale')
    BY <1>4, SpinEffects
  <2> QED
    BY <2>1 DEF OnceInv, Active
<1>5. CASE RestartReset
  <2>1. fed' = {}
    BY <1>5, SpinEffects
  <2> QED
    BY <2>1 DEF OnceInv
<1>6. CASE EvaluatePredicate
  <2>1. UNCHANGED <<imu_buf, current_time, accepted, fed, stale>> /\ Len(measurements') = 0
    BY <1>6, ProcessEffects DEF EvaluatePredicate, NotGathering, buffers
  <2> QED
    BY <2>1 DEF OnceInv
<1>7. CASE TakeImage
  <2>1. UNCHANGED <<imu_buf, current_time, accepted, fed, stale>> /\ Active
    BY <1>7, ProcessEffects DEF TakeImage, Active
  <2>2. PICK n \in Nat : n = Len(measurements)
    BY Shapes
  <2>3. /\ Len(measurements') = n + 1
        /\ \A k \in 1..n : measurements'[k] = measurements[k]
        /\ Len(measurements'[n + 1].imus) = 0
    BY <1>7, <2>2, ImageTaken
  <2>4. \A k \in 1..(n + 1) : \A i \in 1..Len(measurements'[k].imus) : k \in 1..n
    BY <2>3
  <2> QED
    BY <2>1, <2>2, <2>3, <2>4 DEF OnceInv
<1>8. CASE CollectSample \/ CloseMeasurement
  <2>1. PICK n, c \in Nat :
           /\ Added(n, c) /\ proc = "collect" /\ imu_buf # <<>>
           /\ imu_buf' = Tail(imu_buf) \/ imu_buf' = imu_buf
    BY <1>8, AddedSteps
  <2>2. UNCHANGED <<current_time, accepted, fed, stale>> /\ Active
    BY <1>8, <2>1, ProcessEffects DEF Active
  <2>3. 1 \in 1..Len(imu_buf) /\ n = Len(measurements) /\ Len(measurements') = n
    BY <2>1, Shapes DEF Added
  <2>4. \A j \in 1..Len(imu_buf') : \E g \in 1..Len(imu_buf) : imu_buf'[j] = imu_buf[g]
    <3>1. CASE imu_buf' = Tail(imu_buf)
      <4>1. PICK b \in Nat \ {0} : b = Len(imu_buf)
        BY <2>1, Shapes
      <4>2. Len(imu_buf') = b - 1 /\ \A j \in 1..(b - 1) : imu_buf'[j] = imu_buf[j + 1]
        BY <2>1, <3>1, <4>1, BufferPopped
      <4>3. \A j \in 1..(b - 1) : j + 1 \in 1..b
        BY <4>1
      <4> QED
        BY <4>1, <4>2, <4>3
    <3> QED
      BY <2>1, <3>1
  <2>5. ASSUME ~stale, NEW k \in 1..n, NEW i \in 1..Len(measurements'[k].imus)
        PROVE  measurements'[k].imus[i] \in fed => measurements'[k].imus[i] = current_time
    <3>1. \/ measurements'[k].imus[i] = imu_buf[1]
          \/ /\ i \in 1..Len(measurements[k].imus)
             /\ measurements'[k].imus[i] = measurements[k].imus[i]
      BY <2>1, AddedLeft
    <3>2. CASE measurements'[k].imus[i] = imu_buf[1]
      BY <2>3, <2>5, <3>2 DEF OnceInv
    <3>3. CASE /\ i \in 1..Len(measurements[k].imus)
               /\ measurements'[k].imus[i] = measurements[k].imus[i]
      BY <2>2, <2>3, <2>5, <3>3 DEF OnceInv
    <3> QED
      BY <3>1, <3>2, <3>3
  <2> QED
    BY <2>2, <2>3, <2>4, <2>5 DEF OnceInv
<1>9. CASE IntegrateSample \/ InterpolateAtImage
  <2>1. PICK n, c \in Nat, s \in Nat \ {0}, at \in Int :
           /\ Used(n, c) /\ s = measurements[1].imus[1]
           /\ IntegrateSample => s <= at /\ current_time' = s /\ fed' = fed \cup {s}
           /\ InterpolateAtImage => s > at /\ current_time' = at /\ fed' = fed
           /\ proc = "batch"
    BY <1>9, UsedSteps
  <2>2. UNCHANGED <<imu_buf, accepted, stale>> /\ Active
    BY <1>9, <2>1, ProcessEffects DEF Active
  <2>3. /\ n = Len(measurements) /\ Len(measurements') = n /\ c = Len(measurements[1].imus)
        /\ n \in Nat \ {0} /\ c \in Nat \ {0}
    BY <2>1 DEF Used
  <2>4. SUFFICES ASSUME ~stale
                 PROVE  OnceInv'
    BY <2>2 DEF OnceInv
  <2>6. fed' \subseteq accepted
    BY <1>9, <2>1, <2>3, <2>4, FirstSample DEF OnceInv
  <2>7. ASSUME NEW p \in Nat, s <= p, p \in fed => p = current_time, p \in fed'
        PROVE  p = s /\ (p # current_time' => p = current_time /\ InterpolateAtImage)
    <3>1. current_time <= s /\ current_time \in Int
      BY <2>1, <2>3, <2>4, Shapes, FirstSample
    <3>2. CASE IntegrateSample
      BY <2>1, <2>7, <3>1, <3>2
    <3>3. CASE InterpolateAtImage
      BY <2>1, <2>7, <3>1, <3>3
    <3> QED
      BY <1>9, <3>2, <3>3
  <2>8. InterpolateAtImage /\ s = current_time =>
          /\ \A j \in 1..Len(imu_buf) : s < imu_buf[j]
          /\ \A l \in 1..n : \A j \in 1..Len(measurements[l].imus) :
               (l = 1 /\ j = 1) \/ s < measurements[l].imus[j]
    <3>1. SUFFICES ASSUME s = current_time
                   PROVE  /\ \A j \in 1..Len(imu_buf) : s < imu_buf[j]
                          /\ \A l \in 1..n : \A j \in 1..Len(measurements[l].imus) :
                               (l = 1 /\ j = 1) \/ s < measurements[l].imus[j]
      OBVIOUS
    <3>2. c >= 2
      <4>1. 1 \in 1..n /\ ~Open(1)
        BY <2>1, <2>3 DEF Open
      <4>2. c >= 2 \/ measurements[1].imus = <<>> \/ current_time < measurements[1].imus[1]
        BY <2>2, <2>3, <2>4, <4>1 DEF LengthInv
      <4>3. measurements[1].imus # <<>>
        BY <2>3, <4>1, Shapes
      <4> QED
        BY <2>1, <3>1, <4>2, <4>3
    <3>3. 2 \in 1..c /\ 1 \in 1..n
      BY <2>3, <3>2
    <3>4. s < measurements[1].imus[2] /\ measurements[1].imus[2] \in Nat
      <4>1. \A j \in 1..c : 1 < j => s < measurements[1].imus[j]
        BY <2>1, <2>3, <2>4, FirstSample
      <4>2. measurements[1].imus[2] \in Nat
        BY <2>3, <3>3, Shapes
      <4> QED
        BY <3>3, <4>1, <4>2
    <3>5. ASSUME NEW j \in 1..Len(imu_buf)
          PROVE  s < imu_buf[j]
      <4>1. measurements[1].imus[2] <= imu_buf[j] /\ imu_buf[j] \in Nat
        BY <2>2, <2>3, <2>4, <3>3, Shapes DEF OrderInv
      <4> QED
        BY <3>4, <4>1
    <3>6. ASSUME NEW l \in 1..n, NEW j \in 1..Len(measurements[l].imus), ~(l = 1 /\ j = 1)
          PROVE  s < measurements[l].imus[j]
      <4>0. measurements[l].imus[j] \in Nat
        BY <2>3, Shapes
      <4>1. CASE l = 1
        <5>1. j \in 1..c /\ 1 < j
          BY <2>3, <3>6, <4>1
        <5> QED
          BY <2>1, <2>3, <2>4, <4>1, <5>1, FirstSample
      <4>2. CASE l # 1
        <5>1. 1 < l
          BY <4>2
        <5>2. measurements[1].imus[2] <= measurements[l].imus[j]
          BY <2>2, <2>3, <2>4, <3>3, <5>1 DEF OrderInv
        <5> QED
          BY <3>4, <4>0, <5>2
      <4> QED
        BY <4>1, <4>2
    <3> QED
      BY <3>5, <3>6
  <2>9. ASSUME NEW j \in 1..Len(imu_buf), imu_buf[j] \in fed'
        PROVE  imu_buf[j] = current_time'
    <3>1. s <= imu_buf[j] /\ imu_buf[j] \in Nat /\ (imu_buf[j] \in fed => imu_buf[j] = current_time)
      BY SMTT(30), <2>1, <2>3, <2>4, Shapes, FirstSample DEF OnceInv
    <3>2. imu_buf[j] = s /\ (imu_buf[j] # current_time' => imu_buf[j] = current_time /\ InterpolateAtImage)
      BY <2>7, <2>9, <3>1
    <3> QED
      BY <2>8, <3>1, <3>2
  <2>10. ASSUME NEW k \in 1..n, NEW i \in 1..Len(measurements'[k].imus), measurements'[k].imus[i] \in fed'
         PROVE  measurements'[k].imus[i] = current_time'
    <3>1. PICK g \in 1..Len(measurements[k].imus) :
             /\ measurements'[k].imus[i] = measurements[k].imus[g]
             /\ g = IF k = 1 THEN i + 1 ELSE i
      BY <2>1, UsedLeft
    <3>2. PICK p \in Nat : p = measurements[k].imus[g]
      BY <2>3, Shapes
    <3>3. s <= p /\ (p \in fed => p = current_time)
      BY <2>1, <2>2, <2>3, <2>4, <3>2, FirstSample DEF OnceInv
    <3>4. p = s /\ (p # current_time' => p = current_time /\ InterpolateAtImage)
      BY <2>7, <2>10, <3>1, <3>2, <3>3
    <3>5. ~(k = 1 /\ g = 1)
      BY <3>1
    <3>6. CASE p # current_time'
      <4>1. InterpolateAtImage /\ s = current_time /\ p = s
        BY <3>4, <3>6
      <4>2. s < p
        BY <2>8, <3>2, <3>5, <4>1
      <4> QED
        BY <3>2, <4>1, <4>2
    <3> QED
      BY <3>1, <3>2, <3>6
  <2> QED
    BY <2>2, <2>3, <2>6, <2>9, <2>10 DEF OnceInv
<1>10. CASE ProcessImage
  <2>1. UNCHANGED <<imu_buf, current_time, accepted, fed, stale>> /\ Active
    BY <1>10, ProcessEffects DEF ProcessImage, Active
  <2>2. PICK n : n = Len(measurements)
    OBVIOUS
  <2>3. /\ n \in Nat \ {0} /\ Len(measurements') = n - 1
        /\ \A k \in 1..(n - 1) : measurements'[k] = measurements[k + 1]
    BY <1>10, <2>2, MeasurementDone
  <2>4. \A k \in 1..(n - 1) : k + 1 \in 1..n
    BY <2>3
  <2> QED
    BY <2>1, <2>2, <2>3, <2>4 DEF OnceInv
<1> QED
  BY <1>1, <1>2, <1>3, <1>4, <1>5, <1>6, <1>7, <1>8, <1>9, <1>10, StepKinds, QuietSteps

\* With close offsets only a closing sample is later than its image.
LEMMA CloseNext ==
  ASSUME TypeInv, FrontInv, StageInv, OrderInv, LengthInv, CloseInv, [Next]_vars
  PROVE  CloseInv'
<1>o. OffsetsClose' <=> OffsetsClose
  BY DEF OffsetsClose
<1>1. ASSUME Quiet \/ ReturnMeasurements \/ LockEstimator
      PROVE  CloseInv'
  <2>1. Unpushed
    BY <1>1, UnpushedSteps
  <2>2. ASSUME Active', ~stale, proc = "batch_taken"
        PROVE  Len(measurements[1].imus) >= 2
    <3>1. 1 \in 1..Len(measurements) /\ ~Open(1) /\ Active
      BY <2>1, <2>2, Shapes DEF Unpushed, Open, TypeInv, HoldsMeasurement
    <3> QED
      BY <2>2, <3>1 DEF LengthInv
  <2> QED
    BY <1>o, <2>1, <2>2 DEF Unpushed, CloseInv
<1>2. ASSUME NEW t \in Stamps, ImuCallback(t)
      PROVE  CloseInv'
  <2>1. /\ UNCHANGED <<measurements, current_time, stale, td>>
        /\ proc \notin {"gather", "collect"} /\ (proc' = proc \/ proc' = "pred")
    BY <1>2, SpinEffects DEF HoldsBuf
  <2> QED
    BY <1>o, <2>1 DEF CloseInv, Active, Open
<1>3. CASE RestartClear
  <2>1. UNCHANGED <<measurements, current_time, stale, td, proc>>
    BY <1>3, SpinEffects
  <2> QED
    BY <1>o, <2>1 DEF CloseInv, Active, Open
<1>4. CASE RestartEstimator
  <2>1. UNCHANGED <<measurements, current_time, proc>> /\ (stale => stale') /\ proc # "batch"
    BY <1>4, SpinEffects
  <2> QED
    BY <1>o, <2>1 DEF CloseInv, Active, Open
<1>5. CASE RestartReset
  BY <1>5, ResetEmpty DEF CloseInv, Active
<1>6. CASE EvaluatePredicate
  <2>1. Len(measurements') = 0 /\ proc' # "batch"
    BY <1>6 DEF EvaluatePredicate
  <2> QED
    BY <2>1 DEF CloseInv
<1>7. CASE TakeImage
  <2>1. UNCHANGED stale /\ proc = "gather" /\ proc' = "collect"
    BY <1>7, ProcessEffects DEF TakeImage
  <2>2. PICK n \in Nat : n = Len(measurements)
    BY Shapes
  <2>3. /\ Len(measurements') = n + 1
        /\ \A k \in 1..n : measurements'[k] = measurements[k]
        /\ Len(measurements'[n + 1].imus) = 0
    BY <1>7, <2>2, ImageTaken
  <2>4. \A k \in 1..(n + 1) : \A i \in 1..Len(measurements'[k].imus) : k \in 1..n /\ ~Open(k)'
    BY <2>3 DEF Open
  <2>5. Active
    BY <2>1 DEF Active
  <2> QED
    BY <1>o, <2>1, <2>2, <2>3, <2>4, <2>5 DEF CloseInv
<1>8. CASE CollectSample \/ CloseMeasurement
  <2>1. PICK n, c \in Nat :
           /\ Added(n, c)
           /\ proc = "collect" /\ (\A k : Open(k) <=> k = n) /\ imu_buf # <<>>
           /\ CollectSample => proc' = "collect" /\ imu_buf[1] < measurements[n].img + td
           /\ CloseMeasurement => proc' = "gather" /\ (\A k : ~Open(k)')
    BY <1>8, AddedSteps
  <2>2. UNCHANGED stale /\ Active
    BY <1>8, <2>1, ProcessEffects DEF Active
  <2>3. SUFFICES ASSUME OffsetsClose, ~stale, NEW k \in 1..n, NEW i \in 1..Len(measurements'[k].imus),
                        Open(k)' \/ i < Len(measurements'[k].imus), NEW d \in TdValues
                 PROVE  measurements'[k].imus[i] <= measurements'[k].img + d
    BY <1>8, <1>o, <2>1, <2>2 DEF CloseInv, Added
  <2>4. n = Len(measurements) /\ measurements'[k].img = measurements[k].img
    BY <2>1 DEF Added
  <2>5. CASE k = n /\ i = c + 1 /\ measurements'[k].imus[i] = imu_buf[1]
    <3>1. Len(measurements'[k].imus) = c + 1
      BY <2>1, <2>5 DEF Added
    <3>2. CollectSample
      BY <1>8, <2>1, <2>3, <2>5, <3>1
    <3>3. 1 \in 1..Len(imu_buf)
      BY <2>1, Shapes
    <3>4. imu_buf[1] \in Nat /\ measurements[n].img \in Nat /\ td \in Int /\ d \in Int
      BY <2>4, <2>5, <3>3, Shapes, TdAssumption
    <3>5. td - d <= 1
      BY <2>3 DEF OffsetsClose, TypeInv, TypeOK
    <3> QED
      BY <2>1, <2>4, <2>5, <3>2, <3>4, <3>5
  <2>6. CASE /\ i \in 1..Len(measurements[k].imus)
             /\ measurements'[k].imus[i] = measurements[k].imus[i]
    <3>1. CASE k = n
      <4>1. Open(k)
        BY <2>1, <3>1
      <4> QED
        BY <2>2, <2>3, <2>4, <2>6, <4>1 DEF CloseInv
    <3>2. CASE k # n
      <4>1. ~Open(k)' /\ measurements'[k] = measurements[k]
        BY <2>1, <3>2 DEF Open, Added
      <4>2. i < Len(measurements[k].imus)
        BY <2>3, <4>1
      <4> QED
        BY <2>2, <2>3, <2>4, <2>6, <4>2 DEF CloseInv
    <3> QED
      BY <3>1, <3>2
  <2> QED
    BY SMTT(30), <2>1, <2>5, <2>6, AddedLeft
<1>9. CASE IntegrateSample \/ InterpolateAtImage
  <2>1. PICK n, c \in Nat, s \in Nat \ {0}, at \in Int :
           /\ Used(n, c) /\ s = measurements[1].imus[1] /\ at = measurements[1].img + td
           /\ IntegrateSample => s <= at /\ current_time' = s
           /\ InterpolateAtImage => s > at /\ current_time' = at
           /\ proc = "batch" /\ proc' = "batch" /\ (\A k : ~Open(k) /\ ~Open(k)')
    BY <1>9, UsedSteps
  <2>2. UNCHANGED <<stale, td>> /\ Active
    BY <1>9, <2>1, ProcessEffects DEF Active
  <2>3. /\ n = Len(measurements) /\ Len(measurements') = n
        /\ c = Len(measurements[1].imus) /\ Len(measurements'[1].imus) = c - 1
        /\ n \in Nat \ {0} /\ c \in Nat \ {0} /\ 1 \in 1..n
        /\ \A k \in 1..n : measurements'[k].img = measurements[k].img
        /\ \A k \in 1..n : k # 1 => measurements'[k] = measurements[k]
    BY <2>1 DEF Used
  <2>4. SUFFICES ASSUME OffsetsClose, ~stale
                 PROVE  CloseInv'
    BY <1>o, <2>2 DEF CloseInv
  <2>5. ASSUME NEW k \in 1..n, NEW i \in 1..Len(measurements'[k].imus),
               i < Len(measurements'[k].imus), NEW d \in TdValues
        PROVE  measurements'[k].imus[i] <= measurements'[k].img + d
    <3>1. PICK g \in 1..Len(measurements[k].imus) :
             /\ measurements'[k].imus[i] = measurements[k].imus[g]
             /\ g = IF k = 1 THEN i + 1 ELSE i
      BY <2>1, UsedLeft
    <3>2. g < Len(measurements[k].imus)
      BY <2>3, <2>5, <3>1
    <3> QED
      BY <2>2, <2>3, <2>4, <3>1, <3>2 DEF CloseInv
  <2>6. 0 <= current_time' /\ current_time' <= at
    <3>1. CASE IntegrateSample
      BY <2>1, <3>1
    <3>2. CASE InterpolateAtImage
      <4>1. ~(1 < c)
        <5>1. ASSUME 1 < c
              PROVE  s <= at
          <6>1. 1 \in 1..c /\ td \in TdValues
            BY <2>3 DEF TypeInv, TypeOK
          <6>2. \A i \in 1..c : i < c => \A d \in TdValues : measurements[1].imus[i] <= measurements[1].img + d
            BY <2>2, <2>3, <2>4 DEF CloseInv
          <6> QED
            BY <2>1, <5>1, <6>1, <6>2
        <5> QED
          BY <2>1, <3>2, <5>1
      <4>2. 0 <= current_time /\ current_time <= at
        BY <2>1, <2>2, <2>3, <2>4, <4>1 DEF CloseInv
      <4> QED
        BY <2>1, <3>2, <4>2, Shapes
    <3> QED
      BY <1>9, <3>1, <3>2
  <2>7. at = measurements'[1].img + td'
    BY <2>1, <2>2, <2>3
  <2> QED
    BY <2>1, <2>3, <2>5, <2>6, <2>7 DEF CloseInv
<1>10. CASE ProcessImage
  <2>1. /\ UNCHANGED <<current_time, stale>> /\ proc = "batch" /\ proc' # "collect"
        /\ proc' = "batch" => Len(measurements) # 1
    BY <1>10, ProcessEffects DEF ProcessImage
  <2>2. PICK n : n = Len(measurements)
    OBVIOUS
  <2>3. /\ n \in Nat \ {0} /\ Len(measurements') = n - 1
        /\ \A k \in 1..(n - 1) : measurements'[k] = measurements[k + 1]
    BY <1>10, <2>2, MeasurementDone
  <2>4. \A k \in 1..(n - 1) : k + 1 \in 1..n /\ ~Open(k)'
    BY <2>1, <2>3 DEF Open
  <2>5. Active /\ \A k : ~Open(k)
    BY <2>1 DEF Active, Open
  <2>6. ASSUME ~stale, proc' = "batch"
        PROVE  Len(measurements'[1].imus) >= 2
    <3>1. 1 \in 1..(n - 1) /\ 2 \in 1..n
      BY <2>1, <2>2, <2>3, <2>6
    <3>2. measurements'[1] = measurements[2]
      BY <2>3, <3>1
    <3> QED
      BY <2>2, <2>5, <2>6, <3>1, <3>2 DEF LengthInv
  <2> QED
    BY <1>o, <2>1, <2>2, <2>3, <2>4, <2>5, <2>6 DEF CloseInv
<1> QED
  BY <1>1, <1>2, <1>3, <1>4, <1>5, <1>6, <1>7, <1>8, <1>9, <1>10, StepKinds, QuietSteps

\* Until a restart, nothing is stale, and these are the steps there are.
LEMMA SessionSteps ==
  ASSUME TypeInv, StageInv, [Next]_vars, restarts' = 0
  PROVE  /\ restarts = 0 /\ ~stale /\ ~InRestart
         /\ \/ Quiet
            \/ \E t \in Stamps : ImuCallback(t)
            \/ EvaluatePredicate \/ TakeImage \/ CollectSample \/ CloseMeasurement
            \/ ReturnMeasurements \/ LockEstimator
            \/ IntegrateSample \/ InterpolateAtImage \/ ProcessImage
<1>1. restarts \in Nat
  BY BoundsAssumption DEF TypeInv, TypeOK
<1>2. ~RestartClear
  <2>1. RestartClear => restarts' = restarts + 1
    BY SpinEffects
  <2> QED
    BY <1>1, <2>1
<1>3. \/ Quiet
      \/ \E t \in Stamps : ImuCallback(t)
      \/ RestartEstimator \/ RestartReset
      \/ EvaluatePredicate \/ TakeImage \/ CollectSample \/ CloseMeasurement
      \/ ReturnMeasurements \/ LockEstimator
      \/ IntegrateSample \/ InterpolateAtImage \/ ProcessImage
  BY <1>2, StepKinds, QuietSteps
<1>4. restarts = 0
  <2>1. CASE Quiet
    BY <2>1 DEF Quiet
  <2>2. CASE ~Quiet
    BY <1>3, <2>2, SpinEffects, ProcessEffects
  <2> QED
    BY <2>1, <2>2
<1>5. ~stale /\ ~InRestart
  BY <1>4 DEF StageInv
<1>6. ~RestartEstimator /\ ~RestartReset
  BY <1>5, SpinEffects DEF InRestart
<1> QED
  BY <1>3, <1>4, <1>5, <1>6

\* With close offsets the estimator's time never runs backwards.
LEMMA TimeGrows ==
  ASSUME TypeInv, OrderInv, CloseInv, OffsetsClose, ~stale, IntegrateSample \/ InterpolateAtImage,
         NEW n, NEW c, Used(n, c), NEW s \in Nat, NEW at \in Int,
         s = measurements[1].imus[1], at = measurements[1].img + td,
         IntegrateSample => s <= at /\ current_time' = s,
         InterpolateAtImage => s > at /\ current_time' = at, proc = "batch"
  PROVE  /\ current_time <= current_time' /\ current_time <= s
         /\ current_time \in Int /\ current_time' \in Int
         /\ InterpolateAtImage => c = 1 /\ 0 <= current_time
<1>1. /\ n = Len(measurements) /\ c = Len(measurements[1].imus) /\ n \in Nat \ {0} /\ c \in Nat \ {0}
  BY DEF Used
<1>2. current_time <= s /\ current_time \in Int
  BY <1>1, FirstSample, Shapes
<1>3. ASSUME InterpolateAtImage
      PROVE  c = 1 /\ 0 <= current_time /\ current_time <= at
  <2>1. 1 \in 1..n /\ 1 \in 1..c /\ td \in TdValues /\ Active
    BY SMTT(30), <1>1 DEF TypeInv, TypeOK, Active
  <2>2. \A i \in 1..c : i < c => \A d \in TdValues : measurements[1].imus[i] <= measurements[1].img + d
    BY <1>1, <2>1 DEF CloseInv
  <2>3. ~(1 < c)
    <3>1. 1 < c => s <= at
      BY <2>1, <2>2
    <3> QED
      BY <1>3, <3>1
  <2>4. c = 1
    <3>1. c \in Nat \ {0}
      BY <1>1
    <3> QED
      BY <2>3, <3>1
  <2>5. 0 <= current_time /\ current_time <= at
    BY <1>1, <2>1, <2>4 DEF CloseInv
  <2> QED
    BY <2>4, <2>5
<1> QED
  BY <1>2, <1>3

\* No accepted sample is lost between buffer, batch and estimator.
LEMMA CoveredNext ==
  ASSUME TypeInv, FrontInv, StageInv, BufferInv, OrderInv, LengthInv, CloseInv, CoverInv,
         OffsetsClose, restarts' = 0, [Next]_vars
  PROVE  Covered'
<1>c. restarts = 0 /\ ~stale /\ Covered /\ FedInTime /\ Chained
  BY SessionSteps DEF CoverInv
<1>1. CASE Quiet
  <2>1. /\ UNCHANGED <<imu_buf, measurements, current_time, accepted>>
        /\ (Active => Active') /\ (proc = "exited" => proc' = "exited")
    BY <1>1 DEF Quiet, Active
  <2> QED
    BY <1>c, <2>1 DEF Covered
<1>2. CASE ReturnMeasurements
  <2>1. /\ UNCHANGED <<imu_buf, measurements, current_time, accepted>>
        /\ proc = "gather" /\ (proc' # "exited" => Active' \/ measurements = <<>>)
    BY <1>2, ProcessEffects DEF ReturnMeasurements, buffers, Active
  <2>2. measurements = <<>> => Len(measurements) = 0
    BY Shapes
  <2> QED
    BY <1>c, <2>1, <2>2 DEF Covered
<1>3. CASE LockEstimator
  BY <1>3, <1>c, ProcessEffects DEF LockEstimator, buffers, Active, Covered
<1>4. ASSUME NEW t \in Stamps, ImuCallback(t)
      PROVE  Covered'
  <2>1. /\ UNCHANGED <<measurements, current_time>> /\ accepted' = accepted \cup {t}
        /\ proc' = proc \/ (proc = "blocked" /\ proc' = "pred")
    BY <1>4, SpinEffects
  <2>2. /\ Len(imu_buf') = Len(imu_buf) + 1 /\ imu_buf'[Len(imu_buf) + 1] = t
        /\ \A j \in 1..Len(imu_buf) : imu_buf'[j] = imu_buf[j]
    BY <1>4, SamplePushed
  <2>3. Len(imu_buf) + 1 \in 1..Len(imu_buf') /\ \A j \in 1..Len(imu_buf) : j \in 1..Len(imu_buf')
    BY <2>2, Shapes
  <2>4. Active => Active'
    BY <2>1 DEF Active
  <2> QED
    BY <1>c, <2>1, <2>2, <2>3, <2>4 DEF Covered
<1>5. CASE EvaluatePredicate
  <2>1. UNCHANGED <<imu_buf, current_time, accepted>> /\ proc = "pred"
    BY <1>5, ProcessEffects DEF EvaluatePredicate, buffers
  <2> QED
    BY <1>c, <2>1 DEF Covered, Active
<1>6. CASE TakeImage
  <2>1. UNCHANGED <<imu_buf, current_time, accepted>> /\ proc = "gather" /\ Active'
    BY <1>6, ProcessEffects DEF TakeImage, Active
  <2>2. PICK n \in Nat : n = Len(measurements)
    BY Shapes
  <2>3. Len(measurements') = n + 1 /\ \A k \in 1..n : measurements'[k] = measurements[k]
    BY <1>6, <2>2, ImageTaken
  <2>4. \A k \in 1..n : k \in 1..(n + 1)
    BY <2>2
  <2> QED
    BY <1>c, <2>1, <2>2, <2>3, <2>4 DEF Covered
<1>7. CASE CollectSample \/ CloseMeasurement
  <2>1. PICK n, c \in Nat :
           /\ Added(n, c) /\ proc = "collect" /\ imu_buf # <<>>
           /\ CollectSample => proc' = "collect" /\ imu_buf' = Tail(imu_buf)
           /\ CloseMeasurement => proc' = "gather" /\ imu_buf' = imu_buf
    BY <1>7, AddedSteps
  <2>2. UNCHANGED <<current_time, accepted>> /\ Active'
    BY <1>7, <2>1, ProcessEffects DEF Active
  <2>3. /\ n = Len(measurements) /\ Len(measurements') = n /\ n \in 1..n
        /\ c = Len(measurements[n].imus) /\ Len(measurements'[n].imus) = c + 1
        /\ measurements'[n].imus[c + 1] = imu_buf[1] /\ c + 1 \in 1..(c + 1)
    BY <2>1 DEF Added
  <2>4. ASSUME NEW k \in 1..n, NEW i \in 1..Len(measurements[k].imus)
        PROVE  i \in 1..Len(measurements'[k].imus) /\ measurements'[k].imus[i] = measurements[k].imus[i]
    <3>1. CASE k = n
      BY <2>1, <2>3, <3>1 DEF Added
    <3>2. CASE k # n
      BY <2>1, <3>2 DEF Added
    <3> QED
      BY <3>1, <3>2
  <2>5. ASSUME NEW j \in 1..Len(imu_buf), j # 1
        PROVE  \E g \in 1..Len(imu_buf') : imu_buf'[g] = imu_buf[j]
    <3>1. CASE CollectSample
      <4>1. PICK b \in Nat \ {0} : b = Len(imu_buf)
        BY <2>1, Shapes
      <4>2. Len(imu_buf') = b - 1 /\ \A g \in 1..(b - 1) : imu_buf'[g] = imu_buf[g + 1]
        BY <2>1, <3>1, <4>1, BufferPopped
      <4>3. j - 1 \in 1..(b - 1) /\ j = (j - 1) + 1
        BY <2>5, <4>1
      <4> QED
        BY <4>2, <4>3
    <3>2. CASE CloseMeasurement
      BY <2>1, <3>2
    <3> QED
      BY <1>7, <3>1, <3>2
  <2>6. ASSUME NEW t \in accepted
        PROVE  \/ t <= current_time
               \/ \E j \in 1..Len(imu_buf') : imu_buf'[j] = t
               \/ \E k \in 1..n : \E i \in 1..Len(measurements'[k].imus) : measurements'[k].imus[i] = t
    <3>1. \/ t <= current_time
          \/ \E j \in 1..Len(imu_buf) : imu_buf[j] = t
          \/ \E k \in 1..n : \E i \in 1..Len(measurements[k].imus) : measurements[k].imus[i] = t
      BY <1>c, <2>1, <2>3 DEF Covered
    <3>2. CASE \E j \in 1..Len(imu_buf) : imu_buf[j] = t
      <4>1. PICK j \in 1..Len(imu_buf) : imu_buf[j] = t
        BY <3>2
      <4> QED
        BY <2>3, <2>5, <4>1
    <3>3. CASE \E k \in 1..n : \E i \in 1..Len(measurements[k].imus) : measurements[k].imus[i] = t
      BY <2>4, <3>3
    <3> QED
      BY <3>1, <3>2, <3>3
  <2> QED
    BY <2>2, <2>3, <2>6 DEF Covered
<1>8. CASE IntegrateSample \/ InterpolateAtImage
  <2>1. PICK n, c \in Nat, s \in Nat \ {0}, at \in Int :
           /\ Used(n, c)
           /\ s = measurements[1].imus[1] /\ at = measurements[1].img + td
           /\ IntegrateSample => s <= at /\ current_time' = s
           /\ InterpolateAtImage => s > at /\ current_time' = at
           /\ proc = "batch" /\ proc' = "batch" /\ (\A k : ~Open(k))
    BY <1>8, UsedSteps
  <2>2. UNCHANGED <<imu_buf, accepted>> /\ Active /\ Active'
    BY <1>8, <2>1, ProcessEffects DEF Active
  <2>3. /\ n = Len(measurements) /\ Len(measurements') = n /\ c = Len(measurements[1].imus)
        /\ n \in Nat \ {0} /\ c \in Nat \ {0} /\ Len(measurements'[1].imus) = c - 1
        /\ \A k \in 1..n : k # 1 => measurements'[k] = measurements[k]
        /\ \A i \in 1..(c - 1) : measurements'[1].imus[i] = measurements[1].imus[i + 1]
    BY <2>1 DEF Used
  <2>4. /\ current_time <= current_time' /\ current_time \in Int /\ current_time' \in Int
        /\ InterpolateAtImage => c = 1
    BY <1>8, <1>c, <2>1, TimeGrows
  <2>5. ASSUME NEW k \in 1..n, NEW i \in 1..Len(measurements[k].imus), ~(k = 1 /\ i = 1)
        PROVE  \E g \in 1..Len(measurements'[k].imus) : measurements'[k].imus[g] = measurements[k].imus[i]
    <3>1. CASE k = 1
      <4>1. i - 1 \in 1..(c - 1) /\ i = (i - 1) + 1
        BY <2>3, <2>5, <3>1
      <4> QED
        BY <2>3, <3>1, <4>1
    <3>2. CASE k # 1
      BY <2>3, <3>2
    <3> QED
      BY <3>1, <3>2
  <2>6. \/ s <= current_time'
        \/ \E j \in 1..Len(imu_buf) : imu_buf[j] = s
        \/ \E k \in 1..n : \E i \in 1..Len(measurements'[k].imus) : measurements'[k].imus[i] = s
    <3>1. CASE IntegrateSample
      BY <2>1, <3>1
    <3>2. CASE InterpolateAtImage
      <4>1. c = 1 /\ 1 \in 1..n /\ measurements[1].imus # <<>>
        <5>1. c = 1 /\ 1 \in 1..n
          BY <2>3, <2>4, <3>2
        <5> QED
          BY <2>3, <5>1, Shapes
      <4>2. /\ imu_buf # <<>>
            /\ s = IF 1 < n /\ measurements[2].imus # <<>> THEN measurements[2].imus[1] ELSE imu_buf[1]
        <5>1. /\ imu_buf # <<>>
              /\ measurements[1].imus[Len(measurements[1].imus)] =
                   IF 1 < n /\ measurements[1 + 1].imus # <<>>
                     THEN measurements[1 + 1].imus[1] ELSE imu_buf[1]
          BY <1>c, <2>1, <2>2, <2>3, <4>1 DEF Chained
        <5> QED
          BY <2>1, <2>3, <4>1, <5>1
      <4>3. CASE 1 < n /\ measurements[2].imus # <<>>
        <5>1. 2 \in 1..n
          BY <2>3, <4>3
        <5>2. Len(measurements[2].imus) \in Nat \ {0} /\ measurements'[2] = measurements[2]
          BY <2>3, <4>3, <5>1, Shapes
        <5>3. 1 \in 1..Len(measurements'[2].imus) /\ measurements'[2].imus[1] = s
          BY <4>2, <4>3, <5>2
        <5> QED
          BY <5>1, <5>3
      <4>4. CASE ~(1 < n /\ measurements[2].imus # <<>>)
        <5>1. 1 \in 1..Len(imu_buf)
          BY <4>2, Shapes
        <5> QED
          BY <4>2, <4>4, <5>1
      <4> QED
        BY <4>3, <4>4
    <3> QED
      BY <1>8, <3>1, <3>2
  <2>7. ASSUME NEW t \in accepted
        PROVE  \/ t <= current_time'
               \/ \E j \in 1..Len(imu_buf) : imu_buf[j] = t
               \/ \E k \in 1..n : \E i \in 1..Len(measurements'[k].imus) : measurements'[k].imus[i] = t
    <3>1. \/ t <= current_time
          \/ \E j \in 1..Len(imu_buf) : imu_buf[j] = t
          \/ \E k \in 1..n : \E i \in 1..Len(measurements[k].imus) : measurements[k].imus[i] = t
      BY <1>c, <2>1, <2>3 DEF Covered
    <3>2. CASE t <= current_time
      BY <2>4, <3>2, Shapes
    <3>3. CASE \E k \in 1..n : \E i \in 1..Len(measurements[k].imus) : measurements[k].imus[i] = t
      <4>1. PICK k \in 1..n : \E i \in 1..Len(measurements[k].imus) : measurements[k].imus[i] = t
        BY <3>3
      <4>2. PICK i \in 1..Len(measurements[k].imus) : measurements[k].imus[i] = t
        BY <4>1
      <4>3. CASE k = 1 /\ i = 1
        BY <2>1, <2>6, <4>2, <4>3
      <4>4. CASE ~(k = 1 /\ i = 1)
        BY <2>5, <4>2, <4>4
      <4> QED
        BY <4>3, <4>4
    <3> QED
      BY <3>1, <3>2, <3>3
  <2> QED
    BY <2>2, <2>3, <2>7 DEF Covered
<1>9. CASE ProcessImage
  <2>1. /\ UNCHANGED <<imu_buf, current_time, accepted>> /\ proc = "batch"
        /\ proc' = IF Len(measurements) = 1 THEN "update" ELSE "batch"
    BY <1>9, ProcessEffects DEF ProcessImage
  <2>2. PICK n : n = Len(measurements)
    OBVIOUS
  <2>3. /\ n \in Nat \ {0} /\ Len(measurements') = n - 1
        /\ \A k \in 1..(n - 1) : measurements'[k] = measurements[k + 1]
        /\ measurements[1].imus = <<>>
    BY <1>9, <2>2, MeasurementDone
  <2>4. Len(measurements[1].imus) = 0
    BY <2>3
  <2>5. ASSUME NEW k \in 1..n, NEW i \in 1..Len(measurements[k].imus)
        PROVE  /\ n # 1 /\ \E g \in 1..(n - 1) : measurements'[g] = measurements[k]
    <3>1. k # 1
      BY <2>4
    <3>2. k - 1 \in 1..(n - 1) /\ k = (k - 1) + 1 /\ n # 1
      BY <2>3, <3>1
    <3> QED
      BY <2>3, <3>2
  <2>6. n # 1 => Active'
    BY <2>1, <2>2 DEF Active
  <2>7. ASSUME NEW t \in accepted
        PROVE  \/ t <= current_time
               \/ \E j \in 1..Len(imu_buf) : imu_buf[j] = t
               \/ Active' /\ \E k \in 1..(n - 1) : \E i \in 1..Len(measurements'[k].imus) : measurements'[k].imus[i] = t
    <3>1. \/ t <= current_time
          \/ \E j \in 1..Len(imu_buf) : imu_buf[j] = t
          \/ \E k \in 1..n : \E i \in 1..Len(measurements[k].imus) : measurements[k].imus[i] = t
      BY <1>c, <2>1, <2>2 DEF Covered
    <3>2. CASE \E k \in 1..n : \E i \in 1..Len(measurements[k].imus) : measurements[k].imus[i] = t
      <4>1. PICK k \in 1..n : \E i \in 1..Len(measurements[k].imus) : measurements[k].imus[i] = t
        BY <3>2
      <4>2. PICK i \in 1..Len(measurements[k].imus) : measurements[k].imus[i] = t
        BY <4>1
      <4> QED
        BY <2>5, <2>6, <4>2
    <3> QED
      BY <3>1, <3>2
  <2> QED
    BY <2>1, <2>3, <2>7 DEF Covered
<1> QED
  BY <1>1, <1>2, <1>3, <1>4, <1>5, <1>6, <1>7, <1>8, <1>9, SessionSteps

\* The samples up to the estimator's time, and no others, are integrated.
LEMMA FedNext ==
  ASSUME TypeInv, FrontInv, StageInv, BufferInv, OrderInv, LengthInv, CloseInv, CoverInv,
         OffsetsClose, restarts' = 0, [Next]_vars
  PROVE  FedInTime'
<1>c. restarts = 0 /\ ~stale /\ Covered /\ FedInTime
  BY SessionSteps DEF CoverInv
<1>1. CASE UNCHANGED <<current_time, accepted, fed>>
  BY <1>1, <1>c DEF FedInTime
<1>2. ASSUME NEW t \in Stamps, ImuCallback(t)
      PROVE  FedInTime'
  <2>1. /\ UNCHANGED <<current_time, fed>> /\ accepted' = accepted \cup {t}
        /\ t > last_imu_t /\ t \in Nat
    BY <1>2, SpinEffects, SamplePushed
  <2>2. current_time <= last_imu_t
    BY <1>c DEF OrderInv
  <2>3. ~(t <= current_time)
    BY <2>1, <2>2, Shapes
  <2> QED
    BY <1>c, <2>1, <2>3 DEF FedInTime
<1>3. CASE IntegrateSample \/ InterpolateAtImage
  <2>1. PICK n, c \in Nat, s \in Nat \ {0}, at \in Int :
           /\ Used(n, c)
           /\ s = measurements[1].imus[1] /\ at = measurements[1].img + td
           /\ IntegrateSample => s <= at /\ current_time' = s /\ fed' = fed \cup {s}
           /\ InterpolateAtImage => s > at /\ current_time' = at /\ fed' = fed
           /\ proc = "batch"
    BY <1>3, UsedSteps
  <2>2. /\ n = Len(measurements) /\ c = Len(measurements[1].imus)
        /\ n \in Nat \ {0} /\ c \in Nat \ {0}
    BY <2>1 DEF Used
  <2>3. accepted' = accepted
    BY <1>3, ProcessEffects
  <2>4. /\ current_time <= current_time' /\ current_time <= s
        /\ current_time \in Int /\ current_time' \in Int
    BY <1>3, <1>c, <2>1, TimeGrows
  <2>5. /\ s \in accepted
        /\ \A j \in 1..Len(imu_buf) : s <= imu_buf[j]
        /\ \A l \in 1..n : \A j \in 1..Len(measurements[l].imus) : s <= measurements[l].imus[j]
    BY <1>c, <2>1, <2>2, FirstSample
  <2>6. ASSUME NEW t \in accepted
        PROVE  t \in Nat /\ (t <= current_time \/ s <= t)
    <3>1. \/ t <= current_time
          \/ \E j \in 1..Len(imu_buf) : imu_buf[j] = t
          \/ \E k \in 1..n : \E i \in 1..Len(measurements[k].imus) : measurements[k].imus[i] = t
      BY <1>c, <2>1, <2>2 DEF Covered
    <3> QED
      BY <2>5, <3>1, Shapes
  <2>7. CASE IntegrateSample
    <3>1. \A t \in accepted : t <= s <=> t <= current_time \/ t = s
      BY <2>4, <2>6
    <3> QED
      BY <1>c, <2>1, <2>3, <2>5, <2>7, <3>1 DEF FedInTime
  <2>8. CASE InterpolateAtImage
    <3>1. \A t \in accepted : t <= at <=> t <= current_time
      BY <2>1, <2>4, <2>6, <2>8
    <3> QED
      BY <1>c, <2>1, <2>3, <2>8, <3>1 DEF FedInTime
  <2> QED
    BY <1>3, <2>7, <2>8
<1>4. ASSUME ~IntegrateSample, ~InterpolateAtImage, \A t \in Stamps : ~ImuCallback(t)
      PROVE  UNCHANGED <<current_time, accepted, fed>>
  BY <1>4, SessionSteps, ProcessEffects DEF Quiet
<1> QED
  BY <1>1, <1>2, <1>3, <1>4

\* Each measurement that is complete ends with the sample that follows it.
LEMMA ChainNext ==
  ASSUME TypeInv, FrontInv, StageInv, BufferInv, OrderInv, LengthInv, CloseInv, CoverInv,
         OffsetsClose, restarts' = 0, [Next]_vars
  PROVE  Chained'
<1>c. restarts = 0 /\ ~stale /\ Chained
  BY SessionSteps DEF CoverInv
<1>1. ASSUME Quiet \/ ReturnMeasurements \/ LockEstimator
      PROVE  Chained'
  <2>1. Unpushed
    BY <1>1, UnpushedSteps
  <2> QED
    BY <1>c, <2>1 DEF Unpushed, Chained
<1>2. ASSUME NEW t \in Stamps, ImuCallback(t)
      PROVE  Chained'
  <2>1. /\ UNCHANGED measurements
        /\ proc \notin {"gather", "collect"} /\ (proc' = proc \/ proc' = "pred")
    BY <1>2, SpinEffects DEF HoldsBuf
  <2>2. /\ Len(imu_buf') = Len(imu_buf) + 1 /\ Len(imu_buf) \in Nat
        /\ \A j \in 1..Len(imu_buf) : imu_buf'[j] = imu_buf[j]
    BY <1>2, SamplePushed, Shapes
  <2>3. imu_buf' # <<>>
    BY <1>2, Pushed, SpinEffects DEF TypeInv, TypeOK
  <2>4. imu_buf # <<>> => imu_buf'[1] = imu_buf[1]
    BY <2>2, Shapes
  <2>5. Active' => Active
    BY <2>1 DEF Active
  <2>6. \A k : ~Open(k)
    BY <2>1 DEF Open
  <2> QED
    BY <1>c, <2>1, <2>3, <2>4, <2>5, <2>6 DEF Chained
<1>3. CASE EvaluatePredicate
  <2>1. Len(measurements') = 0
    BY <1>3 DEF EvaluatePredicate
  <2> QED
    BY <2>1 DEF Chained
<1>4. CASE TakeImage
  <2>1. imu_buf' = imu_buf /\ proc = "gather" /\ proc' = "collect"
    BY <1>4, ProcessEffects DEF TakeImage
  <2>2. PICK n \in Nat : n = Len(measurements)
    BY Shapes
  <2>3. /\ Len(measurements') = n + 1
        /\ \A k \in 1..n : measurements'[k] = measurements[k]
        /\ measurements'[n + 1].imus = <<>>
    BY <1>4, <2>2, ImageTaken
  <2>4. Active /\ (\A k : ~Open(k)) /\ (\A k : ~Open(k)' <=> k # n + 1)
    BY <2>1, <2>3 DEF Active, Open
  <2>5. ASSUME NEW k \in 1..(n + 1), ~Open(k)'
        PROVE  /\ imu_buf # <<>>
               /\ measurements'[k].imus # <<>> =>
                    measurements'[k].imus[Len(measurements'[k].imus)] =
                      IF k < n + 1 /\ measurements'[k + 1].imus # <<>>
                        THEN measurements'[k + 1].imus[1] ELSE imu_buf[1]
    <3>1. k \in 1..n /\ measurements'[k] = measurements[k]
      BY <2>2, <2>3, <2>4, <2>5
    <3>2. /\ imu_buf # <<>>
          /\ measurements[k].imus # <<>> =>
               measurements[k].imus[Len(measurements[k].imus)] =
                 IF k < n /\ measurements[k + 1].imus # <<>>
                   THEN measurements[k + 1].imus[1] ELSE imu_buf[1]
      BY <1>c, <2>2, <2>4, <3>1 DEF Chained
    <3>3. CASE k = n
      BY <2>3, <3>1, <3>2, <3>3
    <3>4. CASE k # n
      <4>1. k + 1 \in 1..n /\ k < n /\ k < n + 1
        BY <3>1, <3>4
      <4>2. measurements'[k + 1] = measurements[k + 1]
        BY <2>3, <4>1
      <4> QED
        BY <3>1, <3>2, <4>1, <4>2
    <3> QED
      BY <3>3, <3>4
  <2> QED
    BY <2>1, <2>3, <2>5 DEF Chained
<1>5. CASE CollectSample \/ CloseMeasurement
  <2>1. PICK n, c \in Nat :
           /\ Added(n, c)
           /\ proc = "collect" /\ (\A k : Open(k) <=> k = n) /\ imu_buf # <<>>
           /\ imu_buf[Len(imu_buf)] > measurements[n].img + td
           /\ CollectSample => /\ (\A k : Open(k)' <=> k = n)
                               /\ imu_buf' = Tail(imu_buf) /\ imu_buf[1] < measurements[n].img + td
           /\ CloseMeasurement => imu_buf' = imu_buf
    BY <1>5, AddedSteps
  <2>2. /\ n = Len(measurements) /\ Len(measurements') = n /\ n \in Nat \ {0}
        /\ c = Len(measurements[n].imus) /\ Len(measurements'[n].imus) = c + 1
        /\ \A k \in 1..n : k # n => measurements'[k] = measurements[k]
        /\ \A i \in 1..c : measurements'[n].imus[i] = measurements[n].imus[i]
        /\ measurements'[n].imus[c + 1] = imu_buf[1]
    BY <2>1 DEF Added
  <2>3. Active
    BY <2>1 DEF Active
  <2>4. imu_buf' # <<>>
    <3>1. CASE CollectSample
      <4>1. PICK b \in Nat \ {0} : b = Len(imu_buf)
        BY <2>1, Shapes
      <4>2. 1 \in 1..b /\ b \in 1..b /\ n \in 1..n
        BY <2>2, <4>1
      <4>3. imu_buf[1] \in Nat /\ imu_buf[b] \in Nat /\ measurements[n].img + td \in Int
        BY SMTT(30), <2>2, <4>1, <4>2, Shapes
      <4>4. b # 1
        BY <2>1, <3>1, <4>1, <4>3
      <4>5. Len(imu_buf') = b - 1
        BY <2>1, <3>1, <4>1, BufferPopped
      <4>6. imu_buf' # <<>>
        <5>1. Len(imu_buf') # 0
          BY <4>1, <4>4, <4>5
        <5> QED
          BY <5>1
      <4> QED
        BY <4>6
    <3> QED
      BY <1>5, <2>1, <3>1
  <2>5. measurements'[n].imus # <<>> /\ measurements'[n].imus[1] = IF measurements[n].imus = <<>> THEN imu_buf[1] ELSE measurements[n].imus[1]
    <3>1. Len(measurements'[n].imus) # 0
      BY <2>1, <2>2
    <3>2. measurements'[n].imus # <<>>
      BY <3>1
    <3>3. measurements[n].imus = <<>> <=> c = 0
      <4>1. n \in 1..n
        BY <2>2
      <4> QED
        BY <2>2, <4>1, Shapes
    <3>4. CASE c = 0
      BY <2>2, <3>2, <3>3, <3>4
    <3>5. CASE c # 0
      <4>1. 1 \in 1..c
        BY <2>1, <3>5
      <4> QED
        BY <2>2, <3>2, <3>3, <3>5, <4>1
    <3> QED
      BY <3>4, <3>5
  <2>6. ASSUME NEW k \in 1..n, ~Open(k)', measurements'[k].imus # <<>>
        PROVE  measurements'[k].imus[Len(measurements'[k].imus)] =
                 IF k < n /\ measurements'[k + 1].imus # <<>>
                   THEN measurements'[k + 1].imus[1] ELSE imu_buf'[1]
    <3>1. CASE k = n
      <4>1. CloseMeasurement /\ imu_buf' = imu_buf
        BY <1>5, <2>1, <2>6, <3>1
      <4> QED
        BY <2>2, <3>1, <4>1
    <3>2. CASE k # n
      <4>1. k < n /\ k + 1 \in 1..n /\ ~Open(k) /\ measurements'[k] = measurements[k]
        BY <2>1, <2>2, <3>2
      <4>2. measurements[k].imus[Len(measurements[k].imus)] =
              IF measurements[k + 1].imus # <<>> THEN measurements[k + 1].imus[1] ELSE imu_buf[1]
        BY <1>c, <2>2, <2>3, <2>6, <4>1 DEF Chained
      <4>3. CASE k + 1 = n
        BY <2>5, <4>1, <4>2, <4>3
      <4>4. CASE k + 1 # n
        <5>1. ~Open(k + 1) /\ measurements'[k + 1] = measurements[k + 1]
          BY <2>1, <2>2, <4>1, <4>4
        <5>2. Len(measurements[k + 1].imus) >= 2
          BY <1>c, <2>1, <2>2, <2>3, <4>1, <5>1 DEF LengthInv
        <5>3. measurements[k + 1].imus # <<>>
          BY <2>2, <4>1, <5>2, Shapes
        <5> QED
          BY <4>1, <4>2, <5>1, <5>3
      <4> QED
        BY <4>3, <4>4
    <3> QED
      BY <3>1, <3>2
  <2> QED
    BY <2>2, <2>4, <2>6 DEF Chained
<1>6. CASE IntegrateSample \/ InterpolateAtImage
  <2>1. PICK n, c \in Nat, s \in Nat \ {0}, at \in Int :
           Used(n, c) /\ proc = "batch" /\ (\A k : ~Open(k) /\ ~Open(k)')
    BY <1>6, UsedSteps
  <2>2. imu_buf' = imu_buf /\ Active
    BY <1>6, <2>1, ProcessEffects DEF Active
  <2>3. /\ n = Len(measurements) /\ Len(measurements') = n /\ c = Len(measurements[1].imus)
        /\ n \in Nat \ {0} /\ c \in Nat \ {0} /\ Len(measurements'[1].imus) = c - 1
        /\ \A k \in 1..n : k # 1 => measurements'[k] = measurements[k]
        /\ \A i \in 1..(c - 1) : measurements'[1].imus[i] = measurements[1].imus[i + 1]
    BY <2>1 DEF Used
  <2>4. ASSUME NEW k \in 1..n
        PROVE  /\ imu_buf # <<>>
               /\ measurements'[k].imus # <<>> =>
                    measurements'[k].imus[Len(measurements'[k].imus)] =
                      IF k < n /\ measurements'[k + 1].imus # <<>>
                        THEN measurements'[k + 1].imus[1] ELSE imu_buf[1]
    <3>1. /\ imu_buf # <<>>
          /\ measurements[k].imus # <<>> =>
               measurements[k].imus[Len(measurements[k].imus)] =
                 IF k < n /\ measurements[k + 1].imus # <<>>
                   THEN measurements[k + 1].imus[1] ELSE imu_buf[1]
      BY <1>c, <2>1, <2>2, <2>3 DEF Chained
    <3>2. k < n => measurements'[k + 1] = measurements[k + 1]
      <4>1. k < n => k + 1 \in 1..n /\ k + 1 # 1
        OBVIOUS
      <4> QED
        BY <2>3, <4>1
    <3>3. CASE k # 1
      BY <2>3, <3>1, <3>2, <3>3
    <3>4. CASE k = 1 /\ measurements'[k].imus # <<>>
      <4>1. measurements'[1].imus # <<>> => c - 1 # 0
        <5>1. TypeInv'
          BY <1>6, TypeInvProcess DEF ProcessThread, ProcessBatch
        <5>2. measurements' \in Seq(Batch) /\ 1 \in 1..Len(measurements')
          BY <2>3, <5>1 DEF TypeInv, TypeOK, Batch
        <5>3. measurements'[1] \in Batch
          BY <5>2, ElementOfSeq
        <5>4. measurements'[1].imus \in Seq(Stamps)
          BY <5>3 DEF Batch
        <5> QED
          BY <2>3, <5>4, EmptySeq
      <4>2. c - 1 \in 1..(c - 1) /\ (c - 1) + 1 = c
        BY <2>3, <3>4, <4>1
      <4>3. measurements'[1].imus[c - 1] = measurements[1].imus[c]
        BY <2>3, <4>2
      <4>4. measurements[1].imus # <<>>
        <5>1. 1 \in 1..n
          BY <2>3
        <5> QED
          BY <2>3, <5>1, Shapes
      <4> QED
        BY <2>3, <3>1, <3>2, <3>4, <4>3, <4>4
    <3> QED
      BY <3>1, <3>3, <3>4
  <2> QED
    BY <2>2, <2>3, <2>4 DEF Chained
<1>7. CASE ProcessImage
  <2>1. imu_buf' = imu_buf /\ proc = "batch"
    BY <1>7, ProcessEffects DEF ProcessImage
  <2>2. PICK n : n = Len(measurements)
    OBVIOUS
  <2>3. /\ n \in Nat \ {0} /\ Len(measurements') = n - 1
        /\ \A k \in 1..(n - 1) : measurements'[k] = measurements[k + 1]
    BY <1>7, <2>2, MeasurementDone
  <2>4. Active /\ \A k : ~Open(k)
    BY <2>1 DEF Active, Open
  <2>5. ASSUME NEW k \in 1..(n - 1)
        PROVE  /\ imu_buf # <<>>
               /\ measurements'[k].imus # <<>> =>
                    measurements'[k].imus[Len(measurements'[k].imus)] =
                      IF k < n - 1 /\ measurements'[k + 1].imus # <<>>
                        THEN measurements'[k + 1].imus[1] ELSE imu_buf[1]
    <3>1. k + 1 \in 1..n /\ (k < n - 1 <=> k + 1 < n) /\ (k < n - 1 => k + 1 \in 1..(n - 1))
      BY <2>3
    <3>2. /\ imu_buf # <<>>
          /\ measurements[k + 1].imus # <<>> =>
               measurements[k + 1].imus[Len(measurements[k + 1].imus)] =
                 IF k + 1 < n /\ measurements[(k + 1) + 1].imus # <<>>
                   THEN measurements[(k + 1) + 1].imus[1] ELSE imu_buf[1]
      BY <1>c, <2>2, <2>4, <3>1 DEF Chained
    <3>3. measurements'[k] = measurements[k + 1] /\ (k < n - 1 => measurements'[k + 1] = measurements[(k + 1) + 1])
      BY <2>3, <3>1
    <3> QED
      BY <3>1, <3>2, <3>3
  <2> QED
    BY <2>1, <2>3, <2>5 DEF Chained
<1> QED
  BY <1>1, <1>2, <1>3, <1>4, <1>5, <1>6, <1>7, SessionSteps

\* When the batch is done a sample is left for update.
LEMMA ReadyNext ==
  ASSUME TypeInv, FrontInv, StageInv, BufferInv, OrderInv, LengthInv, CloseInv, CoverInv,
         OffsetsClose, restarts' = 0, [Next]_vars
  PROVE  UpdateReady'
<1>c. restarts = 0 /\ Chained /\ UpdateReady
  BY SessionSteps DEF CoverInv
<1>1. CASE Quiet
  BY <1>1, <1>c DEF Quiet, UpdateReady
<1>2. ASSUME NEW t \in Stamps, ImuCallback(t)
      PROVE  UpdateReady'
  <2>1. imu_buf' # <<>>
    BY <1>2, Pushed, SpinEffects DEF TypeInv, TypeOK
  <2> QED
    BY <1>2, <1>c, <2>1, SpinEffects DEF UpdateReady
<1>3. CASE ProcessImage
  <2>1. UNCHANGED <<imu_buf, current_time>> /\ fused'.at = current_time /\ proc = "batch"
    BY <1>3, ProcessEffects DEF ProcessImage
  <2>2. 1 \in 1..Len(measurements) /\ ~Open(1) /\ Active
    BY <1>3, <2>1, MeasurementDone DEF Open, Active
  <2> QED
    BY <1>c, <2>1, <2>2 DEF Chained, UpdateReady
<1>4. CASE EvaluatePredicate \/ TakeImage \/ CollectSample \/ CloseMeasurement \/ ReturnMeasurements
           \/ LockEstimator
  <2>1. proc' # "update"
    BY <1>4 DEF EvaluatePredicate, TakeImage, CollectSample, CloseMeasurement, ReturnMeasurements, LockEstimator
  <2> QED
    BY <2>1 DEF UpdateReady
<1>5. CASE IntegrateSample \/ InterpolateAtImage
  BY <1>5, ProcessEffects DEF MoreSamples, UpdateReady
<1> QED
  BY <1>1, <1>2, <1>3, <1>4, <1>5, SessionSteps

\* Until a restart, nothing between buffer, batch and estimator is lost.
LEMMA CoverNext ==
  ASSUME TypeInv, FrontInv, StageInv, BufferInv, OrderInv, LengthInv, CloseInv, CoverInv, [Next]_vars
  PROVE  CoverInv'
<1> SUFFICES ASSUME OffsetsClose, restarts' = 0
             PROVE  Covered' /\ FedInTime' /\ Chained' /\ UpdateReady'
  BY DEF CoverInv, OffsetsClose
<1> QED
  BY CoveredNext, FedNext, ChainNext, ReadyNext

\* What imu_callback, update and the collection of samples leave to the other steps: the
\* prediction and what it is compared with stay, or main leaves.
LEMMA PredictionKept ==
  ASSUME TypeInv, StageInv, [Next]_vars, restarts' = 0, spin' \in {"idle", "predict"},
         ~Predict, ~Update, ~CollectSample, \A t \in Stamps : ~ImuCallback(t)
  PROVE  UNCHANGED <<spin, imu_buf, last_imu_t, latest_time, tmp, imu_arg, accepted>>
<1> USE DEF buffers, estimator, predicted, counts, history, NotGathering
<1>1. ~InRestart /\ ~RestartClear
  BY SessionSteps, SpinEffects
<1>2. ~RestartEstimator /\ ~RestartReset
  BY <1>1, SpinEffects DEF InRestart
<1>3. CASE QuietStep
  <2>1. ASSUME NEW t \in Stamps, FeatureCallback(t) \/ RelocalizationCallback(t)
        PROVE  UNCHANGED <<spin, imu_buf, last_imu_t, latest_time, tmp, imu_arg, accepted>>
    BY <2>1 DEF FeatureCallback, RelocalizationCallback
  <2>2. CASE NotifyAll \/ Join \/ Shutdown \/ UNCHANGED vars
    BY <2>2 DEF NotifyAll, Join, Shutdown, vars
  <2>3. CASE ProcessLoop \/ ThrowImage \/ Block \/ SpuriousWakeup \/ DrainRelo
    BY <2>3 DEF ProcessLoop, ThrowImage, Block, SpuriousWakeup, DrainRelo
  <2> QED
    BY <1>3, <2>1, <2>2, <2>3 DEF QuietStep
<1>4. CASE EvaluatePredicate \/ TakeImage \/ CloseMeasurement \/ ReturnMeasurements \/ LockEstimator
  BY <1>4, ProcessEffects DEF EvaluatePredicate, TakeImage, CloseMeasurement, ReturnMeasurements, LockEstimator
<1>5. CASE IntegrateSample \/ InterpolateAtImage \/ ProcessImage
  BY <1>5, ProcessEffects
<1> QED
  BY <1>1, <1>2, <1>3, <1>4, <1>5, StepKinds

\* The prediction stays complete.
LEMMA PredNext ==
  ASSUME TypeInv, FrontInv, StageInv, BufferInv, OrderInv, CoverInv, PredInv, [Next]_vars
  PROVE  PredInv'
<1>1. SUFFICES ASSUME OffsetsClose, restarts' = 0, spin' \in {"idle", "predict"}
               PROVE  PredInv'
  BY DEF PredInv, OffsetsClose
<1>c. restarts = 0 /\ ~stale /\ Covered /\ UpdateReady
  BY <1>1, SessionSteps DEF CoverInv
<1>t. /\ latest_time \in Int /\ last_imu_t \in Nat /\ current_time \in Int
      /\ tmp \in [base : Int, seen : SUBSET Stamps] /\ imu_buf \in Seq(Stamps)
      /\ \A t \in accepted : t \in Nat \ {0}
  BY Shapes DEF TypeInv, TypeOK
<1>b. \A t \in accepted : t <= last_imu_t
  BY DEF BufferInv
<1>2. ASSUME NEW t \in Stamps, ImuCallback(t)
      PROVE  PredInv'
  <2>1. /\ t > last_imu_t /\ last_imu_t' = t /\ accepted' = accepted \cup {t}
        /\ spin = "idle" /\ spin' = "predict" /\ imu_arg' = t /\ UNCHANGED <<latest_time, tmp>>
        /\ imu_buf' = Append(imu_buf, t)
    BY <1>2, SpinEffects
  <2>2. t \in Nat \ {0}
    BY StampsAssumption
  <2>3. imu_buf' # <<>> /\ imu_buf'[Len(imu_buf')] = t
    BY <1>t, <2>1, Pushed
  <2>4. latest_time = last_imu_t
    BY <1>1, <1>c, <2>1 DEF PredInv
  <2>5. tmp.base # 0 => /\ tmp.base <= latest_time /\ latest_time # 0
                        /\ tmp.seen = {s \in accepted : tmp.base < s /\ s <= latest_time}
    BY <1>1, <1>c, <2>1 DEF PredInv
  <2>6. ~(t <= latest_time) /\ latest_time <= t
    BY <1>t, <2>1, <2>2, <2>4
  <2>7. {s \in accepted' : tmp.base < s /\ s <= latest_time} = {s \in accepted : tmp.base < s /\ s <= latest_time}
    BY <2>1, <2>6
  <2>8. \A s \in accepted' : s <= latest_time \/ s = t
    BY <1>b, <2>1, <2>4
  <2> QED
    BY <2>1, <2>3, <2>5, <2>6, <2>7, <2>8 DEF PredInv
<1>3. CASE Predict
  <2>1. /\ UNCHANGED <<imu_buf, last_imu_t, accepted>> /\ spin = "predict" /\ spin' = "idle"
        /\ latest_time' = imu_arg /\ tmp' = Propagated(tmp, latest_time, imu_arg)
    BY <1>3 DEF Predict, buffers, history
  <2>2. /\ last_imu_t # 0 => imu_buf # <<>> /\ imu_buf[Len(imu_buf)] = last_imu_t
        /\ latest_time <= last_imu_t
        /\ imu_arg = last_imu_t /\ imu_arg \in accepted
        /\ \A t \in accepted : t <= latest_time \/ t = imu_arg
        /\ tmp.base # 0 => /\ tmp.base <= latest_time /\ latest_time # 0
                           /\ tmp.seen = {t \in accepted : tmp.base < t /\ t <= latest_time}
    BY <1>1, <1>c, <2>1 DEF PredInv
  <2>3. ASSUME tmp'.base # 0
        PROVE  /\ tmp'.base <= imu_arg /\ imu_arg # 0
               /\ tmp'.seen = {t \in accepted : tmp'.base < t /\ t <= imu_arg}
    <3>1. tmp'.base = tmp.base /\ (latest_time # 0 /\ imu_arg # latest_time => tmp'.seen = tmp.seen \cup {imu_arg})
          /\ (imu_arg = latest_time => tmp' = tmp)
      BY <1>t, <2>1 DEF Propagated
    <3>2. PICK b \in Int : b = tmp.base
      BY <1>t
    <3>3. /\ b <= latest_time /\ latest_time # 0 /\ tmp'.base = b
          /\ tmp.seen = {t \in accepted : b < t /\ t <= latest_time}
      BY <2>2, <2>3, <3>1, <3>2
    <3>4. imu_arg \in Nat \ {0} /\ latest_time <= imu_arg
      BY <1>t, <2>2
    <3>5. CASE imu_arg = latest_time
      BY <3>1, <3>3, <3>4, <3>5
    <3>6. CASE imu_arg # latest_time
      <4>1. b < imu_arg /\ latest_time < imu_arg
        BY <1>t, <3>2, <3>3, <3>4, <3>6
      <4>2. \A t \in accepted : b < t /\ t <= imu_arg <=> (b < t /\ t <= latest_time) \/ t = imu_arg
        BY <1>t, <2>2, <3>4, <4>1
      <4>3. {t \in accepted : b < t /\ t <= latest_time} \cup {imu_arg} = {t \in accepted : b < t /\ t <= imu_arg}
        BY <2>2, <4>2
      <4>4. b <= imu_arg
        BY <3>2, <3>4, <4>1
      <4> QED
        BY <3>1, <3>3, <3>4, <3>6, <4>3, <4>4
    <3> QED
      BY <3>5, <3>6
  <2>4. imu_arg <= last_imu_t
    BY <1>t, <2>2
  <2> QED
    BY <2>1, <2>2, <2>3, <2>4 DEF PredInv
<1>4. CASE Update
  <2>1. /\ UNCHANGED <<imu_buf, last_imu_t, accepted, spin, imu_arg>> /\ proc = "update"
        /\ solver_flag # "NON_LINEAR" => UNCHANGED <<latest_time, tmp>>
    BY <1>4 DEF Update, buffers, history, predicted
  <2>2. CASE solver_flag # "NON_LINEAR"
    BY <1>1, <1>c, <2>1, <2>2 DEF PredInv
  <2>3. CASE solver_flag = "NON_LINEAR"
    <3>1. imu_buf # <<>> /\ fused.at = current_time
      BY <1>c, <2>1 DEF UpdateReady
    <3>2. /\ tmp' = [base |-> current_time, seen |-> Elems(imu_buf) \ {current_time}]
          /\ latest_time' = imu_buf[Len(imu_buf)]
      BY <1>4, <2>3, <3>1 DEF Update, Replayed
    <3>3. Len(imu_buf) \in 1..Len(imu_buf) /\ DOMAIN imu_buf = 1..Len(imu_buf)
      BY <1>t, <3>1, Shapes, LenProperties
    <3>4. imu_buf[Len(imu_buf)] \in accepted
      BY <3>3 DEF BufferInv
    <3>5. last_imu_t # 0
      BY <1>b, <1>t, <3>4
    <3>6. imu_buf[Len(imu_buf)] = last_imu_t
      BY <1>1, <1>c, <2>1, <3>5 DEF PredInv
    <3>7. \A j \in 1..Len(imu_buf) : imu_buf[j] \in accepted /\ current_time <= imu_buf[j]
      BY <1>c DEF BufferInv, OrderInv
    <3>8. \A t \in accepted : t <= current_time \/ \E j \in 1..Len(imu_buf) : imu_buf[j] = t
      BY <1>c, <2>1 DEF Covered, Active
    <3>9. ASSUME NEW t
          PROVE  t \in Elems(imu_buf) \ {current_time} <=> t \in accepted /\ current_time < t /\ t <= last_imu_t
      <4>1. t \in Elems(imu_buf) <=> \E j \in 1..Len(imu_buf) : imu_buf[j] = t
        BY <3>3 DEF Elems
      <4>2. ASSUME NEW j \in 1..Len(imu_buf), imu_buf[j] = t, t # current_time
            PROVE  t \in accepted /\ current_time < t /\ t <= last_imu_t
        BY <1>b, <1>t, <3>7, <4>2
      <4>3. ASSUME t \in accepted, current_time < t
            PROVE  (\E j \in 1..Len(imu_buf) : imu_buf[j] = t) /\ t # current_time
        BY <1>t, <3>8, <4>3
      <4> QED
        BY <4>1, <4>2, <4>3
    <3>10. Elems(imu_buf) \ {current_time} = {t \in accepted : current_time < t /\ t <= last_imu_t}
      BY <3>9
    <3>11. current_time <= last_imu_t
      BY <1>c DEF OrderInv
    <3>12. tmp'.base = current_time /\ tmp'.seen = {t \in accepted : current_time < t /\ t <= last_imu_t}
      BY <3>2, <3>10
    <3>13. spin = "predict" => imu_arg = last_imu_t /\ imu_arg \in accepted
      BY <1>1, <1>c, <2>1 DEF PredInv
    <3>14. latest_time' = last_imu_t /\ latest_time' <= last_imu_t
      BY <1>t, <3>2, <3>6
    <3> QED
      BY <1>b, <2>1, <3>1, <3>5, <3>6, <3>11, <3>12, <3>13, <3>14 DEF PredInv
  <2> QED
    BY <2>2, <2>3
<1>5. CASE CollectSample
  <2>1. UNCHANGED <<last_imu_t, latest_time, tmp, imu_arg, accepted, spin>>
    BY <1>5, ProcessEffects
  <2>2. PICK n, c \in Nat :
           /\ Added(n, c) /\ imu_buf # <<>> /\ imu_buf' = Tail(imu_buf)
           /\ imu_buf[Len(imu_buf)] > measurements[n].img + td
           /\ imu_buf[1] < measurements[n].img + td
    BY <1>5, AddedSteps
  <2>3. PICK b \in Nat \ {0} : b = Len(imu_buf)
    BY <2>2, Shapes
  <2>4. 1 \in 1..b /\ b \in 1..b /\ n \in 1..Len(measurements)
    BY <2>2, <2>3 DEF Added
  <2>5. imu_buf[1] \in Nat /\ imu_buf[b] \in Nat /\ measurements[n].img + td \in Int
    BY <2>3, <2>4, Shapes
  <2>6. b # 1
    BY <2>2, <2>3, <2>5
  <2>7. Len(imu_buf') = b - 1 /\ \A j \in 1..(b - 1) : imu_buf'[j] = imu_buf[j + 1]
    BY <2>2, <2>3, BufferPopped
  <2>8. b - 1 \in 1..(b - 1) /\ (b - 1) + 1 = b /\ b - 1 # 0
    BY <2>6
  <2>9. imu_buf'[Len(imu_buf')] = imu_buf[Len(imu_buf)]
    BY <2>3, <2>7, <2>8
  <2>10. imu_buf' # <<>>
    <3>1. Len(imu_buf') # 0
      BY <2>7, <2>8
    <3> QED
      BY <3>1
  <2> QED
    BY <1>1, <1>c, <2>1, <2>9, <2>10 DEF PredInv
<1>6. ASSUME ~Predict, ~Update, ~CollectSample, \A t \in Stamps : ~ImuCallback(t)
      PROVE  PredInv'
  <2>1. UNCHANGED <<spin, imu_buf, last_imu_t, latest_time, tmp, imu_arg, accepted>>
    BY <1>1, <1>6, PredictionKept
  <2> QED
    BY <1>1, <1>c, <2>1 DEF PredInv
<1> QED
  BY <1>2, <1>3, <1>4, <1>5, <1>6

\* With one offset and no restart the images of the batch stay in order between their samples.
LEMMA FuseNext ==
  ASSUME TypeInv, FrontInv, StageInv, BufferInv, OrderInv, LengthInv, CloseInv, FuseInv, [Next]_vars
  PROVE  FuseInv'
<1>1. SUFFICES ASSUME restarts' = 0, TdValues = {TD}
               PROVE  FuseInv'
  BY DEF FuseInv
<1>c. restarts = 0 /\ ~stale /\ td = TD /\ TD \in Int
  BY <1>1, SessionSteps, TdAssumption DEF TypeInv, TypeOK
<1>i. fused.img \in Nat
  <2>1. fused \in [img : Stamps \cup {0}, at : Int, used : SUBSET Stamps]
    BY DEF TypeInv, TypeOK
  <2>2. fused.img \in Stamps \cup {0}
    BY <2>1
  <2>3. \A i \in Stamps \cup {0} : i \in Nat
    BY StampsAssumption
  <2> QED
    BY <2>2, <2>3
<1>o. OffsetsClose
  BY <1>1, <1>c DEF OffsetsClose
<1>f. fused.img # 0 => fused.img + TD <= current_time
  BY <1>1, <1>c DEF FuseInv
<1>k. ASSUME Active, NEW k \in 1..Len(measurements)
      PROVE  /\ measurements[k].img > fused.img
             /\ \E s \in accepted : s < measurements[k].img + TD
             /\ \E s \in accepted : s > measurements[k].img + TD
             /\ \A l \in 1..Len(measurements) : k < l => measurements[k].img < measurements[l].img
             /\ ~Open(k) /\ measurements[k].imus # <<>> =>
                  measurements[k].imus[Len(measurements[k].imus)] >= measurements[k].img + TD
  BY <1>1, <1>c, <1>k DEF FuseInv
<1>2. ASSUME Quiet \/ ReturnMeasurements \/ LockEstimator
      PROVE  FuseInv'
  <2>1. Unpushed /\ fused' = fused
    BY <1>2, UnpushedSteps, ProcessEffects DEF Quiet
  <2>2. ASSUME Active', proc = "batch_taken"
        PROVE  measurements[1].imus # <<>>
    <3>1. 1 \in 1..Len(measurements) /\ ~Open(1) /\ Active
      BY <2>1, <2>2, Shapes DEF Unpushed, Open, TypeInv, HoldsMeasurement
    <3>2. Len(measurements[1].imus) >= 2
      BY <1>c, <2>2, <3>1 DEF LengthInv
    <3> QED
      BY <3>1, <3>2, Shapes
  <2>3. proc = "batch" /\ measurements[1].imus = <<>> => current_time = measurements[1].img + TD
    BY <1>1, <1>c DEF FuseInv
  <2>4. Active' => proc' # "batch" \/ proc \in {"batch", "batch_taken"}
    BY <2>1 DEF Unpushed
  <2>5. ASSUME proc' = "batch"
        PROVE  Active'
    BY <2>5 DEF Active
  <2> QED
    BY <1>f, <1>k, <2>1, <2>2, <2>3, <2>4, <2>5 DEF Unpushed, FuseInv
<1>3. ASSUME NEW t \in Stamps, ImuCallback(t)
      PROVE  FuseInv'
  <2>1. /\ UNCHANGED <<measurements, current_time, fused>> /\ accepted' = accepted \cup {t}
        /\ proc \notin {"gather", "collect"} /\ (proc' = proc \/ proc' = "pred")
    BY <1>3, SpinEffects DEF HoldsBuf
  <2>2. (Active' => Active) /\ (\A k : ~Open(k)) /\ (proc' = "batch" => proc = "batch")
    BY <2>1 DEF Active, Open
  <2>3. proc = "batch" /\ measurements[1].imus = <<>> => current_time = measurements[1].img + TD
    BY <1>1, <1>c DEF FuseInv
  <2> QED
    BY <1>f, <1>k, <2>1, <2>2, <2>3 DEF FuseInv
<1>4. CASE EvaluatePredicate
  <2>1. Len(measurements') = 0 /\ proc' # "batch" /\ UNCHANGED <<fused, current_time>>
    BY <1>4, ProcessEffects DEF EvaluatePredicate
  <2> QED
    BY <1>f, <2>1 DEF FuseInv
<1>5. CASE TakeImage
  <2>1. UNCHANGED <<imu_buf, accepted, fused, current_time>> /\ proc = "gather" /\ proc' = "collect"
    BY <1>5, ProcessEffects DEF TakeImage
  <2>2. PICK n \in Nat : n = Len(measurements)
    BY Shapes
  <2>3. PICK i \in Stamps : i = Head(feature_buf)
    BY <1>5, ImageTaken
  <2>4. /\ Len(measurements') = n + 1
        /\ \A k \in 1..n : measurements'[k] = measurements[k]
        /\ measurements'[n + 1].img = i
        /\ imu_buf # <<>> /\ imu_buf[1] < i + TD /\ imu_buf[Len(imu_buf)] > i + TD
    BY <1>5, <1>c, <2>2, <2>3, ImageTaken
  <2>5. Active /\ (\A k : ~Open(k)) /\ Open(n + 1)'
    BY <2>1, <2>4 DEF Active, Open
  <2>6. i \in Nat \ {0} /\ 1 \in 1..Len(imu_buf) /\ Len(imu_buf) \in 1..Len(imu_buf)
    BY <2>3, <2>4, StampsAssumption, Shapes
  <2>7. imu_buf[1] \in Nat /\ imu_buf[1] \in accepted /\ imu_buf[Len(imu_buf)] \in accepted
        /\ current_time <= imu_buf[1]
    BY <1>c, <2>6, Shapes DEF BufferInv, OrderInv
  <2>8. i > fused.img
    <3>1. CASE fused.img = 0
      BY <2>6, <3>1
    <3>2. CASE fused.img # 0
      <4>1. current_time \in Int
        BY Shapes
      <4> QED
        BY <1>c, <1>f, <1>i, <2>4, <2>6, <2>7, <3>2, <4>1
    <3> QED
      BY <3>1, <3>2
  <2>9. ASSUME NEW k \in 1..n
        PROVE  measurements[k].img < i
    <3>1. k \in 1..Len(measurements)
      BY <2>2
    <3>2. PICK c \in Nat : c = Len(measurements[k].imus)
      BY <3>1, Shapes
    <3>3. c >= 2
      BY <1>c, <2>1, <2>5, <3>1, <3>2 DEF LengthInv
    <3>4. measurements[k].imus # <<>> /\ c \in 1..c
      BY <3>1, <3>2, <3>3, Shapes
    <3>5. measurements[k].imus[c] >= measurements[k].img + TD
      BY <1>k, <2>5, <3>1, <3>2, <3>4
    <3>6. measurements[k].imus[c] <= imu_buf[1]
      BY <1>c, <2>5, <2>6, <3>1, <3>2, <3>4 DEF OrderInv
    <3>7. measurements[k].imus[c] \in Nat /\ measurements[k].img \in Nat
      BY <3>1, <3>2, <3>4, Shapes
    <3> QED
      BY SMTT(30), <1>c, <2>4, <2>6, <2>7, <3>5, <3>6, <3>7
  <2>10. ASSUME NEW k \in 1..(n + 1)
         PROVE  /\ measurements'[k].img > fused.img
                /\ \E s \in accepted : s < measurements'[k].img + TD
                /\ \E s \in accepted : s > measurements'[k].img + TD
                /\ \A l \in 1..(n + 1) : k < l => measurements'[k].img < measurements'[l].img
                /\ ~Open(k)' /\ measurements'[k].imus # <<>> =>
                     measurements'[k].imus[Len(measurements'[k].imus)] >= measurements'[k].img + TD
    <3>1. CASE k = n + 1
      <4>1. \A l \in 1..(n + 1) : ~(k < l)
        BY <2>2, <3>1
      <4> QED
        BY <2>4, <2>5, <2>7, <2>8, <3>1, <4>1
    <3>2. CASE k # n + 1
      <4>1. k \in 1..n /\ measurements'[k] = measurements[k]
        BY <2>2, <2>4, <3>2
      <4>2. ASSUME NEW l \in 1..(n + 1), k < l
            PROVE  measurements[k].img < measurements'[l].img
        <5>1. CASE l = n + 1
          BY <2>4, <2>9, <4>1, <5>1
        <5>2. CASE l # n + 1
          <6>1. l \in 1..n
            BY <2>2, <5>2
          <6> QED
            BY <1>k, <2>2, <2>4, <2>5, <4>1, <4>2, <6>1
        <5> QED
          BY <5>1, <5>2
      <4> QED
        BY <1>k, <2>2, <2>5, <4>1, <4>2
    <3> QED
      BY <3>1, <3>2
  <2> QED
    BY <1>f, <2>1, <2>4, <2>10 DEF FuseInv
<1>6. CASE CollectSample \/ CloseMeasurement
  <2>1. PICK n, c \in Nat :
           /\ Added(n, c)
           /\ proc = "collect" /\ (\A k : Open(k) <=> k = n) /\ imu_buf # <<>>
           /\ CollectSample => proc' = "collect" /\ (\A k : Open(k)' <=> k = n)
           /\ CloseMeasurement => proc' = "gather" /\ imu_buf[1] >= measurements[n].img + td
    BY <1>6, AddedSteps
  <2>2. UNCHANGED <<accepted, fused, current_time>> /\ Active
    BY <1>6, <2>1, ProcessEffects DEF Active
  <2>3. /\ n = Len(measurements) /\ Len(measurements') = n
        /\ Len(measurements'[n].imus) = c + 1 /\ measurements'[n].imus[c + 1] = imu_buf[1]
        /\ \A k \in 1..n : measurements'[k].img = measurements[k].img
        /\ \A k \in 1..n : k # n => measurements'[k] = measurements[k]
    BY <2>1 DEF Added
  <2>4. ASSUME NEW k \in 1..n, ~Open(k)', measurements'[k].imus # <<>>
        PROVE  measurements'[k].imus[Len(measurements'[k].imus)] >= measurements'[k].img + TD
    <3>1. CASE k = n
      BY <1>6, <1>c, <2>1, <2>3, <2>4, <3>1
    <3>2. CASE k # n
      <4>1. measurements'[k] = measurements[k] /\ ~Open(k)
        BY <2>1, <2>3, <3>2
      <4> QED
        BY <1>k, <2>2, <2>3, <2>4, <4>1
    <3> QED
      BY <3>1, <3>2
  <2>5. proc' # "batch"
    BY <1>6, <2>1
  <2> QED
    BY <1>f, <1>k, <2>2, <2>3, <2>4, <2>5 DEF FuseInv
<1>7. CASE IntegrateSample \/ InterpolateAtImage
  <2>1. PICK n, c \in Nat, s \in Nat \ {0}, at \in Int :
           /\ Used(n, c)
           /\ s = measurements[1].imus[1] /\ at = measurements[1].img + td
           /\ IntegrateSample => s <= at /\ current_time' = s
           /\ InterpolateAtImage => s > at /\ current_time' = at
           /\ proc = "batch" /\ proc' = "batch" /\ (\A k : ~Open(k) /\ ~Open(k)')
    BY <1>7, UsedSteps
  <2>2. UNCHANGED <<accepted, fused>> /\ Active
    BY <1>7, <2>1, ProcessEffects DEF Active
  <2>3. /\ n = Len(measurements) /\ Len(measurements') = n /\ c = Len(measurements[1].imus)
        /\ n \in Nat \ {0} /\ c \in Nat \ {0} /\ Len(measurements'[1].imus) = c - 1
        /\ \A k \in 1..n : measurements'[k].img = measurements[k].img
        /\ \A k \in 1..n : k # 1 => measurements'[k] = measurements[k]
        /\ \A i \in 1..(c - 1) : measurements'[1].imus[i] = measurements[1].imus[i + 1]
    BY <2>1 DEF Used
  <2>4. current_time <= current_time' /\ current_time \in Int /\ current_time' \in Int
    BY <1>7, <1>c, <1>o, <2>1, TimeGrows
  <2>5. fused.img # 0 => fused.img + TD <= current_time'
    BY <1>c, <1>f, <1>i, <2>4
  <2>6. 1 \in 1..n /\ measurements[1].imus # <<>>
    <3>1. 1 \in 1..n
      BY <2>3
    <3> QED
      BY <2>3, <3>1, Shapes
  <2>7. measurements[1].imus[c] >= at
    BY <1>c, <1>k, <2>1, <2>2, <2>3, <2>6
  <2>8. ASSUME NEW k \in 1..n, measurements'[k].imus # <<>>
        PROVE  measurements'[k].imus[Len(measurements'[k].imus)] >= measurements'[k].img + TD
    <3>1. CASE k # 1
      BY <1>k, <2>1, <2>2, <2>3, <2>8, <3>1
    <3>2. CASE k = 1
      <4>1. c # 1
        <5>1. TypeInv'
          BY <1>7, TypeInvProcess DEF ProcessThread, ProcessBatch
        <5>2. measurements' \in Seq(Batch)
          BY <5>1 DEF TypeInv, TypeOK, Batch
        <5>3. measurements'[1] \in Batch
          BY <2>3, <2>6, <5>2, ElementOfSeq
        <5>4. measurements'[1].imus \in Seq(Stamps)
          BY <5>3 DEF Batch
        <5>5. Len(measurements'[1].imus) # 0
          BY <2>8, <3>2, <5>4, EmptySeq
        <5> QED
          BY <2>3, <5>5
      <4>2. c - 1 \in 1..(c - 1) /\ (c - 1) + 1 = c
        <5>1. c \in Nat \ {0}
          BY <2>3
        <5> QED
          BY <4>1, <5>1
      <4>3. measurements'[1].imus[c - 1] = measurements[1].imus[c]
        BY <2>3, <4>2
      <4> QED
        BY <1>c, <2>1, <2>3, <2>6, <2>7, <3>2, <4>3
    <3> QED
      BY <3>1, <3>2
  <2>9. ASSUME measurements'[1].imus = <<>>
        PROVE  current_time' = measurements'[1].img + TD
    <3>1. c = 1
      <4>1. Len(measurements'[1].imus) = 0
        BY <2>9
      <4>2. c \in Nat /\ c - 1 = 0
        BY <2>3, <4>1
      <4> QED
        BY <4>2
    <3>2. s >= at
      BY <2>1, <2>7, <3>1
    <3>3. current_time' = at
      BY <1>7, <2>1, <3>2
    <3> QED
      BY <1>c, <2>1, <2>3, <2>6, <3>3
  <2> QED
    BY <1>k, <2>1, <2>2, <2>3, <2>5, <2>8, <2>9 DEF FuseInv
<1>8. CASE ProcessImage
  <2>1. /\ UNCHANGED <<accepted, current_time>> /\ proc = "batch" /\ fused'.img = Current.img
        /\ proc' = IF Len(measurements) = 1 THEN "update" ELSE "batch"
    BY <1>8, ProcessEffects DEF ProcessImage
  <2>2. PICK n : n = Len(measurements)
    OBVIOUS
  <2>3. /\ n \in Nat \ {0} /\ Len(measurements') = n - 1
        /\ \A k \in 1..(n - 1) : measurements'[k] = measurements[k + 1]
        /\ Current = measurements[1] /\ measurements[1].imus = <<>>
    BY <1>8, <2>2, MeasurementDone
  <2>4. Active /\ (\A k : ~Open(k))
    BY <2>1 DEF Active, Open
  <2>5. fused'.img = measurements[1].img /\ current_time = measurements[1].img + TD
    BY <1>1, <1>c, <2>1, <2>3 DEF FuseInv
  <2>6. 1 \in 1..n /\ measurements[1].img \in Nat
    <3>1. 1 \in 1..n
      BY <2>3
    <3> QED
      BY <2>2, <3>1, Shapes
  <2>7. fused'.img + TD <= current_time
    BY <1>c, <2>5, <2>6
  <2>8. ASSUME NEW k \in 1..(n - 1)
        PROVE  /\ measurements'[k].img > fused'.img
               /\ \E s \in accepted : s < measurements'[k].img + TD
               /\ \E s \in accepted : s > measurements'[k].img + TD
               /\ \A l \in 1..(n - 1) : k < l => measurements'[k].img < measurements'[l].img
               /\ measurements'[k].imus # <<>> =>
                    measurements'[k].imus[Len(measurements'[k].imus)] >= measurements'[k].img + TD
    <3>1. k + 1 \in 1..n /\ 1 < k + 1 /\ \A l \in 1..(n - 1) : l + 1 \in 1..n /\ (k < l => k + 1 < l + 1)
      BY <2>3
    <3>2. measurements'[k] = measurements[k + 1]
      BY <2>3
    <3>3. measurements[1].img < measurements[k + 1].img /\ measurements[k + 1].img \in Nat
      BY <1>k, <2>2, <2>4, <2>6, <3>1, Shapes
    <3>4. \A l \in 1..(n - 1) : k < l => measurements'[k].img < measurements'[l].img
      BY <1>k, <2>2, <2>3, <2>4, <3>1, <3>2
    <3>5. /\ \E s \in accepted : s < measurements[k + 1].img + TD
          /\ \E s \in accepted : s > measurements[k + 1].img + TD
          /\ measurements[k + 1].imus # <<>> =>
               measurements[k + 1].imus[Len(measurements[k + 1].imus)] >= measurements[k + 1].img + TD
      BY <1>k, <2>2, <2>4, <3>1
    <3>6. measurements[k + 1].img > fused'.img
      BY <2>5, <2>6, <3>3
    <3> QED
      BY <3>2, <3>4, <3>5, <3>6
  <2>9. ASSUME proc' = "batch"
        PROVE  measurements'[1].imus # <<>>
    <3>1. 1 \in 1..(n - 1) /\ 2 \in 1..n
      BY <2>1, <2>2, <2>3, <2>9
    <3>2. measurements'[1] = measurements[2]
      BY <2>3, <3>1
    <3>3. Len(measurements[2].imus) >= 2
      BY <1>c, <2>2, <2>4, <3>1 DEF LengthInv
    <3> QED
      BY <2>2, <3>1, <3>2, <3>3, Shapes
  <2> QED
    BY <2>1, <2>3, <2>7, <2>8, <2>9 DEF FuseInv
<1> QED
  BY <1>1, <1>2, <1>3, <1>4, <1>5, <1>6, <1>7, <1>8, SessionSteps

-----------------------------------------------------------------------------
(* The invariant and the theorems *)

SessionInv ==
  /\ StageInv /\ BufferInv /\ OrderInv /\ LengthInv /\ OnceInv
  /\ CloseInv /\ CoverInv /\ PredInv /\ FuseInv

\* The session starts with nothing in hand.
LEMMA SessionInit == Init => SessionInv
<1> SUFFICES ASSUME Init
             PROVE  SessionInv
  OBVIOUS
<1>1. /\ Len(imu_buf) = 0 /\ Len(measurements) = 0 /\ accepted = {} /\ fed = {}
      /\ current_time = -1 /\ last_imu_t = 0 /\ latest_time = 0 /\ spin = "idle" /\ proc = "loop"
      /\ tmp.base = 0 /\ fused.img = 0 /\ ~stale
  BY DEF Init, NoState, NoFusion
<1>2. StageInv /\ BufferInv
  BY <1>1 DEF StageInv, BufferInv, InRestart
<1>3. OrderInv /\ LengthInv /\ OnceInv /\ CloseInv
  BY <1>1 DEF OrderInv, LengthInv, OnceInv, CloseInv, Active
<1>4. CoverInv
  BY <1>1 DEF CoverInv, Covered, FedInTime, Chained, UpdateReady, Active
<1>5. PredInv
  BY <1>1 DEF PredInv
<1>6. FuseInv
  BY <1>1 DEF FuseInv, Active
<1> QED
  BY <1>2, <1>3, <1>4, <1>5, <1>6 DEF SessionInv

\* Every step keeps it.
LEMMA SessionNext == IInv /\ SessionInv /\ [Next]_vars => SessionInv'
<1> SUFFICES ASSUME TypeInv, FrontInv, StageInv, BufferInv, OrderInv, LengthInv, OnceInv,
                    CloseInv, CoverInv, PredInv, FuseInv, [Next]_vars
             PROVE  SessionInv'
  BY DEF IInv, SessionInv
<1>1. StageInv' /\ BufferInv' /\ OrderInv' /\ LengthInv'
  BY StageNext, BufferNext, OrderNext, LengthNext
<1>2. OnceInv' /\ CloseInv' /\ CoverInv'
  BY OnceNext, CloseNext, CoverNext
<1>3. PredInv' /\ FuseInv'
  BY PredNext, FuseNext
<1> QED
  BY <1>1, <1>2, <1>3 DEF SessionInv

\* Both invariants hold in every reachable state.
LEMMA SessionInvariance == Spec => [](IInv /\ SessionInv)
<1>1. Init => IInv /\ SessionInv
  BY IInvInit, SessionInit
<1>2. (IInv /\ SessionInv) /\ [Next]_vars => (IInv /\ SessionInv)'
  BY IInvNext, SessionNext
<1> QED
  BY <1>1, <1>2, PTL DEF Spec

\* The sample processIMU is about to be called with is the first of the batch.
LEMMA NextSample ==
  ASSUME TypeInv, MoreSamples
  PROVE  \E n, c \in Nat \ {0} :
           /\ n = Len(measurements) /\ c = Len(measurements[1].imus) /\ proc = "batch" /\ Active
           /\ Sample = measurements[1].imus[1] /\ Sample \in Nat
           /\ ImageTime = measurements[1].img + td /\ ImageTime \in Int
<1>1. measurements \in Seq(Batch)
  BY DEF TypeInv, TypeOK, Batch
<1>2. measurements # <<>> /\ Current \in Batch /\ Current = measurements[1] /\ proc = "batch" /\ Active
  BY CurrentType DEF MoreSamples, Active
<1>3. 1 \in 1..Len(measurements) /\ Len(measurements) \in Nat \ {0}
  BY <1>1, <1>2, EmptySeq, LenProperties
<1>4. measurements[1].imus \in Seq(Stamps) /\ measurements[1].imus # <<>>
  BY <1>2 DEF Batch, MoreSamples
<1>5. /\ Len(measurements[1].imus) \in Nat \ {0}
      /\ Sample = measurements[1].imus[1] /\ Sample \in Stamps
  BY <1>2, <1>4, Popped DEF Sample
<1>6. Sample \in Nat
  BY <1>5, StampsAssumption
<1>7. ImageTime = measurements[1].img + td /\ ImageTime \in Int
  BY <1>2, <1>3, Shapes DEF ImageTime
<1> QED
  BY <1>2, <1>3, <1>5, <1>6, <1>7

\* With offsets at most one stamp apart the assertions of process (estimator_node.cpp:357 and
\* 374-376) hold in every state in which no restart has slipped in behind a batch in hand.
THEOREM TimeNeverRunsBack == Spec => []TimeAdvancesUnlessStale
<1>1. IInv /\ SessionInv => TimeAdvancesUnlessStale
  <2> SUFFICES ASSUME TypeInv, OrderInv, CloseInv, OffsetsClose, ~stale, MoreSamples
               PROVE  /\ Sample <= ImageTime => current_time < 0 \/ Sample >= current_time
                      /\ ~ (Sample <= ImageTime) => ImageTime >= current_time
                      /\ Sample > ImageTime => current_time >= 0
    BY DEF IInv, SessionInv, TimeAdvancesUnlessStale, TimeAdvances, StartsKnown
  <2>1. PICK n, c \in Nat \ {0} :
           /\ n = Len(measurements) /\ c = Len(measurements[1].imus) /\ proc = "batch" /\ Active
           /\ Sample = measurements[1].imus[1] /\ Sample \in Nat
           /\ ImageTime = measurements[1].img + td /\ ImageTime \in Int
    BY NextSample
  <2>2. current_time <= Sample /\ current_time \in Int
    BY <2>1, FirstSample, Shapes
  <2>3. ASSUME ~(Sample <= ImageTime)
        PROVE  current_time >= 0 /\ ImageTime >= current_time
    <3>1. 1 \in 1..n /\ 1 \in 1..c /\ td \in TdValues
      BY DEF TypeInv, TypeOK
    <3>2. \A i \in 1..c : i < c => \A d \in TdValues : measurements[1].imus[i] <= measurements[1].img + d
      BY <2>1, <3>1 DEF CloseInv
    <3>3. ~(1 < c)
      <4>1. 1 < c => Sample <= ImageTime
        BY <2>1, <3>1, <3>2
      <4> QED
        BY <2>3, <4>1
    <3>4. 0 <= current_time /\ current_time <= ImageTime
      BY <2>1, <3>3 DEF CloseInv
    <3> QED
      BY <2>1, <2>2, <3>4
  <2> QED
    BY <2>1, <2>2, <2>3
<1> QED
  BY <1>1, SessionInvariance, PTL

\* A sample already integrated comes back only with dt = 0 (estimator_node.cpp:348-388).
THEOREM NoSampleTwice == Spec => []IntegratedOnce
<1>1. IInv /\ SessionInv => IntegratedOnce
  <2> SUFFICES ASSUME TypeInv, OnceInv, ~stale, MoreSamples, Sample \in fed
               PROVE  current_time = Sample
    BY DEF IInv, SessionInv, IntegratedOnce
  <2>1. PICK n, c \in Nat \ {0} :
           /\ n = Len(measurements) /\ c = Len(measurements[1].imus) /\ Active
           /\ Sample = measurements[1].imus[1]
    BY NextSample
  <2>2. 1 \in 1..n /\ 1 \in 1..c
    OBVIOUS
  <2> QED
    BY <2>1, <2>2 DEF OnceInv
<1> QED
  BY <1>1, SessionInvariance, PTL

\* With offsets at most one stamp apart, and until a restart, the prediction imu_callback
\* publishes has been propagated through every sample since the window state it starts from
\* (estimator_node.cpp:184-200, 242-271).
THEOREM PredictionMissesNothing == Spec => []PredictionComplete
<1>1. IInv /\ SessionInv => PredictionComplete
  <2> SUFFICES ASSUME TypeInv, BufferInv, PredInv, OffsetsClose, restarts = 0, spin = "idle", tmp.base # 0
               PROVE  tmp.seen = {t \in accepted : t > tmp.base}
    BY DEF IInv, SessionInv, PredictionComplete
  <2>1. latest_time = last_imu_t /\ tmp.seen = {t \in accepted : tmp.base < t /\ t <= latest_time}
    BY DEF PredInv
  <2>2. \A t \in accepted : t <= last_imu_t
    BY DEF BufferInv
  <2>3. tmp.base \in Int /\ \A t \in accepted : t \in Nat
    BY Shapes DEF TypeInv, TypeOK
  <2>4. \A t \in accepted : tmp.base < t /\ t <= latest_time <=> t > tmp.base
    BY <2>1, <2>2, <2>3
  <2> QED
    BY <2>1, <2>4
<1> QED
  BY <1>1, SessionInvariance, PTL

\* Without restarts, and with the offset left as configured, the buffers, the two threads and
\* the loops of process implement MeasurementFusion: images are fused in order, each with
\* exactly the samples up to it (estimator_node.cpp:202-262, 327-458).
THEOREM ImplementsFusion ==
  ASSUME MaxRestarts = 0, TdValues = {TD}
  PROVE  Spec => FusesInOrder
<1>o. OffsetsClose
  <2>1. TD \in Int
    BY TdAssumption
  <2> QED
    BY <2>1 DEF OffsetsClose
<1>1. Init => Fusion!Init
  BY DEF Init, NoFusion, Fusion!Init, Fusion!NoFusion
<1>2. (IInv /\ SessionInv) /\ (IInv /\ SessionInv)' /\ [Next]_vars => [Fusion!Next]_<<accepted, fused>>
  <2> SUFFICES ASSUME TypeInv, FrontInv, StageInv, BufferInv, CoverInv, FuseInv, TypeInv', [Next]_vars
               PROVE  [Fusion!Next]_<<accepted, fused>>
    BY DEF IInv, SessionInv
  <2>1. restarts' = 0
    BY DEF TypeInv, TypeOK
  <2>2. restarts = 0
    BY DEF TypeInv, TypeOK
  <2>3. ASSUME NEW t \in Stamps, ImuCallback(t)
        PROVE  Fusion!Next
    <3>1. t > last_imu_t /\ accepted' = accepted \cup {t} /\ fused' = fused /\ t \in Nat
      BY <2>3, SpinEffects, SamplePushed
    <3>2. \A s \in accepted : s < t
      BY <3>1, Shapes DEF BufferInv
    <3>3. Fusion!Arrive(t)
      BY <3>1, <3>2 DEF Fusion!Arrive
    <3> QED
      BY <3>3 DEF Fusion!Next
  <2>4. CASE ProcessImage
    <3>1. accepted' = accepted /\ fused' = [img |-> Current.img, at |-> current_time, used |-> fed] /\ proc = "batch"
      BY <2>4, ProcessEffects DEF ProcessImage
    <3>2. 1 \in 1..Len(measurements) /\ Current = measurements[1] /\ measurements[1].imus = <<>> /\ Active
      BY <2>4, <3>1, MeasurementDone DEF Active
    <3>3. PICK i \in Stamps : i = measurements[1].img
      <4>1. Current \in Batch
        BY <3>1, CurrentType
      <4> QED
        BY <3>2, <4>1 DEF Batch
    <3>4. /\ i > fused.img
          /\ \E s \in accepted : s < i + TD
          /\ \E s \in accepted : s > i + TD
          /\ current_time = i + TD
      BY <2>2, <3>1, <3>2, <3>3 DEF FuseInv
    <3>5. fed = {s \in accepted : s <= i + TD}
      BY <1>o, <2>2, <3>4 DEF CoverInv, FedInTime
    <3>6. Fusion!Fuse(i)
      BY <3>1, <3>2, <3>3, <3>4, <3>5 DEF Fusion!Fuse
    <3> QED
      BY <3>6 DEF Fusion!Next
  <2>5. ASSUME ~ProcessImage, \A t \in Stamps : ~ImuCallback(t)
        PROVE  UNCHANGED <<accepted, fused>>
    BY <2>1, <2>5, SessionSteps, ProcessEffects DEF Quiet
  <2> QED
    BY <2>3, <2>4, <2>5
<1> QED
  BY <1>1, <1>2, SessionInvariance, PTL DEF Spec, FusesInOrder, Fusion!Spec
=============================================================================
