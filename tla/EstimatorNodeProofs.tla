------------------------ MODULE EstimatorNodeProofs ------------------------
(***************************************************************************)
(* Theorems about EstimatorNode, for every set of stamps, every set of     *)
(* offsets and every number of messages: the variables keep their types,   *)
(* getMeasurements never reads an empty buffer, and the IMU buffer holds   *)
(* the samples of the current session in order.                            *)
(***************************************************************************)
EXTENDS EstimatorNode, SequenceTheorems, TLAPS

Batch == [img : Stamps, imus : Seq(Stamps)]

-----------------------------------------------------------------------------
(* Buffers *)

\* Pushing an element keeps the others where they are and puts it last.
LEMMA Pushed ==
  ASSUME NEW S, NEW s \in Seq(S), NEW e \in S
  PROVE  /\ Append(s, e) \in Seq(S)
         /\ Append(s, e) # <<>>
         /\ Len(Append(s, e)) = Len(s) + 1
         /\ Append(s, e)[Len(s) + 1] = e
         /\ \A i \in 1..Len(s) : Append(s, e)[i] = s[i]
  OBVIOUS

\* Popping the front of a buffer moves every other element one place forward.
LEMMA Popped ==
  ASSUME NEW S, NEW s \in Seq(S), s # <<>>
  PROVE  /\ Tail(s) \in Seq(S)
         /\ Head(s) \in S
         /\ Head(s) = s[1]
         /\ Len(s) \in Nat \ {0}
         /\ Len(Tail(s)) = Len(s) - 1
         /\ \A i \in 1..(Len(s) - 1) : Tail(s)[i] = s[i + 1]
  OBVIOUS

\* Replacing the samples of one measurement leaves the batch a sequence of the same length.
LEMMA SamplesReplaced ==
  ASSUME NEW m \in Seq(Batch), NEW i \in 1..Len(m), NEW s \in Seq(Stamps)
  PROVE  /\ [m EXCEPT ![i].imus = s] \in Seq(Batch)
         /\ [m EXCEPT ![i].imus = s] # <<>>
         /\ Len([m EXCEPT ![i].imus = s]) = Len(m)
         /\ [m EXCEPT ![i].imus = s][i].img = m[i].img
<1> DEFINE e == [m[i] EXCEPT !.imus = s]
           r == [m EXCEPT ![i] = e]
<1>1. m[i] \in Batch
  BY ElementOfSeq
<1>2. e \in Batch /\ e.img = m[i].img
  BY <1>1 DEF Batch
<1>3. r \in Seq(Batch) /\ Len(r) = Len(m) /\ r[i] = e
  BY <1>2, ExceptSeq
<1>4. r # <<>>
  BY <1>3, EmptySeq
<1>5. [m EXCEPT ![i].imus = s] = r
  OBVIOUS
<1> QED
  BY <1>2, <1>3, <1>4, <1>5

-----------------------------------------------------------------------------
(* Types *)

\* The process thread looks into its batch only while it holds a measurement.
HoldsMeasurement == proc \in {"collect", "batch_taken", "batch"} => measurements # <<>>

\* imu_callback predicts with the sample it has accepted.
PredictsSample == spin = "predict" => imu_arg \in Stamps

TypeInv == TypeOK /\ HoldsMeasurement /\ PredictsSample

\* While the samples of an image are collected, the newest sample is beyond the image:
\* the loop stops before it has popped everything.
NewestBeyondImage ==
  proc = "collect" =>
    /\ imu_buf # <<>>
    /\ imu_buf[Len(imu_buf)] > measurements[Len(measurements)].img + td

\* From the moment a restart has emptied the buffers until its callback ends they stay
\* empty: no image can be in the process thread's loop when td is reset.
ClearedInRestart ==
  spin \in {"restart_estimator", "restart_reset"} => imu_buf = <<>> /\ feature_buf = <<>>

FrontInv == NewestBeyondImage /\ ClearedInRestart

USE DEF Batch

\* The state main starts from has its types.
LEMMA TypeInvInit == Init => TypeInv
<1> SUFFICES ASSUME Init
             PROVE  TypeInv
  OBVIOUS
<1>1. init_feature \in BOOLEAN /\ ok \in BOOLEAN /\ stale \in BOOLEAN
  BY DEF Init
<1>2. imu_buf \in Seq(Stamps) /\ feature_buf \in Seq(Stamps) /\ relo_buf \in Seq(Stamps)
  BY EmptySeq DEF Init
<1>3. measurements \in Seq(Batch)
  BY EmptySeq DEF Init
<1>4. tmp \in [base : Int, seen : SUBSET Stamps]
  BY DEF Init, NoState
<1>5. fused \in [img : Stamps \cup {0}, at : Int, used : SUBSET Stamps]
  BY DEF Init, NoFusion
<1> QED
  BY <1>1, <1>2, <1>3, <1>4, <1>5, TdAssumption, BoundsAssumption
  DEF Init, TypeInv, TypeOK, HoldsMeasurement, PredictsSample

\* No step of the spin thread, and nothing outside both threads, disturbs a type.
LEMMA TypeInvSpin ==
  ASSUME TypeInv, SpinThread \/ Shutdown
  PROVE  TypeInv'
<1> USE StampsAssumption, TdAssumption, BoundsAssumption
    DEF TypeInv, TypeOK, HoldsMeasurement, PredictsSample, buffers, estimator, predicted, counts, history
<1>1. ASSUME NEW t \in Stamps, ImuCallback(t)
      PROVE  TypeInv'
  <2>1. imu_buf' \in Seq(Stamps)
    BY <1>1, Pushed DEF ImuCallback
  <2>2. accepted' \in SUBSET Stamps
    BY <1>1 DEF ImuCallback
  <2> QED
    BY <1>1, <2>1, <2>2 DEF ImuCallback, Notify
<1>2. ASSUME NEW t \in Stamps, FeatureCallback(t)
      PROVE  TypeInv'
  <2>1. feature_buf' \in Seq(Stamps)
    <3>1. CASE init_feature
      <4>1. feature_buf' = Append(feature_buf, t)
        BY <1>2, <3>1 DEF FeatureCallback
      <4> QED
        BY <1>2, <4>1, Pushed
    <3>2. CASE ~init_feature
      BY <1>2, <3>2 DEF FeatureCallback
    <3> QED
      BY <3>1, <3>2
  <2> QED
    BY SMTT(30), <1>2, <2>1 DEF FeatureCallback, Notify
<1>3. ASSUME NEW t \in Stamps, RelocalizationCallback(t)
      PROVE  TypeInv'
  <2>1. relo_buf' \in Seq(Stamps)
    BY <1>3, Pushed DEF RelocalizationCallback
  <2> QED
    BY SMTT(30), <1>3, <2>1 DEF RelocalizationCallback
<1>4. CASE Predict
  <2>1. tmp' \in [base : Int, seen : SUBSET Stamps]
    BY <1>4 DEF Predict, Propagated
  <2> QED
    BY SMTT(30), <1>4, <2>1 DEF Predict
<1>5. CASE RestartClear
  BY <1>5, EmptySeq DEF RestartClear, BuffersCleared
<1>6. CASE RestartEstimator
  BY SMTT(30), <1>6 DEF RestartEstimator
<1>7. CASE RestartReset
  BY <1>7 DEF RestartReset, NoFusion
<1>8. CASE NotifyAll
  BY SMTT(30), <1>8 DEF NotifyAll, Notify
<1>9. CASE Join
  BY <1>9 DEF Join
<1>10. CASE Shutdown
  <2>1. ok' \in BOOLEAN
    BY <1>10 DEF Shutdown
  <2> QED
    BY <1>10, <2>1 DEF Shutdown
<1> QED
  BY <1>1, <1>2, <1>3, <1>4, <1>5, <1>6, <1>7, <1>8, <1>9, <1>10 DEF SpinThread

\* The measurement at the front of a batch is one, and so is what is left of it when its
\* first sample is taken.
LEMMA CurrentType ==
  ASSUME TypeInv, proc = "batch"
  PROVE  measurements # <<>> /\ Current \in Batch /\ Current = measurements[1]
<1> QED
  BY Popped DEF TypeInv, TypeOK, HoldsMeasurement, Current

\* Taking a sample out of the batch leaves a batch, and the sample taken is a stamp.
LEMMA SampleTaken ==
  ASSUME TypeInv, MoreSamples
  PROVE  LET rest == [measurements EXCEPT ![1].imus = Tail(@)] IN
         /\ Current.img \in Stamps
         /\ Sample \in Stamps
         /\ rest \in Seq(Batch)
         /\ rest # <<>>
         /\ Len(rest) = Len(measurements)
<1>1. measurements \in Seq(Batch)
  BY DEF TypeInv, TypeOK
<1>2. measurements # <<>> /\ Current \in Batch /\ Current = measurements[1]
  BY CurrentType DEF MoreSamples
<1>3. Current.img \in Stamps /\ Current.imus \in Seq(Stamps) /\ Current.imus # <<>>
  BY <1>2 DEF MoreSamples
<1>4. Sample \in Stamps /\ Tail(Current.imus) \in Seq(Stamps)
  BY <1>3, Popped DEF Sample
<1>5. 1 \in 1..Len(measurements)
  BY <1>1, <1>2, EmptySeq
<1> DEFINE tail == Tail(Current.imus)
           rest == [measurements EXCEPT ![1].imus = tail]
<1>6. rest \in Seq(Batch) /\ rest # <<>> /\ Len(rest) = Len(measurements)
  <2> DEFINE k == 1
  <2>1. tail \in Seq(Stamps) /\ k \in 1..Len(measurements)
    BY <1>4, <1>5
  <2> HIDE DEF tail, k, Batch
  <2>2. /\ [measurements EXCEPT ![k].imus = tail] \in Seq(Batch)
        /\ [measurements EXCEPT ![k].imus = tail] # <<>>
        /\ Len([measurements EXCEPT ![k].imus = tail]) = Len(measurements)
    BY <1>1, <2>1, SamplesReplaced
  <2> QED
    BY <2>2 DEF k
<1>7. [measurements EXCEPT ![1].imus = Tail(@)] = rest
  BY <1>2
<1> QED
  BY <1>3, <1>4, <1>6, <1>7

\* Adding the front of imu_buf to the last measurement gives a batch of the same length.
LEMMA WithFrontType ==
  ASSUME TypeInv, measurements # <<>>, imu_buf # <<>>
  PROVE  /\ WithFront \in Seq(Batch)
         /\ WithFront # <<>>
         /\ Len(WithFront) = Len(measurements)
         /\ WithFront[Len(measurements)].img = measurements[Len(measurements)].img
<1> DEFINE n == Len(measurements)
           s == Append(measurements[n].imus, Head(imu_buf))
<1>1. measurements \in Seq(Batch) /\ imu_buf \in Seq(Stamps)
  BY DEF TypeInv, TypeOK
<1>2. n \in 1..Len(measurements)
  BY <1>1, EmptySeq
<1>3. measurements[n].imus \in Seq(Stamps)
  <2>1. measurements[n] \in Batch
    BY <1>1, <1>2, ElementOfSeq
  <2> QED
    BY <2>1
<1>4. s \in Seq(Stamps)
  BY <1>1, <1>3, Pushed, Popped
<1>5. WithFront = [measurements EXCEPT ![n].imus = s]
  BY DEF WithFront
<1> HIDE DEF n, s
<1>6. /\ [measurements EXCEPT ![n].imus = s] \in Seq(Batch)
      /\ [measurements EXCEPT ![n].imus = s] # <<>>
      /\ Len([measurements EXCEPT ![n].imus = s]) = Len(measurements)
      /\ [measurements EXCEPT ![n].imus = s][n].img = measurements[n].img
  BY <1>1, <1>2, <1>4, SamplesReplaced
<1> QED
  BY <1>5, <1>6 DEF n

\* No step of the process thread disturbs a type.
LEMMA TypeInvProcess ==
  ASSUME TypeInv, FrontInv, ProcessThread \/ SpuriousWakeup
  PROVE  TypeInv'
<1> USE StampsAssumption, TdAssumption, BoundsAssumption
    DEF TypeInv, TypeOK, HoldsMeasurement, PredictsSample, buffers, estimator, predicted, counts,
        history, NotGathering
<1>1. CASE ProcessLoop
  BY <1>1 DEF ProcessLoop
<1>2. CASE EvaluatePredicate
  BY <1>2, EmptySeq DEF EvaluatePredicate
<1>3. CASE ThrowImage
  BY SMTT(30), <1>3, Popped DEF ThrowImage, ImageReady
<1>4. CASE TakeImage
  <2>1. Head(feature_buf) \in Stamps /\ feature_buf' \in Seq(Stamps)
    BY <1>4, Popped DEF TakeImage, ImageReady
  <2>2. measurements' \in Seq(Batch) /\ measurements' # <<>>
    <3> DEFINE m == [img |-> Head(feature_buf), imus |-> <<>>]
    <3>1. m \in Batch
      BY <2>1, EmptySeq
    <3>2. measurements \in Seq(Batch) /\ measurements' = Append(measurements, m)
      BY <1>4 DEF TakeImage
    <3> HIDE DEF m, Batch, TypeOK
    <3> QED
      BY <3>1, <3>2, Pushed
  <2>3. proc' = "collect" /\ UNCHANGED <<imu_buf, NotGathering>>
    BY <1>4 DEF TakeImage
  <2> QED
    BY SMTT(30), <2>1, <2>2, <2>3
<1>5. CASE CollectSample
  <2>1. imu_buf # <<>> /\ measurements # <<>>
    BY <1>5 DEF CollectSample, FrontInv, NewestBeyondImage
  <2>2. Head(imu_buf) \in Stamps /\ imu_buf' \in Seq(Stamps)
    BY <1>5, <2>1, Popped DEF CollectSample
  <2>3. measurements' \in Seq(Batch) /\ measurements' # <<>>
    BY <1>5, <2>1, <2>2, WithFrontType DEF CollectSample
  <2>4. UNCHANGED <<feature_buf, proc, NotGathering>>
    BY <1>5 DEF CollectSample
  <2> QED
    BY SMTT(30), <2>2, <2>3, <2>4
<1>6. CASE CloseMeasurement
  <2>1. imu_buf # <<>> /\ measurements # <<>>
    BY <1>6 DEF CloseMeasurement, FrontInv, NewestBeyondImage
  <2>2. Head(imu_buf) \in Stamps
    BY <2>1, Popped
  <2>3. measurements' \in Seq(Batch)
    BY <1>6, <2>1, <2>2, WithFrontType DEF CloseMeasurement, Closed
  <2> QED
    BY SMTT(30), <1>6, <2>3 DEF CloseMeasurement
<1>7. CASE ReturnMeasurements
  BY <1>7 DEF ReturnMeasurements
<1>8. CASE Block
  BY <1>8 DEF Block
<1>9. CASE SpuriousWakeup
  BY <1>9 DEF SpuriousWakeup
<1>10. CASE LockEstimator
  BY <1>10 DEF LockEstimator
<1>11. CASE IntegrateSample
  <2>1. /\ measurements' \in Seq(Batch) /\ measurements' # <<>>
        /\ Sample \in Stamps
    BY <1>11, SampleTaken DEF IntegrateSample, MoreSamples
  <2>2. fed' \in SUBSET Stamps /\ current_time' \in Int
    BY <1>11, <2>1 DEF IntegrateSample
  <2>3. UNCHANGED <<buffers, relo_buf, last_imu_t, init_feature, ok, spin, imu_arg, proc,
                    relo_msg, estimator, predicted, counts, accepted, fused, stale>>
    BY <1>11 DEF IntegrateSample
  <2> QED
    BY SMTT(30), <2>1, <2>2, <2>3
<1>12. CASE InterpolateAtImage
  <2>1. /\ measurements' \in Seq(Batch) /\ measurements' # <<>>
        /\ Current.img \in Stamps
    BY <1>12, SampleTaken DEF InterpolateAtImage, MoreSamples
  <2>2. current_time' \in Int
    <3>1. ImageTime \in Int
      <4>1. td \in Int
        OBVIOUS
      <4>2. \A t \in Stamps : t \in Int
        OBVIOUS
      <4>3. Current.img \in Int
        BY <2>1, <4>2, Zenon
      <4> QED
        BY <4>1, <4>3 DEF ImageTime
    <3>2. current_time' = ImageTime
      BY <1>12 DEF InterpolateAtImage
    <3> QED
      BY <3>1, <3>2
  <2>3. UNCHANGED <<buffers, relo_buf, last_imu_t, init_feature, ok, spin, imu_arg, proc,
                    relo_msg, estimator, predicted, counts, history>>
    BY <1>12 DEF InterpolateAtImage
  <2> QED
    BY SMTT(30), <2>1, <2>2, <2>3
<1>13. CASE DrainRelo
  BY SMTT(30), <1>13, Popped DEF DrainRelo
<1>14. CASE ProcessImage
  <2>1. Current.img \in Stamps /\ measurements # <<>>
    BY <1>14, CurrentType DEF ProcessImage
  <2>2. measurements' \in Seq(Batch) /\ Len(measurements') = Len(measurements) - 1
    BY <1>14, <2>1, Popped DEF ProcessImage
  <2>3. fused' \in [img : Stamps \cup {0}, at : Int, used : SUBSET Stamps]
    BY <1>14, <2>1 DEF ProcessImage
  <2>4. solver_flag' \in {"INITIAL", "NON_LINEAR"} /\ td' \in TdValues
    BY <1>14 DEF ProcessImage, ImageOutcomes
  <2>5. Len(measurements) \in Nat \ {0}
    BY <2>1, Popped
  <2>6. HoldsMeasurement'
    <3>1. CASE Len(measurements) = 1
      BY <1>14, <3>1 DEF ProcessImage
    <3>2. CASE Len(measurements) # 1
      <4>1. Len(measurements') # 0
        BY <2>2, <2>5, <3>2
      <4> QED
        BY <2>2, <4>1, EmptySeq
    <3> QED
      BY <3>1, <3>2
  <2>7. proc' \in {"update", "batch"}
    BY <1>14 DEF ProcessImage
  <2>8. /\ relo_msg' = 0
        /\ UNCHANGED <<buffers, relo_buf, last_imu_t, init_feature, ok, spin, imu_arg,
                       current_time, predicted, counts, accepted, fed, stale>>
    BY <1>14, <2>7 DEF ProcessImage
  <2> QED
    BY SMTT(30), <2>2, <2>3, <2>4, <2>6, <2>7, <2>8
<1>15. CASE Update
  <2>1. Elems(imu_buf) \subseteq Stamps
    BY LenProperties, ElementOfSeq DEF Elems
  <2>2. tmp' \in [base : Int, seen : SUBSET Stamps]
    BY <1>15, <2>1 DEF Update, Replayed
  <2>3. latest_time' \in Int
    <3>1. CASE imu_buf # <<>>
      <4>1. imu_buf[Len(imu_buf)] \in Stamps
        BY <3>1, EmptySeq, ElementOfSeq
      <4>2. latest_time' \in {latest_time, imu_buf[Len(imu_buf)]}
        BY <1>15, <3>1 DEF Update
      <4> QED
        BY <4>1, <4>2
    <3>2. CASE imu_buf = <<>>
      BY <1>15, <3>2 DEF Update
    <3> QED
      BY <3>1, <3>2
  <2> QED
    BY <1>15, <2>2, <2>3 DEF Update
<1> QED
  BY <1>1, <1>2, <1>3, <1>4, <1>5, <1>6, <1>7, <1>8, <1>9, <1>10, <1>11, <1>12, <1>13, <1>14,
     <1>15
  DEF ProcessThread, GetMeasurements, ProcessBatch

-----------------------------------------------------------------------------
(* The front of the IMU buffer *)

\* No callback touches the buffer or the offset under the loop that collects samples:
\* the callbacks need m_buf, and a restart that resets td has emptied the buffers.
LEMMA FrontInvSpin ==
  ASSUME TypeInv, FrontInv, SpinThread \/ Shutdown
  PROVE  FrontInv'
<1> USE DEF FrontInv, NewestBeyondImage, ClearedInRestart, buffers, estimator, HoldsBuf, Notify
<1>1. ASSUME NEW t \in Stamps, ImuCallback(t)
      PROVE  FrontInv'
  BY <1>1 DEF ImuCallback
<1>2. ASSUME NEW t \in Stamps, FeatureCallback(t)
      PROVE  FrontInv'
  <2>1. spin = "idle" /\ spin' = "idle" /\ imu_buf' = imu_buf /\ measurements' = measurements
          /\ td' = td
    BY <1>2 DEF FeatureCallback
  <2>2. proc' = "collect" => proc = "collect"
    <3>1. CASE init_feature
      BY <1>2, <3>1 DEF FeatureCallback
    <3>2. CASE ~init_feature
      BY <1>2, <3>2 DEF FeatureCallback
    <3> QED
      BY <3>1, <3>2
  <2> QED
    BY <2>1, <2>2
<1>3. ASSUME NEW t \in Stamps, RelocalizationCallback(t)
      PROVE  FrontInv'
  BY <1>3 DEF RelocalizationCallback
<1>4. CASE Predict
  BY <1>4 DEF Predict
<1>5. CASE RestartClear
  BY <1>5 DEF RestartClear, BuffersCleared
<1>6. CASE RestartEstimator
  BY <1>6 DEF RestartEstimator
<1>7. CASE RestartReset
  BY <1>7 DEF RestartReset
<1>8. CASE NotifyAll
  BY <1>8 DEF NotifyAll
<1>9. CASE Join
  BY <1>9 DEF Join
<1>10. CASE Shutdown
  BY <1>10 DEF Shutdown
<1> QED
  BY <1>1, <1>2, <1>3, <1>4, <1>5, <1>6, <1>7, <1>8, <1>9, <1>10 DEF SpinThread

\* The loop is entered with a sample beyond the image and leaves that sample in place.
LEMMA FrontInvProcess ==
  ASSUME TypeInv, FrontInv, ProcessThread \/ SpuriousWakeup
  PROVE  FrontInv'
<1> USE DEF FrontInv, NewestBeyondImage, ClearedInRestart, buffers, estimator, NotGathering
<1>t. /\ imu_buf \in Seq(Stamps) /\ feature_buf \in Seq(Stamps)
      /\ measurements \in Seq(Batch) /\ td \in Int /\ Stamps \subseteq Int
      /\ proc = "collect" => measurements # <<>>
  BY StampsAssumption, TdAssumption DEF TypeInv, TypeOK, HoldsMeasurement
<1>1. CASE ProcessLoop
  BY <1>1 DEF ProcessLoop
<1>2. CASE EvaluatePredicate
  BY <1>2 DEF EvaluatePredicate
<1>3. CASE ThrowImage
  BY <1>3 DEF ThrowImage, ImageReady
<1>4. CASE TakeImage
  <2> DEFINE m == [img |-> Head(feature_buf), imus |-> <<>>]
  <2>1. m \in Batch /\ m.img = Head(feature_buf)
    BY <1>4, <1>t, Popped, EmptySeq DEF TakeImage, ImageReady
  <2>2. measurements' = Append(measurements, m) /\ imu_buf' = imu_buf /\ td' = td /\ spin' = spin
    BY <1>4 DEF TakeImage
  <2>3. measurements'[Len(measurements')].img = Head(feature_buf)
    <3> HIDE DEF m, Batch
    <3> QED
      BY <1>t, <2>1, <2>2, Pushed
  <2>4. imu_buf # <<>> /\ feature_buf # <<>> /\ imu_buf[Len(imu_buf)] > Head(feature_buf) + td
    BY <1>4 DEF TakeImage, ImageReady
  <2> QED
    BY <2>2, <2>3, <2>4
<1>5. CASE CollectSample
  <2> DEFINE n   == Len(measurements)
             img == measurements[n].img
             k   == Len(imu_buf)
  <2>1. imu_buf # <<>> /\ measurements # <<>> /\ imu_buf[k] > img + td /\ Head(imu_buf) < img + td
    BY <1>5, <1>t DEF CollectSample, FrontPrecedes
  <2>2. measurements' = WithFront /\ imu_buf' = Tail(imu_buf) /\ td' = td /\ spin' = spin
    BY <1>5 DEF CollectSample
  <2>3. Len(measurements') = n /\ measurements'[n].img = img
    BY <2>1, <2>2, WithFrontType
  <2>4. k # 1
    <3>1. Head(imu_buf) = imu_buf[1] /\ Head(imu_buf) \in Int
      BY <1>t, <2>1, Popped
    <3>2. img \in Int
      <4>1. n \in 1..Len(measurements)
        BY <1>t, <2>1, EmptySeq
      <4>2. measurements[n] \in Batch
        BY <1>t, <4>1, ElementOfSeq
      <4> QED
        BY <1>t, <4>2
    <3> HIDE DEF img
    <3> QED
      BY <1>t, <2>1, <3>1, <3>2
  <2>5. k \in Nat /\ k > 1 /\ Len(imu_buf') = k - 1 /\ imu_buf'[k - 1] = imu_buf[k]
    <3>1. k \in Nat \ {0} /\ Len(imu_buf') = k - 1
            /\ \A i \in 1..(k - 1) : imu_buf'[i] = imu_buf[i + 1]
      BY <1>t, <2>1, <2>2, Popped
    <3> HIDE DEF k
    <3>2. k - 1 \in 1..(k - 1) /\ k > 1
      BY <2>4, <3>1
    <3>3. imu_buf'[k - 1] = imu_buf[(k - 1) + 1] /\ (k - 1) + 1 = k
      BY <3>1, <3>2
    <3> QED
      BY <3>1, <3>2, <3>3
  <2>6. imu_buf' # <<>>
    BY <2>5, EmptySeq
  <2>7. spin \notin {"restart_estimator", "restart_reset"}
    BY <2>1
  <2> QED
    BY <2>1, <2>2, <2>3, <2>5, <2>6, <2>7
<1>6. CASE CloseMeasurement
  BY <1>6 DEF CloseMeasurement
<1>7. CASE ReturnMeasurements
  BY <1>7 DEF ReturnMeasurements
<1>8. CASE Block
  BY <1>8 DEF Block
<1>9. CASE SpuriousWakeup
  BY <1>9 DEF SpuriousWakeup
<1>10. CASE LockEstimator
  BY <1>10 DEF LockEstimator
<1>11. CASE IntegrateSample
  BY <1>11 DEF IntegrateSample, MoreSamples
<1>12. CASE InterpolateAtImage
  BY <1>12 DEF InterpolateAtImage, MoreSamples
<1>13. CASE DrainRelo
  BY <1>13 DEF DrainRelo
<1>14. CASE ProcessImage
  BY <1>14 DEF ProcessImage
<1>15. CASE Update
  BY <1>15 DEF Update
<1> QED
  BY <1>1, <1>2, <1>3, <1>4, <1>5, <1>6, <1>7, <1>8, <1>9, <1>10, <1>11, <1>12, <1>13, <1>14,
     <1>15
  DEF ProcessThread, GetMeasurements, ProcessBatch

-----------------------------------------------------------------------------
(* The samples in the IMU buffer *)

\* A sample is queued behind older ones; a restart starts again from an empty buffer.
LEMMA SessionBufferSpin ==
  ASSUME TypeInv, FrontInv, SessionBuffer, SpinThread \/ Shutdown
  PROVE  SessionBuffer'
<1> USE DEF SessionBuffer, buffers, estimator, history, Elems
<1>b. imu_buf \in Seq(Stamps)
  BY DEF TypeInv, TypeOK
<1>d. DOMAIN imu_buf = 1..Len(imu_buf) /\ Len(imu_buf) \in Nat
  BY <1>b, LenProperties
<1>s. Stamps \subseteq Nat /\ last_imu_t \in Nat /\ accepted \subseteq Stamps
  BY StampsAssumption DEF TypeInv, TypeOK
<1>t. /\ imu_buf \in Seq(Stamps) /\ DOMAIN imu_buf = 1..Len(imu_buf) /\ Len(imu_buf) \in Nat
      /\ last_imu_t \in Nat /\ Stamps \subseteq Nat /\ accepted \subseteq Stamps
  BY <1>b, <1>d, <1>s
<1>1. ASSUME NEW t \in Stamps, ImuCallback(t)
      PROVE  SessionBuffer'
  <2> DEFINE n == Len(imu_buf)
  <2>1. /\ spin = "idle" /\ t > last_imu_t
        /\ imu_buf' = Append(imu_buf, t) /\ accepted' = accepted \cup {t} /\ last_imu_t' = t
    BY <1>1 DEF ImuCallback, InOrder
  <2>2. /\ imu_buf' \in Seq(Stamps) /\ Len(imu_buf') = n + 1 /\ imu_buf'[n + 1] = t
        /\ \A i \in 1..n : imu_buf'[i] = imu_buf[i]
    BY <1>t, <2>1, Pushed
  <2>3. DOMAIN imu_buf' = 1..(n + 1)
    BY <2>2, LenProperties
  <2>4. \A s \in accepted' : s <= last_imu_t'
    BY <1>t, <2>1
  <2>5. ASSUME NEW i \in 1..n
        PROVE  imu_buf[i] \in accepted /\ imu_buf[i] < t
    <3>1. imu_buf[i] \in accepted
      BY <1>t, <2>1
    <3>2. imu_buf[i] <= last_imu_t /\ imu_buf[i] \in Nat /\ t \in Nat
      BY <1>t, <2>1, <3>1
    <3> QED
      BY <1>t, <2>1, <3>1, <3>2
  <2>6. Elems(imu_buf)' \subseteq accepted'
    BY <1>t, <2>1, <2>2, <2>3, <2>5
  <2>7. ASSUME NEW i \in 1..(n + 1), NEW j \in 1..(n + 1), i < j
        PROVE  imu_buf'[i] < imu_buf'[j]
    <3>1. i \in 1..n
      BY <1>t, <2>7
    <3>2. CASE j = n + 1
      BY <2>2, <2>5, <3>1, <3>2
    <3>3. CASE j # n + 1
      <4>1. j \in 1..n
        BY <1>t, <3>3
      <4> QED
        BY <1>t, <2>1, <2>2, <2>7, <3>1, <4>1
    <3> QED
      BY <3>2, <3>3
  <2> QED
    BY <2>3, <2>4, <2>6, <2>7
<1>2. ASSUME NEW t \in Stamps, FeatureCallback(t)
      PROVE  SessionBuffer'
  BY <1>2 DEF FeatureCallback
<1>3. ASSUME NEW t \in Stamps, RelocalizationCallback(t)
      PROVE  SessionBuffer'
  BY <1>3 DEF RelocalizationCallback
<1>4. CASE Predict
  BY <1>4 DEF Predict
<1>5. CASE RestartClear
  BY <1>5 DEF RestartClear
<1>6. CASE RestartEstimator
  BY <1>6 DEF RestartEstimator
<1>7. CASE RestartReset
  <2>1. imu_buf' = <<>> /\ accepted' = {}
    BY <1>7 DEF RestartReset, FrontInv, ClearedInRestart
  <2> QED
    BY <2>1
<1>8. CASE NotifyAll
  BY <1>8 DEF NotifyAll
<1>9. CASE Join
  BY <1>9 DEF Join
<1>10. CASE Shutdown
  BY <1>10 DEF Shutdown
<1> QED
  BY <1>1, <1>2, <1>3, <1>4, <1>5, <1>6, <1>7, <1>8, <1>9, <1>10 DEF SpinThread

\* The process thread only ever takes the oldest sample out.
LEMMA SessionBufferProcess ==
  ASSUME TypeInv, FrontInv, SessionBuffer, ProcessThread \/ SpuriousWakeup
  PROVE  SessionBuffer'
<1> USE DEF SessionBuffer, Elems, buffers, estimator, history, NotGathering
<1>1. CASE CollectSample
  <2> DEFINE n == Len(imu_buf)
  <2>1. /\ imu_buf # <<>> /\ imu_buf \in Seq(Stamps)
        /\ imu_buf' = Tail(imu_buf) /\ UNCHANGED <<spin, accepted, last_imu_t>>
    BY <1>1 DEF CollectSample, FrontInv, NewestBeyondImage, TypeInv, TypeOK
  <2>2. /\ n \in Nat \ {0} /\ Len(imu_buf') = n - 1 /\ imu_buf' \in Seq(Stamps)
        /\ \A i \in 1..(n - 1) : imu_buf'[i] = imu_buf[i + 1]
    BY <2>1, Popped
  <2>3. DOMAIN imu_buf' = 1..(n - 1) /\ DOMAIN imu_buf = 1..n
    BY <2>1, <2>2, LenProperties
  <2>4. SUFFICES ASSUME spin \in {"idle", "predict"}
                 PROVE  SessionBuffer'
    BY <2>1
  <2>5. Elems(imu_buf)' \subseteq Elems(imu_buf)
    BY <2>2, <2>3
  <2>6. \A i, j \in 1..(n - 1) : i < j => imu_buf'[i] < imu_buf'[j]
    BY <2>2, <2>3, <2>4
  <2> QED
    BY <2>1, <2>3, <2>4, <2>5, <2>6
<1>2. ASSUME ~CollectSample
      PROVE  UNCHANGED <<imu_buf, spin, accepted, last_imu_t>>
  BY <1>2
  DEF ProcessThread, GetMeasurements, ProcessBatch, ProcessLoop, EvaluatePredicate, ThrowImage,
      TakeImage, CloseMeasurement, ReturnMeasurements, Block, SpuriousWakeup, LockEstimator,
      IntegrateSample, InterpolateAtImage, DrainRelo, ProcessImage, Update
<1> QED
  BY <1>1, <1>2

-----------------------------------------------------------------------------
(* Theorems *)

\* The inductive invariant.
IInv == TypeInv /\ FrontInv /\ SessionBuffer

\* The state main starts from satisfies the inductive invariant.
LEMMA IInvInit == Init => IInv
<1>1. ASSUME Init
      PROVE  FrontInv /\ SessionBuffer
  BY <1>1 DEF Init, FrontInv, NewestBeyondImage, ClearedInRestart, SessionBuffer, Elems
<1> QED
  BY <1>1, TypeInvInit DEF IInv

\* Every step of every thread preserves the inductive invariant.
LEMMA IInvNext == IInv /\ [Next]_vars => IInv'
<1> SUFFICES ASSUME IInv, [Next]_vars
             PROVE  IInv'
  OBVIOUS
<1>1. CASE SpinThread \/ Shutdown
  BY <1>1, TypeInvSpin, FrontInvSpin, SessionBufferSpin DEF IInv
<1>2. CASE ProcessThread \/ SpuriousWakeup
  BY <1>2, TypeInvProcess, FrontInvProcess, SessionBufferProcess DEF IInv
<1>3. CASE UNCHANGED vars
  BY <1>3
  DEF IInv, TypeInv, TypeOK, HoldsMeasurement, PredictsSample, FrontInv, NewestBeyondImage,
      ClearedInRestart, SessionBuffer, Elems, vars
<1> QED
  BY <1>1, <1>2, <1>3 DEF Next, Finished

\* The inductive invariant holds in every reachable state.
LEMMA Invariance == Spec => []IInv
  BY IInvInit, IInvNext, PTL DEF Spec

\* The node's variables keep their types (estimator_node.cpp), for every set of stamps.
THEOREM TypeCorrect == Spec => []TypeOK
<1>1. IInv => TypeOK
  BY DEF IInv, TypeInv
<1> QED
  BY <1>1, Invariance, PTL

\* getMeasurements never reads imu_buf.front() of an empty buffer (estimator_node.cpp:230-235),
\* whatever the callbacks and the process thread do.
THEOREM FrontAlwaysDefined == Spec => []FrontDefined
<1>1. IInv => FrontDefined
  BY DEF IInv, FrontInv, NewestBeyondImage, FrontDefined
<1> QED
  BY <1>1, Invariance, PTL

\* The IMU buffer holds samples of the current session, in order (estimator_node.cpp:242-316).
THEOREM BufferOfSession == Spec => []SessionBuffer
<1>1. IInv => SessionBuffer
  BY DEF IInv
<1> QED
  BY <1>1, Invariance, PTL
=============================================================================
