------------------------ MODULE SlidingWindowProofs ------------------------
(***************************************************************************)
(* Theorems about SlidingWindow: for every window size, every set of       *)
(* features and every sequence of images, flags, failures and resets the   *)
(* structures that processImage shifts apart stay aligned.                 *)
(***************************************************************************)
EXTENDS SlidingWindow, SequenceTheorems, WellFoundedInduction, TLAPS

-----------------------------------------------------------------------------
(* The inductive invariant *)

\* The stages in which a frame is expected, and those in which the window is full.
Waiting == phase \in {"idle", "image", "relo_set"}
Full    == phase \in {"initialize", "first_optimize", "optimize", "slide", "detect"}

\* The intervals between images.
Intervals == SUBSET (1..MaxStamp)

Observation == [start : Slots, obs : Seq(Nat)]

TypeInv ==
  /\ now \in 0..MaxStamp
  /\ frame_count \in Slots
  /\ marginalization_flag \in {"OLD", "SECOND_NEW"}
  /\ Headers \in [Slots -> Nat]
  /\ tmp_pre_integration \in Intervals \cup {NULL}
  /\ last_image \subseteq Ids /\ failed \subseteq Ids
  /\ keyframes \subseteq Nat
  /\ relo \in [info : BOOLEAN, index : Slots, stamp : Nat]
  /\ resets \in Nat

\* Which stage works on which window.
PhaseInv ==
  /\ Waiting \/ Full
  /\ solver_flag \in {"INITIAL", "NON_LINEAR"}
  /\ Full \/ solver_flag = "NON_LINEAR" => frame_count = W
  /\ phase = "initialize" => solver_flag = "INITIAL"
  /\ phase \in {"first_optimize", "optimize", "detect"} => solver_flag = "NON_LINEAR"
  /\ phase \in {"image", "relo_set"} => now < MaxStamp

\* The newest slot that holds a frame.
Newest == IF Full THEN W ELSE frame_count - 1

\* The frames stand in the slots in the order of their stamps, and none is forgotten.
HeadersInv ==
  /\ \A i, j \in 0..Newest : i < j => Headers[i] < Headers[j]
  /\ Newest >= 0 => Headers[Newest] = now

\* all_image_frame has the images since the oldest frame, but for the very first with what
\* was integrated before each.
ImagesInv ==
  /\ DOMAIN all_image_frame \subseteq 1..now
  /\ \A i \in 0..Newest : Headers[i] \in DOMAIN all_image_frame
  /\ frame_count = 0 => DOMAIN all_image_frame = {}
  /\ frame_count # 0 => tmp_pre_integration \in Intervals
  /\ \A s, u \in DOMAIN all_image_frame : u < s => all_image_frame[s] \in Intervals

\* A slot's integration covers the time since the frame before; the next slot's is new or, once
\* processIMU has run, covers the time up to the image to come.
ImuInv ==
  /\ pre_integrations \in [Slots -> Intervals \cup {NULL}]
  /\ dt_buf \in [Slots -> Intervals]
  /\ \A j \in 1..Newest : /\ pre_integrations[j] = (Headers[j - 1] + 1)..Headers[j]
                          /\ dt_buf[j] = pre_integrations[j]
  /\ \A j \in 1..W : j > frame_count => pre_integrations[j] = NULL /\ dt_buf[j] = {}
  /\ phase = "idle" /\ frame_count # 0 =>
       pre_integrations[frame_count] \in {{}, NULL} /\ dt_buf[frame_count] = {}
  /\ phase \in {"image", "relo_set"} /\ frame_count # 0 =>
       pre_integrations[frame_count] = {now + 1} /\ dt_buf[frame_count] = {now + 1}

\* Each observation stands in the slot of its image, and the features of the last image reach
\* the newest slot.
FeatureInv ==
  \A id \in Known :
    /\ id \in Ids /\ feature[id] \in Observation
    /\ feature[id].obs # <<>> /\ EndFrame(feature[id]) <= Newest
    /\ \A k \in 1..Len(feature[id].obs) : Headers[feature[id].start + k - 1] = feature[id].obs[k]
    /\ id \in last_image => EndFrame(feature[id]) = Newest

\* The frame a slot holds when the window has been slid.
Slid(i) == IF marginalization_flag = "OLD" THEN Headers[i + 1] ELSE Headers[i]

\* A block of the prior is that of the frame in its slot, or, once the prior has been renewed,
\* of the frame that comes into its slot.
PriorInv ==
  /\ solver_flag = "INITIAL" => prior = {}
  /\ \A b \in prior :
       /\ b \in [kind : {"Pose", "SpeedBias"}, idx : 0..(W - 1), stamp : Nat]
       /\ b.kind = "SpeedBias" => b.idx = 0
       /\ phase \notin {"slide", "detect"} => b.stamp = Headers[b.idx]
       /\ phase \in {"slide", "detect"} =>
            /\ b.stamp = Slid(b.idx)
            /\ marginalization_flag = "SECOND_NEW" => b.idx < W - 1

\* The estimator is initialising, or about to optimise for the first time.
Early == solver_flag = "INITIAL" \/ phase = "first_optimize"

\* In a non-linear window a relocalization is pending only until the optimisation that uses
\* it, about the slot of its keyframe. Before, the keyframes there are stem from before a
\* reset, and the frames of the window are all later.
ReloInv ==
  /\ \A s \in keyframes : s <= now
  /\ Early => \A s \in keyframes : \A i \in 0..Newest : s < Headers[i]
  /\ Early /\ resets = 0 => keyframes = {}
  /\ relo.info => relo.stamp \in keyframes
  /\ relo.info /\ ~Early => /\ phase \in {"relo_set", "optimize"}
                            /\ relo.index < W /\ Headers[relo.index] = relo.stamp

IInv == TypeInv /\ PhaseInv /\ HeadersInv /\ ImagesInv /\ ImuInv /\ FeatureInv /\ PriorInv /\ ReloInv

-----------------------------------------------------------------------------
(* Types and stages *)

USE WindowAssumption, BoundAssumption

\* A set of slots that is not empty has a last one.
LEMMA LastSlot ==
  ASSUME NEW S, S \subseteq Slots, S # {}
  PROVE  \E i \in S : \A j \in S : j <= i
<1> DEFINE T == {W - i : i \in S}
<1>1. T \subseteq Nat /\ T # {}
  <2>1. \A i \in S : W - i \in Nat
    BY DEF Slots
  <2>2. PICK i \in S : TRUE
    OBVIOUS
  <2>3. W - i \in T
    OBVIOUS
  <2> QED
    BY <2>1, <2>3
<1>2. IsWellFoundedOn(OpToRel(<, Nat), Nat)
  BY NatLessThanWellFounded
<1>3. PICK m \in T : \A y \in T : ~ (<<y, m>> \in OpToRel(<, Nat))
  <2> HIDE DEF T
  <2> QED
    BY <1>1, <1>2, WFMin, Zenon
<1>4. PICK i \in S : m = W - i
  BY <1>3
<1>5. ASSUME NEW j \in S
      PROVE  j <= i
  <2>1. W - j \in T /\ W - j \in Nat /\ m \in Nat
    BY <1>1, <1>3
  <2>2. ~(W - j < m)
    BY <1>3, <2>1 DEF OpToRel
  <2>3. i \in Int /\ j \in Int
    BY DEF Slots
  <2> QED
    BY <1>4, <2>1, <2>2, <2>3
<1> QED
  BY <1>5

\* setReloFrame finds a slot before the last, or none.
LEMMA ReloSlot ==
  ASSUME NEW s, SetReloFrame(s)
  PROVE  \/ relo' = [relo EXCEPT !.stamp = s]
         \/ \E i \in 0..(W - 1) : Headers[i] = s /\ relo' = [info |-> TRUE, stamp |-> s, index |-> i]
<1> DEFINE matches == {i \in 0..(W - 1) : Headers[i] = s}
           index   == CHOOSE i \in matches : \A j \in matches : j <= i
<1>1. CASE matches = {}
  BY <1>1 DEF SetReloFrame
<1>2. CASE matches # {}
  <2>1. relo' = [info |-> TRUE, stamp |-> s, index |-> index]
    BY <1>2 DEF SetReloFrame
  <2>2. \E i \in matches : \A j \in matches : j <= i
    <3>1. matches \subseteq Slots
      BY DEF Slots
    <3> HIDE DEF matches
    <3> QED
      BY <1>2, <3>1, LastSlot
  <2>3. index \in matches
    BY <2>2
  <2>4. index \in 0..(W - 1) /\ Headers[index] = s
    BY <2>3
  <2> HIDE DEF index
  <2> QED
    BY <2>1, <2>4
<1> QED
  BY <1>1, <1>2

\* The stages follow each other; only a full window is solved and slid.
LEMMA PhaseNext ==
  ASSUME TypeInv, PhaseInv, Next
  PROVE  PhaseInv'
<1> USE DEF PhaseInv, Waiting, Full, window, counters
<1>t. frame_count \in 0..W /\ now \in 0..MaxStamp
  BY DEF TypeInv, Slots
<1>1. CASE ProcessIMU
  BY <1>1 DEF ProcessIMU
<1>2. ASSUME NEW s, SetReloFrame(s)
      PROVE  PhaseInv'
  BY <1>2 DEF SetReloFrame
<1>3. ASSUME NEW ids, NEW flag, AddImage(ids, flag)
      PROVE  PhaseInv'
  BY <1>3, <1>t DEF AddImage
<1>4. CASE NotInitialized
  BY <1>4 DEF NotInitialized
<1>5. CASE Initialized
  BY <1>5 DEF Initialized
<1>6. ASSUME NEW bad, Optimize(bad)
      PROVE  PhaseInv'
  BY <1>6 DEF Optimize
<1>7. CASE FailureDetected
  BY <1>7 DEF FailureDetected, ClearState
<1>8. CASE SlideWindow
  BY <1>8 DEF SlideWindow
<1>9. CASE Restart
  BY <1>9 DEF Restart, ClearState
<1>10. CASE Finished
  BY <1>10 DEF Finished, vars
<1> QED
  BY <1>1, <1>2, <1>3, <1>4, <1>5, <1>6, <1>7, <1>8, <1>9, <1>10 DEF Next

\* Every step keeps the types.
LEMMA TypeNext ==
  ASSUME TypeInv, PhaseInv, ImagesInv, Next
  PROVE  TypeInv'
<1> USE DEF TypeInv, window, counters
<1>t. frame_count \in 0..W /\ now \in 0..MaxStamp /\ Slots = 0..W
  BY DEF Slots
<1>1. CASE ProcessIMU
  <2>1. frame_count # 0 => tmp_pre_integration \cup {now + 1} \in Intervals
    BY <1>1, <1>t DEF ProcessIMU, ImagesInv, Intervals
  <2>2. tmp_pre_integration' \in Intervals \cup {NULL}
    BY <1>1, <2>1 DEF ProcessIMU
  <2> QED
    BY <1>1, <2>2 DEF ProcessIMU
<1>2. ASSUME NEW s \in keyframes, SetReloFrame(s)
      PROVE  TypeInv'
  <2>1. relo' \in [info : BOOLEAN, index : Slots, stamp : Nat]
    <3>1. s \in Nat
      OBVIOUS
    <3>2. CASE relo' = [relo EXCEPT !.stamp = s]
      BY <3>1, <3>2
    <3>3. ASSUME NEW i \in 0..(W - 1), relo' = [info |-> TRUE, stamp |-> s, index |-> i]
          PROVE  relo' \in [info : BOOLEAN, index : Slots, stamp : Nat]
      <4>1. i \in Slots
        BY DEF Slots
      <4> QED
        BY <3>1, <3>3, <4>1
    <3> QED
      BY <1>2, <3>2, <3>3, ReloSlot
  <2> QED
    BY <1>2, <2>1 DEF SetReloFrame
<1>3. ASSUME NEW ids \in SUBSET Ids, NEW flag \in {"OLD", "SECOND_NEW"}, AddImage(ids, flag)
      PROVE  TypeInv'
  <2>1. now + 1 \in 0..MaxStamp /\ now + 1 \in Nat
    BY <1>3, <1>t DEF AddImage, PhaseInv
  <2>2. frame_count' \in Slots
    BY <1>3, <1>t DEF AddImage
  <2>3. Headers' \in [Slots -> Nat]
    BY <1>3, <2>1 DEF AddImage
  <2>4. tmp_pre_integration' \in Intervals
    BY <1>3 DEF AddImage, Created, Intervals
  <2> QED
    BY <1>3, <2>1, <2>2, <2>3, <2>4 DEF AddImage
<1>4. CASE NotInitialized
  BY <1>4 DEF NotInitialized
<1>5. CASE Initialized
  BY <1>5 DEF Initialized
<1>6. ASSUME NEW bad \in SUBSET Ids, Optimize(bad)
      PROVE  TypeInv'
  BY <1>6 DEF Optimize, ReloUsed
<1>7. CASE FailureDetected \/ Restart
  <2>1. ClearState /\ UNCHANGED <<now, marginalization_flag, Headers, last_image, keyframes>>
          /\ resets' = resets + 1
    BY <1>7 DEF FailureDetected, Restart
  <2>2. relo' \in [info : BOOLEAN, index : Slots, stamp : Nat]
    BY <2>1 DEF ClearState
  <2> QED
    BY SMTT(30), <1>t, <2>1, <2>2 DEF ClearState
<1>8. CASE SlideWindow
  <2>1. Headers' \in [Slots -> Nat]
    <3>1. ShiftedHeaders \in [Slots -> Nat]
      BY <1>t DEF ShiftedHeaders
    <3>2. [Headers EXCEPT ![W - 1] = Headers[W]] \in [Slots -> Nat]
      BY <1>t
    <3> QED
      BY <1>8, <3>1, <3>2 DEF SlideWindow, SlideOld, SlideSecondNew
  <2>2. keyframes' \subseteq Nat
    <3>1. Headers'[W - 2] \in Nat
      BY <1>t, <2>1
    <3> QED
      BY <1>8, <3>1 DEF SlideWindow
  <2> QED
    BY <1>8, <2>1, <2>2 DEF SlideWindow
<1>9. CASE Finished
  BY <1>9 DEF Finished, vars
<1> QED
  BY <1>1, <1>2, <1>3, <1>4, <1>5, <1>6, <1>7, <1>8, <1>9 DEF Next

-----------------------------------------------------------------------------
(* Headers and all_image_frame *)

\* The newest slot's index.
LEMMA NewestSlot ==
  ASSUME TypeInv, PhaseInv
  PROVE  /\ Newest \in -1..W /\ Slots = 0..W /\ frame_count \in 0..W
         /\ \A i \in 0..Newest : i \in Slots
         /\ \A i \in Slots : Headers[i] \in Nat
  BY DEF TypeInv, PhaseInv, Newest, Slots

\* A slid window's headers, whichever frame has left.
LEMMA SlidHeaders ==
  ASSUME TypeInv, SlideOld \/ SlideSecondNew
  PROVE  /\ \A i \in 0..(W - 2) : Headers'[i] = Slid(i)
         /\ Headers'[W - 1] = Headers[W]
         /\ marginalization_flag = "OLD" => \A i \in 0..(W - 1) : Headers'[i] = Headers[i + 1]
<1>1. W - 1 \in Slots /\ (\A i \in 0..(W - 2) : i \in Slots /\ i < W /\ i # W - 1)
  BY DEF Slots
<1>2. \A i \in 0..(W - 1) : i \in Slots /\ i < W
  BY DEF Slots
<1>3. CASE SlideOld
  <2>1. \A i \in 0..(W - 1) : Headers'[i] = Headers[i + 1]
    BY <1>2, <1>3 DEF SlideOld, ShiftedHeaders
  <2>2. W - 1 \in 0..(W - 1) /\ (W - 1) + 1 = W /\ \A i \in 0..(W - 2) : i \in 0..(W - 1)
    OBVIOUS
  <2> QED
    BY <1>3, <2>1, <2>2 DEF SlideOld, Slid
<1>4. CASE SlideSecondNew
  BY <1>1, <1>4 DEF SlideSecondNew, Slid, TypeInv
<1> QED
  BY <1>3, <1>4

\* The frames stand in the order of their stamps.
LEMMA HeadersNext ==
  ASSUME TypeInv, PhaseInv, ImagesInv, HeadersInv, Next
  PROVE  HeadersInv'
<1>t. now \in Nat /\ Headers \in [Slots -> Nat]
  BY DEF TypeInv
<1>1. CASE UNCHANGED <<phase, frame_count, Headers, now>>
  BY <1>1 DEF HeadersInv, Newest, Full
<1>2. ASSUME NEW ids \in SUBSET Ids, NEW flag, AddImage(ids, flag)
      PROVE  HeadersInv'
  <2>1. PICK f \in 0..W : f = frame_count
    BY NewestSlot
  <2>2. /\ Headers' = [Headers EXCEPT ![f] = now + 1] /\ now' = now + 1
        /\ phase \in {"image", "relo_set"}
    BY <1>2, <2>1 DEF AddImage
  <2>3. Newest = f - 1
    BY <2>1, <2>2 DEF Newest, Full
  <2>4. Newest' = f
    <3>1. CASE solver_flag = "INITIAL" /\ f < W
      BY <1>2, <2>1, <3>1 DEF AddImage, Newest, Full
    <3>2. CASE ~(solver_flag = "INITIAL" /\ f < W)
      BY <1>2, <2>1, <3>2 DEF AddImage, Newest, Full, PhaseInv
    <3> QED
      BY <3>1, <3>2
  <2>5. /\ \A i \in 0..(f - 1) : Headers'[i] = Headers[i]
        /\ Headers'[f] = now + 1
    <3>1. f \in Slots /\ \A i \in 0..(f - 1) : i \in Slots /\ i # f
      BY <2>1 DEF Slots
    <3> QED
      BY <1>t, <2>2, <3>1
  <2>6. ASSUME NEW i \in 0..(f - 1)
        PROVE  Headers[i] <= now
    BY <2>3, <2>6 DEF ImagesInv
  <2>7. ASSUME NEW i \in 0..f, NEW j \in 0..f, i < j
        PROVE  Headers'[i] < Headers'[j]
    <3>1. i \in 0..(f - 1) /\ Headers[i] \in Nat
      BY <2>7, NewestSlot
    <3>2. CASE j = f
      BY <1>t, <2>5, <2>6, <3>1, <3>2
    <3>3. CASE j # f
      <4>1. j \in 0..(f - 1)
        BY <3>3
      <4> QED
        BY <2>3, <2>5, <2>7, <3>1, <4>1 DEF HeadersInv
    <3> QED
      BY <3>2, <3>3
  <2> QED
    BY <2>2, <2>4, <2>5, <2>7 DEF HeadersInv
<1>3. CASE SlideWindow
  <2>1. Full /\ frame_count = W /\ Newest = W
    BY <1>3 DEF SlideWindow, PhaseInv, Full, Newest
  <2>2. Newest' = W - 1 /\ UNCHANGED now
    BY <1>3, <2>1 DEF SlideWindow, Newest, Full
  <2>3. SlideOld \/ SlideSecondNew
    BY <1>3 DEF SlideWindow
  <2>4. \A i, j \in 0..W : i < j => Headers[i] < Headers[j]
    BY <2>1 DEF HeadersInv
  <2>5. ASSUME NEW i \in 0..(W - 1), NEW j \in 0..(W - 1), i < j
        PROVE  Headers'[i] < Headers'[j]
    <3>1. i \in 0..(W - 2) /\ Headers'[i] = Slid(i)
      BY <2>3, <2>5, SlidHeaders
    <3>2. CASE j = W - 1
      <4>1. Headers'[j] = Headers[W] /\ i + 1 \in 0..W /\ i + 1 < W /\ W \in 0..W
        BY <2>3, <3>1, <3>2, SlidHeaders
      <4> QED
        BY <2>4, <3>1, <4>1 DEF Slid
    <3>3. CASE j # W - 1
      <4>1. j \in 0..(W - 2) /\ Headers'[j] = Slid(j)
        BY <2>3, <3>3, SlidHeaders
      <4>2. i + 1 \in 0..W /\ j + 1 \in 0..W /\ i + 1 < j + 1
        BY <2>5, <3>1, <4>1
      <4> QED
        BY <2>4, <2>5, <3>1, <4>1, <4>2 DEF Slid
    <3> QED
      BY <3>2, <3>3
  <2>6. Headers'[W - 1] = now
    BY <2>1, <2>3, SlidHeaders DEF HeadersInv
  <2> QED
    BY <2>2, <2>5, <2>6 DEF HeadersInv
<1>4. CASE frame_count' = 0 /\ phase' = "idle" /\ UNCHANGED now
  <2>1. Newest' = -1
    BY <1>4 DEF Newest, Full
  <2> QED
    BY <2>1 DEF HeadersInv
<1>5. CASE Newest' = Newest /\ UNCHANGED <<Headers, now>>
  BY <1>5 DEF HeadersInv
<1>6. ASSUME NEW s, ProcessIMU \/ SetReloFrame(s)
      PROVE  Newest' = Newest /\ UNCHANGED <<Headers, now>>
  BY <1>6 DEF ProcessIMU, SetReloFrame, Newest, Full, window
<1>7. ASSUME NEW bad, NotInitialized \/ Initialized \/ Optimize(bad)
      PROVE  Newest' = Newest /\ UNCHANGED <<Headers, now>>
  BY <1>7 DEF NotInitialized, Initialized, Optimize, Newest, Full, window
<1> QED
  BY <1>1, <1>2, <1>3, <1>4, <1>5, <1>6, <1>7
  DEF Next, FailureDetected, Restart, ClearState, Finished, vars

\* No image of a frame in the window is missing from all_image_frame.
LEMMA ImagesNext ==
  ASSUME TypeInv, PhaseInv, HeadersInv, ImagesInv, Next
  PROVE  ImagesInv'
<1>t. now \in Nat /\ Headers \in [Slots -> Nat]
  BY DEF TypeInv
<1>1. CASE ProcessIMU
  <2>1. Newest' = Newest /\ UNCHANGED <<frame_count, Headers, all_image_frame, now>>
    BY <1>1 DEF ProcessIMU, Newest, Full
  <2>2. frame_count # 0 => tmp_pre_integration' \in Intervals
    <3>1. frame_count # 0 => tmp_pre_integration' = tmp_pre_integration \cup {now + 1}
      BY <1>1 DEF ProcessIMU
    <3>2. now + 1 \in 1..MaxStamp
      BY <1>1, <1>t DEF ProcessIMU
    <3> QED
      BY <3>1, <3>2 DEF ImagesInv, Intervals
  <2> QED
    BY <2>1, <2>2 DEF ImagesInv
<1>2. ASSUME NEW ids \in SUBSET Ids, NEW flag, AddImage(ids, flag)
      PROVE  ImagesInv'
  <2>1. PICK f \in 0..W : f = frame_count
    BY NewestSlot
  <2>2. /\ Headers' = [Headers EXCEPT ![f] = now + 1] /\ now' = now + 1
        /\ phase \in {"image", "relo_set"}
        /\ all_image_frame' = [s \in DOMAIN all_image_frame \cup {now + 1} |->
                                 IF s = now + 1 THEN tmp_pre_integration ELSE all_image_frame[s]]
        /\ tmp_pre_integration' = {}
    BY <1>2, <2>1 DEF AddImage, Created
  <2>3. Newest = f - 1
    BY <2>1, <2>2 DEF Newest, Full
  <2>4. Newest' = f /\ frame_count' # 0
    <3>1. CASE solver_flag = "INITIAL" /\ f < W
      BY <1>2, <2>1, <3>1 DEF AddImage, Newest, Full
    <3>2. CASE ~(solver_flag = "INITIAL" /\ f < W)
      BY <1>2, <2>1, <3>2 DEF AddImage, Newest, Full, PhaseInv
    <3> QED
      BY <3>1, <3>2
  <2>5. DOMAIN all_image_frame' \subseteq 1..now'
    BY <1>t, <2>2 DEF ImagesInv
  <2>6. ASSUME NEW i \in 0..f
        PROVE  Headers'[i] \in DOMAIN all_image_frame'
    <3>1. CASE i = f
      BY <1>t, <2>2, <3>1, NewestSlot
    <3>2. CASE i # f
      <4>1. i \in 0..(f - 1)
        BY <3>2
      <4>2. Headers'[i] = Headers[i] /\ Headers[i] \in DOMAIN all_image_frame
        BY <1>t, <2>2, <2>3, <3>2, <4>1, NewestSlot DEF ImagesInv
      <4> QED
        BY <2>2, <4>2
    <3> QED
      BY <3>1, <3>2
  <2>7. ASSUME NEW s \in DOMAIN all_image_frame', NEW u \in DOMAIN all_image_frame', u < s
        PROVE  all_image_frame'[s] \in Intervals
    <3>1. DOMAIN all_image_frame \subseteq 1..now /\ DOMAIN all_image_frame' = DOMAIN all_image_frame \cup {now + 1}
      BY <2>2 DEF ImagesInv
    <3>2. u \in DOMAIN all_image_frame
      BY <1>t, <2>7, <3>1
    <3>3. CASE s = now + 1
      <4>1. f # 0
        BY <2>1, <3>2 DEF ImagesInv
      <4> QED
        BY <2>1, <2>2, <3>3, <4>1 DEF ImagesInv
    <3>4. CASE s # now + 1
      <4>1. s \in DOMAIN all_image_frame /\ all_image_frame'[s] = all_image_frame[s]
        BY <2>2, <3>1, <3>4
      <4> QED
        BY <2>7, <3>2, <4>1 DEF ImagesInv
    <3> QED
      BY <3>3, <3>4
  <2>8. tmp_pre_integration' \in Intervals
    BY <2>2 DEF Intervals
  <2> QED
    BY <2>4, <2>5, <2>6, <2>7, <2>8 DEF ImagesInv
<1>3. CASE SlideWindow
  <2>1. Full /\ frame_count = W /\ Newest = W /\ frame_count' = W /\ Newest' = W - 1
    BY <1>3 DEF SlideWindow, PhaseInv, Full, Newest
  <2>2. UNCHANGED <<now, tmp_pre_integration>> /\ (SlideOld \/ SlideSecondNew)
    BY <1>3 DEF SlideWindow
  <2>3. CASE SlideSecondNew
    <3>1. UNCHANGED all_image_frame /\ Headers' = [Headers EXCEPT ![W - 1] = Headers[W]]
      BY <2>3 DEF SlideSecondNew
    <3>2. \A i \in 0..(W - 1) : Headers'[i] \in DOMAIN all_image_frame
      BY <1>t, <2>1, <3>1, NewestSlot DEF ImagesInv
    <3> QED
      BY <2>1, <2>2, <3>1, <3>2 DEF ImagesInv
  <2>4. CASE SlideOld
    <3>1. /\ all_image_frame' = [s \in {u \in DOMAIN all_image_frame : u > Headers[0]} |-> all_image_frame[s]]
          /\ \A i \in 0..(W - 1) : Headers'[i] = Headers[i + 1]
      BY <2>4, SlidHeaders DEF SlideOld, ImagesAfter
    <3>2. ASSUME NEW i \in 0..(W - 1)
          PROVE  Headers'[i] \in DOMAIN all_image_frame'
      <4>1. i + 1 \in 0..W /\ 0 \in 0..W /\ 0 < i + 1
        OBVIOUS
      <4>2. Headers[i + 1] \in DOMAIN all_image_frame /\ Headers[0] < Headers[i + 1]
        BY <2>1, <4>1 DEF ImagesInv, HeadersInv
      <4>3. Headers[i + 1] > Headers[0]
        BY <4>1, <4>2, NewestSlot
      <4> QED
        BY <3>1, <4>2, <4>3
    <3>3. \A s \in DOMAIN all_image_frame' :
            s \in DOMAIN all_image_frame /\ all_image_frame'[s] = all_image_frame[s]
      BY <3>1
    <3> QED
      BY <2>1, <2>2, <3>2, <3>3 DEF ImagesInv
  <2> QED
    BY <2>2, <2>3, <2>4
<1>4. CASE ClearState /\ phase' = "idle" /\ UNCHANGED now
  <2>1. Newest' = -1 /\ frame_count' = 0 /\ DOMAIN all_image_frame' = {}
    BY <1>4 DEF ClearState, Newest, Full
  <2> QED
    BY <2>1 DEF ImagesInv
<1>5. CASE Newest' = Newest /\ UNCHANGED <<Headers, now, all_image_frame, frame_count, tmp_pre_integration>>
  BY <1>5 DEF ImagesInv
<1>6. ASSUME NEW s, SetReloFrame(s)
      PROVE  Newest' = Newest /\ UNCHANGED <<Headers, now, all_image_frame, frame_count, tmp_pre_integration>>
  BY <1>6 DEF SetReloFrame, Newest, Full, window
<1>7. ASSUME NEW bad, NotInitialized \/ Initialized \/ Optimize(bad)
      PROVE  Newest' = Newest /\ UNCHANGED <<Headers, now, all_image_frame, frame_count, tmp_pre_integration>>
  BY <1>7 DEF NotInitialized, Initialized, Optimize, Newest, Full, window
<1>8. ASSUME Finished
      PROVE  Newest' = Newest /\ UNCHANGED <<Headers, now, all_image_frame, frame_count, tmp_pre_integration>>
  BY <1>8 DEF Finished, vars, Newest, Full
<1> QED
  BY <1>1, <1>2, <1>3, <1>4, <1>5, <1>6, <1>7, <1>8 DEF Next, FailureDetected, Restart

-----------------------------------------------------------------------------
(* Pre-integrations *)

\* The integration of a slot covers the time since the frame before, however frames leave.
LEMMA ImuNext ==
  ASSUME TypeInv, PhaseInv, HeadersInv, ImagesInv, ImuInv, Next
  PROVE  ImuInv'
<1>t. /\ now \in Nat /\ Headers \in [Slots -> Nat]
      /\ pre_integrations \in [Slots -> Intervals \cup {NULL}] /\ dt_buf \in [Slots -> Intervals]
  BY DEF TypeInv, ImuInv
<1>1. CASE ProcessIMU
  <2>1. PICK f \in 0..W : f = frame_count
    BY NewestSlot
  <2> DEFINE had == IF pre_integrations[f] = NULL THEN {} ELSE pre_integrations[f]
             new == IF f = 0 THEN {} ELSE {now + 1}
  <2>2. /\ pre_integrations' = [pre_integrations EXCEPT ![f] = had \cup new]
        /\ dt_buf' = [dt_buf EXCEPT ![f] = @ \cup new]
        /\ phase = "idle" /\ phase' = "image" /\ now < MaxStamp
        /\ UNCHANGED <<Headers, frame_count, now>>
    BY <1>1, <2>1 DEF ProcessIMU
  <2>3. Newest = f - 1 /\ Newest' = f - 1
    BY <2>1, <2>2 DEF Newest, Full
  <2>4. f \in Slots /\ new \in Intervals
    <3>1. now + 1 \in 1..MaxStamp
      BY <1>t, <2>2
    <3> QED
      BY <3>1, NewestSlot DEF Intervals
  <2>5. had \in Intervals
    BY <1>t, <2>4 DEF Intervals
  <2>6. /\ pre_integrations' \in [Slots -> Intervals \cup {NULL}] /\ dt_buf' \in [Slots -> Intervals]
        /\ pre_integrations'[f] = had \cup new /\ dt_buf'[f] = dt_buf[f] \cup new
        /\ \A j \in Slots : j # f => pre_integrations'[j] = pre_integrations[j] /\ dt_buf'[j] = dt_buf[j]
    <3> HIDE DEF had, new
    <3>1. had \cup new \in Intervals /\ dt_buf[f] \cup new \in Intervals
      BY <1>t, <2>4, <2>5 DEF Intervals
    <3> QED
      BY <1>t, <2>2, <2>4, <3>1
  <2>7. f # 0 => pre_integrations'[f] = {now + 1} /\ dt_buf'[f] = {now + 1}
    <3>1. f # 0 => had = {} /\ dt_buf[f] = {}
      BY <2>1, <2>2 DEF ImuInv
    <3> QED
      BY <2>6, <3>1
  <2> HIDE DEF had, new
  <2>8. \A j \in 1..(f - 1) : /\ j \in Slots /\ j # f
                              /\ pre_integrations[j] = (Headers[j - 1] + 1)..Headers[j]
                              /\ dt_buf[j] = pre_integrations[j]
    BY <2>3, NewestSlot DEF ImuInv
  <2>9. \A j \in 1..W : j > f => /\ j \in Slots /\ j # f
                                 /\ pre_integrations[j] = NULL /\ dt_buf[j] = {}
    BY <2>1, NewestSlot DEF ImuInv
  <2> QED
    BY <2>1, <2>2, <2>3, <2>6, <2>7, <2>8, <2>9 DEF ImuInv
<1>2. ASSUME NEW ids \in SUBSET Ids, NEW flag, AddImage(ids, flag)
      PROVE  ImuInv'
  <2>1. PICK f \in 0..W : f = frame_count
    BY NewestSlot
  <2>2. /\ Headers' = [Headers EXCEPT ![f] = now + 1]
        /\ phase \in {"image", "relo_set"}
        /\ UNCHANGED <<pre_integrations, dt_buf>>
    BY <1>2, <2>1 DEF AddImage
  <2>3. Newest = f - 1
    BY <2>1, <2>2 DEF Newest, Full
  <2>4. /\ Newest' = f
        /\ \/ frame_count' = f + 1 /\ f < W
           \/ frame_count' = f /\ f = W /\ phase' # "idle"
        /\ phase' \notin {"image", "relo_set"}
    <3>1. CASE solver_flag = "INITIAL" /\ f < W
      BY <1>2, <2>1, <3>1 DEF AddImage, Newest, Full
    <3>2. CASE ~(solver_flag = "INITIAL" /\ f < W)
      BY <1>2, <2>1, <3>2 DEF AddImage, Newest, Full, PhaseInv
    <3> QED
      BY <3>1, <3>2
  <2>5. /\ \A i \in 0..(f - 1) : Headers'[i] = Headers[i]
        /\ Headers'[f] = now + 1
    <3>1. f \in Slots /\ \A i \in 0..(f - 1) : i \in Slots /\ i # f
      BY <2>1 DEF Slots
    <3> QED
      BY <1>t, <2>2, <3>1
  <2>6. ASSUME NEW j \in 1..f
        PROVE  /\ pre_integrations[j] = (Headers'[j - 1] + 1)..Headers'[j]
               /\ dt_buf[j] = pre_integrations[j]
    <3>1. CASE j = f
      <4>1. f - 1 \in 0..(f - 1) /\ f - 1 \in 0..Newest /\ Newest = f - 1 /\ Newest >= 0
        BY <2>3, <3>1
      <4>2. Headers'[f - 1] = now
        BY <2>5, <4>1 DEF HeadersInv
      <4>3. pre_integrations[f] = {now + 1} /\ dt_buf[f] = {now + 1}
        BY <2>1, <2>2, <3>1 DEF ImuInv
      <4>4. (now + 1)..(now + 1) = {now + 1}
        BY <1>t
      <4> QED
        BY <2>5, <3>1, <4>2, <4>3, <4>4
    <3>2. CASE j # f
      <4>1. j \in 1..(f - 1) /\ j - 1 \in 0..(f - 1) /\ j \in 0..(f - 1)
        BY <3>2
      <4> QED
        BY <2>3, <2>5, <4>1 DEF ImuInv
    <3> QED
      BY <3>1, <3>2
  <2>7. \A j \in 1..W : j > f => pre_integrations[j] = NULL /\ dt_buf[j] = {}
    BY <2>1 DEF ImuInv
  <2>8. frame_count' = f + 1 => pre_integrations[f + 1] = NULL /\ dt_buf[f + 1] = {}
    BY <2>4, <2>7
  <2>9. \A j \in 1..W : j > frame_count' => j > f
    BY <2>4
  <2> QED
    BY <1>t, <2>2, <2>4, <2>6, <2>7, <2>8, <2>9 DEF ImuInv
<1>3. CASE SlideWindow
  <2>1. Full /\ frame_count = W /\ Newest = W /\ frame_count' = W /\ Newest' = W - 1 /\ phase' = "idle"
    BY <1>3 DEF SlideWindow, PhaseInv, Full, Newest
  <2>2. SlideOld \/ SlideSecondNew
    BY <1>3 DEF SlideWindow
  <2>i. /\ \A j \in 1..W : pre_integrations[j] = (Headers[j - 1] + 1)..Headers[j] /\ dt_buf[j] = pre_integrations[j]
    BY <2>1 DEF ImuInv
  <2>3. CASE SlideSecondNew
    <3>1. /\ pre_integrations' = [pre_integrations EXCEPT ![W - 1] = @ \cup dt_buf[W], ![W] = {}]
          /\ dt_buf' = [dt_buf EXCEPT ![W - 1] = @ \cup dt_buf[W], ![W] = {}]
          /\ Headers' = [Headers EXCEPT ![W - 1] = Headers[W]]
      BY <2>3 DEF SlideSecondNew, Merged
    <3>2. W \in Slots /\ W - 1 \in Slots /\ W # W - 1 /\ W - 1 \in 1..W /\ W \in 1..W /\ W - 1 # 0
      BY NewestSlot
    <3>3. pre_integrations[W - 1] \in Intervals
      BY <1>t, <2>i, <3>2
    <3>4. pre_integrations[W - 1] \cup dt_buf[W] \in Intervals /\ dt_buf[W - 1] \cup dt_buf[W] \in Intervals /\ {} \in Intervals
      BY <1>t, <3>2, <3>3 DEF Intervals
    <3>5. /\ pre_integrations' \in [Slots -> Intervals \cup {NULL}] /\ dt_buf' \in [Slots -> Intervals]
          /\ pre_integrations'[W - 1] = pre_integrations[W - 1] \cup dt_buf[W]
          /\ dt_buf'[W - 1] = dt_buf[W - 1] \cup dt_buf[W]
          /\ pre_integrations'[W] = {} /\ dt_buf'[W] = {}
          /\ \A j \in 1..(W - 2) : pre_integrations'[j] = pre_integrations[j] /\ dt_buf'[j] = dt_buf[j]
      <4>1. PICK a \in Intervals, b \in Intervals :
              a = pre_integrations[W - 1] \cup dt_buf[W] /\ b = dt_buf[W - 1] \cup dt_buf[W]
        BY <3>4
      <4>2. /\ pre_integrations' = [[pre_integrations EXCEPT ![W - 1] = a] EXCEPT ![W] = {}]
            /\ dt_buf' = [[dt_buf EXCEPT ![W - 1] = b] EXCEPT ![W] = {}]
        BY <3>1, <3>2, <4>1
      <4>3. \A j \in 1..(W - 2) : j \in Slots /\ j # W - 1 /\ j # W
        BY NewestSlot
      <4>4. /\ pre_integrations' \in [Slots -> Intervals \cup {NULL}]
            /\ pre_integrations'[W - 1] = a /\ pre_integrations'[W] = {}
            /\ \A j \in 1..(W - 2) : pre_integrations'[j] = pre_integrations[j]
        BY <1>t, <3>2, <3>4, <4>2, <4>3
      <4>5. /\ dt_buf' \in [Slots -> Intervals]
            /\ dt_buf'[W - 1] = b /\ dt_buf'[W] = {}
            /\ \A j \in 1..(W - 2) : dt_buf'[j] = dt_buf[j]
        BY <1>t, <3>2, <3>4, <4>2, <4>3
      <4> QED
        BY <4>1, <4>4, <4>5
    <3>6. /\ Headers'[W - 1] = Headers[W]
          /\ \A i \in 0..(W - 2) : Headers'[i] = Headers[i]
      BY <1>t, <3>1, <3>2, NewestSlot
    <3>7. pre_integrations'[W - 1] = (Headers'[W - 2] + 1)..Headers'[W - 1]
      <4>1. W - 2 \in 0..W /\ W - 1 \in 0..W /\ W \in 0..W /\ W - 2 < W - 1 /\ W - 1 < W /\ W - 2 \in 0..(W - 2)
        OBVIOUS
      <4>2. PICK x \in Nat : x = Headers[W - 2]
        BY <4>1, NewestSlot
      <4>3. PICK y \in Nat : y = Headers[W - 1]
        BY <4>1, NewestSlot
      <4>4. PICK z \in Nat : z = Headers[W]
        BY <4>1, NewestSlot
      <4>5. x < y /\ y < z
        BY <2>1, <4>1, <4>2, <4>3, <4>4 DEF HeadersInv
      <4>6. pre_integrations[W - 1] = (x + 1)..y
        <5>1. (W - 1) - 1 = W - 2
          OBVIOUS
        <5> QED
          BY <2>i, <3>2, <4>2, <4>3, <5>1
      <4>7. dt_buf[W] = (y + 1)..z
        BY <2>i, <3>2, <4>3, <4>4
      <4>8. ((x + 1)..y) \cup ((y + 1)..z) = (x + 1)..z
        BY <4>5
      <4> QED
        BY <3>5, <3>6, <4>1, <4>2, <4>4, <4>6, <4>7, <4>8
    <3>8. dt_buf'[W - 1] = pre_integrations'[W - 1]
      BY <2>i, <3>2, <3>5
    <3>9. ASSUME NEW j \in 1..(W - 1)
          PROVE  pre_integrations'[j] = (Headers'[j - 1] + 1)..Headers'[j] /\ dt_buf'[j] = pre_integrations'[j]
      <4>1. CASE j = W - 1
        <5>1. j - 1 = W - 2
          BY <4>1
        <5> QED
          BY <3>7, <3>8, <4>1, <5>1
      <4>2. CASE j # W - 1
        <5>1. j \in 1..(W - 2) /\ j \in 0..(W - 2) /\ j - 1 \in 0..(W - 2) /\ j \in 1..W
          BY <4>2
        <5> QED
          BY <2>i, <3>5, <3>6, <5>1
      <4> QED
        BY <4>1, <4>2
    <3> QED
      BY <2>1, <3>5, <3>9 DEF ImuInv
  <2>4. CASE SlideOld
    <3>1. /\ pre_integrations' = [i \in Slots |-> IF i < W THEN pre_integrations[i + 1] ELSE {}]
          /\ dt_buf' = [i \in Slots |-> IF i < W THEN dt_buf[i + 1] ELSE {}]
          /\ \A i \in 0..(W - 1) : Headers'[i] = Headers[i + 1]
      BY <2>4, SlidHeaders DEF SlideOld, Shifted
    <3>2. /\ pre_integrations' \in [Slots -> Intervals \cup {NULL}] /\ dt_buf' \in [Slots -> Intervals]
      <4>1. \A i \in Slots : i < W => i + 1 \in Slots
        BY NewestSlot
      <4>2. {} \in Intervals
        BY DEF Intervals
      <4> QED
        BY <1>t, <3>1, <4>1, <4>2
    <3>3. pre_integrations'[W] = {} /\ dt_buf'[W] = {} /\ W # 0
      BY <3>1, NewestSlot
    <3>4. ASSUME NEW j \in 1..(W - 1)
          PROVE  pre_integrations'[j] = (Headers'[j - 1] + 1)..Headers'[j] /\ dt_buf'[j] = pre_integrations'[j]
      <4>1. j \in 0..(W - 1) /\ j - 1 \in 0..(W - 1) /\ (j - 1) + 1 = j /\ j + 1 \in 1..W /\ (j + 1) - 1 = j
              /\ j \in Slots /\ j < W
        BY NewestSlot
      <4>2. pre_integrations'[j] = pre_integrations[j + 1] /\ dt_buf'[j] = dt_buf[j + 1]
        BY <3>1, <4>1
      <4>3. Headers'[j - 1] = Headers[j] /\ Headers'[j] = Headers[j + 1]
        BY <3>1, <4>1
      <4> QED
        BY <2>i, <4>1, <4>2, <4>3
    <3> QED
      BY <2>1, <3>2, <3>3, <3>4 DEF ImuInv
  <2> QED
    BY <2>2, <2>3, <2>4
<1>4. CASE ClearState /\ phase' = "idle" /\ UNCHANGED now
  <2>1. Newest' = -1 /\ frame_count' = 0
    BY <1>4 DEF ClearState, Newest, Full
  <2>2. /\ pre_integrations' = [i \in Slots |-> NULL] /\ dt_buf' = [i \in Slots |-> {}]
        /\ {} \in Intervals
    BY <1>4 DEF ClearState, Intervals
  <2>3. \A j \in 1..W : j \in Slots
    BY NewestSlot
  <2> QED
    BY <1>4, <2>1, <2>2, <2>3 DEF ImuInv
<1>5. CASE Newest' = Newest /\ UNCHANGED <<Headers, now, frame_count, pre_integrations, dt_buf>>
             /\ (phase' = "idle" => phase = "idle")
             /\ (phase' \in {"image", "relo_set"} => phase \in {"image", "relo_set"})
  BY <1>5 DEF ImuInv
<1>6. ASSUME NEW s, SetReloFrame(s)
      PROVE  <1>5!1
  BY <1>6 DEF SetReloFrame, Newest, Full, window
<1>7. ASSUME NEW bad, NotInitialized \/ Initialized \/ Optimize(bad)
      PROVE  <1>5!1
  BY <1>7 DEF NotInitialized, Initialized, Optimize, Newest, Full, window
<1>8. ASSUME Finished
      PROVE  <1>5!1
  BY <1>8 DEF Finished, vars, Newest, Full
<1> QED
  BY <1>1, <1>2, <1>3, <1>4, <1>5, <1>6, <1>7, <1>8 DEF Next, FailureDetected, Restart

-----------------------------------------------------------------------------
(* Features *)

\* What vector::erase leaves.
LEMMA ErasedElement ==
  ASSUME NEW s \in Seq(Nat), NEW n \in Nat, n < Len(s)
  PROVE  /\ Erased(s, n) \in Seq(Nat)
         /\ Len(Erased(s, n)) = Len(s) - 1
         /\ \A i \in 1..n : Erased(s, n)[i] = s[i]
         /\ \A i \in (n + 1)..(Len(s) - 1) : Erased(s, n)[i] = s[i + 1]
<1>1. Len(s) \in Nat /\ \A i \in 1..Len(s) : s[i] \in Nat
  BY LenProperties, ElementOfSeq
<1> DEFINE front == SubSeq(s, 1, n)
           back  == SubSeq(s, n + 2, Len(s))
<1>2. front \in Seq(Nat) /\ Len(front) = n /\ \A i \in 1..n : front[i] = s[i]
  <2>1. \A i \in 1..n : s[i] \in Nat
    BY <1>1
  <2>2. /\ SubSeq(s, 1, n) \in Seq(Nat)
        /\ Len(SubSeq(s, 1, n)) = IF 1 <= n THEN n - 1 + 1 ELSE 0
        /\ \A i \in 1..(n - 1 + 1) : SubSeq(s, 1, n)[i] = s[1 + i - 1]
    BY <2>1, SubSeqProperties
  <2> QED
    BY <2>2
<1>3. /\ back \in Seq(Nat) /\ Len(back) = Len(s) - 1 - n
      /\ \A i \in 1..(Len(s) - 1 - n) : back[i] = s[n + 1 + i]
  <2>1. n + 2 \in Int /\ Len(s) \in Int /\ \A i \in (n + 2)..Len(s) : s[i] \in Nat
    BY <1>1
  <2>2. /\ SubSeq(s, n + 2, Len(s)) \in Seq(Nat)
        /\ Len(SubSeq(s, n + 2, Len(s))) = IF n + 2 <= Len(s) THEN Len(s) - (n + 2) + 1 ELSE 0
        /\ \A i \in 1..(Len(s) - (n + 2) + 1) : SubSeq(s, n + 2, Len(s))[i] = s[(n + 2) + i - 1]
    BY <2>1, SubSeqProperties
  <2>3. Len(s) - (n + 2) + 1 = Len(s) - 1 - n /\ \A i \in Int : (n + 2) + i - 1 = n + 1 + i
    BY <1>1
  <2>4. Len(back) = Len(s) - 1 - n
    BY <1>1, <2>2
  <2>5. \A i \in 1..(Len(s) - 1 - n) : back[i] = s[n + 1 + i]
    BY <2>2, <2>3
  <2> QED
    BY <2>2, <2>4, <2>5
<1>4. Erased(s, n) = front \o back
  BY DEF Erased
<1> HIDE DEF front, back
<1>5. /\ front \o back \in Seq(Nat) /\ Len(front \o back) = Len(front) + Len(back)
      /\ \A i \in 1..(Len(front) + Len(back)) :
           (front \o back)[i] = IF i <= Len(front) THEN front[i] ELSE back[i - Len(front)]
  BY <1>2, <1>3, ConcatProperties
<1>6. Len(front) + Len(back) = Len(s) - 1
  BY <1>1, <1>2, <1>3
<1>7. \A i \in 1..n : Erased(s, n)[i] = s[i]
  BY <1>1, <1>2, <1>4, <1>5, <1>6
<1>8. ASSUME NEW i \in (n + 1)..(Len(s) - 1)
      PROVE  Erased(s, n)[i] = s[i + 1]
  <2>1. i \in 1..(Len(front) + Len(back)) /\ ~(i <= Len(front))
    BY <1>1, <1>2, <1>6
  <2>2. i - n \in 1..(Len(s) - 1 - n) /\ n + 1 + (i - n) = i + 1
    BY <1>1
  <2>3. (front \o back)[i] = back[i - n]
    BY <1>2, <1>5, <2>1
  <2>4. back[i - n] = s[i + 1]
    BY <1>3, <2>2
  <2> QED
    BY <1>4, <2>3, <2>4
<1> QED
  BY <1>4, <1>5, <1>6, <1>7, <1>8

\* A feature that has lost the oldest slot.
LEMMA SlidBack ==
  ASSUME FeatureInv, SlideOld, NEW id \in DOMAIN feature'
  PROVE  /\ id \in Known
         /\ \/ feature[id].start # 0 /\ feature'[id] = [feature[id] EXCEPT !.start = @ - 1]
            \/ /\ feature[id].start = 0 /\ feature'[id] = [feature[id] EXCEPT !.obs = Tail(@)]
               /\ Len(feature'[id].obs) >= 1
<1> DEFINE moved == [i \in Known |->
                       IF feature[i].start # 0 THEN [feature[i] EXCEPT !.start = @ - 1]
                       ELSE [feature[i] EXCEPT !.obs = Tail(@)]]
           keep  == IF solver_flag = "NON_LINEAR" THEN 2 ELSE 1
           kept  == {i \in Known : feature[i].start # 0 \/ Len(moved[i].obs) >= keep}
<1>1. WithoutBack(feature, keep) = Restricted(moved, kept)
  BY DEF WithoutBack, Known
<1>2. feature' = Restricted(Restricted(moved, kept), DOMAIN Restricted(moved, kept) \ failed)
  BY <1>1 DEF SlideOld
<1>3. id \in kept /\ feature'[id] = moved[id]
  BY <1>2 DEF Restricted
<1>4. id \in Known
  BY <1>3
<1>5. CASE feature[id].start # 0
  BY <1>3, <1>4, <1>5
<1>6. CASE feature[id].start = 0
  <2>1. Len(moved[id].obs) >= keep /\ keep \in {1, 2}
    BY <1>3, <1>6
  <2>2. feature'[id] = [feature[id] EXCEPT !.obs = Tail(@)] /\ feature'[id].obs = moved[id].obs
    BY <1>3, <1>4, <1>6
  <2> HIDE DEF moved, keep, kept
  <2>3. Len(feature'[id].obs) >= 1
    <3>1. feature[id] \in Observation /\ feature[id].obs # <<>>
      BY <1>4 DEF FeatureInv
    <3>2. feature'[id].obs = Tail(feature[id].obs) /\ feature[id].obs \in Seq(Nat)
      BY <2>2, <3>1 DEF Observation
    <3>3. Len(feature'[id].obs) \in Nat
      BY <3>1, <3>2, HeadTailProperties, LenProperties
    <3>4. keep >= 1 /\ keep \in Int /\ Len(feature'[id].obs) >= keep
      <4>1. Len(feature'[id].obs) = Len(moved[id].obs)
        BY <2>2
      <4> QED
        BY <2>1, <4>1
    <3> QED
      BY <3>3, <3>4
  <2> QED
    BY <1>4, <1>6, <2>2, <2>3
<1> QED
  BY <1>5, <1>6

\* A feature that has lost the second newest slot.
LEMMA SlidFront ==
  ASSUME SlideSecondNew, NEW id \in DOMAIN feature'
  PROVE  /\ id \in Known /\ feature'[id].obs # <<>>
         /\ \/ /\ feature[id].start = frame_count
               /\ feature'[id] = [feature[id] EXCEPT !.start = @ - 1]
            \/ /\ feature[id].start # frame_count /\ EndFrame(feature[id]) < frame_count - 1
               /\ feature'[id] = feature[id]
            \/ /\ feature[id].start # frame_count /\ ~(EndFrame(feature[id]) < frame_count - 1)
               /\ feature'[id] = [feature[id] EXCEPT !.obs = Erased(@, W - 1 - feature[id].start)]
<1> DEFINE moved == [i \in Known |->
                       IF feature[i].start = frame_count THEN [feature[i] EXCEPT !.start = @ - 1]
                       ELSE IF EndFrame(feature[i]) < frame_count - 1 THEN feature[i]
                       ELSE [feature[i] EXCEPT !.obs = Erased(@, W - 1 - feature[i].start)]]
           kept  == {i \in Known : moved[i].obs # <<>>}
<1>1. WithoutFront(feature) = Restricted(moved, kept)
  BY DEF WithoutFront, Known
<1>2. feature' = Restricted(Restricted(moved, kept), DOMAIN Restricted(moved, kept) \ failed)
  BY <1>1 DEF SlideSecondNew
<1>3. id \in kept /\ feature'[id] = moved[id]
  BY <1>2 DEF Restricted
<1>4. id \in Known /\ feature'[id].obs # <<>>
  BY <1>3
<1>5. feature'[id] = IF feature[id].start = frame_count THEN [feature[id] EXCEPT !.start = @ - 1]
                     ELSE IF EndFrame(feature[id]) < frame_count - 1 THEN feature[id]
                     ELSE [feature[id] EXCEPT !.obs = Erased(@, W - 1 - feature[id].start)]
  BY <1>3, <1>4
<1> HIDE DEF moved, kept
<1> QED
  BY <1>4, <1>5

\* The types of a known feature.
LEMMA KnownFeature ==
  ASSUME TypeInv, PhaseInv, FeatureInv, NEW id \in Known
  PROVE  /\ id \in Ids /\ feature[id] \in Observation
         /\ feature[id].start \in 0..W /\ feature[id].obs \in Seq(Nat)
         /\ Len(feature[id].obs) \in Nat \ {0}
         /\ EndFrame(feature[id]) = feature[id].start + Len(feature[id].obs) - 1
         /\ EndFrame(feature[id]) <= Newest
         /\ \A k \in 1..Len(feature[id].obs) :
              /\ Headers[feature[id].start + k - 1] = feature[id].obs[k]
              /\ feature[id].start + k - 1 \in 0..Newest
         /\ id \in last_image => EndFrame(feature[id]) = Newest
<1>1. /\ id \in Ids /\ feature[id] \in Observation
      /\ feature[id].obs # <<>> /\ EndFrame(feature[id]) <= Newest
      /\ \A k \in 1..Len(feature[id].obs) : Headers[feature[id].start + k - 1] = feature[id].obs[k]
      /\ id \in last_image => EndFrame(feature[id]) = Newest
  BY DEF FeatureInv
<1>2. feature[id].start \in 0..W /\ feature[id].obs \in Seq(Nat)
  BY <1>1 DEF Observation, Slots
<1>3. Len(feature[id].obs) \in Nat \ {0}
  BY <1>1, <1>2, EmptySeq, LenProperties
<1>4. Newest \in Int
  BY NewestSlot
<1>5. \A k \in 1..Len(feature[id].obs) : feature[id].start + k - 1 \in 0..Newest
  BY SMTT(30), <1>1, <1>2, <1>3, <1>4 DEF EndFrame
<1> QED
  BY <1>1, <1>2, <1>3, <1>5 DEF EndFrame

\* Observations stay in the slots of their images, whichever frame leaves.
LEMMA FeatureNext ==
  ASSUME TypeInv, PhaseInv, HeadersInv, FeatureInv, Next
  PROVE  FeatureInv'
<1>t. now \in Nat /\ Headers \in [Slots -> Nat]
  BY DEF TypeInv
<1>1. ASSUME NEW ids \in SUBSET Ids, NEW flag, AddImage(ids, flag)
      PROVE  FeatureInv'
  <2>1. PICK f \in 0..W : f = frame_count
    BY NewestSlot
  <2>2. /\ Headers' = [Headers EXCEPT ![f] = now + 1]
        /\ phase \in {"image", "relo_set"}
        /\ last_image' = ids /\ ids \cap Known \subseteq last_image
        /\ feature' = [id \in Known \cup ids |->
                         IF id \notin ids THEN feature[id]
                         ELSE IF id \in Known THEN [feature[id] EXCEPT !.obs = Append(@, now + 1)]
                         ELSE [start |-> f, obs |-> <<now + 1>>]]
    BY <1>1, <2>1 DEF AddImage, CanShow, Observed
  <2>3. Newest = f - 1
    BY <2>1, <2>2 DEF Newest, Full
  <2>4. Newest' = f
    <3>1. CASE solver_flag = "INITIAL" /\ f < W
      BY <1>1, <2>1, <3>1 DEF AddImage, Newest, Full
    <3>2. CASE ~(solver_flag = "INITIAL" /\ f < W)
      BY <1>1, <2>1, <3>2 DEF AddImage, Newest, Full, PhaseInv
    <3> QED
      BY <3>1, <3>2
  <2>5. /\ \A i \in 0..(f - 1) : Headers'[i] = Headers[i]
        /\ Headers'[f] = now + 1
    <3>1. f \in Slots /\ \A i \in 0..(f - 1) : i \in Slots /\ i # f
      BY <2>1 DEF Slots
    <3> QED
      BY <1>t, <2>2, <3>1
  <2>6. ASSUME NEW id \in Known \cup ids
        PROVE  /\ id \in Ids /\ feature'[id] \in Observation
               /\ feature'[id].obs # <<>> /\ EndFrame(feature'[id]) <= f
               /\ \A k \in 1..Len(feature'[id].obs) :
                    Headers'[feature'[id].start + k - 1] = feature'[id].obs[k]
               /\ id \in ids => EndFrame(feature'[id]) = f
    <3>1. CASE id \notin ids
      <4>1. id \in Known /\ feature'[id] = feature[id]
        BY <2>2, <3>1
      <4>2. EndFrame(feature[id]) <= f - 1 /\ EndFrame(feature[id]) \in Int
        BY <2>3, <4>1, KnownFeature
      <4>3. \A k \in 1..Len(feature[id].obs) :
              Headers'[feature[id].start + k - 1] = feature[id].obs[k]
        BY <2>3, <2>5, <4>1, KnownFeature
      <4>4. id \in Ids /\ feature[id] \in Observation /\ feature[id].obs # <<>>
        BY <4>1 DEF FeatureInv
      <4> QED
        BY <3>1, <4>1, <4>2, <4>3, <4>4
    <3>2. CASE id \in ids /\ id \in Known
      <4>1. feature'[id] = [feature[id] EXCEPT !.obs = Append(@, now + 1)]
        BY <2>2, <3>2
      <4>2. PICK n \in Nat \ {0} : n = Len(feature[id].obs)
        BY <3>2, KnownFeature
      <4>3. PICK a \in 0..W : a = feature[id].start
        BY <3>2, KnownFeature
      <4>4. feature[id] \in Observation /\ feature[id].obs \in Seq(Nat)
        BY <3>2, KnownFeature
      <4>5. /\ feature'[id].start = a /\ feature'[id].obs = Append(feature[id].obs, now + 1)
            /\ feature'[id] = [start |-> a, obs |-> Append(feature[id].obs, now + 1)]
        BY <4>1, <4>3, <4>4 DEF Observation
      <4>6. a + n - 1 = f - 1
        <5>1. id \in last_image
          BY <2>2, <3>2
        <5> QED
          BY <2>3, <3>2, <4>2, <4>3, <5>1, KnownFeature
      <4>7. /\ feature'[id].obs \in Seq(Nat) /\ Len(feature'[id].obs) = n + 1
            /\ \A k \in 1..n : feature'[id].obs[k] = feature[id].obs[k]
            /\ feature'[id].obs[n + 1] = now + 1
        BY <1>t, <4>2, <4>4, <4>5, AppendProperties
      <4>8. EndFrame(feature'[id]) = f
        <5>1. EndFrame(feature'[id]) = feature'[id].start + Len(feature'[id].obs) - 1
          BY DEF EndFrame
        <5>2. EndFrame(feature'[id]) = a + (n + 1) - 1
          BY <4>5, <4>7, <5>1
        <5>3. a + (n + 1) - 1 = f
          BY <4>6
        <5> QED
          BY <5>2, <5>3
      <4>9. ASSUME NEW k \in 1..(n + 1)
            PROVE  Headers'[a + k - 1] = feature'[id].obs[k]
        <5>1. CASE k = n + 1
          <6>1. a + k - 1 = f
            BY <4>6, <5>1
          <6> QED
            BY <2>5, <4>7, <5>1, <6>1
        <5>2. CASE k # n + 1
          <6>1. k \in 1..n
            BY <5>2
          <6>2. Headers[a + k - 1] = feature[id].obs[k] /\ a + k - 1 \in 0..(f - 1)
            BY <2>3, <3>2, <4>2, <4>3, <6>1, KnownFeature
          <6> QED
            BY <2>5, <4>7, <6>1, <6>2
        <5> QED
          BY <5>1, <5>2
      <4>10. feature'[id] \in Observation /\ feature'[id].obs # <<>> /\ id \in Ids
        <5>1. feature'[id].obs # <<>>
          BY <4>7, EmptySeq
        <5>2. a \in Slots
          BY NewestSlot
        <5>3. feature'[id] \in [start : Slots, obs : Seq(Nat)]
          <6>1. PICK o \in Seq(Nat) : o = Append(feature[id].obs, now + 1)
            BY <4>5, <4>7
          <6>2. feature'[id] = [start |-> a, obs |-> o]
            BY <4>5, <6>1
          <6> QED
            BY <5>2, <6>2
        <5> QED
          BY <3>2, <5>1, <5>3 DEF Observation
      <4>11. EndFrame(feature'[id]) <= f
        BY <4>8
      <4>12. \A k \in 1..Len(feature'[id].obs) :
               Headers'[feature'[id].start + k - 1] = feature'[id].obs[k]
        <5>1. feature'[id].start = a /\ Len(feature'[id].obs) = n + 1
          BY <4>5, <4>7
        <5> QED
          BY <4>9, <5>1
      <4> QED
        BY <4>8, <4>10, <4>11, <4>12
    <3>3. CASE id \in ids /\ id \notin Known
      <4>1. feature'[id] = [start |-> f, obs |-> <<now + 1>>]
        BY <2>2, <3>3
      <4>2. <<now + 1>> \in Seq(Nat) /\ Len(<<now + 1>>) = 1 /\ <<now + 1>>[1] = now + 1 /\ <<now + 1>> # <<>>
        BY <1>t
      <4>3. f \in Slots
        BY NewestSlot
      <4>4. EndFrame(feature'[id]) = f
        BY <4>1, <4>2 DEF EndFrame
      <4>5. \A k \in 1..1 : Headers'[f + k - 1] = <<now + 1>>[k]
        BY <2>5, <4>2
      <4>6. feature'[id].start = f /\ feature'[id].obs = <<now + 1>> /\ id \in Ids
        BY <3>3, <4>1
      <4>7. feature'[id] \in Observation
        <5>1. PICK o \in Seq(Nat) : o = <<now + 1>>
          BY <4>2
        <5>2. feature'[id] = [start |-> f, obs |-> o]
          BY <4>1, <5>1
        <5> QED
          BY <4>3, <5>2 DEF Observation
      <4>8. \A k \in 1..Len(feature'[id].obs) :
              Headers'[feature'[id].start + k - 1] = feature'[id].obs[k]
        BY <4>2, <4>5, <4>6
      <4>9. EndFrame(feature'[id]) <= f /\ feature'[id].obs # <<>>
        BY <4>2, <4>4, <4>6
      <4> QED
        BY <4>4, <4>6, <4>7, <4>8, <4>9
    <3> QED
      BY <3>1, <3>2, <3>3
  <2>7. DOMAIN feature' = Known \cup ids
    BY <2>2
  <2>8. Known' = Known \cup ids
    BY <2>7 DEF Known
  <2>9. last_image' = ids
    BY <2>2
  <2>10. ASSUME NEW id \in Known'
         PROVE  /\ id \in Ids /\ feature'[id] \in Observation
                /\ feature'[id].obs # <<>> /\ EndFrame(feature'[id]) <= Newest'
                /\ \A k \in 1..Len(feature'[id].obs) :
                     Headers'[feature'[id].start + k - 1] = feature'[id].obs[k]
                /\ id \in last_image' => EndFrame(feature'[id]) = Newest'
    <3>1. id \in Known \cup ids
      BY <2>8
    <3> QED
      BY <2>4, <2>6, <2>9, <3>1
  <2> QED
    BY <2>10 DEF FeatureInv
<1>2. CASE SlideWindow
  <2>1. Full /\ frame_count = W /\ Newest = W /\ frame_count' = W /\ Newest' = W - 1
    BY <1>2 DEF SlideWindow, PhaseInv, Full, Newest
  <2>2. UNCHANGED last_image /\ (SlideOld \/ SlideSecondNew)
    BY <1>2 DEF SlideWindow
  <2>3. ASSUME NEW id \in DOMAIN feature', id \in Known,
               NEW a \in 0..W, NEW n \in Nat \ {0}, NEW o \in Seq(Nat),
               a = feature[id].start, o = feature[id].obs, n = Len(o)
        PROVE  \E b \in 0..(W - 1), p \in Seq(Nat) :
                 /\ feature'[id] = [start |-> b, obs |-> p]
                 /\ Len(p) \in Nat \ {0} /\ b + Len(p) - 1 <= W - 1
                 /\ \A k \in 1..Len(p) : Headers'[b + k - 1] = p[k]
                 /\ a + n - 1 = W => b + Len(p) - 1 = W - 1
    <3>1. /\ feature[id] = [start |-> a, obs |-> o]
          /\ a + n - 1 <= W
          /\ \A k \in 1..n : Headers[a + k - 1] = o[k]
      <4>1. feature[id] = [start |-> feature[id].start, obs |-> feature[id].obs]
        BY <2>3, KnownFeature DEF Observation
      <4>2. EndFrame(feature[id]) = a + n - 1 /\ EndFrame(feature[id]) <= W
        BY <2>1, <2>3, KnownFeature
      <4>3. \A k \in 1..n : Headers[a + k - 1] = o[k]
        BY <2>3, KnownFeature
      <4> QED
        BY <2>3, <4>1, <4>2, <4>3
    <3>b. a + n - 1 <= W /\ Len(o) = n
      BY <2>3, <3>1
    <3>r. feature[id] = [start |-> a, obs |-> o]
      BY <3>1
    <3>2. CASE SlideOld
      <4>h. \A i \in 0..(W - 1) : Headers'[i] = Headers[i + 1]
        BY <3>2, SlidHeaders DEF SlideOld
      <4>1. CASE a # 0
        <5>1. feature'[id] = [feature[id] EXCEPT !.start = @ - 1]
          BY <2>3, <3>2, <4>1, SlidBack
        <5>2. feature'[id] = [start |-> a - 1, obs |-> o]
          BY <3>1, <5>1
        <5>3. a - 1 \in 0..(W - 1) /\ (a - 1) + n - 1 <= W - 1 /\ Len(o) = n
          BY <3>b, <4>1
        <5>4. ASSUME NEW k \in 1..n
              PROVE  Headers'[(a - 1) + k - 1] = o[k]
          <6>1. (a - 1) + k - 1 \in 0..(W - 1) /\ ((a - 1) + k - 1) + 1 = a + k - 1
            BY <3>b, <4>1
          <6> QED
            BY <3>1, <4>h, <6>1
        <5>5. a + n - 1 = W => (a - 1) + n - 1 = W - 1
          OBVIOUS
        <5> QED
          BY <5>2, <5>3, <5>4, <5>5
      <4>2. CASE a = 0
        <5>1. feature'[id] = [feature[id] EXCEPT !.obs = Tail(@)] /\ Len(feature'[id].obs) >= 1
          BY <2>3, <3>2, <4>2, SlidBack
        <5>2. PICK p \in Seq(Nat) : p = Tail(o) /\ Len(p) = n - 1 /\ \A k \in 1..(n - 1) : p[k] = o[k + 1]
          <6>1. o # <<>>
            BY <2>3, EmptySeq
          <6>2. /\ Tail(o) \in Seq(Nat) /\ Len(Tail(o)) = n - 1
                /\ \A i \in 1..Len(Tail(o)) : Tail(o)[i] = o[i + 1]
            BY <3>b, <6>1, HeadTailProperties
          <6> QED
            BY <6>2
        <5>3. feature'[id] = [start |-> a, obs |-> p]
          <6>1. feature'[id] = [feature[id] EXCEPT !.obs = Tail(feature[id].obs)]
            BY <5>1
          <6>2. Tail(feature[id].obs) = p
            BY <2>3, <5>2
          <6>3. feature'[id] = [feature[id] EXCEPT !.obs = p]
            BY <6>1, <6>2
          <6> QED
            BY <3>r, <6>3
        <5>4. n - 1 \in Nat \ {0} /\ a \in 0..(W - 1) /\ a + (n - 1) - 1 <= W - 1
          <6>1. Len(p) >= 1
            BY <5>1, <5>3
          <6> QED
            BY <3>1, <4>2, <5>2, <6>1
        <5>5. ASSUME NEW k \in 1..(n - 1)
              PROVE  Headers'[a + k - 1] = p[k]
          <6>1. a + k - 1 \in 0..(W - 1) /\ k + 1 \in 1..n /\ (a + k - 1) + 1 = a + (k + 1) - 1
            BY <3>1, <4>2
          <6> QED
            <7>1. Headers'[a + k - 1] = Headers[(a + k - 1) + 1]
              BY <4>h, <6>1
            <7>2. Headers[a + (k + 1) - 1] = o[k + 1]
              BY <3>1, <6>1
            <7>3. p[k] = o[k + 1]
              BY <5>2
            <7> QED
              BY <6>1, <7>1, <7>2, <7>3
        <5>6. a + n - 1 = W => a + (n - 1) - 1 = W - 1
          OBVIOUS
        <5> QED
          BY <5>2, <5>3, <5>4, <5>5, <5>6
      <4> QED
        BY <4>1, <4>2
    <3>3. CASE SlideSecondNew
      <4>h. Headers'[W - 1] = Headers[W] /\ \A i \in 0..(W - 2) : Headers'[i] = Headers[i]
        BY <3>3, SlidHeaders DEF SlideSecondNew, Slid
      <4>0. a + n - 1 = EndFrame(feature[id])
        BY <2>3, KnownFeature
      <4>1. CASE a = W
        <5>1. feature'[id] = [feature[id] EXCEPT !.start = @ - 1]
          BY <2>1, <2>3, <3>3, <4>1, SlidFront
        <5>2. feature'[id] = [start |-> W - 1, obs |-> o] /\ n = 1 /\ Len(o) = 1
          <6>1. n = 1
            BY <3>b, <4>1
          <6>2. feature'[id] = [start |-> a - 1, obs |-> o]
            BY <3>r, <5>1
          <6> QED
            BY <3>b, <4>1, <6>1, <6>2
        <5>3. Headers'[W - 1] = o[1] /\ W + 1 - 1 = W
          BY <3>1, <4>1, <4>h, <5>2
        <5>4. \A k \in 1..1 : Headers'[(W - 1) + k - 1] = o[k]
          BY <5>3
        <5>5. W - 1 \in 0..(W - 1) /\ (W - 1) + 1 - 1 = W - 1
          OBVIOUS
        <5>6. /\ feature'[id] = [start |-> W - 1, obs |-> o]
              /\ Len(o) \in Nat \ {0} /\ (W - 1) + Len(o) - 1 <= W - 1
              /\ \A k \in 1..Len(o) : Headers'[(W - 1) + k - 1] = o[k]
              /\ a + n - 1 = W => (W - 1) + Len(o) - 1 = W - 1
          BY <5>2, <5>4
        <5> QED
          BY <5>5, <5>6
      <4>2. CASE a # W /\ a + n - 1 < W - 1
        <5>1. feature'[id] = [start |-> a, obs |-> o]
          BY <2>1, <2>3, <3>1, <3>3, <4>0, <4>2, SlidFront
        <5>2. a \in 0..(W - 1) /\ a + n - 1 <= W - 1 /\ a + n - 1 # W
          BY <4>2
        <5>3. \A k \in 1..n : a + k - 1 \in 0..(W - 2)
          BY <4>2
        <5>4. \A k \in 1..n : Headers'[a + k - 1] = o[k]
          BY <3>1, <4>h, <5>3
        <5> QED
          BY <2>3, <5>1, <5>2, <5>4
      <4>3. CASE a # W /\ ~(a + n - 1 < W - 1)
        <5>1. feature'[id] = [feature[id] EXCEPT !.obs = Erased(@, W - 1 - a)] /\ feature'[id].obs # <<>>
          BY <2>1, <2>3, <3>3, <4>0, <4>3, SlidFront
        <5>2. PICK m \in Nat : m = W - 1 - a
          <6>1. W - 1 - a \in Nat
            BY <4>3
          <6> QED
            BY <6>1
        <5>3. m < n /\ (n = m + 1 \/ n = m + 2)
          BY <3>b, <4>3, <5>2
        <5>e. /\ Erased(o, m) \in Seq(Nat)
              /\ Len(Erased(o, m)) = Len(o) - 1
              /\ \A i \in 1..m : Erased(o, m)[i] = o[i]
              /\ \A i \in (m + 1)..(Len(o) - 1) : Erased(o, m)[i] = o[i + 1]
          <6>1. m < Len(o)
            BY <3>b, <5>3
          <6> QED
            BY <6>1, ErasedElement
        <5>4. PICK p \in Seq(Nat) : p = Erased(o, m)
          BY <5>e
        <5>5. /\ Len(p) = n - 1
              /\ \A i \in 1..m : p[i] = o[i]
              /\ \A i \in (m + 1)..(n - 1) : p[i] = o[i + 1]
          BY <3>b, <5>e, <5>4
        <5>6. feature'[id] = [start |-> a, obs |-> p]
          BY <3>1, <5>1, <5>2, <5>4
        <5>7. n - 1 \in Nat \ {0}
          <6>1. p # <<>>
            BY <5>1, <5>6
          <6> QED
            BY <5>5, <6>1, EmptySeq
        <5>8. a \in 0..(W - 1) /\ a + (n - 1) - 1 <= W - 1
          BY <3>1, <4>3
        <5>9. ASSUME NEW k \in 1..(n - 1)
              PROVE  Headers'[a + k - 1] = p[k]
          <6>1. CASE k <= m
            <7>1. k \in 1..m /\ k \in 1..n /\ a + k - 1 \in 0..(W - 2)
              BY <5>2, <6>1
            <7> QED
              BY <3>1, <4>h, <5>5, <7>1
          <6>2. CASE ~(k <= m)
            <7>1. k = m + 1 /\ k \in (m + 1)..(n - 1) /\ k + 1 \in 1..n
              BY <5>3, <6>2
            <7>2. a + k - 1 = W - 1 /\ a + (k + 1) - 1 = W
              BY <5>2, <7>1
            <7>3. p[k] = o[k + 1]
              BY <5>5, <7>1
            <7>4. Headers[a + (k + 1) - 1] = o[k + 1]
              BY <3>1, <7>1
            <7> QED
              BY <4>h, <7>2, <7>3, <7>4
          <6> QED
            BY <6>1, <6>2
        <5>10. a + n - 1 = W => a + (n - 1) - 1 = W - 1
          OBVIOUS
        <5> QED
          BY <5>5, <5>6, <5>7, <5>8, <5>9, <5>10
      <4> QED
        BY <4>1, <4>2, <4>3
    <3> QED
      BY <2>2, <3>2, <3>3
  <2>4. ASSUME NEW id \in DOMAIN feature'
        PROVE  /\ id \in Ids /\ feature'[id] \in Observation
               /\ feature'[id].obs # <<>> /\ EndFrame(feature'[id]) <= W - 1
               /\ \A k \in 1..Len(feature'[id].obs) :
                    Headers'[feature'[id].start + k - 1] = feature'[id].obs[k]
               /\ id \in last_image => EndFrame(feature'[id]) = W - 1
    <3>1. id \in Known
      BY <2>2, SlidBack, SlidFront
    <3>2. PICK a \in 0..W, o \in Seq(Nat) : a = feature[id].start /\ o = feature[id].obs
      BY <3>1, KnownFeature
    <3>3. PICK n \in Nat \ {0} : n = Len(o)
      BY <3>1, <3>2, KnownFeature
    <3>4. PICK b \in 0..(W - 1), p \in Seq(Nat) :
            /\ feature'[id] = [start |-> b, obs |-> p]
            /\ Len(p) \in Nat \ {0} /\ b + Len(p) - 1 <= W - 1
            /\ \A k \in 1..Len(p) : Headers'[b + k - 1] = p[k]
            /\ a + n - 1 = W => b + Len(p) - 1 = W - 1
      BY <2>3, <3>1, <3>2, <3>3
    <3>5. feature'[id].start = b /\ feature'[id].obs = p
      BY <3>4
    <3>6. id \in last_image => a + n - 1 = W
      BY <2>1, <3>1, <3>2, <3>3, KnownFeature
    <3>7. EndFrame(feature'[id]) = b + Len(p) - 1
      BY <3>5 DEF EndFrame
    <3>8. feature'[id] \in Observation /\ p # <<>>
      <4>1. b \in Slots
        BY NewestSlot
      <4>2. p # <<>>
        BY <3>4, EmptySeq
      <4> QED
        BY <3>4, <4>1, <4>2 DEF Observation
    <3>9. id \in Ids
      BY <3>1, KnownFeature
    <3> QED
      BY <3>4, <3>5, <3>6, <3>7, <3>8, <3>9
  <2> QED
    BY <2>1, <2>2, <2>4 DEF FeatureInv, Known, EndFrame
<1>3. CASE ClearState
  <2>1. DOMAIN feature' = {}
    BY <1>3 DEF ClearState
  <2> QED
    BY <2>1 DEF FeatureInv, Known
<1>4. CASE Newest' = Newest /\ UNCHANGED <<Headers, feature, last_image>>
  BY <1>4 DEF FeatureInv, Known, EndFrame
<1>5. ASSUME NEW s, ProcessIMU \/ SetReloFrame(s)
      PROVE  Newest' = Newest /\ UNCHANGED <<Headers, feature, last_image>>
  BY <1>5 DEF ProcessIMU, SetReloFrame, Newest, Full, window
<1>6. ASSUME NEW bad, NotInitialized \/ Initialized \/ Optimize(bad) \/ Finished
      PROVE  Newest' = Newest /\ UNCHANGED <<Headers, feature, last_image>>
  BY <1>6 DEF NotInitialized, Initialized, Optimize, Finished, Newest, Full, window, vars
<1> QED
  BY <1>1, <1>2, <1>3, <1>4, <1>5, <1>6 DEF Next, FailureDetected, Restart

-----------------------------------------------------------------------------
(* The prior *)

Blocks == [kind : {"Pose", "SpeedBias"}, idx : Slots, stamp : Nat]

\* Every block that touches the first frame is linearised for the frame in its slot.
LEMMA TouchedBlocks ==
  ASSUME TypeInv, PhaseInv, FeatureInv, PriorInv, phase \in {"first_optimize", "optimize"},
         NEW b \in TouchFirst
  PROVE  /\ b \in Blocks /\ b.stamp = Headers[b.idx]
         /\ b.kind = "SpeedBias" => b.idx \in {0, 1}
<1>1. ASSUME NEW k \in {"Pose", "SpeedBias"}, NEW i \in Slots, b = Block(k, i)
      PROVE  b \in Blocks /\ b.stamp = Headers[b.idx] /\ b.idx = i /\ b.kind = k
  <2>1. b = [kind |-> k, idx |-> i, stamp |-> Headers[i]]
    BY <1>1 DEF Block
  <2>2. Headers[i] \in Nat
    BY NewestSlot
  <2> QED
    BY <2>1, <2>2 DEF Blocks
<1>2. CASE b \in prior
  <2>1. /\ b \in [kind : {"Pose", "SpeedBias"}, idx : 0..(W - 1), stamp : Nat]
        /\ b.kind = "SpeedBias" => b.idx = 0
        /\ b.stamp = Headers[b.idx]
    BY <1>2 DEF PriorInv
  <2>2. b \in Blocks
    <3>1. 0..(W - 1) \subseteq Slots
      BY NewestSlot
    <3> QED
      BY <2>1, <3>1 DEF Blocks
  <2> QED
    BY <2>1, <2>2
<1>3. CASE b \in {Block(k, i) : k \in {"Pose", "SpeedBias"}, i \in {0, 1}}
  <2>1. PICK k \in {"Pose", "SpeedBias"}, i \in {0, 1} : b = Block(k, i)
    BY <1>3
  <2>2. i \in Slots
    BY NewestSlot
  <2> QED
    BY <1>1, <2>1, <2>2
<1>4. CASE b \in {Block("Pose", i) :
                    i \in UNION {0..EndFrame(feature[id]) :
                                   id \in {g \in UsedIn(feature) : feature[g].start = 0}}}
  <2>1. PICK id \in Known : \E i \in 0..EndFrame(feature[id]) : b = Block("Pose", i)
    BY <1>4 DEF UsedIn, Known
  <2>i. PICK i \in 0..EndFrame(feature[id]) : b = Block("Pose", i)
    BY <2>1
  <2>2. EndFrame(feature[id]) \in Int /\ EndFrame(feature[id]) <= W
    BY SMTT(30), NewestSlot, KnownFeature
  <2>3. i \in Slots
    BY <2>2, NewestSlot
  <2> QED
    BY <1>1, <2>i, <2>3
<1> QED
  BY <1>2, <1>3, <1>4 DEF TouchFirst

\* The prior's blocks are those of the frames in their slots, or about to be.
LEMMA PriorNext ==
  ASSUME TypeInv, PhaseInv, FeatureInv, PriorInv, Next
  PROVE  PriorInv'
<1>t. Headers \in [Slots -> Nat] /\ marginalization_flag \in {"OLD", "SECOND_NEW"}
  BY DEF TypeInv
<1>1. ASSUME NEW ids \in SUBSET Ids, NEW flag, AddImage(ids, flag)
      PROVE  PriorInv'
  <2>1. /\ prior' = prior /\ solver_flag' = solver_flag /\ phase \in {"image", "relo_set"}
        /\ phase' \notin {"slide", "detect"}
        /\ Headers' = [Headers EXCEPT ![frame_count] = now + 1]
    BY <1>1 DEF AddImage
  <2>2. ASSUME NEW b \in prior
        PROVE  /\ b \in [kind : {"Pose", "SpeedBias"}, idx : 0..(W - 1), stamp : Nat]
               /\ b.kind = "SpeedBias" => b.idx = 0
               /\ b.stamp = Headers'[b.idx]
    <3>1. frame_count = W
      BY DEF PhaseInv, PriorInv
    <3>2. /\ b \in [kind : {"Pose", "SpeedBias"}, idx : 0..(W - 1), stamp : Nat]
          /\ b.kind = "SpeedBias" => b.idx = 0
          /\ b.stamp = Headers[b.idx]
      BY <2>1 DEF PriorInv
    <3>3. b.idx \in 0..(W - 1)
      BY <3>2
    <3>4. b.idx \in Slots /\ b.idx # W
      BY <3>3, NewestSlot
    <3>5. Headers'[b.idx] = Headers[b.idx]
      BY <1>t, <2>1, <3>1, <3>4
    <3> QED
      BY <3>2, <3>5
  <2>3. solver_flag' = "INITIAL" => prior' = {}
    BY <2>1 DEF PriorInv
  <2> QED
    BY <2>1, <2>2, <2>3 DEF PriorInv
<1>2. ASSUME NEW bad, Optimize(bad)
      PROVE  PriorInv'
  <2>1. /\ phase \in {"first_optimize", "optimize"} /\ phase' \in {"slide", "detect"}
        /\ UNCHANGED <<solver_flag, Headers, marginalization_flag>>
        /\ prior' = IF marginalization_flag = "OLD" THEN PriorWithoutOldest ELSE PriorWithoutSecondNewest
    BY <1>2 DEF Optimize, window
  <2>2. solver_flag' = "NON_LINEAR"
    BY <2>1 DEF PhaseInv
  <2>3. ASSUME NEW b \in prior'
        PROVE  /\ b \in [kind : {"Pose", "SpeedBias"}, idx : 0..(W - 1), stamp : Nat]
               /\ b.kind = "SpeedBias" => b.idx = 0
               /\ b.stamp = Slid(b.idx)
               /\ marginalization_flag = "SECOND_NEW" => b.idx < W - 1
    <3>1. CASE marginalization_flag = "OLD"
      <4>1. PICK c \in TouchFirst : c.idx # 0 /\ b = Down(c)
        BY <2>1, <2>3, <3>1 DEF PriorWithoutOldest
      <4>2. /\ c \in Blocks /\ c.stamp = Headers[c.idx]
            /\ c.kind = "SpeedBias" => c.idx \in {0, 1}
        BY <2>1, <4>1, TouchedBlocks
      <4>3. PICK k \in {"Pose", "SpeedBias"}, i \in 0..W, t \in Nat :
              k = c.kind /\ i = c.idx /\ t = c.stamp
        BY <4>2, NewestSlot DEF Blocks
      <4>4. c = [kind |-> k, idx |-> i, stamp |-> t]
        BY <4>2, <4>3 DEF Blocks
      <4>5. b = [c EXCEPT !.idx = c.idx - 1]
        BY <4>1 DEF Down
      <4>6. b = [kind |-> k, idx |-> i - 1, stamp |-> t]
        BY <4>3, <4>4, <4>5
      <4>7. i - 1 \in 0..(W - 1) /\ (i - 1) + 1 = i
        BY <4>1, <4>3
      <4>8. k = "SpeedBias" => i - 1 = 0
        BY <4>1, <4>2, <4>3
      <4>9. Slid(i - 1) = t
        BY <3>1, <4>2, <4>3, <4>7 DEF Slid
      <4>10. b.kind = k /\ b.idx = i - 1 /\ b.stamp = t
        BY <4>6
      <4>11. b \in [kind : {"Pose", "SpeedBias"}, idx : 0..(W - 1), stamp : Nat]
        BY <4>6, <4>7
      <4> QED
        BY <3>1, <4>8, <4>9, <4>10, <4>11
    <3>2. CASE marginalization_flag # "OLD"
      <4>1. \A c \in prior :
              /\ c \in [kind : {"Pose", "SpeedBias"}, idx : 0..(W - 1), stamp : Nat]
              /\ c.kind = "SpeedBias" => c.idx = 0
              /\ c.stamp = Headers[c.idx]
        BY <2>1 DEF PriorInv
      <4>2. b \in prior /\ ~(b.kind = "Pose" /\ b.idx = W - 1)
        <5>1. CASE \A c \in prior : ~(c.kind = "Pose" /\ c.idx = W - 1)
          BY <2>1, <2>3, <3>2, <5>1 DEF PriorWithoutSecondNewest
        <5>2. CASE ~ \A c \in prior : ~(c.kind = "Pose" /\ c.idx = W - 1)
          <6>1. PICK c \in prior : /\ ~(c.kind = "Pose" /\ c.idx = W - 1)
                                   /\ b = IF c.idx = W THEN Down(c) ELSE c
            BY <2>1, <2>3, <3>2, <5>2 DEF PriorWithoutSecondNewest
          <6>2. c.idx \in 0..(W - 1)
            BY <4>1
          <6>3. c.idx # W
            BY <6>2
          <6> QED
            BY <6>1, <6>3
        <5> QED
          BY <5>1, <5>2
      <4>3. b.kind \in {"Pose", "SpeedBias"} /\ b.idx \in 0..(W - 1)
        BY <4>1, <4>2
      <4>4. b.idx < W - 1
        <5>1. CASE b.kind = "Pose"
          BY <4>2, <4>3, <5>1
        <5>2. CASE b.kind = "SpeedBias"
          BY <4>1, <4>2, <5>2
        <5> QED
          BY <4>3, <5>1, <5>2
      <4> QED
        BY <3>2, <4>1, <4>2, <4>4 DEF Slid
    <3> QED
      BY <3>1, <3>2
  <2>4. \A b \in prior' : (Slid(b.idx))' = Slid(b.idx)
    BY <2>1 DEF Slid
  <2> QED
    BY <2>1, <2>2, <2>3, <2>4 DEF PriorInv
<1>3. CASE SlideWindow
  <2>1. /\ prior' = prior /\ solver_flag' = solver_flag /\ phase \in {"slide", "detect"}
        /\ phase' = "idle" /\ (SlideOld \/ SlideSecondNew)
    BY <1>3 DEF SlideWindow
  <2>2. ASSUME NEW b \in prior
        PROVE  /\ b \in [kind : {"Pose", "SpeedBias"}, idx : 0..(W - 1), stamp : Nat]
               /\ b.kind = "SpeedBias" => b.idx = 0
               /\ b.stamp = Headers'[b.idx]
    <3>1. /\ b \in [kind : {"Pose", "SpeedBias"}, idx : 0..(W - 1), stamp : Nat]
          /\ b.kind = "SpeedBias" => b.idx = 0
          /\ b.stamp = Slid(b.idx)
          /\ marginalization_flag = "SECOND_NEW" => b.idx < W - 1
      BY <2>1 DEF PriorInv
    <3>2. b.idx \in 0..(W - 1)
      BY <3>1
    <3>3. Headers'[b.idx] = Slid(b.idx)
      <4>1. CASE marginalization_flag = "OLD"
        BY <2>1, <3>2, <4>1, SlidHeaders DEF Slid
      <4>2. CASE marginalization_flag = "SECOND_NEW"
        <5>1. b.idx \in 0..(W - 2)
          BY <3>1, <3>2, <4>2
        <5> QED
          BY <2>1, <5>1, SlidHeaders
      <4> QED
        BY <1>t, <4>1, <4>2
    <3> QED
      BY <3>1, <3>3
  <2>3. solver_flag' = "INITIAL" => prior' = {}
    BY <2>1 DEF PriorInv
  <2> QED
    BY <2>1, <2>2, <2>3 DEF PriorInv
<1>4. CASE ClearState
  BY <1>4 DEF ClearState, PriorInv
<1>5. CASE NotInitialized \/ Initialized
  <2>1. prior = {} /\ prior' = prior
    BY <1>5 DEF NotInitialized, Initialized, PhaseInv, PriorInv
  <2> QED
    BY <2>1 DEF PriorInv
<1>6. ASSUME NEW s, ProcessIMU \/ SetReloFrame(s)
      PROVE  PriorInv'
  <2>1. UNCHANGED <<prior, solver_flag, Headers>> /\ phase \notin {"slide", "detect"}
          /\ phase' \notin {"slide", "detect"}
    BY <1>6 DEF ProcessIMU, SetReloFrame, window
  <2> QED
    BY <2>1 DEF PriorInv
<1>7. CASE Finished
  BY <1>7 DEF Finished, vars, PriorInv, Slid
<1> QED
  BY <1>1, <1>2, <1>3, <1>4, <1>5, <1>6, <1>7 DEF Next, FailureDetected, Restart

\* A pending relocalization stays about its keyframe's slot, or about a keyframe that no slot
\* holds.
LEMMA ReloNext ==
  ASSUME TypeInv, PhaseInv, HeadersInv, ReloInv, Next
  PROVE  ReloInv'
<1>t. /\ Headers \in [Slots -> Nat] /\ resets \in Nat /\ relo \in [info : BOOLEAN, index : Slots, stamp : Nat]
      /\ now \in Nat /\ keyframes \subseteq Nat /\ frame_count \in 0..W /\ W \in Nat
  BY DEF TypeInv, Slots
<1>e. phase # "first_optimize" => (Early <=> solver_flag = "INITIAL")
  BY DEF Early
<1>1. ASSUME NEW s \in keyframes, SetReloFrame(s)
      PROVE  ReloInv'
  <2>1. /\ UNCHANGED <<keyframes, solver_flag, Headers, resets, now, frame_count>>
        /\ phase' = "relo_set" /\ phase = "image"
    BY <1>1 DEF SetReloFrame, window
  <2>2. (Early' <=> Early) /\ Newest' = Newest
    BY <2>1 DEF Early, Newest, Full
  <2>3. ~Early => ~relo.info
    BY <2>1 DEF ReloInv
  <2>4. CASE relo' = [relo EXCEPT !.stamp = s]
    <3>1. relo'.info = relo.info /\ relo'.stamp = s
      BY <1>t, <2>4
    <3> QED
      BY <2>1, <2>2, <2>3, <3>1 DEF ReloInv
  <2>5. ASSUME NEW i \in 0..(W - 1), Headers[i] = s, relo' = [info |-> TRUE, stamp |-> s, index |-> i]
        PROVE  ReloInv'
    <3>1. relo'.stamp = s /\ relo'.index < W /\ Headers[relo'.index] = relo'.stamp
      BY <1>t, <2>5
    <3> QED
      BY <2>1, <2>2, <3>1 DEF ReloInv
  <2> QED
    BY <1>1, <2>4, <2>5, ReloSlot
<1>2. ASSUME NEW ids \in SUBSET Ids, NEW flag, AddImage(ids, flag)
      PROVE  ReloInv'
  <2>1. /\ UNCHANGED <<keyframes, solver_flag, relo, resets>>
        /\ Headers' = [Headers EXCEPT ![frame_count] = now + 1]
        /\ now' = now + 1 /\ phase \in {"image", "relo_set"}
        /\ IF solver_flag = "INITIAL" /\ frame_count < W
             THEN frame_count' = frame_count + 1 /\ phase' = "idle"
             ELSE /\ frame_count' = frame_count
                  /\ phase' = IF solver_flag = "INITIAL" THEN "initialize" ELSE "optimize"
    BY <1>2 DEF AddImage, counters
  <2>2. Early' <=> Early
    BY <2>1 DEF Early
  <2>3. \A s \in keyframes : s <= now'
    BY <1>t, <2>1 DEF ReloInv
  <2>4. ASSUME Early PROVE \A s \in keyframes : \A i \in 0..Newest' : s < Headers'[i]
    <3>1. solver_flag = "INITIAL" /\ Newest = frame_count - 1
      BY <2>1, <2>4 DEF Early, Newest, Full
    <3>2. Newest' = frame_count
      BY <1>t, <2>1, <3>1 DEF Newest, Full
    <3>3. ASSUME NEW s \in keyframes, NEW i \in 0..frame_count PROVE s < Headers'[i]
      <4>1. CASE i = frame_count
        <5>1. Headers'[i] = now + 1 /\ s <= now
          BY <1>t, <2>1, <4>1 DEF ReloInv, Slots
        <5> QED
          BY <1>t, <5>1
      <4>2. CASE i # frame_count
        <5>1. i \in 0..Newest /\ i \in Slots
          BY <1>t, <3>1, <4>2 DEF Slots
        <5>2. Headers'[i] = Headers[i]
          BY <1>t, <2>1, <4>2, <5>1
        <5> QED
          BY <2>4, <5>1, <5>2 DEF ReloInv
      <4> QED
        BY <4>1, <4>2
    <3> QED
      BY <3>2, <3>3
  <2>5. ASSUME relo.info, ~Early
        PROVE  phase' = "optimize" /\ relo.index < W /\ Headers'[relo.index] = relo.stamp
    <3>1. solver_flag = "NON_LINEAR" /\ relo.index < W /\ Headers[relo.index] = relo.stamp
      BY <2>5 DEF ReloInv, Early, PhaseInv
    <3>2. frame_count = W /\ relo.index \in Slots
      BY <1>t, <3>1 DEF PhaseInv
    <3>3. relo.index # W
      BY <3>1, NewestSlot
    <3>4. Headers'[relo.index] = Headers[relo.index]
      BY <1>t, <2>1, <3>2, <3>3
    <3> QED
      BY <2>1, <3>1, <3>4
  <2> QED
    BY <2>1, <2>2, <2>3, <2>4, <2>5 DEF ReloInv
<1>3. ASSUME NEW bad, Optimize(bad)
      PROVE  ReloInv'
  <2>1. /\ UNCHANGED <<keyframes, solver_flag, resets, now>> /\ relo' = [relo EXCEPT !.info = FALSE]
        /\ phase \in {"first_optimize", "optimize"} /\ phase' \in {"slide", "detect"}
    BY <1>3 DEF Optimize, ReloUsed, counters
  <2>2. ~relo'.info /\ ~Early'
    BY <1>t, <2>1 DEF Early, PhaseInv
  <2> QED
    BY <2>1, <2>2 DEF ReloInv
<1>4. CASE FailureDetected \/ Restart
  <2>1. /\ resets' = resets + 1 /\ frame_count' = 0 /\ phase' = "idle" /\ UNCHANGED <<now, keyframes>>
        /\ relo' = [relo EXCEPT !.info = FALSE]
    BY <1>4 DEF FailureDetected, Restart, ClearState
  <2>2. resets' # 0 /\ ~relo'.info /\ Newest' = -1
    BY <1>t, <2>1 DEF Newest, Full
  <2>3. \A i \in 0..Newest' : FALSE
    BY <2>2
  <2> QED
    BY <2>1, <2>2, <2>3 DEF ReloInv
<1>5. CASE SlideWindow
  <2>1. /\ UNCHANGED <<solver_flag, relo, resets, now, frame_count>> /\ phase \in {"slide", "detect"} /\ phase' = "idle"
        /\ keyframes' = keyframes \/ (solver_flag = "NON_LINEAR" /\ keyframes' = keyframes \cup {Headers'[W - 2]})
        /\ \/ Headers' = ShiftedHeaders
           \/ Headers' = [Headers EXCEPT ![W - 1] = Headers[W]]
    BY <1>5 DEF SlideWindow, SlideOld, SlideSecondNew, counters
  <2>2. (Early' <=> Early) /\ (Early <=> solver_flag = "INITIAL") /\ Newest = W /\ Newest' = W - 1
    BY <2>1 DEF Early, Newest, Full, PhaseInv
  <2>3. \A i \in 0..(W - 1) : \E j \in 0..W : Headers'[i] = Headers[j]
    <3> TAKE i \in 0..(W - 1)
    <3>1. i \in Slots /\ i + 1 \in 0..W /\ i \in 0..W /\ i < W /\ W - 1 \in Slots /\ W \in 0..W
      BY DEF Slots
    <3>2. CASE Headers' = ShiftedHeaders
      <4>1. Headers'[i] = Headers[i + 1]
        BY <3>1, <3>2 DEF ShiftedHeaders
      <4> QED
        BY <3>1, <4>1
    <3>3. CASE Headers' = [Headers EXCEPT ![W - 1] = Headers[W]]
      <4>1. Headers'[i] = Headers[i] \/ Headers'[i] = Headers[W]
        BY <1>t, <3>1, <3>3
      <4> QED
        BY <3>1, <4>1
    <3> QED
      BY <2>1, <3>2, <3>3
  <2>4. \A j \in 0..W : Headers[j] <= now
    <3>1. Headers[W] = now /\ \A i, j \in 0..W : i < j => Headers[i] < Headers[j]
      BY <2>2 DEF HeadersInv
    <3>2. \A j \in 0..W : j = W \/ j < W
      OBVIOUS
    <3>3. W \in 0..W /\ \A j \in 0..W : Headers[j] \in Nat
      BY <1>t DEF Slots
    <3> QED
      BY <3>1, <3>2, <3>3
  <2>5. \A s \in keyframes' : s <= now
    <3>1. W - 2 \in 0..(W - 1)
      OBVIOUS
    <3>2. Headers'[W - 2] <= now
      BY <2>3, <2>4, <3>1
    <3> QED
      BY <2>1, <3>2 DEF ReloInv
  <2>6. Early => \A s \in keyframes' : \A i \in 0..Newest' : s < Headers'[i]
    BY <2>1, <2>2, <2>3 DEF ReloInv
  <2>7. relo.info => Early
    BY <2>1 DEF ReloInv
  <2> QED
    BY <2>1, <2>2, <2>5, <2>6, <2>7 DEF ReloInv
<1>6. CASE NotInitialized \/ Initialized
  <2>1. /\ UNCHANGED <<keyframes, relo, resets, now, Headers>> /\ phase = "initialize" /\ solver_flag = "INITIAL"
        /\ (phase' = "slide" /\ solver_flag' = "INITIAL") \/ phase' = "first_optimize"
    BY <1>6 DEF NotInitialized, Initialized, PhaseInv, counters, window
  <2>2. Early /\ Early' /\ Newest' = Newest
    BY <2>1 DEF Early, Newest, Full
  <2> QED
    BY <2>1, <2>2 DEF ReloInv
<1>7. CASE ProcessIMU
  <2>1. /\ UNCHANGED <<keyframes, relo, resets, solver_flag, now, Headers, frame_count>>
        /\ phase = "idle" /\ phase' = "image"
    BY <1>7 DEF ProcessIMU, counters
  <2>2. (Early' <=> Early) /\ Newest' = Newest
    BY <2>1 DEF Early, Newest, Full
  <2> QED
    BY <2>1, <2>2 DEF ReloInv
<1>8. CASE Finished
  BY <1>8 DEF Finished, vars, ReloInv, Early, Newest, Full
<1> QED
  BY <1>1, <1>2, <1>3, <1>4, <1>5, <1>6, <1>7, <1>8 DEF Next

-----------------------------------------------------------------------------
(* The invariant *)

\* The invariant holds at the start.
LEMMA InitIInv ==
  ASSUME Init
  PROVE  IInv
<1>1. phase = "idle" /\ now = 0 /\ frame_count = 0 /\ Newest = -1 /\ 0 \in Slots
  BY DEF Init, Newest, Full, Slots
<1>2. TypeInv
  <2>1. NoRelo \in [info : BOOLEAN, index : Slots, stamp : Nat]
    BY <1>1 DEF NoRelo
  <2> QED
    BY <1>1, <2>1 DEF Init, TypeInv
<1>3. PhaseInv
  BY <1>1 DEF Init, PhaseInv, Waiting, Full
<1>4. HeadersInv
  BY <1>1 DEF HeadersInv
<1>5. ImagesInv
  BY <1>1 DEF Init, ImagesInv
<1>6. ImuInv
  <2>1. pre_integrations \in [Slots -> Intervals \cup {NULL}] /\ dt_buf \in [Slots -> Intervals]
    BY DEF Init, Intervals
  <2>2. \A j \in 1..W : pre_integrations[j] = NULL /\ dt_buf[j] = {}
    BY DEF Init, Slots
  <2> QED
    BY <1>1, <2>1, <2>2 DEF ImuInv
<1>7. FeatureInv /\ PriorInv
  BY DEF Init, FeatureInv, Known, PriorInv
<1>8. ReloInv
  BY DEF Init, ReloInv, NoRelo, TypeInv
<1> QED
  BY <1>2, <1>3, <1>4, <1>5, <1>6, <1>7, <1>8 DEF IInv

\* Every step keeps the invariant.
LEMMA IInvNext ==
  ASSUME IInv, [Next]_vars
  PROVE  IInv'
<1> USE DEF IInv
<1>1. CASE Next
  BY <1>1, TypeNext, PhaseNext, HeadersNext, ImagesNext, ImuNext, FeatureNext, PriorNext, ReloNext
<1>2. CASE UNCHANGED vars
  <2> USE <1>2 DEF vars
  <2>1. TypeInv' /\ PhaseInv' /\ ReloInv'
    BY DEF TypeInv, PhaseInv, Waiting, Full, ReloInv, Early, Newest
  <2>2. HeadersInv' /\ ImagesInv' /\ ImuInv'
    BY DEF HeadersInv, ImagesInv, ImuInv, Newest, Full
  <2>3. FeatureInv'
    BY DEF FeatureInv, Known, EndFrame, Newest, Full
  <2>4. PriorInv'
    BY DEF PriorInv, Slid
  <2> QED
    BY <2>1, <2>2, <2>3, <2>4
<1> QED
  BY <1>1, <1>2

\* The structures of the window fit together in every reachable state.
THEOREM Invariance == Spec => []IInv
<1>1. Init => IInv
  BY InitIInv
<1>2. IInv /\ [Next]_vars => IInv'
  BY IInvNext
<1> QED
  BY <1>1, <1>2, PTL DEF Spec

-----------------------------------------------------------------------------
(* What the window promises *)

\* An observation stands in the slot of the image it was made in: removeBack,
\* removeBackShiftDepth, removeFront and slideWindow shift features and headers alike.
THEOREM ObservationsInTheirSlots == Spec => []FeaturesAligned
<1>1. IInv => FeaturesAligned
  <2>1. SUFFICES ASSUME IInv,
                        NEW id \in Known
                 PROVE  /\ feature[id].obs # <<>>
                        /\ EndFrame(feature[id]) <= W
                        /\ \A k \in DOMAIN feature[id].obs :
                             Headers[feature[id].start + k - 1] = feature[id].obs[k]
    BY DEF FeaturesAligned
  <2>2. TypeInv /\ PhaseInv /\ FeatureInv
    BY <2>1 DEF IInv
  <2>3. /\ feature[id].obs \in Seq(Nat) /\ feature[id].obs # <<>>
        /\ EndFrame(feature[id]) \in Int /\ EndFrame(feature[id]) <= Newest
        /\ \A k \in 1..Len(feature[id].obs) :
             Headers[feature[id].start + k - 1] = feature[id].obs[k]
    BY <2>2, KnownFeature DEF FeatureInv
  <2>4. DOMAIN feature[id].obs = 1..Len(feature[id].obs)
    BY <2>3, LenProperties
  <2>5. Newest \in -1..W
    BY <2>2, NewestSlot
  <2> QED
    BY <2>3, <2>4, <2>5
<1> QED
  BY <1>1, Invariance, PTL

\* The IMU factor between two slots covers exactly the time between their frames, and its
\* replay buffer holds what it covers, after any shifts and replays of slideWindow.
THEOREM FactorsSpanTheirFrames == Spec => []ImuFactorsSpan
<1>1. IInv => ImuFactorsSpan
  <2>1. SUFFICES ASSUME IInv, Solving, NEW j \in 1..W
                 PROVE  /\ pre_integrations[j] = (Headers[j - 1] + 1)..Headers[j]
                        /\ dt_buf[j] = pre_integrations[j]
    BY DEF ImuFactorsSpan
  <2>2. Newest = W
    BY <2>1 DEF Solving, Newest, Full
  <2> QED
    BY <2>1, <2>2 DEF IInv, ImuInv
<1> QED
  BY <1>1, Invariance, PTL

\* What processIMU, initialStructure and slideWindow look up or dereference without a test is
\* there.
THEOREM NothingIsMissing == Spec => []LookupsSucceed
<1>1. IInv => LookupsSucceed
  <2>1. SUFFICES ASSUME IInv
                 PROVE  LookupsSucceed
    OBVIOUS
  <2>n. \A intervals \in Intervals : intervals # NULL
    BY NullAssumption DEF Intervals
  <2>2. ASSUME Solving
        PROVE  /\ \A i \in Slots : Headers[i] \in DOMAIN all_image_frame
               /\ \A i \in 1..W : Headers[i - 1] < Headers[i]
               /\ Headers[W] = now
    <3>1. Newest = W /\ Slots = 0..W
      BY <2>2 DEF Solving, Newest, Full, Slots
    <3>2. \A i \in 1..W : i - 1 \in 0..W /\ i \in 0..W /\ i - 1 < i
      OBVIOUS
    <3>3. \A i \in 1..W : Headers[i - 1] < Headers[i]
      BY <2>1, <3>1, <3>2 DEF IInv, HeadersInv
    <3> QED
      BY <2>1, <3>1, <3>3 DEF IInv, HeadersInv, ImagesInv
  <2>3. frame_count # 0 => tmp_pre_integration # NULL
    BY <2>1, <2>n DEF IInv, ImagesInv
  <2>4. \A s \in DOMAIN all_image_frame :
          (\E u \in DOMAIN all_image_frame : u < s) => all_image_frame[s] # NULL
    BY <2>1, <2>n DEF IInv, ImagesInv
  <2> QED
    BY <2>2, <2>3, <2>4 DEF LookupsSucceed
<1> QED
  BY <1>1, Invariance, PTL

\* Every block of the prior constrains the frame it was linearised for, it is never the newest
\* frame's, and of the speeds and biases only the oldest is held: the assertion of optimization
\* (estimator.cpp:964) never fires.
THEOREM PriorInItsSlots == Spec => []PriorAligned
<1>1. IInv => PriorAligned
  <2>1. SUFFICES ASSUME IInv, Solving, NEW b \in prior
                 PROVE  b.stamp = Headers[b.idx] /\ b.idx < W /\ (b.kind = "SpeedBias" => b.idx = 0)
    BY DEF PriorAligned
  <2>2. /\ b \in [kind : {"Pose", "SpeedBias"}, idx : 0..(W - 1), stamp : Nat]
        /\ b.kind = "SpeedBias" => b.idx = 0
        /\ b.stamp = Headers[b.idx]
    BY <2>1 DEF IInv, PriorInv, Solving
  <2>3. b.idx \in 0..(W - 1)
    BY <2>2
  <2> QED
    BY <2>2, <2>3
<1> QED
  BY <1>1, Invariance, PTL

\* The slot of a relocalization that a non-linear window uses holds the keyframe the pose graph
\* has matched, over any slides, failures and resets; the first optimisation of a window has one
\* only after a reset, and then about a keyframe that no slot holds (RelocalizationAligned).
THEOREM RelocalizationInItsSlot == Spec => []RelocalizationAligned
<1>1. IInv => RelocalizationAligned
  <2> SUFFICES ASSUME IInv PROVE RelocalizationAligned
    OBVIOUS
  <2>1. phase = "optimize" => ~Early
    BY DEF IInv, PhaseInv, Early
  <2>2. ASSUME phase = "first_optimize", relo.info
        PROVE  resets > 0 /\ \A i \in Slots : Headers[i] # relo.stamp
    <3>1. Early /\ Newest = W
      BY <2>2 DEF Early, Newest, Full
    <3>2. relo.stamp \in keyframes
      BY <2>2 DEF IInv, ReloInv
    <3>3. resets # 0 /\ \A i \in 0..W : relo.stamp < Headers[i]
      BY <3>1, <3>2 DEF IInv, ReloInv
    <3>4. resets \in Nat /\ relo.stamp \in Nat /\ \A i \in Slots : Headers[i] \in Nat
      BY DEF IInv, TypeInv
    <3> QED
      BY <3>3, <3>4 DEF Slots
  <2> QED
    BY <2>1, <2>2 DEF IInv, ReloInv, RelocalizationAligned
<1> QED
  BY <1>1, Invariance, PTL
=============================================================================
