--------------------------- MODULE LibrariesProofs ---------------------------
(***************************************************************************)
(* Theorems about the algorithms the nodes call, for every size of the     *)
(* window, every set of landmarks and every number of threads.             *)
(***************************************************************************)
EXTENDS Libraries, FiniteSetTheorems, SequenceTheorems, WellFoundedInduction, TLAPS

-----------------------------------------------------------------------------
(* The initial structure: its inductive invariant *)

Before == {"window", "calibrate", "relativePose"}
Frames == 0..W
Sighting == [first : Frames, last : Frames]

SfmTypeInv ==
  /\ sfmPc \in Before \cup {"forward", "across", "backward", "adjust", "images", "done", "failed"}
  /\ headers \in [Frames -> Nat] /\ seen \in [Landmarks -> Sighting]
  /\ posed \subseteq Frames /\ support \in [Landmarks -> SUBSET Frames]
  /\ at \in Int /\ ref \in Int /\ keyOf \in Int

\* The window found is the one of every later step.
WindowInv ==
  sfmPc # "window" =>
    /\ headers \in Sfm!Windows
    /\ \A f \in Landmarks : seen[f].first <= seen[f].last
    /\ source \in [headers[0]..headers[W] -> {"none", "frame", "pnp"}]

\* A landmark comes from frames that have a pose and observe it.
SupportInv ==
  \A f \in Landmarks :
    /\ sfmPc \in Before => support[f] = {}
    /\ support[f] \subseteq posed
    /\ \A i \in support[f] : Sfm!Observes(f, i)

\* Each loop has posed the frames it has come past, from the reference frame up
\* and then down.
PosedInv ==
  /\ sfmPc \in {"forward", "across", "backward"} => ref \in 0..(W - 1)
  /\ sfmPc = "forward" => at \in ref..W /\ posed = (ref..(at - 1)) \cup {ref, W}
  /\ sfmPc = "across" => at \in (ref + 1)..W /\ posed = ref..W
  /\ sfmPc = "backward" => at \in -1..(ref - 1) /\ posed = (at + 1)..W
  /\ sfmPc \in {"adjust", "images", "done"} => posed = Frames

\* The images before the current one are posed, those of the frames before the
\* current key as frames and no others.
ImagesInv ==
  /\ sfmPc \in Before \cup {"forward", "across", "backward", "adjust"} => keyOf = 0
  /\ sfmPc = "images" =>
       /\ keyOf \in 0..(W + 1) /\ at \in 0..(headers[W] + 1)
       /\ keyOf \in Frames => at <= headers[keyOf]
       /\ keyOf = W + 1 => at = headers[W] + 1
       /\ \A i \in Frames : i < keyOf => headers[i] < at
       /\ \A m \in Sfm!Images : m < at =>
            source[m] = IF \E i \in Frames : i < keyOf /\ headers[i] = m THEN "frame" ELSE "pnp"
  /\ sfmPc = "done" =>
       \A m \in Sfm!Images : source[m] = IF \E i \in Frames : headers[i] = m THEN "frame" ELSE "pnp"

SfmInv == SfmTypeInv /\ WindowInv /\ SupportInv /\ PosedInv /\ ImagesInv

-----------------------------------------------------------------------------
(* Windows *)

\* The frames of a window are at least as far apart as their indices.
LEMMA FramesApart ==
  ASSUME NEW h \in Sfm!Windows, NEW i \in Frames, NEW j \in Frames, i <= j
  PROVE  h[j] - h[i] >= j - i
<1>0. W \in Nat /\ h \in [Frames -> Int] /\ \A k \in 1..W : h[k - 1] < h[k]
  BY WindowAssumption DEF Sfm!Windows, Sfm!Frames, Frames
<1> DEFINE Bad == {k \in Nat : k \in Frames /\ i <= k /\ h[k] - h[i] < k - i}
<1>1. SUFFICES ASSUME j \in Bad PROVE FALSE
  BY <1>0, <1>1 DEF Frames
<1>2. PICK k \in Bad : \A l \in Bad : ~ (l < k)
  <2>1. PICK k \in Bad : \A l \in Bad : <<l, k>> \notin OpToRel(<, Nat)
    BY <1>1, NatLessThanWellFounded, WFMin, Zenon
  <2> QED  BY <2>1 DEF OpToRel
<1>3. k # i
  BY <1>0, <1>2
<1>4. k - 1 \in Frames /\ i <= k - 1 /\ k - 1 \in Nat /\ k \in 1..W
  BY <1>0, <1>2, <1>3 DEF Frames
<1>5. k - 1 \notin Bad
  BY <1>2, <1>4
<1>6. h[k - 1] - h[i] >= k - 1 - i
  BY <1>0, <1>4, <1>5 DEF Frames
<1>7. h[k - 1] < h[k]
  BY <1>0, <1>4
<1>8. h[k] - h[i] < k - i /\ h[k] \in Int /\ h[k - 1] \in Int /\ h[i] \in Int
  BY <1>0, <1>2, <1>4
<1>9. k \in Int /\ i \in Int
  BY <1>0, <1>2 DEF Frames
<1> HIDE DEF Bad
<1> QED  BY <1>6, <1>7, <1>8, <1>9

\* Their stamps are in the order of their indices.
LEMMA WindowOrdered ==
  ASSUME NEW h \in Sfm!Windows
  PROVE  /\ h \in [Frames -> Nat] /\ h[0] = 0 /\ 0 \in Frames /\ W \in Frames
         /\ \A i, j \in Frames : i < j => h[i] < h[j]
         /\ \A i \in Frames : i <= h[i] /\ h[i] <= h[W]
<1>0. W \in Nat /\ h \in [Frames -> Nat] /\ h[0] = 0 /\ 0 \in Frames /\ W \in Frames
  BY WindowAssumption DEF Sfm!Windows, Sfm!Frames, Frames
<1>1. ASSUME NEW i \in Frames, NEW j \in Frames, i < j PROVE h[i] < h[j]
  <2>0. i <= j
    BY <1>0, <1>1 DEF Frames
  <2>1. h[j] - h[i] >= j - i
    BY <2>0, FramesApart
  <2>2. h[i] \in Nat /\ h[j] \in Nat
    BY <1>0
  <2> QED  BY <2>1, <2>2, <1>1, <1>0 DEF Frames
<1>2. ASSUME NEW i \in Frames PROVE i <= h[i] /\ h[i] <= h[W]
  <2>0. 0 <= i /\ i <= W
    BY <1>0 DEF Frames
  <2>1. h[i] - h[0] >= i - 0
    BY <1>0, <2>0, FramesApart
  <2>2. h[W] - h[i] >= W - i
    BY <1>0, <2>0, FramesApart
  <2>3. h[i] \in Nat /\ h[W] \in Nat
    BY <1>0
  <2> QED  BY <2>1, <2>2, <2>3, <1>0 DEF Frames
<1> QED  BY <1>0, <1>1, <1>2

-----------------------------------------------------------------------------
(* The steps of the initial structure *)

LEMMA SfmInitial == Sfm!Init => SfmInv
<1> SUFFICES ASSUME Sfm!Init PROVE SfmInv
  OBVIOUS
<1> USE WindowAssumption DEF Sfm!Init, Sfm!Frames, Sfm!NoFrame, Frames, Before
<1>1. SfmTypeInv
  BY DEF SfmTypeInv, Sighting
<1>2. WindowInv /\ SupportInv /\ PosedInv /\ ImagesInv
  BY DEF WindowInv, SupportInv, PosedInv, ImagesInv
<1> QED  BY <1>1, <1>2 DEF SfmInv

LEMMA SfmStutter ==
  SfmInv /\ UNCHANGED Sfm!vars => SfmInv'
BY DEF SfmInv, SfmTypeInv, WindowInv, SupportInv, PosedInv, ImagesInv, Sfm!vars,
       Sfm!Observes, Sfm!Images

\* A full window is found, or another image of the calibration comes.
LEMMA SfmStart ==
  ASSUME SfmInv, Sfm!FullWindow \/ Sfm!CalibrationExRotation
  PROVE  SfmInv'
<1> USE DEF SfmInv, Before
<1>1. CASE Sfm!FullWindow
  <2> USE <1>1 DEF Sfm!FullWindow, Sfm!Goto
  <2>1. headers' \in [Frames -> Nat] /\ seen' \in [Landmarks -> Sighting]
    BY WindowAssumption DEF Sfm!Windows, Sfm!Sightings, Sfm!Frames, Frames, Sighting
  <2>2. SfmTypeInv'
    BY <2>1 DEF SfmTypeInv
  <2>3. \A f \in Landmarks : seen'[f].first <= seen'[f].last
    BY DEF Sfm!Sightings
  <2>4. WindowInv'
    BY <2>3 DEF WindowInv
  <2>5. SupportInv' /\ PosedInv' /\ ImagesInv'
    BY DEF SupportInv, PosedInv, ImagesInv
  <2> QED  BY <2>2, <2>4, <2>5
<1>2. CASE Sfm!CalibrationExRotation
  <2> USE <1>2 DEF Sfm!CalibrationExRotation, Sfm!Goto
  <2>1. SfmTypeInv' /\ WindowInv'
    BY DEF SfmTypeInv, WindowInv
  <2>2. SupportInv' /\ PosedInv' /\ ImagesInv'
    BY DEF SupportInv, PosedInv, ImagesInv
  <2> QED  BY <2>1, <2>2
<1> QED  BY <1>1, <1>2

LEMMA SfmReference ==
  ASSUME SfmInv, Sfm!RelativePose
  PROVE  SfmInv'
<1> USE DEF SfmInv, Before, Sfm!RelativePose, Sfm!Goto
<1>1. WindowInv' /\ ImagesInv'
  BY DEF WindowInv, ImagesInv, Sfm!Failed
<1>2. CASE \E l \in 0..(W - 1) : ref' = l /\ at' = l /\ posed' = {l, W} /\ sfmPc' = "forward"
  <2>1. PICK l \in 0..(W - 1) : ref' = l /\ at' = l /\ posed' = {l, W} /\ sfmPc' = "forward"
    BY <1>2
  <2>2. l \in Frames /\ W \in Frames /\ l \in Int /\ l..(l - 1) = {} /\ l \in l..W
    BY WindowAssumption DEF Frames
  <2>3. SfmTypeInv'
    BY <2>1, <2>2 DEF SfmTypeInv
  <2>4. SupportInv'
    BY DEF SupportInv, Sfm!Observes, Sfm!Failed
  <2>5. PosedInv'
    BY <2>1, <2>2 DEF PosedInv
  <2> QED  BY <1>1, <2>3, <2>4, <2>5
<1>3. CASE Sfm!Failed /\ UNCHANGED <<ref, posed>>
  <2>1. SfmTypeInv'
    BY <1>3 DEF SfmTypeInv, Sfm!Failed
  <2>2. SupportInv' /\ PosedInv'
    BY <1>3 DEF SupportInv, PosedInv, Sfm!Failed
  <2> QED  BY <1>1, <2>1, <2>2
<1> QED  BY <1>2, <1>3

\* What a triangulation gives is supported when both frames have a pose.
LEMMA TriangulatedSupported ==
  ASSUME SfmTypeInv, SupportInv, NEW i \in Frames, NEW j \in Frames, NEW P, posed \subseteq P, i \in P, j \in P
  PROVE  /\ Sfm!Triangulated(i, j) \in [Landmarks -> SUBSET Frames]
         /\ \A f \in Landmarks :
              /\ Sfm!Triangulated(i, j)[f] \subseteq P
              /\ \A k \in Sfm!Triangulated(i, j)[f] : Sfm!Observes(f, k)
<1>1. ASSUME NEW f \in Landmarks
      PROVE  /\ Sfm!Triangulated(i, j)[f] \in SUBSET Frames
             /\ Sfm!Triangulated(i, j)[f] \subseteq P
             /\ \A k \in Sfm!Triangulated(i, j)[f] : Sfm!Observes(f, k)
  <2>1. Sfm!Triangulated(i, j)[f] = IF support[f] = {} /\ f \in Sfm!Common(i, j) THEN {i, j} ELSE support[f]
    BY DEF Sfm!Triangulated
  <2>2. CASE support[f] = {} /\ f \in Sfm!Common(i, j)
    BY <2>1, <2>2 DEF Sfm!Common
  <2>3. CASE ~ (support[f] = {} /\ f \in Sfm!Common(i, j))
    BY <2>1, <2>3 DEF SupportInv, SfmTypeInv
  <2> QED  BY <2>2, <2>3
<1> QED  BY <1>1 DEF Sfm!Triangulated

\* From the reference frame to the newest one.
LEMMA SfmForward ==
  ASSUME SfmInv, Sfm!Forward
  PROVE  SfmInv'
<1> USE DEF SfmInv, Sfm!Forward, Sfm!Goto
<1>1. WindowInv' /\ ImagesInv'
  BY DEF WindowInv, ImagesInv, Before, Sfm!Failed
<1>2. ref \in 0..(W - 1) /\ at \in ref..W /\ at < W /\ posed = (ref..(at - 1)) \cup {ref, W}
  BY DEF PosedInv
<1>3. at \in Frames /\ W \in Frames /\ ref \in Frames /\ W \in Nat /\ at \in Int /\ ref \in Int
  BY <1>2, WindowAssumption DEF Frames
<1>4. CASE sfmPc' = "forward"
  <2>1. posed' = (ref..at) \cup {ref, W} /\ posed \subseteq posed'
    <3>1. CASE at = ref
      <4>1. posed' = posed /\ ref..at = {ref} /\ ref..(at - 1) = {}
        BY <1>3, <1>4, <3>1 DEF Sfm!Failed
      <4> QED  BY <1>2, <4>1
    <3>2. CASE at # ref
      <4>1. posed' = posed \cup {at}
        BY <1>4, <3>2 DEF Sfm!SolveFrameByPnP, Sfm!Failed
      <4>2. ref..at = (ref..(at - 1)) \cup {at}
        BY <1>2, <1>3
      <4> QED  BY <1>2, <4>1, <4>2
    <3> QED  BY <3>1, <3>2
  <2>2. at \in posed' /\ W \in posed' /\ posed' \subseteq Frames
    BY <1>2, <1>3, <2>1 DEF Frames
  <2>3. support' = Sfm!Triangulated(at, W) /\ at' = at + 1 /\ ref' = ref
    BY <1>4 DEF Sfm!Failed
  <2>4. /\ support' \in [Landmarks -> SUBSET Frames]
        /\ \A f \in Landmarks : support'[f] \subseteq posed' /\ \A k \in support'[f] : Sfm!Observes(f, k)
    BY <1>3, <2>1, <2>2, <2>3, TriangulatedSupported
  <2>5. SfmTypeInv'
    BY <1>3, <1>4, <2>2, <2>3, <2>4 DEF SfmTypeInv
  <2>6. SupportInv'
    BY <1>4, <2>4 DEF SupportInv, Before, Sfm!Observes
  <2>7. at' \in ref..W /\ at' - 1 = at
    BY <1>2, <1>3, <2>3
  <2>8. PosedInv'
    BY <1>2, <1>4, <2>1, <2>3, <2>7 DEF PosedInv
  <2> QED  BY <1>1, <2>5, <2>6, <2>8
<1>5. CASE sfmPc' = "failed"
  <2>1. SfmTypeInv'
    BY <1>5 DEF SfmTypeInv, Sfm!Failed
  <2>2. SupportInv' /\ PosedInv'
    BY <1>5 DEF SupportInv, PosedInv, Before, Sfm!Failed, Sfm!Observes
  <2> QED  BY <1>1, <2>1, <2>2
<1> QED  BY <1>4, <1>5 DEF Sfm!Failed

\* The reference frame with each later one.
LEMMA SfmAcross ==
  ASSUME SfmInv, Sfm!ForwardDone \/ Sfm!Across
  PROVE  SfmInv'
<1> USE DEF SfmInv, Sfm!Goto
<1>0. W \in Nat
  BY WindowAssumption
<1>1. CASE Sfm!ForwardDone
  <2> USE <1>1 DEF Sfm!ForwardDone
  <2>1. ref \in 0..(W - 1) /\ posed = (ref..(W - 1)) \cup {ref, W} /\ at' = ref + 1
    BY DEF PosedInv
  <2>2. posed = ref..W /\ at' \in (ref + 1)..W
    BY <1>0, <2>1
  <2>3. SfmTypeInv'
    BY <2>1 DEF SfmTypeInv
  <2>4. WindowInv' /\ ImagesInv' /\ SupportInv'
    BY DEF WindowInv, ImagesInv, SupportInv, Before, Sfm!Observes
  <2>5. PosedInv'
    BY <2>1, <2>2 DEF PosedInv
  <2> QED  BY <2>3, <2>4, <2>5
<1>2. CASE Sfm!Across
  <2> USE <1>2 DEF Sfm!Across
  <2>1. ref \in 0..(W - 1) /\ posed = ref..W /\ at \in (ref + 1)..W
    BY DEF PosedInv
  <2>2. WindowInv' /\ ImagesInv'
    BY DEF WindowInv, ImagesInv, Before
  <2>3. /\ support' \in [Landmarks -> SUBSET Frames]
        /\ \A f \in Landmarks : support'[f] \subseteq posed /\ \A k \in support'[f] : Sfm!Observes(f, k)
    <3>1. CASE at < W
      <4>1. at \in Frames /\ ref \in Frames /\ at \in posed /\ ref \in posed
        BY <1>0, <2>1 DEF Frames
      <4> QED  BY <3>1, <4>1, TriangulatedSupported
    <3>2. CASE ~ (at < W)
      BY <3>2 DEF SfmTypeInv, SupportInv
    <3> QED  BY <3>1, <3>2
  <2>4. SupportInv'
    BY <2>3 DEF SupportInv, Before, Sfm!Observes
  <2>5. SfmTypeInv'
    BY <2>1, <2>3 DEF SfmTypeInv
  <2>6. PosedInv'
    <3>1. CASE at < W
      <4>1. at' \in (ref + 1)..W
        BY <1>0, <2>1, <3>1
      <4> QED  BY <2>1, <3>1, <4>1 DEF PosedInv
    <3>2. CASE ~ (at < W)
      <4>1. at' = ref - 1 /\ at' \in -1..(ref - 1) /\ at' + 1 = ref
        BY <1>0, <2>1, <3>2
      <4> QED  BY <2>1, <3>2, <4>1 DEF PosedInv
    <3> QED  BY <3>1, <3>2
  <2> QED  BY <2>2, <2>4, <2>5, <2>6
<1> QED  BY <1>1, <1>2

\* From the reference frame down to the oldest one.
LEMMA SfmBackward ==
  ASSUME SfmInv, Sfm!Backward
  PROVE  SfmInv'
<1> USE DEF SfmInv, Sfm!Backward, Sfm!Goto
<1>0. W \in Nat
  BY WindowAssumption
<1>1. WindowInv' /\ ImagesInv'
  BY DEF WindowInv, ImagesInv, Before, Sfm!Failed
<1>2. ref \in 0..(W - 1) /\ at \in 0..(ref - 1) /\ posed = (at + 1)..W
  BY DEF PosedInv
<1>3. CASE sfmPc' = "backward"
  <2>1. posed' = posed \cup {at} /\ support' = Sfm!Triangulated(at, ref) /\ at' = at - 1 /\ ref' = ref
    BY <1>3 DEF Sfm!SolveFrameByPnP, Sfm!Failed
  <2>2. at \in Frames /\ ref \in Frames /\ at \in posed' /\ ref \in posed' /\ posed' \subseteq Frames
    BY <1>0, <1>2, <2>1 DEF Frames
  <2>3. /\ support' \in [Landmarks -> SUBSET Frames]
        /\ \A f \in Landmarks : support'[f] \subseteq posed' /\ \A k \in support'[f] : Sfm!Observes(f, k)
    BY <2>1, <2>2, TriangulatedSupported
  <2>4. SfmTypeInv'
    BY <1>2, <1>3, <2>1, <2>2, <2>3 DEF SfmTypeInv
  <2>5. SupportInv'
    BY <1>3, <2>3 DEF SupportInv, Before, Sfm!Observes
  <2>6. at' \in -1..(ref - 1) /\ posed' = (at' + 1)..W
    BY <1>0, <1>2, <2>1
  <2>7. PosedInv'
    BY <1>2, <1>3, <2>1, <2>6 DEF PosedInv
  <2> QED  BY <1>1, <2>4, <2>5, <2>7
<1>4. CASE sfmPc' = "failed"
  <2>1. SfmTypeInv'
    BY <1>4 DEF SfmTypeInv, Sfm!Failed
  <2>2. SupportInv' /\ PosedInv'
    BY <1>4 DEF SupportInv, PosedInv, Before, Sfm!Failed, Sfm!Observes
  <2> QED  BY <1>1, <2>1, <2>2
<1> QED  BY <1>3, <1>4 DEF Sfm!Failed

\* All frames have a pose: the rest is triangulated and adjusted.
LEMMA SfmRest ==
  ASSUME SfmInv, Sfm!TriangulateRemaining \/ Sfm!BundleAdjustment
  PROVE  SfmInv'
<1> USE DEF SfmInv, Sfm!Goto
<1>0. W \in Nat
  BY WindowAssumption
<1>1. CASE Sfm!TriangulateRemaining
  <2> USE <1>1 DEF Sfm!TriangulateRemaining, Sfm!PosesDone
  <2>1. at = -1 /\ posed = Frames
    BY <1>0 DEF PosedInv, Frames
  <2>2. ASSUME NEW f \in Landmarks
        PROVE  support'[f] \in SUBSET Frames /\ \A k \in support'[f] : Sfm!Observes(f, k)
    <3>1. support'[f] = IF support[f] = {} /\ seen[f].first < seen[f].last
                          THEN {seen[f].first, seen[f].last} ELSE support[f]
      BY DEF Sfm!Remaining
    <3>2. seen[f].first \in Frames /\ seen[f].last \in Frames
      BY DEF SfmTypeInv, Sighting
    <3>3. CASE support[f] = {} /\ seen[f].first < seen[f].last
      BY <1>0, <3>1, <3>2, <3>3 DEF Sfm!Observes, Frames
    <3>4. CASE ~ (support[f] = {} /\ seen[f].first < seen[f].last)
      BY <3>1, <3>4 DEF SupportInv, SfmTypeInv
    <3> QED  BY <3>3, <3>4
  <2>3. support' \in [Landmarks -> SUBSET Frames]
    BY <2>2 DEF Sfm!Remaining
  <2>4. SfmTypeInv'
    BY <2>3 DEF SfmTypeInv
  <2>5. SupportInv'
    BY <2>1, <2>2 DEF SupportInv, Before, Sfm!Observes
  <2>6. WindowInv' /\ ImagesInv' /\ PosedInv'
    BY <2>1 DEF WindowInv, ImagesInv, Before, PosedInv
  <2> QED  BY <2>4, <2>5, <2>6
<1>2. CASE Sfm!BundleAdjustment
  <2> USE <1>2 DEF Sfm!BundleAdjustment
  <2>1. headers \in Sfm!Windows
    BY DEF WindowInv
  <2>2. /\ headers \in [Frames -> Nat] /\ headers[0] = 0 /\ 0 \in Frames /\ W \in Frames
        /\ \A i \in Frames : i <= headers[i] /\ headers[i] <= headers[W]
    BY <2>1, WindowOrdered
  <2>3. SfmTypeInv'
    BY <2>2 DEF SfmTypeInv, Sfm!Failed
  <2>4. WindowInv' /\ PosedInv' /\ SupportInv'
    BY DEF WindowInv, PosedInv, SupportInv, Before, Sfm!Failed, Sfm!Observes
  <2>5. ImagesInv'
    <3>1. CASE sfmPc' = "images" /\ at' = headers[0]
      <4>1. keyOf' = 0 /\ at' = 0 /\ headers' = headers /\ source' = source
        BY <2>2, <3>1 DEF ImagesInv
      <4>2. ASSUME NEW m \in headers[0]..headers[W] PROVE ~ (m < 0)
        BY <2>2
      <4>3. ASSUME NEW i \in Frames PROVE ~ (i < 0)
        BY DEF Frames
      <4>4. 0 \in 0..(W + 1) /\ 0 \in 0..(headers[W] + 1) /\ 0 # W + 1 /\ 0 <= headers[0]
        BY <1>0, <2>2
      <4> QED  BY <3>1, <4>1, <4>2, <4>3, <4>4 DEF ImagesInv, Before, Sfm!Images
    <3>2. CASE Sfm!Failed
      BY <3>2 DEF ImagesInv, Sfm!Failed, Before
    <3> QED  BY <3>1, <3>2
  <2> QED  BY <2>3, <2>4, <2>5
<1> QED  BY <1>1, <1>2

\* The pose of an image: the key images are met one after the other.
LEMMA SfmImage ==
  ASSUME SfmInv, Sfm!PoseImages
  PROVE  SfmInv'
<1> USE DEF SfmInv, Sfm!PoseImages, Sfm!Goto
<1>0. W \in Nat
  BY WindowAssumption
<1>1. headers \in Sfm!Windows
  BY DEF WindowInv
<1>2. /\ headers \in [Frames -> Nat] /\ headers[0] = 0 /\ 0 \in Frames /\ W \in Frames
      /\ \A i, j \in Frames : i < j => headers[i] < headers[j]
      /\ \A i \in Frames : i <= headers[i] /\ headers[i] <= headers[W]
  BY <1>1, WindowOrdered
<1>3. /\ keyOf \in 0..(W + 1) /\ at \in 0..(headers[W] + 1) /\ at <= headers[W]
      /\ keyOf \in Frames => at <= headers[keyOf]
      /\ keyOf = W + 1 => at = headers[W] + 1
      /\ \A i \in Frames : i < keyOf => headers[i] < at
      /\ \A m \in Sfm!Images : m < at =>
            source[m] = IF \E i \in Frames : i < keyOf /\ headers[i] = m THEN "frame" ELSE "pnp"
  BY DEF ImagesInv, Sfm!Newest
<1>4. headers[W] \in Nat /\ at \in Nat /\ keyOf \in Nat
  BY <1>2, <1>3
<1>5. keyOf \in Frames /\ headers[keyOf] \in Nat /\ at <= headers[keyOf]
  BY <1>0, <1>2, <1>3, <1>4 DEF Frames
<1>6. Sfm!Images = 0..headers[W] /\ at \in Sfm!Images /\ source \in [0..headers[W] -> {"none", "frame", "pnp"}]
  BY <1>2, <1>3, <1>4 DEF Sfm!Images, WindowInv
<1>7. PosedInv' /\ SupportInv'
  BY DEF PosedInv, SupportInv, Before, Sfm!KeyImage, Sfm!OtherImage, Sfm!Failed, Sfm!Observes
<1>8. CASE Sfm!KeyImage
  <2>1. /\ at = headers[keyOf] /\ source' = [source EXCEPT ![at] = "frame"]
        /\ keyOf' = keyOf + 1 /\ at' = at + 1 /\ sfmPc' = "images" /\ headers' = headers
    BY <1>8 DEF Sfm!KeyImage
  <2>2. SfmTypeInv' /\ WindowInv'
    <3>1. SfmTypeInv'
      BY <1>4, <2>1 DEF SfmTypeInv
    <3>2. source' \in [0..headers[W] -> {"none", "frame", "pnp"}]
      BY <1>6, <2>1
    <3> QED  BY <1>2, <3>1, <3>2, <2>1 DEF WindowInv
  <2>3. keyOf' \in 0..(W + 1) /\ at' \in 0..(headers[W] + 1)
    BY <1>0, <1>3, <1>4, <1>5, <2>1 DEF Frames
  <2>4. keyOf' \in Frames => at' <= headers[keyOf']
    <3> SUFFICES ASSUME keyOf + 1 \in Frames PROVE at + 1 <= headers[keyOf + 1]
      BY <2>1
    <3>1. headers[keyOf] < headers[keyOf + 1] /\ headers[keyOf + 1] \in Nat
      BY <1>2, <1>4, <1>5
    <3> QED  BY <1>5, <2>1, <3>1
  <2>5. keyOf' = W + 1 => at' = headers[W] + 1
    BY <1>0, <1>4, <2>1
  <2>6. \A i \in Frames : i < keyOf' => headers[i] < at'
    <3> SUFFICES ASSUME NEW i \in Frames, i < keyOf + 1 PROVE headers[i] < at + 1
      BY <2>1
    <3>1. headers[i] \in Nat /\ i \in Int
      BY <1>2 DEF Frames
    <3>2. CASE i = keyOf
      BY <1>4, <2>1, <3>1, <3>2
    <3>3. CASE i # keyOf
      <4>1. i < keyOf
        BY <1>4, <3>1, <3>3
      <4>2. headers[i] < at
        BY <1>3, <4>1
      <4> QED  BY <1>4, <3>1, <4>2
    <3> QED  BY <3>2, <3>3
  <2>7. ASSUME NEW m \in Sfm!Images, m < at'
        PROVE  source'[m] = IF \E i \in Frames : i < keyOf' /\ headers[i] = m THEN "frame" ELSE "pnp"
    <3>1. m \in Int
      BY <1>6
    <3>2. CASE m = at
      <4>1. keyOf < keyOf' /\ headers[keyOf] = m
        BY <1>4, <2>1, <3>2
      <4> QED  BY <1>5, <1>6, <2>1, <3>2, <4>1
    <3>3. CASE m # at
      <4>1. m < at
        BY <1>4, <2>1, <2>7, <3>1, <3>3
      <4>2. source'[m] = source[m]
        BY <1>6, <2>1, <3>3
      <4>3. (\E i \in Frames : i < keyOf' /\ headers[i] = m) <=> \E i \in Frames : i < keyOf /\ headers[i] = m
        <5>1. ASSUME NEW i \in Frames, headers[i] = m PROVE i < keyOf' <=> i < keyOf
          <6>1. i # keyOf /\ i \in Int
            BY <2>1, <3>3, <5>1 DEF Frames
          <6> QED  BY <1>4, <2>1, <6>1
        <5> QED  BY <5>1
      <4> QED  BY <1>3, <4>1, <4>2, <4>3
    <3> QED  BY <3>2, <3>3
  <2>8. Sfm!Images' = Sfm!Images
    BY <2>1 DEF Sfm!Images
  <2>9. ImagesInv'
    BY <2>1, <2>3, <2>4, <2>5, <2>6, <2>7, <2>8 DEF ImagesInv, Before
  <2> QED  BY <1>7, <2>2, <2>9
<1>9. CASE Sfm!OtherImage
  <2>1. at < headers[keyOf] /\ keyOf' = keyOf /\ headers' = headers
    BY <1>4, <1>5, <1>9 DEF Sfm!OtherImage
  <2>2. CASE sfmPc' = "failed"
    <3>1. SfmTypeInv' /\ WindowInv' /\ ImagesInv'
      BY <1>9, <2>1, <2>2 DEF SfmTypeInv, WindowInv, ImagesInv, Before, Sfm!OtherImage, Sfm!Failed
    <3> QED  BY <1>7, <3>1
  <2>3. CASE sfmPc' = "images"
    <3>1. source' = [source EXCEPT ![at] = "pnp"] /\ at' = at + 1
      BY <1>9, <2>3 DEF Sfm!OtherImage, Sfm!Failed
    <3>2. SfmTypeInv' /\ WindowInv'
      <4>1. SfmTypeInv'
        BY <1>4, <2>1, <2>3, <3>1 DEF SfmTypeInv
      <4>2. source' \in [0..headers[W] -> {"none", "frame", "pnp"}]
        BY <1>6, <3>1
      <4> QED  BY <1>2, <2>1, <4>1, <4>2 DEF WindowInv
    <3>3. /\ at' \in 0..(headers[W] + 1) /\ at' <= headers[keyOf] /\ keyOf # W + 1
          /\ \A i \in Frames : i < keyOf => headers[i] < at'
      <4>1. at' \in 0..(headers[W] + 1) /\ at' <= headers[keyOf] /\ keyOf # W + 1
        BY <1>0, <1>3, <1>4, <1>5, <2>1, <3>1 DEF Frames
      <4>2. ASSUME NEW i \in Frames, i < keyOf PROVE headers[i] < at'
        <5>1. headers[i] < at /\ headers[i] \in Nat
          BY <1>2, <1>3, <4>2
        <5> QED  BY <1>4, <3>1, <5>1
      <4> QED  BY <4>1, <4>2
    <3>4. ASSUME NEW m \in Sfm!Images, m < at'
          PROVE  source'[m] = IF \E i \in Frames : i < keyOf /\ headers[i] = m THEN "frame" ELSE "pnp"
      <4>1. m \in Int
        BY <1>6
      <4>2. CASE m = at
        <5>1. ASSUME NEW i \in Frames, i < keyOf PROVE headers[i] # m
          <6>1. headers[i] < at /\ headers[i] \in Nat
            BY <1>2, <1>3, <5>1
          <6> QED  BY <1>4, <4>2, <6>1
        <5> QED  BY <1>6, <3>1, <4>2, <5>1
      <4>3. CASE m # at
        <5>1. m < at
          BY <1>4, <3>1, <3>4, <4>1, <4>3
        <5> QED  BY <1>3, <1>6, <3>1, <4>3, <5>1
      <4> QED  BY <4>2, <4>3
    <3>5. Sfm!Images' = Sfm!Images
      BY <2>1 DEF Sfm!Images
    <3>6. ImagesInv'
      BY <1>3, <2>1, <2>3, <3>3, <3>4, <3>5 DEF ImagesInv, Before
    <3> QED  BY <1>7, <3>2, <3>6
  <2> QED  BY <1>9, <2>2, <2>3 DEF Sfm!OtherImage, Sfm!Failed
<1> QED  BY <1>8, <1>9

\* The alignment comes after the last image, when every frame's image was a key.
LEMMA SfmAlign ==
  ASSUME SfmInv, Sfm!VisualInitialAlign
  PROVE  SfmInv'
<1> USE DEF SfmInv, Sfm!VisualInitialAlign, Sfm!Goto
<1>0. W \in Nat
  BY WindowAssumption
<1>1. headers \in Sfm!Windows
  BY DEF WindowInv
<1>2. /\ headers \in [Frames -> Nat] /\ headers[0] = 0 /\ 0 \in Frames /\ W \in Frames
      /\ \A i \in Frames : headers[i] <= headers[W]
  BY <1>1, WindowOrdered
<1>3. SfmTypeInv' /\ WindowInv' /\ SupportInv' /\ PosedInv'
  BY DEF SfmTypeInv, WindowInv, SupportInv, PosedInv, Before, Sfm!Observes
<1>4. at \in Int /\ headers[W] \in Nat /\ headers[W] < at /\ keyOf \in 0..(W + 1)
  BY <1>2 DEF ImagesInv, SfmTypeInv, Sfm!Newest
<1>5. keyOf = W + 1
  <2>1. keyOf \notin Frames
    <3>1. SUFFICES ASSUME keyOf \in Frames PROVE FALSE
      OBVIOUS
    <3>2. at <= headers[keyOf] /\ headers[keyOf] <= headers[W] /\ headers[keyOf] \in Nat
      BY <1>2, <3>1 DEF ImagesInv
    <3> QED  BY <1>4, <3>2
  <2> QED  BY <1>0, <1>4, <2>1 DEF Frames
<1>6. ASSUME NEW m \in Sfm!Images
      PROVE  source[m] = IF \E i \in Frames : headers[i] = m THEN "frame" ELSE "pnp"
  <2>1. m < at
    BY <1>2, <1>4 DEF Sfm!Images
  <2>2. \A i \in Frames : i < keyOf
    BY <1>0, <1>5 DEF Frames
  <2> QED  BY <2>1, <2>2 DEF ImagesInv
<1>7. ImagesInv'
  <2>1. Sfm!Images' = Sfm!Images /\ source' = source /\ headers' = headers
    BY DEF Sfm!Images
  <2>2. sfmPc' \in {"done", "failed"}
    OBVIOUS
  <2> QED  BY <1>6, <2>1, <2>2 DEF ImagesInv, Before
<1> QED  BY <1>3, <1>7

\* The invariant holds in every state of the initial structure.
LEMMA SfmInvariant == Sfm!Spec => []SfmInv
<1>1. SfmInv /\ [Sfm!Next]_(Sfm!vars) => SfmInv'
  <2> SUFFICES ASSUME SfmInv, [Sfm!Next]_(Sfm!vars) PROVE SfmInv'
    OBVIOUS
  <2>1. CASE Sfm!Next
    <3>1. ASSUME Sfm!FullWindow \/ Sfm!CalibrationExRotation PROVE SfmInv'
      BY <3>1, SfmStart
    <3>2. ASSUME Sfm!RelativePose PROVE SfmInv'
      BY <3>2, SfmReference
    <3>3. ASSUME Sfm!Forward PROVE SfmInv'
      BY <3>3, SfmForward
    <3>4. ASSUME Sfm!ForwardDone \/ Sfm!Across PROVE SfmInv'
      BY <3>4, SfmAcross
    <3>5. ASSUME Sfm!Backward PROVE SfmInv'
      BY <3>5, SfmBackward
    <3>6. ASSUME Sfm!TriangulateRemaining \/ Sfm!BundleAdjustment PROVE SfmInv'
      BY <3>6, SfmRest
    <3>7. ASSUME Sfm!PoseImages PROVE SfmInv'
      BY <3>7, SfmImage
    <3>8. ASSUME Sfm!VisualInitialAlign PROVE SfmInv'
      BY <3>8, SfmAlign
    <3> QED  BY <2>1, <3>1, <3>2, <3>3, <3>4, <3>5, <3>6, <3>7, <3>8 DEF Sfm!Next
  <2>2. CASE UNCHANGED Sfm!vars
    BY <2>2, SfmStutter
  <2> QED  BY <2>1, <2>2
<1> QED  BY SfmInitial, <1>1, PTL DEF Sfm!Spec

\* No landmark is triangulated from a Pose that has not been computed, every frame
\* has a pose before bundle adjustment reads it, and every image when the IMU is
\* aligned; the key images are exactly those of the frames (initial_sfm.cpp:143-219,
\* estimator.cpp:302-320).
THEOREM PosesBeforeUse == Sfm!Spec => []StructureSupported
<1>1. SfmInv => StructureSupported
  <2> SUFFICES ASSUME SfmInv PROVE Sfm!StructureSupported
    BY DEF StructureSupported
  <2> USE DEF SfmInv
  <2>0. W \in Nat
    BY WindowAssumption
  <2>1. \A f \in Sfm!Tracked : support[f] \subseteq posed /\ \A i \in support[f] : Sfm!Observes(f, i)
    BY DEF SupportInv, Sfm!Tracked
  <2>2. sfmPc \in {"images", "done"} => posed = Sfm!Frames /\ Sfm!Adjusted \subseteq posed
    BY DEF PosedInv, Sfm!Frames, Frames, Sfm!Adjusted
  <2>3. ASSUME sfmPc = "images", at <= Sfm!Newest PROVE keyOf \in Sfm!Frames
    <3>1. headers[W] \in Nat
      BY <2>0 DEF SfmTypeInv, Frames
    <3>2. keyOf \in 0..(W + 1) /\ (keyOf = W + 1 => at = headers[W] + 1)
      BY <2>3 DEF ImagesInv
    <3>3. at <= headers[W] /\ at \in Int
      BY <2>3 DEF Sfm!Newest, SfmTypeInv
    <3> QED  BY <2>0, <3>1, <3>2, <3>3 DEF Sfm!Frames
  <2>4. ASSUME sfmPc = "done"
        PROVE  /\ Sfm!KeyImages = {headers[i] : i \in Sfm!Frames}
               /\ \A m \in Sfm!Images : source[m] # "none"
    <3>1. \A m \in Sfm!Images : source[m] = IF \E i \in Frames : headers[i] = m THEN "frame" ELSE "pnp"
      BY <2>4 DEF ImagesInv
    <3>2. \A i \in Frames : headers[i] \in Sfm!Images
      <4>1. headers \in Sfm!Windows
        BY <2>4 DEF WindowInv
      <4>2. /\ headers \in [Frames -> Nat] /\ headers[0] = 0 /\ W \in Frames
            /\ \A i \in Frames : headers[i] <= headers[W]
        BY <4>1, WindowOrdered
      <4> QED  BY <4>2 DEF Sfm!Images
    <3>3. Sfm!KeyImages = {m \in Sfm!Images : \E i \in Frames : headers[i] = m}
      BY <3>1 DEF Sfm!KeyImages
    <3>4. Sfm!KeyImages = {headers[i] : i \in Sfm!Frames}
      BY <3>2, <3>3 DEF Sfm!Frames, Frames
    <3> QED  BY <3>1, <3>4
  <2> QED  BY <2>1, <2>2, <2>3, <2>4 DEF Sfm!StructureSupported
<1> QED  BY SfmInvariant, <1>1, PTL

-----------------------------------------------------------------------------
(* The velocities frames are started with *)

LEMMA SfmCardinality == \A S : Sfm!Cardinality(S) = Cardinality(S)
BY DEF Sfm!Cardinality, Cardinality

\* When the alignment is done a frame holds the velocity at the number of its key.
VelocityInv ==
  sfmPc = "done" => velocity = [i \in Sfm!Frames |-> Sfm!VelocityAt(Sfm!KeyIndex(headers[i]))]

LEMMA VelocityStep ==
  VelocityInv /\ SfmInv /\ [Sfm!Next]_(Sfm!vars) => VelocityInv'
<1> SUFFICES ASSUME VelocityInv, SfmInv, [Sfm!Next]_(Sfm!vars), sfmPc' = "done"
             PROVE  velocity' = [i \in Sfm!Frames |-> Sfm!VelocityAt(Sfm!KeyIndex(headers[i]))']
  BY DEF VelocityInv
<1>1. CASE Sfm!VisualInitialAlign
  <2>1. velocity' = [i \in Sfm!Frames |-> Sfm!VelocityAt(Sfm!KeyIndex(headers[i]))]
    BY <1>1 DEF Sfm!VisualInitialAlign, Sfm!Goto
  <2>2. headers' = headers /\ source' = source
    BY <1>1 DEF Sfm!VisualInitialAlign
  <2> QED  BY <2>1, <2>2 DEF Sfm!VelocityAt, Sfm!KeyIndex, Sfm!KeyImages, Sfm!Images
<1>2. CASE UNCHANGED Sfm!vars
  <2>1. headers' = headers /\ source' = source /\ velocity' = velocity /\ sfmPc = "done"
    BY <1>2 DEF Sfm!vars
  <2> QED  BY <2>1 DEF VelocityInv, Sfm!VelocityAt, Sfm!KeyIndex, Sfm!KeyImages, Sfm!Images
<1>3. CASE Sfm!Next /\ ~ Sfm!VisualInitialAlign
  <2>1. sfmPc' # "done"
    BY <1>3 DEF Sfm!Next, Sfm!FullWindow, Sfm!CalibrationExRotation, Sfm!RelativePose, Sfm!Forward,
                Sfm!ForwardDone, Sfm!Across, Sfm!Backward, Sfm!TriangulateRemaining, Sfm!BundleAdjustment,
                Sfm!PoseImages, Sfm!KeyImage, Sfm!OtherImage, Sfm!Failed, Sfm!Goto
  <2> QED  BY <2>1
<1> QED  BY <1>1, <1>2, <1>3

\* The images before a frame that is as old as its index are those of the frames
\* before it.
LEMMA KeysBefore ==
  ASSUME SfmInv, sfmPc = "done", NEW i \in Frames, headers[i] = i
  PROVE  Sfm!KeyIndex(headers[i]) = i
<1>0. W \in Nat /\ i \in Nat
  BY WindowAssumption DEF Frames
<1>1. headers \in Sfm!Windows
  BY DEF SfmInv, WindowInv
<1>2. /\ headers \in [Frames -> Nat] /\ headers[0] = 0 /\ W \in Frames
      /\ \A j, k \in Frames : j < k => headers[j] < headers[k]
      /\ \A j \in Frames : j <= headers[j] /\ headers[j] <= headers[W]
  BY <1>1, WindowOrdered
<1>3. ASSUME NEW j \in Frames, j <= i PROVE headers[j] = j
  <2>1. headers[i] - headers[j] >= i - j
    BY <1>1, <1>3, FramesApart
  <2>2. j <= headers[j] /\ headers[j] \in Nat /\ j \in Nat
    BY <1>0, <1>2 DEF Frames
  <2> QED  BY <1>0, <2>1, <2>2
<1>4. \A m \in Sfm!Images : source[m] = "frame" <=> \E k \in Frames : headers[k] = m
  BY DEF SfmInv, ImagesInv
<1>5. ASSUME NEW m \in Sfm!KeyImages, m < i PROVE m \in 0..(i - 1)
  <2>1. PICK k \in Frames : headers[k] = m
    BY <1>4 DEF Sfm!KeyImages
  <2>2. k \in Nat /\ m \in Nat
    BY <1>0, <1>2, <2>1 DEF Frames
  <2> QED  BY <1>0, <1>5, <2>2
<1>6. ASSUME NEW m \in 0..(i - 1) PROVE m \in Sfm!KeyImages
  <2>1. m \in Frames /\ m <= i
    BY <1>0 DEF Frames
  <2>2. headers[m] = m
    BY <1>3, <2>1
  <2>3. m \in Sfm!Images
    BY <1>2, <2>1, <2>2 DEF Sfm!Images
  <2> QED  BY <1>4, <2>1, <2>2, <2>3 DEF Sfm!KeyImages
<1>7. {m \in Sfm!KeyImages : m < i} = 0..(i - 1)
  BY <1>0, <1>5, <1>6
<1>8. Sfm!KeyIndex(i) = Cardinality(0..(i - 1))
  BY <1>7, SfmCardinality DEF Sfm!KeyIndex
<1>9. Cardinality(0..(i - 1)) = i
  BY <1>0, FS_Interval
<1> QED  BY <1>8, <1>9

\* As long as every image before a frame is in a frame of its own, the frame is
\* started with the velocity the alignment found for it (estimator.cpp:421-429).
THEOREM OwnVelocities == Sfm!Spec => []OwnVelocityWhileAllKeys
<1>1. Sfm!Init => VelocityInv
  BY DEF Sfm!Init, VelocityInv
<1>2. SfmInv /\ VelocityInv => OwnVelocityWhileAllKeys
  <2> SUFFICES ASSUME SfmInv, VelocityInv, sfmPc = "done", NEW i \in Frames, headers[i] = i
               PROVE  velocity[i] = headers[i]
    BY DEF OwnVelocityWhileAllKeys, Sfm!OwnVelocityWhileAllKeys, Sfm!Frames, Frames
  <2>1. velocity[i] = headers[0] + Sfm!KeyIndex(headers[i])
    BY DEF VelocityInv, Sfm!Frames, Frames, Sfm!VelocityAt
  <2>2. headers \in Sfm!Windows
    BY DEF SfmInv, WindowInv
  <2>3. headers[0] = 0 /\ headers[i] \in Nat
    BY <2>2, WindowOrdered
  <2> QED  BY <2>1, <2>3, KeysBefore
<1> QED  BY SfmInvariant, <1>1, <1>2, VelocityStep, PTL DEF Sfm!Spec

-----------------------------------------------------------------------------
(* A finite set in the order of a rank *)

LEMMA ReloCardinality == \A S : Relo!Cardinality(S) = Cardinality(S)
BY DEF Relo!Cardinality, Cardinality

\* Elements of S have different ranks.
Ranks(S, p) == IsFiniteSet(S) /\ (\A x \in S : p[x] \in Nat) /\ \A x, y \in S : p[x] = p[y] => x = y

\* The number of elements of lower rank grows with the rank.
LEMMA MoreBelow ==
  ASSUME NEW S, NEW p, Ranks(S, p), NEW x \in S, NEW y \in S, p[x] < p[y]
  PROVE  /\ Cardinality({z \in S : p[z] < p[x]}) \in Nat /\ Cardinality({z \in S : p[z] < p[y]}) \in Nat
         /\ Cardinality({z \in S : p[z] < p[x]}) < Cardinality({z \in S : p[z] < p[y]})
<1> DEFINE A == {z \in S : p[z] < p[x]}
           B == {z \in S : p[z] < p[y]}
<1>1. IsFiniteSet(A) /\ IsFiniteSet(B)
  BY FS_Subset DEF Ranks
<1>2. Cardinality(A) \in Nat /\ Cardinality(B) \in Nat
  BY <1>1, FS_CardinalityType
<1>3. A \in SUBSET B
  <2>1. ASSUME NEW z \in A PROVE z \in B
    <3>1. p[z] \in Nat /\ p[x] \in Nat /\ p[y] \in Nat /\ p[z] < p[x] /\ z \in S
      BY DEF Ranks
    <3>2. p[z] < p[y]
      BY <3>1
    <3> QED  BY <3>1, <3>2
  <2> QED  BY <2>1
<1>4. A # B
  <2>1. p[x] \in Nat /\ x \in B
    BY DEF Ranks
  <2>2. x \notin A
    BY <2>1
  <2> QED  BY <2>1, <2>2
<1>5. Cardinality(A) <= Cardinality(B) /\ (Cardinality(B) = Cardinality(A) => B = A)
  BY <1>1, <1>3, FS_Subset
<1> HIDE DEF A, B
<1>6. Cardinality(A) < Cardinality(B)
  BY <1>2, <1>4, <1>5
<1> QED  BY <1>2, <1>6 DEF A, B

\* InOrder lists every element once, one of lower rank before one of higher.
LEMMA OrderOfRanks ==
  ASSUME NEW S, NEW p, Ranks(S, p)
  PROVE  LET q == Relo!InOrder(S, p)
         IN  /\ Cardinality(S) \in Nat
             /\ q \in [1..Cardinality(S) -> S]
             /\ \A i, j \in 1..Cardinality(S) : i < j => p[q[i]] < p[q[j]]
             /\ \A x \in S : \E i \in 1..Cardinality(S) : q[i] = x
<1> DEFINE n == Cardinality(S)
           Below(x) == Cardinality({z \in S : p[z] < p[x]})
           rank == [x \in S |-> Below(x) + 1]
           q == Relo!InOrder(S, p)
<1>0. IsFiniteSet(S) /\ (\A x \in S : p[x] \in Nat) /\ \A x, y \in S : p[x] = p[y] => x = y
  BY DEF Ranks
<1>1. n \in Nat
  BY <1>0, FS_CardinalityType
<1>2. ASSUME NEW x \in S PROVE Below(x) \in Nat /\ Below(x) < n
  <2>1. {z \in S : p[z] < p[x]} \in SUBSET S /\ {z \in S : p[z] < p[x]} # S
    <3>1. ~ (p[x] < p[x])
      BY <1>0
    <3> QED  BY <3>1
  <2>2. IsFiniteSet({z \in S : p[z] < p[x]}) /\ Below(x) <= n /\ (n = Below(x) => S = {z \in S : p[z] < p[x]})
    BY <1>0, <2>1, FS_Subset
  <2>3. Below(x) \in Nat
    BY <2>2, FS_CardinalityType
  <2> HIDE DEF n, Below
  <2>4. Below(x) # n
    BY <2>1, <2>2 DEF n, Below
  <2> QED  BY <1>1, <2>2, <2>3, <2>4
<1>3. ASSUME NEW x \in S, NEW y \in S, p[x] < p[y] PROVE Below(x) < Below(y)
  BY <1>3, MoreBelow
<1>4. rank \in Injection(S, 1..n)
  <2>1. \A x \in S : Below(x) + 1 \in 1..n
    <3> HIDE DEF n, Below
    <3> QED  BY <1>1, <1>2
  <2>2. ASSUME NEW x \in S, NEW y \in S, rank[x] = rank[y] PROVE x = y
    <3> HIDE DEF Below
    <3>1. Below(x) = Below(y) /\ Below(x) \in Nat /\ Below(y) \in Nat
      BY <1>2, <2>2
    <3>2. ~ (p[x] < p[y]) /\ ~ (p[y] < p[x])
      BY <1>3, <3>1
    <3> QED  BY <1>0, <3>2
  <2>3. rank \in [S -> 1..n]
    BY <2>1
  <2> HIDE DEF rank
  <2> QED  BY <2>2, <2>3 DEF Injection, IsInjective
<1>5. \A k \in 1..n : \E x \in S : Below(x) = k - 1
  <2>1. IsFiniteSet(1..n) /\ Cardinality(1..n) = n
    BY <1>1, FS_Interval
  <2>2. rank \in Surjection(S, 1..n)
    <3> HIDE DEF rank
    <3> QED  BY <1>4, <2>1, FS_Injection
  <2>3. ASSUME NEW k \in 1..n PROVE \E x \in S : Below(x) = k - 1
    <3>1. PICK x \in S : rank[x] = k
      <4> HIDE DEF rank
      <4> QED  BY <2>2 DEF Surjection
    <3> HIDE DEF Below
    <3>2. Below(x) + 1 = k /\ Below(x) \in Nat
      BY <1>2, <3>1
    <3> QED  BY <3>2
  <2> QED  BY <2>3
<1>6. ASSUME NEW k \in 1..n PROVE q[k] \in S /\ Below(q[k]) = k - 1
  <2> DEFINE P(x) == x \in S /\ Below(x) = k - 1
  <2>1. q[k] = CHOOSE x : P(x)
    BY <1>6, ReloCardinality DEF Relo!InOrder
  <2>2. \E x : P(x)
    BY <1>5, <1>6
  <2>3. P(CHOOSE x : P(x))
    <3> HIDE DEF P
    <3> QED  BY <2>2
  <2> QED  BY <2>1, <2>3
<1>7. q \in [1..n -> S]
  <2> DEFINE chosen(k) == CHOOSE x \in S : Relo!Cardinality({y \in S : p[y] < p[x]}) = k - 1
  <2>1. q = [k \in 1..Relo!Cardinality(S) |-> chosen(k)]
    BY DEF Relo!InOrder
  <2> HIDE DEF chosen, q
  <2>2. q = [k \in 1..n |-> chosen(k)]
    BY <2>1, ReloCardinality
  <2> HIDE DEF n
  <2>3. \A k \in 1..n : chosen(k) \in S
    BY <1>6, <2>2
  <2> QED  BY <2>2, <2>3
<1>8. ASSUME NEW i \in 1..n, NEW j \in 1..n, i < j PROVE p[q[i]] < p[q[j]]
  <2>1. q[i] \in S /\ q[j] \in S /\ Below(q[i]) = i - 1 /\ Below(q[j]) = j - 1
    BY <1>6
  <2>2. ~ (p[q[j]] < p[q[i]]) /\ q[i] # q[j]
    <3> HIDE DEF Below, q, n
    <3>1. ASSUME p[q[j]] < p[q[i]] PROVE FALSE
      <4>1. Below(q[j]) < Below(q[i])
        BY <1>3, <2>1, <3>1
      <4> QED  BY <1>1, <1>8, <2>1, <4>1
    <3> QED  BY <1>1, <1>8, <2>1, <3>1
  <2>3. p[q[i]] \in Nat /\ p[q[j]] \in Nat /\ p[q[i]] # p[q[j]]
    <3> HIDE DEF q
    <3> QED  BY <1>0, <2>1, <2>2
  <2> QED  BY <2>2, <2>3
<1>9. ASSUME NEW x \in S PROVE \E i \in 1..n : q[i] = x
  <2>1. rank[x] \in 1..n /\ rank[x] = Below(x) + 1
    <3> HIDE DEF n, Below
    <3> QED  BY <1>1, <1>2
  <2>2. PICK i \in 1..n : i = Below(x) + 1
    BY <2>1
  <2>3. q[i] \in S /\ Below(q[i]) = i - 1 /\ Below(x) \in Nat
    BY <1>2, <1>6
  <2>4. Below(q[i]) = Below(x)
    <3> HIDE DEF Below, q, n
    <3> QED  BY <2>2, <2>3
  <2>5. ~ (p[q[i]] < p[x]) /\ ~ (p[x] < p[q[i]])
    <3> HIDE DEF Below, q, n
    <3>1. ASSUME p[q[i]] < p[x] PROVE FALSE
      <4>1. Below(q[i]) < Below(x)
        BY <1>3, <2>3, <3>1
      <4> QED  BY <2>3, <2>4, <4>1
    <3>2. ASSUME p[x] < p[q[i]] PROVE FALSE
      <4>1. Below(x) < Below(q[i])
        BY <1>3, <2>3, <3>2
      <4> QED  BY <2>3, <2>4, <4>1
    <3> QED  BY <3>1, <3>2
  <2>6. p[q[i]] \in Nat /\ p[x] \in Nat /\ (p[q[i]] = p[x] => q[i] = x)
    <3> HIDE DEF q
    <3> QED  BY <1>0, <2>3
  <2> HIDE DEF q
  <2> QED  BY <2>5, <2>6
<1> QED  BY <1>1, <1>7, <1>8, <1>9

\* Positions in a vector, ascending.
Ascending(K) == Relo!InOrder(K, [i \in K |-> i])

LEMMA AscendingOrder ==
  ASSUME NEW K, K \subseteq Nat, IsFiniteSet(K)
  PROVE  /\ Cardinality(K) \in Nat
         /\ Ascending(K) \in [1..Cardinality(K) -> K]
         /\ \A i, j \in 1..Cardinality(K) : i < j => Ascending(K)[i] < Ascending(K)[j]
         /\ \A x \in K : \E i \in 1..Cardinality(K) : Ascending(K)[i] = x
<1> DEFINE p == [i \in K |-> i]
           q == Relo!InOrder(K, p)
           n == Cardinality(K)
<1>1. Ranks(K, p)
  BY DEF Ranks
<1>2. \A x \in K : p[x] = x
  OBVIOUS
<1>3. q = Ascending(K)
  BY DEF Ascending
<1> HIDE DEF p
<1>4. /\ n \in Nat /\ q \in [1..n -> K]
      /\ \A i, j \in 1..n : i < j => p[q[i]] < p[q[j]]
      /\ \A x \in K : \E i \in 1..n : q[i] = x
  BY <1>1, OrderOfRanks
<1> HIDE DEF q, n
<1>5. \A i, j \in 1..n : i < j => q[i] < q[j]
  BY <1>2, <1>4
<1> QED  BY <1>3, <1>4, <1>5 DEF n

-----------------------------------------------------------------------------
(* Relocalization: its inductive invariant *)

Entries == Ids \cup OldKeypoints \cup {Relo!None}
IdsListed(q) == q \in Seq(Ids) /\ \A i, j \in DOMAIN q : i < j => listed[q[i]] < listed[q[j]]

\* The six vectors of findConnection describe the same points, in the order of
\* f_manager.feature.
Parallel(m) ==
  /\ m \in [Relo!Vectors -> Seq(Entries)]
  /\ \A v \in Relo!Vectors : Len(m[v]) = Len(m["id"])
  /\ \A v \in Relo!OfKeyFrame : m[v] = m["id"]
  /\ m["old"] = m["old_norm"]
  /\ IdsListed(m["id"])

\* The entries of the vectors are the pairs PnP found consistent.
HoldsInliers(m) == inliers = {<<m["id"][i], m["old_norm"][i]>> : i \in DOMAIN m["id"]}

MatchedInv ==
  /\ reloPc = "search" =>
       /\ \A v \in Relo!OfKeyFrame : matched[v] = matched["id"]
       /\ IdsListed(matched["id"]) /\ matched \in [Relo!Vectors -> Seq(Entries)]
  /\ reloPc \in {"pnp", "connect"} => Parallel(matched)
  /\ reloPc = "pnp" => status = <<>>
  /\ reloPc = "connect" /\ Relo!Enough(matched) => HoldsInliers(matched)

Sent == {"message", "optimization", "landmarks", "done"}

\* The message holds exactly the inliers, in the order of f_manager.feature.
MessageInv ==
  reloPc \in Sent =>
    /\ message \in Seq(Entries \X Ids)
    /\ \A s, t \in DOMAIN message : s < t => listed[Relo!Id(s)] < listed[Relo!Id(t)]
    /\ inliers = {<<Relo!Id(s), Relo!Old(s)>> : s \in DOMAIN message}

\* For a landmark that nothing overtakes and that the loop has not come to, the index is
\* not past its match, and past the matches in front of it that have a greater id and
\* whose landmarks the loop has come past.
IndexInv ==
  \A k \in DOMAIN message : Relo!Id(k) \in unvisited /\ ~ Relo!Overtaken(Relo!Id(k)) =>
    /\ retrive_feature_index <= k
    /\ \A s \in DOMAIN message :
         s < k /\ Relo!Id(k) < Relo!Id(s) /\ Relo!Id(s) \notin unvisited => s < retrive_feature_index

\* The loop gives factors to matches of landmarks it has come past, to all that nothing
\* overtakes.
FactorsInv ==
  /\ reloPc \notin {"landmarks", "done"} => reloFactors = {}
  /\ reloPc \in {"landmarks", "done"} =>
       /\ eligible \subseteq Ids /\ unvisited \subseteq eligible
       /\ reloFactors \subseteq {p \in inliers : p[1] \in eligible \ unvisited}
       /\ \A p \in inliers :
            p[1] \in eligible \ unvisited /\ ~ Relo!Overtaken(p[1]) => p \in reloFactors
       /\ retrive_feature_index \in 1..(Len(message) + 1)
       /\ IndexInv
  /\ reloPc = "done" => unvisited = {}

ReloTypeInv ==
  /\ reloPc \in {"keyframe", "search", "pnp", "connect", "none"} \cup Sent
  /\ listed \in Relo!Orders

ReloInv == ReloTypeInv /\ MatchedInv /\ MessageInv /\ FactorsInv

-----------------------------------------------------------------------------
(* reduceVector *)

\* The entries kept, in their order.
LEMMA ReducedVector ==
  ASSUME NEW E, NEW v \in Seq(E), NEW s, NEW K, K \subseteq 1..Len(v),
         \A i \in 1..Len(v) : i \in K <=> s[i] = 1
  PROVE  /\ Cardinality(K) \in Nat
         /\ Relo!Reduced(v, s) \in Seq(E)
         /\ Len(Relo!Reduced(v, s)) = Cardinality(K)
         /\ DOMAIN Relo!Reduced(v, s) = 1..Cardinality(K)
         /\ \A k \in 1..Cardinality(K) : Relo!Reduced(v, s)[k] = v[Ascending(K)[k]]
<1> DEFINE q == Ascending(K)
           n == Cardinality(K)
<1>1. K \subseteq Nat /\ IsFiniteSet(K)
  <2>1. Len(v) \in Nat /\ IsFiniteSet(1..Len(v)) /\ K \in SUBSET (1..Len(v))
    BY FS_Interval, LenProperties
  <2>2. IsFiniteSet(K)
    BY <2>1, FS_Subset
  <2> QED  BY <2>1, <2>2
<1>0. K = {i \in 1..Len(v) : s[i] = 1}
  OBVIOUS
<1>2. n \in Nat /\ q \in [1..n -> K]
  BY <1>1, AscendingOrder
<1>3. DOMAIN v = 1..Len(v) /\ \A i \in 1..Len(v) : v[i] \in E
  BY LenProperties, ElementOfSeq
<1>4. Relo!Reduced(v, s) = [k \in DOMAIN q |-> v[q[k]]]
  <2>1. {i \in DOMAIN v : s[i] = 1} = K
    BY <1>0, <1>3
  <2> QED  BY <2>1 DEF Relo!Reduced, Ascending
<1> HIDE DEF q, n
<1>5. Relo!Reduced(v, s) = [k \in 1..n |-> v[q[k]]]
  BY <1>2, <1>4
<1>6. \A k \in 1..n : v[q[k]] \in E
  BY <1>2, <1>3
<1>7. Relo!Reduced(v, s) \in [1..n -> E]
  BY <1>5, <1>6
<1>8. Relo!Reduced(v, s) \in Seq(E) /\ DOMAIN Relo!Reduced(v, s) = 1..n
  BY <1>2, <1>7, IsASeq
<1>9. Len(Relo!Reduced(v, s)) = n
  BY <1>2, <1>8, LenProperties
<1> QED  BY <1>2, <1>5, <1>8, <1>9 DEF q, n

\* The entries of r are the entries K of m.
KeptFrom(r, m, K) ==
  /\ \A k \in DOMAIN r["id"] : \E i \in K : r["id"][k] = m["3d"][i] /\ r["old_norm"][k] = m["old_norm"][i]
  /\ \A i \in K : \E k \in DOMAIN r["id"] : r["id"][k] = m["3d"][i] /\ r["old_norm"][k] = m["old_norm"][i]

\* Reduced with one status the vectors stay parallel, and hold the pairs kept.
LEMMA VectorsReduced ==
  ASSUME NEW m, Parallel(m), NEW s, NEW K, K \subseteq 1..Len(m["id"]),
         \A i \in 1..Len(m["id"]) : i \in K <=> s[i] = 1,
         NEW r, r = Relo!AllReduced(m, s)
  PROVE  /\ Parallel(r)
         /\ KeptFrom(r, m, K)
<1> DEFINE n == Cardinality(K)
           q == Ascending(K)
<1>1. /\ m \in [Relo!Vectors -> Seq(Entries)]
      /\ \A v \in Relo!Vectors : Len(m[v]) = Len(m["id"])
      /\ \A v \in Relo!OfKeyFrame : m[v] = m["id"]
      /\ m["old"] = m["old_norm"]
      /\ m["id"] \in Seq(Ids) /\ \A i, j \in DOMAIN m["id"] : i < j => listed[m["id"][i]] < listed[m["id"][j]]
  BY DEF Parallel, IdsListed
<1>2. {"3d", "id", "old", "old_norm"} \subseteq Relo!Vectors /\ {"3d", "id"} \subseteq Relo!OfKeyFrame
      /\ Relo!OfKeyFrame \subseteq Relo!Vectors
  BY DEF Relo!Vectors, Relo!OfKeyFrame
<1>3. r = [v \in Relo!Vectors |-> Relo!Reduced(m[v], s)]
  BY DEF Relo!AllReduced
<1>4. ASSUME NEW v \in Relo!Vectors
      PROVE  /\ n \in Nat /\ r[v] \in Seq(Entries) /\ Len(r[v]) = n /\ DOMAIN r[v] = 1..n
             /\ \A k \in 1..n : r[v][k] = m[v][q[k]]
  <2>1. m[v] \in Seq(Entries) /\ Len(m[v]) = Len(m["id"]) /\ r[v] = Relo!Reduced(m[v], s)
    BY <1>1, <1>3
  <2>2. /\ Cardinality(K) \in Nat /\ Relo!Reduced(m[v], s) \in Seq(Entries)
        /\ Len(Relo!Reduced(m[v], s)) = Cardinality(K) /\ DOMAIN Relo!Reduced(m[v], s) = 1..Cardinality(K)
        /\ \A k \in 1..Cardinality(K) : Relo!Reduced(m[v], s)[k] = m[v][Ascending(K)[k]]
    <3> HIDE DEF n, q
    <3>1. K \subseteq 1..Len(m[v]) /\ \A i \in 1..Len(m[v]) : i \in K <=> s[i] = 1
      BY <2>1
    <3> QED  BY <2>1, <3>1, ReducedVector
  <2> QED  BY <2>1, <2>2
<1>5. K \subseteq 1..Len(m["id"]) /\ Len(m["id"]) \in Nat /\ DOMAIN m["id"] = 1..Len(m["id"])
  BY <1>1, LenProperties
<1>6. /\ n \in Nat /\ q \in [1..n -> K]
      /\ \A i, j \in 1..n : i < j => q[i] < q[j]
      /\ \A x \in K : \E i \in 1..n : q[i] = x
  <2>1. K \subseteq Nat /\ IsFiniteSet(K)
    <3>1. IsFiniteSet(1..Len(m["id"])) /\ K \in SUBSET (1..Len(m["id"]))
      BY <1>5, FS_Interval
    <3>2. IsFiniteSet(K)
      BY <3>1, FS_Subset
    <3> QED  BY <1>5, <3>2
  <2>2. /\ Cardinality(K) \in Nat
        /\ Ascending(K) \in [1..Cardinality(K) -> K]
        /\ \A i, j \in 1..Cardinality(K) : i < j => Ascending(K)[i] < Ascending(K)[j]
        /\ \A x \in K : \E i \in 1..Cardinality(K) : Ascending(K)[i] = x
    <3> HIDE DEF n, q
    <3>1. Cardinality(K) \in Nat /\ Ascending(K) \in [1..Cardinality(K) -> K]
      BY <2>1, AscendingOrder
    <3>2. \A i, j \in 1..Cardinality(K) : i < j => Ascending(K)[i] < Ascending(K)[j]
      BY <2>1, AscendingOrder
    <3>3. \A x \in K : \E i \in 1..Cardinality(K) : Ascending(K)[i] = x
      BY <2>1, AscendingOrder
    <3> QED  BY <3>1, <3>2, <3>3
  <2> QED  BY <2>2
<1>7. /\ r["id"] \in Seq(Ids)
      /\ \A i, j \in DOMAIN r["id"] : i < j => listed[r["id"][i]] < listed[r["id"][j]]
  <2>1. r["id"] = Relo!Reduced(m["id"], s)
    BY <1>2, <1>3
  <2>2. r["id"] \in Seq(Ids)
    <3>1. m["id"] \in Seq(Ids)
      BY <1>1
    <3>2. K \subseteq 1..Len(m["id"]) /\ \A i \in 1..Len(m["id"]) : i \in K <=> s[i] = 1
      OBVIOUS
    <3> HIDE DEF n, q
    <3>3. Relo!Reduced(m["id"], s) \in Seq(Ids)
      BY <3>1, <3>2, ReducedVector
    <3> QED  BY <2>1, <3>3
  <2>3. ASSUME NEW i \in 1..n, NEW j \in 1..n, i < j PROVE listed[r["id"][i]] < listed[r["id"][j]]
    <3>1. r["id"][i] = m["id"][q[i]] /\ r["id"][j] = m["id"][q[j]]
      BY <1>2, <1>4
    <3>2. q[i] < q[j] /\ q[i] \in DOMAIN m["id"] /\ q[j] \in DOMAIN m["id"]
      BY <1>5, <1>6, <2>3
    <3> QED  BY <1>1, <3>1, <3>2
  <2>4. DOMAIN r["id"] = 1..n
    BY <1>2, <1>4
  <2> QED  BY <2>2, <2>3, <2>4
<1> HIDE DEF n, q
<1>8. r \in [Relo!Vectors -> Seq(Entries)]
  BY <1>3, <1>4
<1>9. \A v \in Relo!Vectors : Len(r[v]) = Len(r["id"])
  BY <1>2, <1>4
<1>10. ASSUME NEW v \in Relo!OfKeyFrame PROVE r[v] = r["id"]
  <2>1. m[v] = m["id"] /\ v \in Relo!Vectors
    BY <1>1, <1>2
  <2> QED  BY <1>2, <1>3, <2>1
<1>11. r["old"] = r["old_norm"]
  BY <1>1, <1>2, <1>3
<1>12. Parallel(r)
  BY <1>7, <1>8, <1>9, <1>10, <1>11 DEF Parallel, IdsListed
<1>13. /\ DOMAIN r["id"] = 1..n
       /\ \A k \in 1..n : r["id"][k] = m["3d"][q[k]] /\ r["old_norm"][k] = m["old_norm"][q[k]]
  BY <1>1, <1>2, <1>4
<1>14. \A k \in DOMAIN r["id"] : \E i \in K : r["id"][k] = m["3d"][i] /\ r["old_norm"][k] = m["old_norm"][i]
  <2>1. ASSUME NEW k \in 1..n
        PROVE  \E i \in K : r["id"][k] = m["3d"][i] /\ r["old_norm"][k] = m["old_norm"][i]
    <3>1. q[k] \in K
      BY <1>6
    <3>2. r["id"][k] = m["3d"][q[k]] /\ r["old_norm"][k] = m["old_norm"][q[k]]
      BY <1>13
    <3> QED  BY <3>1, <3>2
  <2> QED  BY <1>13, <2>1
<1>15. \A i \in K : \E k \in DOMAIN r["id"] : r["id"][k] = m["3d"][i] /\ r["old_norm"][k] = m["old_norm"][i]
  <2>1. ASSUME NEW i \in K
        PROVE  \E k \in 1..n : r["id"][k] = m["3d"][i] /\ r["old_norm"][k] = m["old_norm"][i]
    <3>1. PICK k \in 1..n : q[k] = i
      BY <1>6
    <3>2. r["id"][k] = m["3d"][q[k]] /\ r["old_norm"][k] = m["old_norm"][q[k]]
      BY <1>13
    <3> QED  BY <3>1, <3>2
  <2>2. DOMAIN r["id"] = 1..n
    BY <1>13
  <2> QED  BY <2>1, <2>2
<1> QED  BY <1>12, <1>14, <1>15 DEF KeptFrom

-----------------------------------------------------------------------------
(* The steps of a relocalization *)

LEMMA ReloInitial == Relo!ReloInit => ReloInv
BY DEF Relo!ReloInit, ReloInv, ReloTypeInv, MatchedInv, MessageInv, FactorsInv, Sent, Relo!Orders

\* What the loop depends on does not change while it runs.
LEMMA OvertakenStays ==
  ASSUME NEW id, UNCHANGED <<listed, message, eligible>>
  PROVE  Relo!Overtaken(id)' <=> Relo!Overtaken(id)
BY DEF Relo!Overtaken, Relo!Unpaired, Relo!Id

LEMMA ReloStutter == ReloInv /\ UNCHANGED Relo!reloVars => ReloInv'
<1> SUFFICES ASSUME ReloInv, UNCHANGED Relo!reloVars PROVE ReloInv'
  OBVIOUS
<1> USE DEF Relo!reloVars
<1>1. ReloTypeInv' /\ MatchedInv' /\ MessageInv'
  BY DEF ReloInv, ReloTypeInv, MatchedInv, MessageInv, Sent, Relo!Id, Relo!Old,
         Relo!Enough, HoldsInliers, Parallel, IdsListed
<1>2. \A k : Relo!Id(k)' = Relo!Id(k) /\ (Relo!Overtaken(Relo!Id(k))' <=> Relo!Overtaken(Relo!Id(k)))
  BY OvertakenStays DEF Relo!Id
<1>3. IndexInv' <=> IndexInv
  BY <1>2 DEF IndexInv
<1>4. FactorsInv'
  BY <1>3, OvertakenStays DEF ReloInv, FactorsInv
<1> QED  BY <1>1, <1>4 DEF ReloInv

LEMMA ReloKeyFrame == ReloInv /\ Relo!NewKeyFrame => ReloInv'
<1> SUFFICES ASSUME ReloInv, Relo!NewKeyFrame PROVE ReloInv'
  OBVIOUS
<1> USE DEF Relo!NewKeyFrame
<1>1. PICK S \in SUBSET Ids :
        matched' = [v \in Relo!Vectors |-> IF v \in Relo!OfKeyFrame THEN Relo!InOrder(S, listed') ELSE <<>>]
  OBVIOUS
<1> DEFINE q == Relo!InOrder(S, listed')
           n == Cardinality(S)
<1>2. listed' \in Relo!Orders /\ Ranks(S, listed')
  BY IdsAssumption, FS_Subset DEF Ranks, Relo!Orders
<1>3. n \in Nat /\ q \in [1..n -> S]
  BY <1>2, OrderOfRanks
<1>4. \A i, j \in 1..n : i < j => listed'[q[i]] < listed'[q[j]]
  BY <1>2, OrderOfRanks
<1>5. q \in Seq(Ids) /\ \A i, j \in DOMAIN q : i < j => listed'[q[i]] < listed'[q[j]]
  <2> HIDE DEF q, n
  <2>1. q = [i \in 1..n |-> q[i]] /\ \A i \in 1..n : q[i] \in Ids
    BY <1>3
  <2>2. [i \in 1..n |-> q[i]] \in Seq(Ids)
    BY <1>3, <2>1, IsASeq
  <2> QED  BY <1>3, <1>4, <2>1, <2>2
<1> HIDE DEF q, n
<1>6. q \in Seq(Ids) /\ q \in Seq(Entries) /\ <<>> \in Seq(Entries)
  <2>1. q \in Seq(Ids) /\ Ids \subseteq Entries
    BY <1>5 DEF Entries
  <2> QED  BY <2>1, SeqMonotonic, EmptySeq
<1>7. matched' = [v \in Relo!Vectors |-> IF v \in Relo!OfKeyFrame THEN q ELSE <<>>]
  BY <1>1 DEF q
<1>8. matched' \in [Relo!Vectors -> Seq(Entries)]
  BY <1>6, <1>7
<1>9. \A v \in Relo!OfKeyFrame : matched'[v] = q
  BY <1>7 DEF Relo!Vectors, Relo!OfKeyFrame
<1>10. matched'["id"] = q
  BY <1>9 DEF Relo!OfKeyFrame
<1>11. MatchedInv'
  BY <1>5, <1>8, <1>9, <1>10 DEF MatchedInv, IdsListed
<1>12. ReloTypeInv' /\ MessageInv' /\ FactorsInv'
  BY <1>2 DEF ReloInv, ReloTypeInv, MessageInv, FactorsInv, Sent, Relo!loopVars
<1> QED  BY <1>11, <1>12 DEF ReloInv

LEMMA ReloSearch == ReloInv /\ Relo!SearchByBRIEFDes => ReloInv'
<1> SUFFICES ASSUME ReloInv, Relo!SearchByBRIEFDes PROVE ReloInv'
  OBVIOUS
<1> USE DEF Relo!SearchByBRIEFDes
<1>1. PICK best \in [DOMAIN matched["cur"] -> OldKeypoints \cup {Relo!None}] :
        matched' = Relo!AllReduced([matched EXCEPT !["old"] = best, !["old_norm"] = best],
                                   [i \in DOMAIN best |-> IF best[i] = Relo!None THEN 0 ELSE 1])
  OBVIOUS
<1> DEFINE m == [matched EXCEPT !["old"] = best, !["old_norm"] = best]
           found == [i \in DOMAIN best |-> IF best[i] = Relo!None THEN 0 ELSE 1]
<1>2. /\ \A v \in Relo!OfKeyFrame : matched[v] = matched["id"]
      /\ IdsListed(matched["id"]) /\ matched \in [Relo!Vectors -> Seq(Entries)]
  BY DEF ReloInv, MatchedInv
<1>3. Len(matched["id"]) \in Nat /\ DOMAIN matched["id"] = 1..Len(matched["id"])
  BY <1>2, LenProperties DEF IdsListed
<1>4. DOMAIN best = 1..Len(matched["id"])
  BY <1>2, <1>3 DEF Relo!OfKeyFrame
<1>5. best \in Seq(Entries) /\ Len(best) = Len(matched["id"])
  <2>1. \A i \in 1..Len(matched["id"]) : best[i] \in Entries
    BY <1>4 DEF Entries
  <2>2. best = [i \in 1..Len(matched["id"]) |-> best[i]]
    BY <1>4
  <2>3. [i \in 1..Len(matched["id"]) |-> best[i]] \in Seq(Entries)
    BY <1>3, <2>1, IsASeq
  <2>4. best \in Seq(Entries)
    BY <2>2, <2>3
  <2>5. Len(best) \in Nat /\ 1..Len(best) = 1..Len(matched["id"])
    BY <1>4, <2>4, LenProperties
  <2> QED  BY <1>3, <2>4, <2>5
<1>6. Parallel(m)
  <2>1. "old" \in Relo!Vectors /\ "old_norm" \in Relo!Vectors
    BY DEF Relo!Vectors
  <2>2. m = [v \in Relo!Vectors |-> IF v \in {"old", "old_norm"} THEN best ELSE matched[v]]
    BY <1>2, <2>1
  <2> HIDE DEF m
  <2>3. m \in [Relo!Vectors -> Seq(Entries)]
    BY <1>2, <1>5, <2>2
  <2>4. \A v \in Relo!OfKeyFrame : m[v] = matched["id"] /\ v \notin {"old", "old_norm"}
    BY <1>2, <2>2 DEF Relo!Vectors, Relo!OfKeyFrame
  <2>5. m["old"] = best /\ m["old_norm"] = best
    BY <2>1, <2>2
  <2>6. m["id"] = matched["id"]
    BY <2>4 DEF Relo!OfKeyFrame
  <2>7. \A v \in Relo!Vectors : v \in Relo!OfKeyFrame \/ v \in {"old", "old_norm"}
    BY DEF Relo!Vectors, Relo!OfKeyFrame
  <2>8. \A v \in Relo!Vectors : Len(m[v]) = Len(m["id"])
    BY <1>5, <2>4, <2>5, <2>6, <2>7
  <2> QED  BY <1>2, <2>3, <2>4, <2>5, <2>6, <2>8 DEF Parallel
<1>7. m["id"] = matched["id"]
  BY <1>2 DEF Relo!Vectors
<1> DEFINE K == {i \in 1..Len(m["id"]) : found[i] = 1}
<1>8. K \subseteq 1..Len(m["id"]) /\ \A i \in 1..Len(m["id"]) : i \in K <=> found[i] = 1
  OBVIOUS
<1>9. matched' = Relo!AllReduced(m, found)
  BY <1>1
<1> HIDE DEF m, found, K
<1>10. Parallel(matched')
  BY <1>6, <1>8, <1>9, VectorsReduced
<1>11. Parallel(matched)'
  BY <1>10 DEF Parallel, IdsListed
<1>12. MatchedInv'
  BY <1>11 DEF MatchedInv
<1>13. ReloTypeInv' /\ MessageInv' /\ FactorsInv'
  BY DEF ReloInv, ReloTypeInv, MessageInv, FactorsInv, Sent, Relo!loopVars
<1> QED  BY <1>12, <1>13 DEF ReloInv

LEMMA ReloPnP == ReloInv /\ Relo!PnPRANSAC => ReloInv'
<1> SUFFICES ASSUME ReloInv, Relo!PnPRANSAC PROVE ReloInv'
  OBVIOUS
<1> USE DEF Relo!PnPRANSAC
<1>1. Parallel(matched) /\ status = <<>>
  BY DEF ReloInv, MatchedInv
<1>2. ReloTypeInv' /\ MessageInv' /\ FactorsInv'
  BY DEF ReloInv, ReloTypeInv, MessageInv, FactorsInv, Sent, Relo!loopVars
<1>3. CASE Relo!Enough(matched)
  <2>1. PICK K \in SUBSET DOMAIN matched["old_norm"] :
          /\ status' = status \o [i \in DOMAIN matched["old_norm"] |-> IF i \in K THEN 1 ELSE 0]
          /\ matched' = Relo!AllReduced(matched, status')
          /\ inliers' = {<<matched["3d"][i], matched["old_norm"][i]>> : i \in K}
    BY <1>3
  <2> DEFINE flags == [i \in DOMAIN matched["old_norm"] |-> IF i \in K THEN 1 ELSE 0]
  <2>2. /\ DOMAIN matched["old_norm"] = 1..Len(matched["id"]) /\ Len(matched["id"]) \in Nat
    <3>1. /\ matched["old_norm"] \in Seq(Entries) /\ Len(matched["old_norm"]) = Len(matched["id"])
          /\ matched["id"] \in Seq(Entries)
      BY <1>1 DEF Parallel, Relo!Vectors
    <3> QED  BY <3>1, LenProperties
  <2>3. flags = [i \in 1..Len(matched["id"]) |-> IF i \in K THEN 1 ELSE 0]
    BY <2>2
  <2>4. flags \in Seq({0, 1})
    <3> DEFINE e(i) == IF i \in K THEN 1 ELSE 0
    <3>1. \A i \in 1..Len(matched["id"]) : e(i) \in {0, 1}
      OBVIOUS
    <3> HIDE DEF e
    <3>2. [i \in 1..Len(matched["id"]) |-> e(i)] \in Seq({0, 1})
      BY <2>2, <3>1, IsASeq
    <3> QED  BY <2>3, <3>2 DEF e
  <2>5. status' = flags
    <3> HIDE DEF flags
    <3>1. <<>> \o flags = flags
      BY <2>4, ConcatEmptySeq
    <3> QED  BY <1>1, <2>1, <3>1 DEF flags
  <2>6. K \subseteq 1..Len(matched["id"]) /\ \A i \in 1..Len(matched["id"]) : i \in K <=> flags[i] = 1
    BY <2>2, <2>3
  <2> HIDE DEF flags
  <2>7. matched' = Relo!AllReduced(matched, flags)
    BY <2>1, <2>5
  <2>8. /\ Parallel(matched')
        /\ {<<matched'["id"][i], matched'["old_norm"][i]>> : i \in DOMAIN matched'["id"]}
             = {<<matched["3d"][i], matched["old_norm"][i]>> : i \in K}
    <3>1. Parallel(matched) /\ K \subseteq 1..Len(matched["id"])
      BY <1>1, <2>6
    <3> DEFINE r == Relo!AllReduced(matched, flags)
    <3>2. \A i \in 1..Len(matched["id"]) : i \in K <=> flags[i] = 1
      BY <2>6
    <3> HIDE DEF r
    <3>3. Parallel(r) /\ KeptFrom(r, matched, K)
      <4>1. r = Relo!AllReduced(matched, flags)
        BY DEF r
      <4> QED  BY <3>1, <3>2, <4>1, VectorsReduced
    <3>4. r = matched'
      BY <2>7 DEF r
    <3> QED  BY <3>3, <3>4 DEF KeptFrom
  <2>9. Parallel(matched)'
    BY <2>8 DEF Parallel, IdsListed
  <2>10. HoldsInliers(matched)'
    BY <2>1, <2>8 DEF HoldsInliers
  <2>11. MatchedInv'
    BY <2>9, <2>10 DEF MatchedInv
  <2> QED  BY <1>2, <2>11 DEF ReloInv
<1>4. CASE ~ Relo!Enough(matched)
  <2>1. matched' = matched
    BY <1>4
  <2>2. ~ Relo!Enough(matched)'
    BY <1>4, <2>1 DEF Relo!Enough
  <2>3. Parallel(matched)'
    BY <1>1, <2>1 DEF Parallel, IdsListed
  <2>4. MatchedInv'
    BY <2>2, <2>3 DEF MatchedInv
  <2> QED  BY <1>2, <2>4 DEF ReloInv
<1> QED  BY <1>3, <1>4

\* The relocalization is published: the message pairs two of the vectors.
LEMMA ReloPublish ==
  ReloInv /\ (Relo!Connected \/ Relo!NotConnected \/ Relo!SetReloFrame) => ReloInv'
<1> SUFFICES ASSUME ReloInv, Relo!Connected \/ Relo!NotConnected \/ Relo!SetReloFrame PROVE ReloInv'
  OBVIOUS
<1>1. CASE Relo!Connected
  <2> USE <1>1 DEF Relo!Connected
  <2>1. Parallel(matched) /\ HoldsInliers(matched)
    BY DEF ReloInv, MatchedInv
  <2> DEFINE old == matched["old_norm"]
             ids == matched["id"]
             n == Len(ids)
  <2>2. /\ old \in Seq(Entries) /\ Len(old) = n /\ ids \in Seq(Ids)
        /\ \A i, j \in DOMAIN ids : i < j => listed[ids[i]] < listed[ids[j]]
    BY <2>1 DEF Parallel, IdsListed, Relo!Vectors
  <2>3. n \in Nat /\ DOMAIN old = 1..n /\ DOMAIN ids = 1..n
    BY <2>2, LenProperties
  <2>4. \A i \in 1..n : old[i] \in Entries /\ ids[i] \in Ids
    BY <2>2, <2>3, ElementOfSeq
  <2>5. message' = [i \in DOMAIN old |-> <<old[i], ids[i]>>] /\ inliers' = inliers
    OBVIOUS
  <2>6. inliers = {<<ids[i], old[i]>> : i \in DOMAIN ids}
    BY <2>1 DEF HoldsInliers
  <2> HIDE DEF old, ids, n
  <2>7. message' = [i \in 1..n |-> <<old[i], ids[i]>>]
    BY <2>3, <2>5
  <2>8. message' \in Seq(Entries \X Ids)
    <3> DEFINE e(i) == <<old[i], ids[i]>>
    <3>1. \A i \in 1..n : e(i) \in Entries \X Ids
      BY <2>4
    <3> HIDE DEF e
    <3>2. [i \in 1..n |-> e(i)] \in Seq(Entries \X Ids)
      BY <2>3, <3>1, IsASeq
    <3> QED  BY <2>7, <3>2 DEF e
  <2>9. DOMAIN message' = 1..n /\ \A i \in 1..n : Relo!Id(i)' = ids[i] /\ Relo!Old(i)' = old[i]
    <3>1. DOMAIN message' = 1..n /\ \A i \in 1..n : message'[i] = <<old[i], ids[i]>>
      BY <2>7
    <3>2. \A i \in 1..n : Relo!Id(i)' = ids[i]
      BY <3>1 DEF Relo!Id
    <3>3. \A i \in 1..n : Relo!Old(i)' = old[i]
      BY <3>1 DEF Relo!Old
    <3> QED  BY <3>1, <3>2, <3>3
  <2>10. \A s, t \in DOMAIN message' : s < t => listed'[Relo!Id(s)'] < listed'[Relo!Id(t)']
    <3>1. ASSUME NEW s \in 1..n, NEW t \in 1..n, s < t
          PROVE  listed'[Relo!Id(s)'] < listed'[Relo!Id(t)']
      <4>1. listed[ids[s]] < listed[ids[t]]
        BY <2>2, <2>3, <3>1
      <4>2. Relo!Id(s)' = ids[s] /\ Relo!Id(t)' = ids[t]
        BY <2>9
      <4> QED  BY <4>1, <4>2
    <3> QED  BY <2>9, <3>1
  <2>11. inliers' = {<<Relo!Id(s)', Relo!Old(s)'>> : s \in DOMAIN message'}
    <3>1. {<<Relo!Id(s)', Relo!Old(s)'>> : s \in 1..n} = {<<ids[i], old[i]>> : i \in 1..n}
      BY <2>9
    <3> QED  BY <2>3, <2>5, <2>6, <2>9, <3>1
  <2>12. MessageInv'
    BY <2>8, <2>10, <2>11 DEF MessageInv
  <2>13. ReloTypeInv' /\ MatchedInv' /\ FactorsInv'
    BY DEF ReloInv, ReloTypeInv, MatchedInv, FactorsInv, Sent, Relo!loopVars
  <2> QED  BY <2>12, <2>13 DEF ReloInv
<1>2. CASE Relo!NotConnected
  BY <1>2 DEF Relo!NotConnected, ReloInv, ReloTypeInv, MatchedInv, MessageInv, FactorsInv, Sent, Relo!loopVars
<1>3. CASE Relo!SetReloFrame
  BY <1>3 DEF Relo!SetReloFrame, ReloInv, ReloTypeInv, MatchedInv, MessageInv, FactorsInv, Sent, Relo!loopVars,
       Relo!Id, Relo!Old
<1> QED  BY <1>1, <1>2, <1>3

\* The loop over the landmarks begins and ends.
LEMMA ReloLoop ==
  ReloInv /\ (Relo!Optimization \/ Relo!Optimized) => ReloInv'
<1> SUFFICES ASSUME ReloInv, Relo!Optimization \/ Relo!Optimized PROVE ReloInv'
  OBVIOUS
<1>1. CASE Relo!Optimization
  <2> USE <1>1 DEF Relo!Optimization
  <2>1. message \in Seq(Entries \X Ids) /\ reloFactors = {}
    BY DEF ReloInv, MessageInv, FactorsInv, Sent
  <2>2. Len(message) \in Nat /\ DOMAIN message = 1..Len(message)
    BY <2>1, LenProperties
  <2>3. retrive_feature_index' \in 1..(Len(message) + 1) /\ \A s \in DOMAIN message : 1 <= s
    BY <2>2
  <2>4. IndexInv'
    <3>1. ASSUME NEW k \in DOMAIN message', NEW s \in DOMAIN message',
                 ~ Relo!Overtaken(Relo!Id(k))', s < k, Relo!Id(k)' < Relo!Id(s)'
          PROVE  Relo!Id(s)' \in unvisited'
      <4>1. s \in DOMAIN message /\ k \in DOMAIN message /\ listed[Relo!Id(s)] < listed[Relo!Id(k)]
        BY <3>1 DEF ReloInv, MessageInv, Sent
      <4>2. listed'[Relo!Id(s)'] < listed'[Relo!Id(k)']
        BY <4>1 DEF Relo!Id
      <4>3. Relo!Id(s)' \notin Relo!Unpaired'
        BY <3>1, <4>2 DEF Relo!Overtaken
      <4> QED  BY <3>1, <4>3 DEF Relo!Unpaired
    <3>2. DOMAIN message' = DOMAIN message /\ retrive_feature_index' = 1
      OBVIOUS
    <3> QED  BY <2>3, <3>1, <3>2 DEF IndexInv
  <2>6. FactorsInv'
    BY <2>1, <2>3, <2>4 DEF FactorsInv
  <2>5. ReloTypeInv' /\ MatchedInv' /\ MessageInv'
    BY DEF ReloInv, ReloTypeInv, MatchedInv, MessageInv, Sent, Relo!Id, Relo!Old
  <2> QED  BY <2>5, <2>6 DEF ReloInv
<1>2. CASE Relo!Optimized
  <2> USE <1>2 DEF Relo!Optimized, Relo!loopVars
  <2>1. ReloTypeInv' /\ MatchedInv' /\ MessageInv'
    BY DEF ReloInv, ReloTypeInv, MatchedInv, MessageInv, Sent, Relo!Id, Relo!Old
  <2>2. \A k : Relo!Id(k)' = Relo!Id(k) /\ (Relo!Overtaken(Relo!Id(k))' <=> Relo!Overtaken(Relo!Id(k)))
    BY OvertakenStays DEF Relo!Id
  <2>3. IndexInv' <=> IndexInv
    BY <2>2 DEF IndexInv
  <2>4. FactorsInv'
    BY <2>3, OvertakenStays DEF ReloInv, FactorsInv
  <2> QED  BY <2>1, <2>4 DEF ReloInv
<1> QED  BY <1>1, <1>2

\* The ids of the message are landmarks, with positions in the list.
LEMMA ReloIds ==
  ASSUME ReloInv, reloPc \in Sent, NEW s \in DOMAIN message
  PROVE  Relo!Id(s) \in Ids /\ Relo!Id(s) \in Nat /\ listed[Relo!Id(s)] \in Nat
<1>1. message \in Seq(Entries \X Ids) /\ listed \in [Ids -> Ids]
  BY DEF ReloInv, ReloTypeInv, MessageInv, Relo!Orders
<1>2. message[s] \in Entries \X Ids
  BY <1>1, LenProperties, ElementOfSeq
<1>3. Relo!Id(s) \in Ids
  BY <1>2 DEF Relo!Id
<1> QED  BY <1>1, <1>3, IdsAssumption

\* Where the while loop stops: at the first id from r on that is not below.
LEMMA FirstNotBelow ==
  ASSUME NEW id \in Ids, NEW r \in 1..(Len(message) + 1), message \in Seq(Entries \X Ids)
  PROVE  /\ Relo!Retrieved(r, id) \in r..(Len(message) + 1)
         /\ \A s \in r..(Relo!Retrieved(r, id) - 1) : Relo!Id(s) < id
         /\ Relo!Retrieved(r, id) <= Len(message) => Relo!Id(Relo!Retrieved(r, id)) >= id
<1> DEFINE from == {s \in r..Len(message) : Relo!Id(s) >= id}
           n == Len(message)
<1>1. n \in Nat /\ DOMAIN message = 1..n
  BY LenProperties
<1>2. \A s \in 1..n : Relo!Id(s) \in Nat
  <2>1. ASSUME NEW s \in 1..n PROVE Relo!Id(s) \in Ids
    <3>1. message[s] \in Entries \X Ids
      BY <1>1, ElementOfSeq
    <3> QED  BY <3>1 DEF Relo!Id
  <2> QED  BY <2>1, IdsAssumption
<1>3. id \in Nat /\ r \in Nat
  BY <1>1, IdsAssumption
<1>4. from \subseteq 1..n /\ from \subseteq Nat
  BY <1>1, <1>3
<1>5. CASE from = {}
  <2>1. Relo!Retrieved(r, id) = n + 1
    BY <1>5 DEF Relo!Retrieved
  <2>2. \A s \in r..n : Relo!Id(s) < id
    <3>1. ASSUME NEW s \in r..n PROVE Relo!Id(s) < id
      <4>1. s \in 1..n /\ ~ (Relo!Id(s) >= id)
        BY <1>1, <1>3, <1>5
      <4> QED  BY <1>2, <1>3, <4>1
    <3> QED  BY <3>1
  <2>3. n + 1 \in r..(n + 1) /\ n + 1 - 1 = n /\ ~ (n + 1 <= n)
    BY <1>1, <1>3
  <2> QED  BY <2>1, <2>2, <2>3
<1>6. CASE from # {}
  <2>1. PICK k \in from : \A l \in from : ~ (l < k)
    <3>1. PICK k \in from : \A l \in from : <<l, k>> \notin OpToRel(<, Nat)
      BY <1>4, <1>6, NatLessThanWellFounded, WFMin, Zenon
    <3> QED  BY <1>4, <3>1 DEF OpToRel
  <2> DEFINE P(s) == s \in from /\ \A t \in from : s <= t
  <2>2. P(k)
    BY <1>4, <2>1
  <2>3. Relo!Retrieved(r, id) = CHOOSE s : P(s)
    BY <1>6 DEF Relo!Retrieved
  <2>4. P(Relo!Retrieved(r, id))
    <3> HIDE DEF P
    <3> QED  BY <2>2, <2>3
  <2> HIDE DEF from
  <2>5. Relo!Retrieved(r, id) \in from /\ \A t \in from : Relo!Retrieved(r, id) <= t
    BY <2>4
  <2> DEFINE m == Relo!Retrieved(r, id)
  <2> HIDE DEF m
  <2>6. m \in r..n /\ Relo!Id(m) >= id /\ m \in Nat
    BY <1>4, <2>5 DEF m, from
  <2>7. ASSUME NEW s \in r..(m - 1) PROVE Relo!Id(s) < id
    <3>1. s \in r..n /\ s \in 1..n /\ s < m
      BY <1>1, <1>3, <2>6
    <3>2. s \notin from
      <4>1. m <= s => FALSE
        BY <2>6, <3>1
      <4> QED  BY <2>5, <4>1 DEF m
    <3>3. ~ (Relo!Id(s) >= id)
      BY <3>1, <3>2 DEF from
    <3> QED  BY <1>2, <1>3, <3>1, <3>3
  <2>8. m \in r..(n + 1)
    BY <1>1, <1>3, <2>6
  <2> QED  BY <2>6, <2>7, <2>8 DEF m
<1> QED  BY <1>5, <1>6

\* The loop is at the first landmark of unvisited, which nothing overtakes and which has
\* a match: the index stops there.
LEMMA MatchFound ==
  ASSUME ReloInv, reloPc = "landmarks", NEW id \in unvisited, NEW k \in DOMAIN message,
         \A other \in unvisited : listed[id] <= listed[other],
         Relo!Id(k) = id, ~ Relo!Overtaken(id)
  PROVE  Relo!Retrieved(retrive_feature_index, id) = k
<1> DEFINE r == Relo!Retrieved(retrive_feature_index, id)
           n == Len(message)
<1>1. /\ message \in Seq(Entries \X Ids)
      /\ \A s, t \in DOMAIN message : s < t => listed[Relo!Id(s)] < listed[Relo!Id(t)]
      /\ unvisited \subseteq eligible /\ eligible \subseteq Ids
      /\ retrive_feature_index \in 1..(Len(message) + 1) /\ IndexInv
  BY DEF ReloInv, MessageInv, FactorsInv, Sent
<1>2. n \in Nat /\ DOMAIN message = 1..n /\ id \in Ids /\ id \in Nat
  BY <1>1, IdsAssumption, LenProperties
<1>3. \A s \in 1..n : Relo!Id(s) \in Ids /\ Relo!Id(s) \in Nat /\ listed[Relo!Id(s)] \in Nat
  BY ReloIds, <1>2 DEF Sent
<1>4. /\ r \in retrive_feature_index..(n + 1)
      /\ \A s \in retrive_feature_index..(r - 1) : Relo!Id(s) < id
      /\ r <= n => Relo!Id(r) >= id
  BY <1>1, <1>2, FirstNotBelow
<1> HIDE DEF r
<1>5. retrive_feature_index <= k /\ k \in 1..n /\ retrive_feature_index \in Nat \ {0} /\ r \in Nat \ {0}
  <2>1. retrive_feature_index <= k
    BY <1>1 DEF IndexInv
  <2> HIDE DEF n
  <2> QED  BY <1>1, <1>2, <1>4, <2>1 DEF n
<1>6. ASSUME NEW s \in 1..n, retrive_feature_index <= s, s < k PROVE Relo!Id(s) < id
  <2>1. listed[Relo!Id(s)] < listed[id]
    BY <1>1, <1>2, <1>5, <1>6
  <2>2. Relo!Id(s) # id /\ Relo!Id(s) \notin unvisited
    BY <1>2, <1>3, <2>1, <1>5
  <2>3. ASSUME id < Relo!Id(s) PROVE FALSE
    <3>1. s < retrive_feature_index
      BY <1>1, <1>2, <1>6, <2>2, <2>3 DEF IndexInv
    <3> QED  BY <1>5, <1>6, <3>1
  <2> QED  BY <1>2, <1>3, <2>2, <2>3
<1>7. ~ (k < r)
  <2>1. ASSUME k < r PROVE FALSE
    <3>1. k \in retrive_feature_index..(r - 1)
      BY <1>2, <1>5, <2>1
    <3> QED  BY <1>2, <1>4, <3>1
  <2> QED  BY <2>1
<1>8. ~ (r < k)
  <2>1. ASSUME r < k PROVE FALSE
    <3>1. r \in 1..n /\ r <= n /\ retrive_feature_index <= r
      BY <1>2, <1>4, <1>5, <2>1
    <3>2. Relo!Id(r) < id /\ Relo!Id(r) >= id
      BY <1>4, <1>6, <2>1, <3>1
    <3> QED  BY <1>2, <1>3, <3>1, <3>2
  <2> QED  BY <2>1
<1> QED  BY <1>2, <1>5, <1>7, <1>8 DEF r

\* One landmark: the pass finds its match, or comes no further than it may.
LEMMA ReloVisit == ReloInv /\ Relo!VisitLandmark => ReloInv'
<1> SUFFICES ASSUME ReloInv, Relo!VisitLandmark PROVE ReloInv'
  OBVIOUS
<1> USE DEF Relo!VisitLandmark
<1>1. /\ message \in Seq(Entries \X Ids)
      /\ \A s, t \in DOMAIN message : s < t => listed[Relo!Id(s)] < listed[Relo!Id(t)]
      /\ inliers = {<<Relo!Id(s), Relo!Old(s)>> : s \in DOMAIN message}
  BY DEF ReloInv, MessageInv, Sent
<1>2. /\ eligible \subseteq Ids /\ unvisited \subseteq eligible
      /\ reloFactors \subseteq {p \in inliers : p[1] \in eligible \ unvisited}
      /\ \A p \in inliers :
           p[1] \in eligible \ unvisited /\ ~ Relo!Overtaken(p[1]) => p \in reloFactors
      /\ retrive_feature_index \in 1..(Len(message) + 1)
      /\ IndexInv
  BY DEF ReloInv, FactorsInv
<1>3. PICK id \in unvisited :
        /\ \A other \in unvisited : listed[id] <= listed[other]
        /\ unvisited' = unvisited \ {id}
        /\ LET r == Relo!Retrieved(retrive_feature_index, id)
           IN  \/ /\ r > Len(message)
                  /\ retrive_feature_index' = r
                  /\ reloFactors' = reloFactors
               \/ /\ r <= Len(message) /\ Relo!Id(r) = id
                  /\ reloFactors' = reloFactors \cup {<<id, Relo!Old(r)>>}
                  /\ retrive_feature_index' = r + 1
               \/ /\ r <= Len(message) /\ Relo!Id(r) # id
                  /\ retrive_feature_index' = r
                  /\ reloFactors' = reloFactors
  OBVIOUS
<1> DEFINE r == Relo!Retrieved(retrive_feature_index, id)
           n == Len(message)
<1>4. n \in Nat /\ DOMAIN message = 1..n /\ id \in Ids /\ id \in Nat
  BY <1>1, <1>2, IdsAssumption, LenProperties
<1>5. \A s \in 1..n : Relo!Id(s) \in Ids /\ Relo!Id(s) \in Nat /\ listed[Relo!Id(s)] \in Nat
  BY ReloIds, <1>4 DEF Sent
<1>6. /\ r \in retrive_feature_index..(n + 1)
      /\ \A s \in retrive_feature_index..(r - 1) : Relo!Id(s) < id
  BY <1>1, <1>2, <1>4, FirstNotBelow
<1>7. UNCHANGED <<reloPc, listed, matched, status, inliers, message, eligible>> /\ reloPc = "landmarks"
  OBVIOUS
<1>8. \A k \in 1..n : Relo!Id(k) = id /\ ~ Relo!Overtaken(id) => r = k
  BY <1>3, <1>4, <1>7, MatchFound
<1> HIDE DEF r
<1>9. /\ retrive_feature_index \in Nat \ {0} /\ r \in Nat \ {0} /\ retrive_feature_index <= r /\ r <= n + 1
  <2> HIDE DEF n
  <2> QED  BY <1>2, <1>4, <1>6 DEF n
<1>10. \/ /\ r <= n /\ Relo!Id(r) = id
         /\ reloFactors' = reloFactors \cup {<<id, Relo!Old(r)>>}
         /\ retrive_feature_index' = r + 1
      \/ /\ r <= n => Relo!Id(r) # id
         /\ reloFactors' = reloFactors
         /\ retrive_feature_index' = r
  BY <1>3, <1>4, <1>9 DEF r
<1> HIDE DEF n
<1>11. retrive_feature_index' \in 1..(n + 1) /\ r <= retrive_feature_index'
  BY <1>4, <1>9, <1>10
<1>12. reloFactors' \subseteq {p \in inliers : p[1] \in eligible \ unvisited'}
  <2>1. \A p \in reloFactors : p \in inliers /\ p[1] \in eligible \ unvisited'
    BY <1>2, <1>3
  <2>2. r <= n /\ Relo!Id(r) = id => <<id, Relo!Old(r)>> \in inliers
    BY <1>1, <1>4, <1>9
  <2>3. id \in eligible \ unvisited'
    BY <1>2, <1>3
  <2> QED  BY <1>10, <2>1, <2>2, <2>3
<1>13. ASSUME NEW p \in inliers, p[1] \in eligible \ unvisited', ~ Relo!Overtaken(p[1])
       PROVE  p \in reloFactors'
  <2>1. CASE p[1] # id
    BY <1>2, <1>3, <1>10, <1>13, <2>1
  <2>2. CASE p[1] = id
    <3>1. PICK k \in 1..n : p = <<Relo!Id(k), Relo!Old(k)>>
      BY <1>1, <1>4
    <3>2. Relo!Id(k) = id /\ r = k
      BY <1>8, <1>13, <2>2, <3>1
    <3> QED  BY <1>4, <1>10, <3>1, <3>2
  <2> QED  BY <2>1, <2>2
<1>14. ASSUME NEW k \in 1..n, Relo!Id(k) \in unvisited', ~ Relo!Overtaken(Relo!Id(k))
       PROVE  /\ retrive_feature_index' <= k
              /\ \A s \in 1..n : s < k /\ Relo!Id(k) < Relo!Id(s) /\ Relo!Id(s) \notin unvisited'
                               => s < retrive_feature_index'
  <2>1. Relo!Id(k) \in unvisited /\ Relo!Id(k) # id /\ listed[id] <= listed[Relo!Id(k)]
    BY <1>3, <1>14
  <2>2. /\ retrive_feature_index <= k
        /\ \A s \in 1..n : s < k /\ Relo!Id(k) < Relo!Id(s) /\ Relo!Id(s) \notin unvisited
                         => s < retrive_feature_index
    BY <1>2, <1>4, <1>14, <2>1 DEF IndexInv
  <2>3. listed[id] < listed[Relo!Id(k)] /\ listed[id] \in Nat
    <3>1. listed \in Relo!Orders
      BY DEF ReloInv, ReloTypeInv
    <3>2. listed[id] # listed[Relo!Id(k)] /\ listed[id] \in Nat
      BY <1>4, <1>5, <2>1, <3>1, IdsAssumption DEF Relo!Orders
    <3> QED  BY <1>5, <2>1, <3>2
  <2>4. CASE id < Relo!Id(k)
    <3>1. ~ (k < r)
      <4>1. ASSUME k < r PROVE FALSE
        <5>1. k \in retrive_feature_index..(r - 1)
          BY <1>4, <1>9, <2>2, <4>1
        <5> QED  BY <1>4, <1>5, <1>6, <2>4, <5>1
      <4> QED  BY <4>1
    <3>2. retrive_feature_index' <= k
      BY <1>4, <1>9, <1>10, <2>1, <3>1
    <3>3. ASSUME NEW s \in 1..n, s < k, Relo!Id(k) < Relo!Id(s), Relo!Id(s) \notin unvisited'
          PROVE  s < retrive_feature_index'
      <4>1. Relo!Id(s) # id
        BY <1>4, <1>5, <2>4, <3>3
      <4>2. s < retrive_feature_index
        BY <1>3, <2>2, <3>3, <4>1
      <4> QED  BY <1>9, <1>11, <4>2
    <3> QED  BY <3>2, <3>3
  <2>5. CASE Relo!Id(k) < id
    <3>1. id \notin Relo!Unpaired
      BY <1>14, <2>3, <2>5 DEF Relo!Overtaken
    <3>2. PICK l \in 1..n : Relo!Id(l) = id
      BY <1>2, <1>4, <3>1 DEF Relo!Unpaired
    <3>3. l < k
      <4>1. ASSUME k < l PROVE FALSE
        <5>1. listed[Relo!Id(k)] < listed[id]
          BY <1>1, <1>4, <3>2, <4>1
        <5> QED  BY <1>5, <2>3, <5>1
      <4> QED  BY <1>4, <2>1, <3>2, <4>1
    <3>4. ~ Relo!Overtaken(id)
      <4>1. ASSUME NEW e \in Relo!Unpaired, listed[e] < listed[id], id < e PROVE FALSE
        <5>1. e \in Ids /\ e \in Nat /\ listed[e] \in Nat
          <6>1. e \in eligible \/ \E s \in 1..n : e = Relo!Id(s)
            BY <1>4, <4>1 DEF Relo!Unpaired
          <6>2. listed \in [Ids -> Ids]
            BY DEF ReloInv, ReloTypeInv, Relo!Orders
          <6> QED  BY <1>2, <1>5, <6>1, <6>2, IdsAssumption
        <5>2. listed[e] < listed[Relo!Id(k)] /\ Relo!Id(k) < e
          BY <1>4, <1>5, <2>3, <2>5, <4>1, <5>1
        <5> QED  BY <1>14, <4>1, <5>2 DEF Relo!Overtaken
      <4> QED  BY <4>1 DEF Relo!Overtaken
    <3>5. r = l /\ retrive_feature_index' = l + 1
      <4>1. r = l
        BY <1>8, <3>2, <3>4
      <4> QED  BY <1>4, <1>10, <3>2, <4>1
    <3>6. ASSUME NEW s \in 1..n, s < k, Relo!Id(k) < Relo!Id(s), Relo!Id(s) \notin unvisited'
          PROVE  s < retrive_feature_index'
      <4>1. CASE Relo!Id(s) = id
        <5>1. s = l
          <6>1. s < l => listed[id] < listed[id]
            BY <1>1, <1>4, <3>2, <4>1
          <6>2. l < s => listed[id] < listed[id]
            BY <1>1, <1>4, <3>2, <4>1
          <6> QED  BY <2>3, <6>1, <6>2
        <5> QED  BY <1>4, <3>5, <5>1
      <4>2. CASE Relo!Id(s) # id
        <5>1. s < retrive_feature_index
          BY <1>3, <2>2, <3>6, <4>2
        <5> QED  BY <1>9, <1>11, <5>1
      <4> QED  BY <4>1, <4>2
    <3>7. retrive_feature_index' <= k
      BY <1>4, <3>3, <3>5
    <3> QED  BY <3>6, <3>7
  <2> QED  BY <1>4, <1>5, <2>1, <2>4, <2>5
<1>15. \A k : Relo!Id(k)' = Relo!Id(k) /\ (Relo!Overtaken(Relo!Id(k))' <=> Relo!Overtaken(Relo!Id(k)))
  BY <1>7, OvertakenStays DEF Relo!Id
<1>16. IndexInv'
  <2>1. DOMAIN message' = 1..n
    BY <1>4, <1>7
  <2> QED  BY <1>14, <1>15, <2>1 DEF IndexInv
<1>17. FactorsInv'
  <2>1. \A p : Relo!Overtaken(p[1])' <=> Relo!Overtaken(p[1])
    BY <1>7, OvertakenStays
  <2>2. eligible' \subseteq Ids /\ unvisited' \subseteq eligible' /\ Len(message') = n
    BY <1>2, <1>3, <1>7 DEF n
  <2> QED  BY <1>7, <1>11, <1>12, <1>13, <1>16, <2>1, <2>2 DEF FactorsInv
<1>18. ReloTypeInv' /\ MatchedInv' /\ MessageInv'
  BY <1>7 DEF ReloInv, ReloTypeInv, MatchedInv, MessageInv, Sent, Relo!Id, Relo!Old
<1> QED  BY <1>17, <1>18 DEF ReloInv

LEMMA ReloInvariant == Relo!ReloSpec => []ReloInv
<1>1. ReloInv /\ [Relo!ReloNext]_(Relo!reloVars) => ReloInv'
  BY ReloStutter, ReloKeyFrame, ReloSearch, ReloPnP, ReloPublish, ReloLoop, ReloVisit DEF Relo!ReloNext
<1> QED  BY <1>1, ReloInitial, PTL DEF Relo!ReloSpec

\* Whatever order f_manager.feature is in, every inlier whose landmark the window still
\* holds constrains it, but for those the single pass loses behind a greater id
\* (keyframe.cpp:302-499, estimator.cpp:788-813).
THEOREM MatchesConstrain == Relo!ReloSpec => []EveryMatchConstrains
<1>1. ReloInv => EveryMatchConstrains
  <2> SUFFICES ASSUME ReloInv, reloPc = "done" PROVE Relo!EveryMatchConstrains
    BY DEF EveryMatchConstrains, Relo!EveryMatchConstrains
  <2> QED  BY DEF ReloInv, FactorsInv, Relo!EveryMatchConstrains
<1> QED  BY <1>1, ReloInvariant, PTL

-----------------------------------------------------------------------------
(* Marginalization: its inductive invariant *)

Local(b) == Margin!LocalSize(Size[b])
Laid == {"sum", "keep", "prior"}

\* The sum of exactly the factors fs, each once.
SumOf(sum, fs) ==
  /\ sum \in Seq(Nat)
  /\ {sum[k] : k \in DOMAIN sum} = fs
  /\ \A k, l \in DOMAIN sum : sum[k] = sum[l] => k = l

MarginTypeInv ==
  /\ marginPc \in {"add", "preMarginalize", "dropped", "others"} \cup Laid
  /\ marginPc # "add" => factors \in Graphs
  /\ DOMAIN columns \subseteq DOMAIN Size
  /\ pos \in Nat /\ firstKept \in Nat

\* The blocks laid out so far take every column below pos, each of them its own.
LayoutInv ==
  /\ \A b \in DOMAIN columns : columns[b] \in Nat /\ columns[b] + Local(b) <= pos
  /\ \A b, c \in DOMAIN columns :
       b # c => columns[b] + Local(b) <= columns[c] \/ columns[c] + Local(c) <= columns[b]
  /\ \A x \in 0..(pos - 1) : \E b \in DOMAIN columns : columns[b] <= x /\ x < columns[b] + Local(b)

\* Dropped blocks come before m, the others from m on.
DroppedInv ==
  /\ marginPc \in {"add", "preMarginalize"} => columns = <<>>
  /\ marginPc = "dropped" => DOMAIN columns \subseteq Margin!Dropped
  /\ marginPc \in {"others"} \cup Laid =>
       /\ firstKept <= pos
       /\ Margin!Dropped \subseteq DOMAIN columns /\ DOMAIN columns \subseteq Margin!AllBlocks
       /\ \A b \in DOMAIN columns : IF b \in Margin!Dropped THEN columns[b] + Local(b) <= firstKept
                                                            ELSE columns[b] >= firstKept
  /\ marginPc \in Laid => DOMAIN columns = Margin!AllBlocks

\* The values copied are those the factors were evaluated at.
SavedInv ==
  /\ marginPc # "prior" => value = [b \in DOMAIN Size |-> "linearized"]
  /\ marginPc \in {"dropped", "others"} \cup Laid => saved = [b \in Margin!AllBlocks |-> "linearized"]

Starts == {columns[b] : b \in Margin!AllBlocks}
\* The factors a thread has added, and the factors of the threads joined.
AddedBy(t) == Margin!Dealt(t) \ todo[t]
Joined == {f \in DOMAIN factors : (f - 1) % NumThreads > joining}

\* At the columns of two blocks a thread has the sum of the factors it has added
\* that connect them, and the total that of the threads joined.
SumsInv ==
  /\ joining \in -1..(NumThreads - 1)
  /\ marginPc \notin Laid => joining = NumThreads - 1
  /\ marginPc \in {"keep", "prior"} => joining = -1
  /\ marginPc \in Laid =>
       /\ todo \in [Margin!Threads -> SUBSET DOMAIN factors]
       /\ \A t \in Margin!Threads : todo[t] \subseteq Margin!Dealt(t) /\ (t > joining => todo[t] = {})
       /\ DOMAIN sums = Margin!Threads
       /\ \A t \in Margin!Threads :
            /\ DOMAIN sums[t] = Starts \X Starts
            /\ \A b, c \in Margin!AllBlocks :
                 SumOf(sums[t][<<columns[b], columns[c]>>], AddedBy(t) \cap Margin!Connecting(b, c))
       /\ DOMAIN total = Starts \X Starts
       /\ \A b, c \in Margin!AllBlocks :
            SumOf(total[<<columns[b], columns[c]>>], Joined \cap Margin!Connecting(b, c))

\* The prior has every block from m on as a parameter, once.
KeptInv ==
  marginPc = "prior" =>
    /\ \A i \in DOMAIN kept :
         /\ kept[i].block \in Margin!AllBlocks /\ Margin!IsKept(kept[i].block)
         /\ kept[i].size = Size[kept[i].block] /\ kept[i].idx = columns[kept[i].block]
         /\ kept[i].data = saved[kept[i].block]
    /\ \A b \in Margin!AllBlocks : Margin!IsKept(b) => \E i \in DOMAIN kept : kept[i].block = b
    /\ \A i, j \in DOMAIN kept : kept[i].block = kept[j].block => i = j

MarginInv == MarginTypeInv /\ LayoutInv /\ DroppedInv /\ SavedInv /\ SumsInv /\ KeptInv

-----------------------------------------------------------------------------
(* Marginalization: sums and columns *)

LEMMA SumAppended ==
  ASSUME NEW s, NEW S, SumOf(s, S), NEW f \in Nat, f \notin S
  PROVE  SumOf(Append(s, f), S \cup {f})
<1> DEFINE u == Append(s, f)
           n == Len(s)
<1>1. s \in Seq(Nat) /\ {s[k] : k \in DOMAIN s} = S /\ \A k, l \in DOMAIN s : s[k] = s[l] => k = l
  BY DEF SumOf
<1>2. n \in Nat /\ DOMAIN s = 1..n
  BY <1>1, LenProperties
<1>3. u \in Seq(Nat) /\ Len(u) = n + 1 /\ (\A i \in 1..n : u[i] = s[i]) /\ u[n + 1] = f
  BY <1>1, AppendProperties
<1> HIDE DEF u, n
<1>4. DOMAIN u = 1..(n + 1)
  BY <1>3, LenProperties
<1>5. \A k \in 1..(n + 1) : k \in 1..n \/ k = n + 1
  BY <1>2
<1>6. 1..n \subseteq 1..(n + 1) /\ n + 1 \in 1..(n + 1)
  BY <1>2
<1>7. \A k \in 1..n : s[k] \in S
  BY <1>1, <1>2
<1>8. {u[k] : k \in DOMAIN u} = S \cup {f}
  <2>1. \A k \in DOMAIN u : u[k] \in S \cup {f}
    BY <1>3, <1>4, <1>5, <1>7
  <2>2. \A x \in S : \E k \in DOMAIN u : u[k] = x
    <3>1. ASSUME NEW x \in S PROVE \E k \in DOMAIN u : u[k] = x
      <4>1. PICK k \in 1..n : s[k] = x
        BY <1>1, <1>2
      <4> QED  BY <1>3, <1>4, <1>6, <4>1
    <3> QED  BY <3>1
  <2>3. \E k \in DOMAIN u : u[k] = f
    BY <1>3, <1>4, <1>6
  <2> QED  BY <2>1, <2>2, <2>3
<1>9. ASSUME NEW k \in DOMAIN u, NEW l \in DOMAIN u, u[k] = u[l] PROVE k = l
  <2>1. CASE k \in 1..n /\ l \in 1..n
    BY <1>1, <1>2, <1>3, <1>9, <2>1
  <2>2. CASE k \in 1..n /\ l = n + 1
    BY <1>3, <1>7, <1>9, <2>2
  <2>3. CASE k = n + 1 /\ l \in 1..n
    BY <1>3, <1>7, <1>9, <2>3
  <2> QED  BY <1>4, <1>5, <2>1, <2>2, <2>3
<1>10. SumOf(u, S \cup {f})
  BY <1>3, <1>8, <1>9 DEF SumOf
<1> QED  BY <1>10 DEF u

LEMMA SumJoined ==
  ASSUME NEW s, NEW S, SumOf(s, S), NEW t, NEW T, SumOf(t, T), S \cap T = {}
  PROVE  SumOf(s \o t, S \cup T)
<1> DEFINE u == s \o t
           n == Len(s)
           m == Len(t)
<1>1. /\ s \in Seq(Nat) /\ {s[k] : k \in DOMAIN s} = S /\ \A k, l \in DOMAIN s : s[k] = s[l] => k = l
      /\ t \in Seq(Nat) /\ {t[k] : k \in DOMAIN t} = T /\ \A k, l \in DOMAIN t : t[k] = t[l] => k = l
  BY DEF SumOf
<1>2. n \in Nat /\ DOMAIN s = 1..n /\ m \in Nat /\ DOMAIN t = 1..m
  BY <1>1, LenProperties
<1>3. u \in Seq(Nat) /\ Len(u) = n + m
      /\ \A i \in 1..(n + m) : u[i] = IF i <= n THEN s[i] ELSE t[i - n]
  BY <1>1, ConcatProperties
<1> HIDE DEF u, n, m
<1>4. DOMAIN u = 1..(n + m)
  BY <1>3, LenProperties
<1>5. \A i \in 1..n : i \in DOMAIN u /\ u[i] = s[i] /\ s[i] \in S
  <2>1. \A i \in 1..n : i \in 1..(n + m) /\ i <= n
    BY <1>2
  <2> QED  BY <1>1, <1>2, <1>3, <1>4, <2>1
<1>6. \A i \in 1..m : n + i \in DOMAIN u /\ u[n + i] = t[i] /\ t[i] \in T
  <2>1. \A i \in 1..m : n + i \in 1..(n + m) /\ ~ (n + i <= n) /\ (n + i) - n = i
    BY <1>2
  <2> QED  BY <1>1, <1>2, <1>3, <1>4, <2>1
<1>7. \A k \in DOMAIN u : k \in 1..n \/ \E i \in 1..m : k = n + i
  <2>1. ASSUME NEW k \in 1..(n + m), k \notin 1..n PROVE \E i \in 1..m : k = n + i
    <3>1. k - n \in 1..m /\ k = n + (k - n)
      BY <1>2, <2>1
    <3> QED  BY <3>1
  <2> QED  BY <1>4, <2>1
<1>8. {u[k] : k \in DOMAIN u} = S \cup T
  <2>1. \A k \in DOMAIN u : u[k] \in S \cup T
    BY <1>5, <1>6, <1>7
  <2>2. ASSUME NEW x \in S PROVE \E k \in DOMAIN u : u[k] = x
    <3>1. PICK k \in 1..n : s[k] = x
      BY <1>1, <1>2
    <3> QED  BY <1>5, <3>1
  <2>3. ASSUME NEW x \in T PROVE \E k \in DOMAIN u : u[k] = x
    <3>1. PICK k \in 1..m : t[k] = x
      BY <1>1, <1>2
    <3> QED  BY <1>6, <3>1
  <2> QED  BY <2>1, <2>2, <2>3
<1>9. ASSUME NEW k \in DOMAIN u, NEW l \in DOMAIN u, u[k] = u[l] PROVE k = l
  <2>1. CASE k \in 1..n /\ l \in 1..n
    BY <1>1, <1>2, <1>5, <1>9, <2>1
  <2>2. CASE k \in 1..n /\ \E i \in 1..m : l = n + i
    BY <1>5, <1>6, <1>9, <2>2
  <2>3. CASE (\E i \in 1..m : k = n + i) /\ l \in 1..n
    BY <1>5, <1>6, <1>9, <2>3
  <2>4. CASE (\E i \in 1..m : k = n + i) /\ \E i \in 1..m : l = n + i
    <3>1. PICK i \in 1..m : k = n + i
      BY <2>4
    <3>2. PICK j \in 1..m : l = n + j
      BY <2>4
    <3>3. t[i] = t[j]
      BY <1>6, <1>9, <3>1, <3>2
    <3> QED  BY <1>1, <1>2, <3>1, <3>2, <3>3
  <2> QED  BY <1>7, <2>1, <2>2, <2>3, <2>4
<1>10. SumOf(u, S \cup T)
  BY <1>3, <1>8, <1>9 DEF SumOf
<1> QED  BY <1>10 DEF u

LEMMA EmptySum == SumOf(<<>>, {})
BY EmptySeq DEF SumOf

LEMMA LocalSizes == \A b \in DOMAIN Size : Local(b) \in Nat \ {0}
BY MarginAssumption DEF Local, Margin!LocalSize

\* What the residual blocks are made of.
LEMMA GraphBlocks ==
  ASSUME MarginTypeInv, marginPc # "add"
  PROVE  /\ DOMAIN factors \subseteq Nat
         /\ Margin!AllBlocks \subseteq DOMAIN Size
         /\ Margin!Dropped \subseteq Margin!AllBlocks
<1>1. factors \in Graphs
  BY DEF MarginTypeInv
<1>2. \A f \in DOMAIN factors :
        /\ f \in Nat
        /\ \A i \in DOMAIN factors[f].blocks : factors[f].blocks[i] \in DOMAIN Size
        /\ factors[f].drop \subseteq DOMAIN factors[f].blocks
  BY <1>1, MarginAssumption
<1> QED  BY <1>2 DEF Margin!AllBlocks, Margin!Dropped, Margin!BlocksOf

LEMMA SameFactors ==
  ASSUME UNCHANGED factors
  PROVE  /\ Margin!AllBlocks' = Margin!AllBlocks /\ Margin!Dropped' = Margin!Dropped
         /\ \A b, c : Margin!Connecting(b, c)' = Margin!Connecting(b, c)
         /\ \A t : Margin!Dealt(t)' = Margin!Dealt(t)
         /\ Margin!Threads' = Margin!Threads
         /\ \A b : Local(b)' = Local(b)
BY DEF Margin!AllBlocks, Margin!Dropped, Margin!Connecting, Margin!Dealt, Margin!BlocksOf, Margin!Threads,
       Local, Margin!LocalSize

\* The next columns go to a block that has none.
LEMMA NextColumns ==
  ASSUME MarginTypeInv, LayoutInv, NEW b \in DOMAIN Size \ DOMAIN columns, Margin!LayOut(b)
  PROVE  /\ LayoutInv'
         /\ DOMAIN columns' = DOMAIN columns \cup {b}
         /\ columns'[b] = pos
         /\ \A c \in DOMAIN columns : columns'[c] = columns[c]
         /\ pos' \in Nat /\ pos <= pos'
<1> DEFINE old == DOMAIN columns
<1>1. /\ columns' = [c \in old \cup {b} |-> IF c = b THEN pos ELSE columns[c]]
      /\ pos' = pos + Local(b)
      /\ UNCHANGED factors
  BY DEF Margin!LayOut, Local
<1>2. Local(b) \in Nat /\ Local(b) > 0 /\ pos \in Nat /\ \A c \in old : Local(c) \in Nat /\ Local(c) > 0
  BY LocalSizes DEF MarginTypeInv
<1>3. DOMAIN columns' = old \cup {b} /\ columns'[b] = pos /\ \A c \in old : columns'[c] = columns[c]
  BY <1>1
<1>4. pos' \in Nat /\ pos <= pos'
  BY <1>1, <1>2
<1>5. /\ \A c \in old : columns[c] \in Nat /\ columns[c] + Local(c) <= pos
      /\ \A c, d \in old : c # d => columns[c] + Local(c) <= columns[d] \/ columns[d] + Local(d) <= columns[c]
      /\ \A x \in 0..(pos - 1) : \E c \in old : columns[c] <= x /\ x < columns[c] + Local(c)
  BY DEF LayoutInv
<1>6. \A c : Local(c)' = Local(c)
  BY <1>1, SameFactors
<1> HIDE DEF old
<1>7. ASSUME NEW c \in old \cup {b} PROVE columns'[c] \in Nat /\ columns'[c] + Local(c) <= pos'
  <2>1. CASE c = b
    BY <1>1, <1>2, <1>3, <2>1
  <2>2. CASE c \in old
    <3>1. columns'[c] = columns[c] /\ columns[c] \in Nat /\ columns[c] + Local(c) <= pos /\ Local(c) \in Nat
      BY <1>2, <1>3, <1>5, <2>2
    <3> QED  BY <1>2, <1>4, <3>1
  <2> QED  BY <2>1, <2>2
<1>8. ASSUME NEW c \in old \cup {b}, NEW d \in old \cup {b}, c # d
      PROVE columns'[c] + Local(c) <= columns'[d] \/ columns'[d] + Local(d) <= columns'[c]
  <2>1. CASE c \in old /\ d \in old
    BY <1>3, <1>5, <1>8, <2>1
  <2>2. CASE c \in old /\ d = b
    BY <1>3, <1>5, <2>2
  <2>3. CASE c = b /\ d \in old
    BY <1>3, <1>5, <2>3
  <2> QED  BY <1>8, <2>1, <2>2, <2>3
<1>9. ASSUME NEW x \in 0..(pos' - 1)
      PROVE \E c \in old \cup {b} : columns'[c] <= x /\ x < columns'[c] + Local(c)
  <2>1. CASE x < pos
    <3>1. x \in 0..(pos - 1)
      BY <1>2, <1>4, <2>1
    <3>2. PICK c \in old : columns[c] <= x /\ x < columns[c] + Local(c)
      BY <1>5, <3>1
    <3> QED  BY <1>3, <3>2
  <2>2. CASE ~ (x < pos)
    <3>1. pos <= x /\ x < pos + Local(b)
      BY <1>1, <1>2, <1>4, <2>2
    <3> QED  BY <1>3, <3>1
  <2> QED  BY <2>1, <2>2
<1>10. LayoutInv'
  BY <1>3, <1>6, <1>7, <1>8, <1>9 DEF LayoutInv
<1> QED  BY <1>3, <1>4, <1>10 DEF old

-----------------------------------------------------------------------------
(* The steps of a marginalization *)

LEMMA MarginInitial == Margin!Init => MarginInv
<1> SUFFICES ASSUME Margin!Init PROVE MarginInv
  OBVIOUS
<1> USE DEF Margin!Init
<1>1. MarginTypeInv
  BY DEF MarginTypeInv
<1>2. LayoutInv
  <2>1. \A x \in 0..(pos - 1) : FALSE
    OBVIOUS
  <2> QED  BY <2>1 DEF LayoutInv
<1>3. DroppedInv /\ SavedInv
  BY DEF DroppedInv, SavedInv, Laid
<1>4. SumsInv
  BY MarginAssumption DEF SumsInv, Laid
<1> QED  BY <1>1, <1>2, <1>3, <1>4 DEF MarginInv, KeptInv

LEMMA MarginStutter == MarginInv /\ UNCHANGED Margin!vars => MarginInv'
<1> SUFFICES ASSUME MarginInv, UNCHANGED Margin!vars PROVE MarginInv'
  OBVIOUS
<1> USE DEF Margin!vars
<1>1. /\ Margin!AllBlocks' = Margin!AllBlocks /\ Margin!Dropped' = Margin!Dropped
      /\ \A b, c : Margin!Connecting(b, c)' = Margin!Connecting(b, c)
      /\ \A t : Margin!Dealt(t)' = Margin!Dealt(t)
      /\ Margin!Threads' = Margin!Threads
      /\ \A b : Local(b)' = Local(b)
  BY SameFactors
<1>2. MarginTypeInv' /\ LayoutInv' /\ DroppedInv' /\ SavedInv'
  BY <1>1 DEF MarginInv, MarginTypeInv, LayoutInv, DroppedInv, SavedInv
<1>3. SumsInv'
  <2>1. Starts' = Starts /\ Joined' = Joined /\ \A t : AddedBy(t)' = AddedBy(t)
    BY <1>1 DEF Starts, Joined, AddedBy
  <2> QED  BY <1>1, <2>1 DEF MarginInv, SumsInv
<1>4. KeptInv'
  BY <1>1 DEF MarginInv, KeptInv, Margin!IsKept
<1> QED  BY <1>2, <1>3, <1>4 DEF MarginInv

LEMMA MarginCollect ==
  MarginInv /\ (Margin!AddResidualBlockInfo \/ Margin!PreMarginalize) => MarginInv'
<1> SUFFICES ASSUME MarginInv, Margin!AddResidualBlockInfo \/ Margin!PreMarginalize PROVE MarginInv'
  OBVIOUS
<1>1. columns = <<>> /\ columns' = <<>> /\ joining = NumThreads - 1 /\ UNCHANGED <<pos, firstKept, joining, value>>
      /\ value = [b \in DOMAIN Size |-> "linearized"]
  BY DEF MarginInv, DroppedInv, SumsInv, SavedInv, Laid, Margin!AddResidualBlockInfo, Margin!PreMarginalize
<1>2. MarginTypeInv'
  BY <1>1 DEF MarginInv, MarginTypeInv, Margin!AddResidualBlockInfo, Margin!PreMarginalize
<1>3. LayoutInv'
  <2>1. \A b : Local(b)' = Local(b)
    BY DEF Local, Margin!LocalSize
  <2> QED  BY <1>1, <2>1 DEF MarginInv, LayoutInv
<1>4. DroppedInv'
  BY <1>1 DEF DroppedInv, Laid, Margin!AddResidualBlockInfo, Margin!PreMarginalize
<1>5. SumsInv'
  BY <1>1, MarginAssumption DEF SumsInv, Laid, Margin!AddResidualBlockInfo, Margin!PreMarginalize
<1>6. SavedInv'
  <2>1. CASE Margin!AddResidualBlockInfo
    BY <1>1, <2>1 DEF SavedInv, Laid, Margin!AddResidualBlockInfo
  <2>2. CASE Margin!PreMarginalize
    <3> USE <2>2 DEF Margin!PreMarginalize
    <3>1. Margin!AllBlocks' = Margin!AllBlocks /\ Margin!AllBlocks \subseteq DOMAIN Size
      BY SameFactors, GraphBlocks DEF MarginInv
    <3>2. saved' = [b \in Margin!AllBlocks |-> "linearized"]
      BY <1>1, <3>1
    <3> QED  BY <1>1, <3>1, <3>2 DEF SavedInv
  <2> QED  BY <2>1, <2>2
<1>7. KeptInv'
  BY DEF KeptInv, Margin!AddResidualBlockInfo, Margin!PreMarginalize
<1> QED  BY <1>2, <1>3, <1>4, <1>5, <1>6, <1>7 DEF MarginInv

LEMMA MarginLayOut ==
  ASSUME MarginInv, NEW b \in DOMAIN Size, Margin!LayOutDropped(b) \/ Margin!LayOutOther(b)
  PROVE  MarginInv'
<1> DEFINE old == DOMAIN columns
<1>1. /\ marginPc \in {"dropped", "others"} /\ marginPc' = marginPc /\ b \notin old
      /\ UNCHANGED <<factors, firstKept, saved, value, todo, sums, total, joining, kept>>
      /\ marginPc = "dropped" => b \in Margin!Dropped
      /\ marginPc = "others" => b \in Margin!AllBlocks
      /\ Margin!LayOut(b)
  BY DEF Margin!LayOutDropped, Margin!LayOutOther, Margin!LayOut
<1>2. MarginTypeInv /\ LayoutInv /\ DroppedInv /\ SavedInv /\ SumsInv
  BY DEF MarginInv
<1>3. /\ LayoutInv'
      /\ DOMAIN columns' = old \cup {b}
      /\ columns'[b] = pos
      /\ \A c \in old : columns'[c] = columns[c]
      /\ pos' \in Nat /\ pos <= pos'
  BY <1>1, <1>2, NextColumns
<1>4. /\ Margin!AllBlocks' = Margin!AllBlocks /\ Margin!Dropped' = Margin!Dropped
      /\ \A c : Local(c)' = Local(c)
  BY <1>1, SameFactors
<1>5. MarginTypeInv'
  BY <1>1, <1>2, <1>3 DEF MarginTypeInv
<1>6. DroppedInv'
  <2>1. CASE marginPc = "dropped"
    BY <1>1, <1>2, <1>3, <1>4, <2>1 DEF DroppedInv, Laid
  <2>2. CASE marginPc = "others"
    <3>1. /\ Margin!Dropped \subseteq old /\ old \subseteq Margin!AllBlocks
          /\ \A c \in old : IF c \in Margin!Dropped THEN columns[c] + Local(c) <= firstKept
                                                    ELSE columns[c] >= firstKept
      BY <1>2, <2>2 DEF DroppedInv
    <3>2. b \notin Margin!Dropped /\ b \in Margin!AllBlocks
      BY <1>1, <2>2, <3>1
    <3>3. firstKept <= pos
      BY <1>2, <2>2 DEF DroppedInv
    <3>4. \A c \in old \cup {b} : IF c \in Margin!Dropped THEN columns'[c] + Local(c) <= firstKept
                                                          ELSE columns'[c] >= firstKept
      <4>1. firstKept \in Nat /\ pos \in Nat
        BY <1>2 DEF MarginTypeInv
      <4> QED  BY <1>3, <3>1, <3>2, <3>3, <4>1
    <3>5. firstKept <= pos'
      <4>1. firstKept \in Nat /\ pos \in Nat
        BY <1>2 DEF MarginTypeInv
      <4> QED  BY <1>3, <3>3, <4>1
    <3>6. marginPc' = "others" /\ firstKept' = firstKept
      BY <1>1, <2>2
    <3>7. Margin!Dropped \subseteq old \cup {b} /\ old \cup {b} \subseteq Margin!AllBlocks
      BY <3>1, <3>2
    <3> HIDE DEF old
    <3> QED  BY <1>3, <1>4, <3>4, <3>5, <3>6, <3>7 DEF DroppedInv, Laid
  <2> QED  BY <1>1, <2>1, <2>2
<1>7. SavedInv'
  BY <1>1, <1>2, <1>4 DEF SavedInv
<1>8. SumsInv'
  BY <1>1, <1>2 DEF SumsInv, Laid
<1>9. KeptInv'
  BY <1>1 DEF KeptInv
<1> QED  BY <1>3, <1>5, <1>6, <1>7, <1>8, <1>9 DEF MarginInv

LEMMA MarginDropped == MarginInv /\ Margin!DroppedLaidOut => MarginInv'
<1> SUFFICES ASSUME MarginInv, Margin!DroppedLaidOut PROVE MarginInv'
  OBVIOUS
<1> USE DEF Margin!DroppedLaidOut
<1>1. MarginTypeInv /\ LayoutInv /\ DroppedInv /\ SavedInv /\ SumsInv
  BY DEF MarginInv
<1>2. /\ Margin!AllBlocks' = Margin!AllBlocks /\ Margin!Dropped' = Margin!Dropped
      /\ \A c : Local(c)' = Local(c)
  BY SameFactors
<1>3. MarginTypeInv' /\ LayoutInv' /\ SavedInv' /\ SumsInv' /\ KeptInv'
  BY <1>1, <1>2 DEF MarginTypeInv, LayoutInv, SavedInv, SumsInv, KeptInv, Laid
<1>4. DroppedInv'
  <2>1. DOMAIN columns = Margin!Dropped
    BY <1>1 DEF DroppedInv
  <2>2. \A b \in DOMAIN columns : columns[b] + Local(b) <= firstKept'
    BY <1>1 DEF LayoutInv
  <2>3. Margin!Dropped \subseteq Margin!AllBlocks
    BY <1>1, GraphBlocks
  <2>4. firstKept' <= pos' /\ columns' = columns /\ marginPc' = "others"
    BY <1>1 DEF MarginTypeInv
  <2> QED  BY <1>2, <2>1, <2>2, <2>3, <2>4 DEF DroppedInv, Laid
<1> QED  BY <1>3, <1>4 DEF MarginInv

\* Every factor goes to one thread.
LEMMA DealtToAThread ==
  ASSUME MarginTypeInv, marginPc # "add", NEW f \in DOMAIN factors
  PROVE  (f - 1) % NumThreads \in Margin!Threads
<1>1. f \in Nat /\ NumThreads \in Nat /\ NumThreads > 0
  BY GraphBlocks, MarginAssumption
<1>2. f - 1 \in Int
  BY <1>1
<1> DEFINE x == f - 1
<1> HIDE DEF x
<1>3. x % NumThreads \in 0..(NumThreads - 1)
  BY <1>1, <1>2 DEF x
<1> QED  BY <1>3 DEF x, Margin!Threads

LEMMA MarginThreads == MarginInv /\ Margin!CreateThreads => MarginInv'
<1> SUFFICES ASSUME MarginInv, Margin!CreateThreads PROVE MarginInv'
  OBVIOUS
<1> USE DEF Margin!CreateThreads
<1>1. MarginTypeInv /\ LayoutInv /\ DroppedInv /\ SavedInv /\ SumsInv
  BY DEF MarginInv
<1>2. /\ Margin!AllBlocks' = Margin!AllBlocks /\ Margin!Dropped' = Margin!Dropped
      /\ (\A c : Local(c)' = Local(c)) /\ Margin!Threads' = Margin!Threads
      /\ \A t : Margin!Dealt(t)' = Margin!Dealt(t)
  BY SameFactors
<1>3. /\ marginPc = "others" /\ marginPc' = "sum" /\ columns' = columns /\ factors' = factors
      /\ joining = NumThreads - 1 /\ joining' = joining
  BY <1>1 DEF SumsInv, Laid
<1>4. MarginTypeInv' /\ LayoutInv' /\ SavedInv' /\ KeptInv'
  BY <1>1, <1>2, <1>3 DEF MarginTypeInv, LayoutInv, SavedInv, KeptInv, Laid
<1>5. DroppedInv'
  BY <1>1, <1>2, <1>3 DEF DroppedInv, Laid
<1>6. /\ todo' = [t \in Margin!Threads |-> Margin!Dealt(t)]
      /\ sums' = [t \in Margin!Threads |-> Margin!Zero] /\ total' = Margin!Zero
  OBVIOUS
<1>7. Margin!Zero = [p \in Starts \X Starts |-> <<>>]
  BY DEF Margin!Zero, Starts
<1>8. Starts' = Starts /\ \A b \in Margin!AllBlocks : columns[b] \in Starts
  BY <1>2, <1>3 DEF Starts
<1>9. \A t \in Margin!Threads : AddedBy(t)' = {}
  BY <1>2, <1>6 DEF AddedBy
<1>10. Joined' = {}
  <2>1. ASSUME NEW f \in DOMAIN factors PROVE ~ ((f - 1) % NumThreads > NumThreads - 1)
    <3>1. (f - 1) % NumThreads \in 0..(NumThreads - 1)
      BY <1>1, <1>3, DealtToAThread DEF Margin!Threads
    <3> DEFINE r == (f - 1) % NumThreads
    <3> HIDE DEF r
    <3>2. ~ (r > NumThreads - 1)
      BY <3>1, MarginAssumption DEF r
    <3> QED  BY <3>2 DEF r
  <2> QED  BY <1>3, <2>1 DEF Joined
<1>11. \A t : Margin!Dealt(t) \in SUBSET DOMAIN factors
  BY DEF Margin!Dealt
<1>12. \A t \in Margin!Threads : ~ (t > joining')
  BY <1>3, MarginAssumption DEF Margin!Threads
<1>13. ASSUME NEW b \in Margin!AllBlocks, NEW c \in Margin!AllBlocks
       PROVE  /\ SumOf(total'[<<columns[b], columns[c]>>], {})
              /\ \A t \in Margin!Threads : SumOf(sums'[t][<<columns[b], columns[c]>>], {})
  <2>1. <<columns[b], columns[c]>> \in Starts \X Starts
    BY <1>8
  <2>2. Margin!Zero[<<columns[b], columns[c]>>] = <<>>
    BY <1>7, <2>1
  <2> QED  BY <1>6, <2>2, EmptySum
<1>14. SumsInv'
  <2>1. joining' \in -1..(NumThreads - 1)
    BY <1>1, <1>3 DEF SumsInv
  <2>2. todo' \in [Margin!Threads' -> SUBSET DOMAIN factors']
    BY <1>2, <1>3, <1>6, <1>11
  <2>3. \A t \in Margin!Threads' : todo'[t] \subseteq Margin!Dealt(t)' /\ (t > joining' => todo'[t] = {})
    BY <1>2, <1>6, <1>12
  <2>4. DOMAIN sums' = Margin!Threads' /\ DOMAIN total' = Starts' \X Starts'
    BY <1>2, <1>6, <1>7, <1>8
  <2>5. \A t \in Margin!Threads' : DOMAIN sums'[t] = Starts' \X Starts'
    BY <1>2, <1>6, <1>7, <1>8
  <2>6. ASSUME NEW t \in Margin!Threads', NEW b \in Margin!AllBlocks', NEW c \in Margin!AllBlocks'
        PROVE  SumOf(sums'[t][<<columns'[b], columns'[c]>>], AddedBy(t)' \cap Margin!Connecting(b, c)')
    <3>1. AddedBy(t)' \cap Margin!Connecting(b, c)' = {}
      BY <1>2, <1>9
    <3>2. SumOf(sums'[t][<<columns[b], columns[c]>>], {})
      BY <1>2, <1>13
    <3> QED  BY <1>3, <3>1, <3>2
  <2>7. ASSUME NEW b \in Margin!AllBlocks', NEW c \in Margin!AllBlocks'
        PROVE  SumOf(total'[<<columns'[b], columns'[c]>>], Joined' \cap Margin!Connecting(b, c)')
    <3>1. Joined' \cap Margin!Connecting(b, c)' = {}
      BY <1>10
    <3>2. SumOf(total'[<<columns[b], columns[c]>>], {})
      BY <1>2, <1>13
    <3> QED  BY <1>3, <3>1, <3>2
  <2>8. marginPc' = "sum" /\ "sum" \in Laid
    BY <1>3 DEF Laid
  <2> HIDE DEF Margin!CreateThreads
  <2>9. (SumsInv)'
    BY <2>1, <2>2, <2>3, <2>4, <2>5, <2>6, <2>7, <2>8 DEF SumsInv, SumOf
  <2> QED  BY <2>9
<1> QED  BY <1>4, <1>5, <1>14 DEF MarginInv

\* Different blocks start at different columns.
LEMMA ColumnsApart ==
  ASSUME MarginTypeInv, LayoutInv, NEW b \in DOMAIN columns, NEW c \in DOMAIN columns, columns[b] = columns[c]
  PROVE  b = c
<1>1. b \in DOMAIN Size /\ c \in DOMAIN Size /\ columns[b] \in Nat
  BY DEF MarginTypeInv, LayoutInv
<1>2. Local(b) \in Nat /\ Local(b) > 0 /\ Local(c) \in Nat /\ Local(c) > 0
  BY <1>1, LocalSizes
<1>3. b # c => columns[b] + Local(b) <= columns[c] \/ columns[c] + Local(c) <= columns[b]
  BY DEF LayoutInv
<1> QED  BY <1>1, <1>2, <1>3

\* One factor added: wherever it connects two blocks, on both sides of the diagonal.
LEMMA FactorAdded ==
  ASSUME MarginTypeInv, LayoutInv, DOMAIN columns = Margin!AllBlocks,
         NEW f \in DOMAIN factors, f \in Nat, NEW matrix, DOMAIN matrix = Starts \X Starts,
         NEW D, f \notin D,
         \A b, c \in Margin!AllBlocks : SumOf(matrix[<<columns[b], columns[c]>>], D \cap Margin!Connecting(b, c))
  PROVE  /\ DOMAIN Margin!WithFactor(matrix, f) = Starts \X Starts
         /\ \A b, c \in Margin!AllBlocks :
              SumOf(Margin!WithFactor(matrix, f)[<<columns[b], columns[c]>>], (D \cup {f}) \cap Margin!Connecting(b, c))
<1> DEFINE touched == {columns[b] : b \in Margin!BlocksOf(f)}
           position(start) == CHOOSE i \in DOMAIN factors[f].blocks : columns[factors[f].blocks[i]] = start
           place(p) == IF position(p[1]) <= position(p[2]) THEN p ELSE <<p[2], p[1]>>
           result == Margin!WithFactor(matrix, f)
<1>1. result = [p \in Starts \X Starts |-> IF p[1] \in touched /\ p[2] \in touched
                                             THEN Append(matrix[place(p)], f) ELSE matrix[p]]
  BY DEF Margin!WithFactor
<1>2. \A p : place(p) = p \/ place(p) = <<p[2], p[1]>>
  OBVIOUS
<1> HIDE DEF place, result
<1>3. DOMAIN result = Starts \X Starts
  BY <1>1
<1>4. Margin!BlocksOf(f) \subseteq Margin!AllBlocks
  BY DEF Margin!AllBlocks
<1>5. \A b \in Margin!AllBlocks : columns[b] \in touched <=> b \in Margin!BlocksOf(f)
  BY <1>4, ColumnsApart
<1> HIDE DEF touched
<1>6. ASSUME NEW b \in Margin!AllBlocks, NEW c \in Margin!AllBlocks
      PROVE  SumOf(result[<<columns[b], columns[c]>>], (D \cup {f}) \cap Margin!Connecting(b, c))
  <2> DEFINE p == <<columns[b], columns[c]>>
             C == Margin!Connecting(b, c)
  <2>1. p \in Starts \X Starts /\ p[1] = columns[b] /\ p[2] = columns[c]
    BY DEF Starts
  <2>2. f \in C <=> b \in Margin!BlocksOf(f) /\ c \in Margin!BlocksOf(f)
    BY DEF Margin!Connecting
  <2>3. Margin!Connecting(c, b) = C
    BY DEF Margin!Connecting
  <2>4. SumOf(matrix[p], D \cap C) /\ SumOf(matrix[<<columns[c], columns[b]>>], D \cap C)
    BY <2>3
  <2>5. result[p] = IF columns[b] \in touched /\ columns[c] \in touched THEN Append(matrix[place(p)], f) ELSE matrix[p]
    BY <1>1, <2>1
  <2>6. place(p) = p \/ place(p) = <<columns[c], columns[b]>>
    BY <1>2, <2>1
  <2> HIDE DEF p, C
  <2>7. CASE b \in Margin!BlocksOf(f) /\ c \in Margin!BlocksOf(f)
    <3>1. result[p] = Append(matrix[place(p)], f) /\ f \in C
      BY <1>5, <2>2, <2>5, <2>7
    <3>2. SumOf(matrix[place(p)], D \cap C)
      BY <2>4, <2>6
    <3>3. f \notin D \cap C
      OBVIOUS
    <3>4. SumOf(Append(matrix[place(p)], f), (D \cap C) \cup {f})
      BY <3>2, <3>3, SumAppended
    <3>5. (D \cap C) \cup {f} = (D \cup {f}) \cap C
      BY <3>1
    <3> QED  BY <3>1, <3>4, <3>5 DEF p, C
  <2>8. CASE ~ (b \in Margin!BlocksOf(f) /\ c \in Margin!BlocksOf(f))
    <3>1. result[p] = matrix[p] /\ f \notin C
      BY <1>5, <2>2, <2>5, <2>8
    <3>2. D \cap C = (D \cup {f}) \cap C
      BY <3>1
    <3> QED  BY <2>4, <3>1, <3>2 DEF p, C
  <2> QED  BY <2>7, <2>8
<1> QED  BY <1>3, <1>6 DEF result

LEMMA MarginAdd == ASSUME MarginInv, NEW t \in Margin!Threads, Margin!ThreadsConstructA(t) PROVE MarginInv'
<1> USE DEF Margin!ThreadsConstructA
<1>1. MarginTypeInv /\ LayoutInv /\ DroppedInv /\ SavedInv /\ SumsInv
  BY DEF MarginInv
<1>2. /\ Margin!AllBlocks' = Margin!AllBlocks /\ Margin!Dropped' = Margin!Dropped
      /\ (\A c : Local(c)' = Local(c)) /\ Margin!Threads' = Margin!Threads
      /\ (\A u : Margin!Dealt(u)' = Margin!Dealt(u))
      /\ \A b, c : Margin!Connecting(b, c)' = Margin!Connecting(b, c)
  BY SameFactors
<1>3. MarginTypeInv' /\ LayoutInv' /\ DroppedInv' /\ SavedInv' /\ KeptInv'
  BY <1>1, <1>2 DEF MarginTypeInv, LayoutInv, DroppedInv, SavedInv, KeptInv, Laid
<1>4. PICK f \in todo[t] : sums' = [sums EXCEPT ![t] = Margin!WithFactor(sums[t], f)]
                           /\ todo' = [todo EXCEPT ![t] = todo[t] \ {f}]
  OBVIOUS
<1>5. /\ DOMAIN columns = Margin!AllBlocks /\ marginPc = "sum" /\ "sum" \in Laid
      /\ UNCHANGED <<marginPc, factors, columns, total, joining>>
  BY <1>1 DEF DroppedInv, Laid
<1>6. /\ joining \in -1..(NumThreads - 1)
      /\ todo \in [Margin!Threads -> SUBSET DOMAIN factors]
      /\ \A u \in Margin!Threads : todo[u] \subseteq Margin!Dealt(u) /\ (u > joining => todo[u] = {})
      /\ DOMAIN sums = Margin!Threads
      /\ \A u \in Margin!Threads :
           /\ DOMAIN sums[u] = Starts \X Starts
           /\ \A b, c \in Margin!AllBlocks :
                SumOf(sums[u][<<columns[b], columns[c]>>], AddedBy(u) \cap Margin!Connecting(b, c))
      /\ DOMAIN total = Starts \X Starts
      /\ \A b, c \in Margin!AllBlocks :
           SumOf(total[<<columns[b], columns[c]>>], Joined \cap Margin!Connecting(b, c))
  BY <1>1, <1>5 DEF SumsInv
<1>7. Starts' = Starts /\ Joined' = Joined
  BY <1>2, <1>5 DEF Starts, Joined
<1>8. f \in DOMAIN factors /\ f \in Nat /\ f \in Margin!Dealt(t) /\ f \notin AddedBy(t)
  <2>1. f \in DOMAIN factors /\ f \in Margin!Dealt(t) /\ f \notin AddedBy(t)
    BY <1>6 DEF AddedBy
  <2>2. f \in Nat
    BY <1>1, <1>5, <2>1, GraphBlocks
  <2> QED  BY <2>1, <2>2
<1>9. /\ DOMAIN Margin!WithFactor(sums[t], f) = Starts \X Starts
      /\ \A b, c \in Margin!AllBlocks :
           SumOf(Margin!WithFactor(sums[t], f)[<<columns[b], columns[c]>>], (AddedBy(t) \cup {f}) \cap Margin!Connecting(b, c))
  <2> DEFINE D == AddedBy(t)
             matrix == sums[t]
  <2>1. DOMAIN matrix = Starts \X Starts
        /\ \A b, c \in Margin!AllBlocks : SumOf(matrix[<<columns[b], columns[c]>>], D \cap Margin!Connecting(b, c))
    BY <1>6
  <2>2. f \notin D
    BY <1>8
  <2> HIDE DEF D, matrix
  <2>3. DOMAIN Margin!WithFactor(matrix, f) = Starts \X Starts
    BY <1>1, <1>5, <1>8, <2>1, <2>2, FactorAdded
  <2>4. \A b, c \in Margin!AllBlocks :
          SumOf(Margin!WithFactor(matrix, f)[<<columns[b], columns[c]>>], (D \cup {f}) \cap Margin!Connecting(b, c))
    BY <1>1, <1>5, <1>8, <2>1, <2>2, FactorAdded
  <2> QED  BY <2>3, <2>4 DEF D, matrix
<1>10. /\ DOMAIN sums' = Margin!Threads /\ sums'[t] = Margin!WithFactor(sums[t], f)
       /\ \A u \in Margin!Threads \ {t} : sums'[u] = sums[u] /\ todo'[u] = todo[u]
       /\ todo'[t] = todo[t] \ {f} /\ todo' \in [Margin!Threads -> SUBSET DOMAIN factors]
  BY <1>4, <1>6
<1>11. /\ AddedBy(t)' = AddedBy(t) \cup {f}
       /\ \A u \in Margin!Threads \ {t} : AddedBy(u)' = AddedBy(u)
  BY <1>2, <1>4, <1>8, <1>10 DEF AddedBy
<1>12. ASSUME NEW u \in Margin!Threads
       PROVE  /\ DOMAIN sums'[u] = Starts \X Starts
              /\ \A b, c \in Margin!AllBlocks :
                   SumOf(sums'[u][<<columns[b], columns[c]>>], AddedBy(u)' \cap Margin!Connecting(b, c))
  <2>1. CASE u = t
    BY <1>9, <1>10, <1>11, <2>1
  <2>2. CASE u # t
    BY <1>6, <1>10, <1>11, <2>2
  <2> QED  BY <2>1, <2>2
<1>13. SumsInv'
  <2> HIDE DEF Margin!ThreadsConstructA
  <2>1. \A u \in Margin!Threads : todo'[u] \subseteq Margin!Dealt(u) /\ (u > joining => todo'[u] = {})
    BY <1>4, <1>6, <1>10
  <2>2. ASSUME NEW u \in Margin!Threads', NEW b \in Margin!AllBlocks', NEW c \in Margin!AllBlocks'
        PROVE  SumOf(sums'[u][<<columns'[b], columns'[c]>>], AddedBy(u)' \cap Margin!Connecting(b, c)')
    BY <1>2, <1>5, <1>12
  <2>3. ASSUME NEW b \in Margin!AllBlocks', NEW c \in Margin!AllBlocks'
        PROVE  SumOf(total'[<<columns'[b], columns'[c]>>], Joined' \cap Margin!Connecting(b, c)')
    BY <1>2, <1>5, <1>6, <1>7
  <2>4. \A u \in Margin!Threads' : DOMAIN sums'[u] = Starts' \X Starts'
    BY <1>2, <1>7, <1>12
  <2>5. DOMAIN sums' = Margin!Threads' /\ DOMAIN total' = Starts' \X Starts'
    BY <1>2, <1>5, <1>6, <1>7, <1>10
  <2>6. todo' \in [Margin!Threads' -> SUBSET DOMAIN factors']
    BY <1>2, <1>5, <1>10
  <2>7. \A u \in Margin!Threads' : todo'[u] \subseteq Margin!Dealt(u)' /\ (u > joining' => todo'[u] = {})
    BY <1>2, <1>5, <2>1
  <2>8. joining' \in -1..(NumThreads - 1) /\ marginPc' = "sum"
    BY <1>5, <1>6
  <2> QED  BY <2>2, <2>3, <2>4, <2>5, <2>6, <2>7, <2>8 DEF SumsInv, SumOf, Laid
<1> QED  BY <1>3, <1>13 DEF MarginInv

\* A thread joined has added everything it was dealt, to a total that has none of it.
LEMMA MarginJoin == ASSUME MarginInv, NEW t \in Margin!Threads, Margin!JoinThread(t) PROVE MarginInv'
<1> USE DEF Margin!JoinThread
<1>1. MarginTypeInv /\ LayoutInv /\ DroppedInv /\ SavedInv /\ SumsInv
  BY DEF MarginInv
<1>2. /\ Margin!AllBlocks' = Margin!AllBlocks /\ Margin!Dropped' = Margin!Dropped
      /\ (\A c : Local(c)' = Local(c)) /\ Margin!Threads' = Margin!Threads
      /\ (\A u : Margin!Dealt(u)' = Margin!Dealt(u))
      /\ \A b, c : Margin!Connecting(b, c)' = Margin!Connecting(b, c)
  BY SameFactors
<1>3. MarginTypeInv' /\ LayoutInv' /\ DroppedInv' /\ SavedInv' /\ KeptInv'
  BY <1>1, <1>2 DEF MarginTypeInv, LayoutInv, DroppedInv, SavedInv, KeptInv, Laid
<1>5. /\ DOMAIN columns = Margin!AllBlocks /\ marginPc = "sum" /\ "sum" \in Laid
      /\ UNCHANGED <<marginPc, factors, columns, todo, sums>>
      /\ t = joining /\ todo[t] = {} /\ joining' = joining - 1
      /\ total' = [p \in DOMAIN total |-> total[p] \o sums[t][p]]
  BY <1>1 DEF DroppedInv, Laid
<1>6. /\ joining \in -1..(NumThreads - 1)
      /\ todo \in [Margin!Threads -> SUBSET DOMAIN factors]
      /\ \A u \in Margin!Threads : todo[u] \subseteq Margin!Dealt(u) /\ (u > joining => todo[u] = {})
      /\ DOMAIN sums = Margin!Threads
      /\ \A u \in Margin!Threads :
           /\ DOMAIN sums[u] = Starts \X Starts
           /\ \A b, c \in Margin!AllBlocks :
                SumOf(sums[u][<<columns[b], columns[c]>>], AddedBy(u) \cap Margin!Connecting(b, c))
      /\ DOMAIN total = Starts \X Starts
      /\ \A b, c \in Margin!AllBlocks :
           SumOf(total[<<columns[b], columns[c]>>], Joined \cap Margin!Connecting(b, c))
  BY <1>1, <1>5 DEF SumsInv
<1> HIDE DEF Margin!JoinThread
<1>7. Starts' = Starts /\ \A u : AddedBy(u)' = AddedBy(u)
  BY <1>2, <1>5 DEF Starts, AddedBy
<1>8. AddedBy(t) = Margin!Dealt(t)
  BY <1>5 DEF AddedBy
<1>9. \A f \in DOMAIN factors : (f - 1) % NumThreads \in Int
  <2>1. marginPc # "add"
    BY <1>5
  <2>2. \A f \in DOMAIN factors : (f - 1) % NumThreads \in Margin!Threads
    BY <1>1, <2>1, DealtToAThread
  <2> QED  BY <2>2, MarginAssumption DEF Margin!Threads
<1>10. Joined' = Joined \cup Margin!Dealt(t) /\ Joined \cap Margin!Dealt(t) = {}
  <2> DEFINE r(f) == (f - 1) % NumThreads
  <2>1. \A f \in DOMAIN factors : r(f) \in Int
    BY <1>9
  <2>2. /\ Joined = {f \in DOMAIN factors : r(f) > joining}
        /\ Joined' = {f \in DOMAIN factors : r(f) > joining - 1}
        /\ Margin!Dealt(t) = {f \in DOMAIN factors : r(f) = joining}
    BY <1>5 DEF Joined, Margin!Dealt
  <2>3. joining \in Int
    BY <1>6
  <2> HIDE DEF r
  <2>4. \A f \in DOMAIN factors : r(f) > joining - 1 <=> r(f) > joining \/ r(f) = joining
    BY <2>1, <2>3
  <2>5. \A f \in DOMAIN factors : ~ (r(f) > joining /\ r(f) = joining)
    BY <2>1, <2>3
  <2> QED  BY <2>2, <2>4, <2>5
<1>11. ASSUME NEW b \in Margin!AllBlocks, NEW c \in Margin!AllBlocks
       PROVE  SumOf(total'[<<columns[b], columns[c]>>], Joined' \cap Margin!Connecting(b, c))
  <2> DEFINE p == <<columns[b], columns[c]>>
             S == Joined \cap Margin!Connecting(b, c)
             T == Margin!Dealt(t) \cap Margin!Connecting(b, c)
  <2>1. p \in DOMAIN total
    BY <1>6 DEF Starts
  <2>2. total'[p] = total[p] \o sums[t][p]
    <3> HIDE DEF p
    <3> QED  BY <1>5, <2>1
  <2>3. SumOf(total[p], S)
    BY <1>6
  <2>4. SumOf(sums[t][p], T)
    BY <1>6, <1>8
  <2>5. S \cap T = {}
    BY <1>10
  <2>6. S \cup T = Joined' \cap Margin!Connecting(b, c)
    BY <1>10
  <2> HIDE DEF p, S, T
  <2>7. SumOf(total[p] \o sums[t][p], S \cup T)
    BY <2>3, <2>4, <2>5, SumJoined
  <2> QED  BY <2>2, <2>6, <2>7 DEF p
<1>12. SumsInv'
  <2>1. joining' \in -1..(NumThreads - 1) /\ marginPc' = "sum"
    <3>1. joining \in 0..(NumThreads - 1)
      BY <1>5 DEF Margin!Threads
    <3> QED  BY <1>5, <3>1, MarginAssumption
  <2>2. \A u \in Margin!Threads' : todo'[u] \subseteq Margin!Dealt(u)' /\ (u > joining' => todo'[u] = {})
    <3>1. ASSUME NEW u \in Margin!Threads, u > joining - 1 PROVE todo[u] = {}
      <4>1. u > joining \/ u = joining
        BY <1>6, <3>1 DEF Margin!Threads
      <4> QED  BY <1>5, <1>6, <4>1
    <3> QED  BY <1>2, <1>5, <1>6, <3>1
  <2>3. ASSUME NEW u \in Margin!Threads', NEW b \in Margin!AllBlocks', NEW c \in Margin!AllBlocks'
        PROVE  SumOf(sums'[u][<<columns'[b], columns'[c]>>], AddedBy(u)' \cap Margin!Connecting(b, c)')
    BY <1>2, <1>5, <1>6, <1>7
  <2>4. ASSUME NEW b \in Margin!AllBlocks', NEW c \in Margin!AllBlocks'
        PROVE  SumOf(total'[<<columns'[b], columns'[c]>>], Joined' \cap Margin!Connecting(b, c)')
    BY <1>2, <1>5, <1>11
  <2>5. \A u \in Margin!Threads' : DOMAIN sums'[u] = Starts' \X Starts'
    BY <1>2, <1>5, <1>6, <1>7
  <2>6. DOMAIN sums' = Margin!Threads' /\ DOMAIN total' = Starts' \X Starts'
    BY <1>2, <1>5, <1>6, <1>7
  <2>7. todo' \in [Margin!Threads' -> SUBSET DOMAIN factors']
    BY <1>2, <1>5, <1>6
  <2> QED  BY <2>1, <2>2, <2>3, <2>4, <2>5, <2>6, <2>7 DEF SumsInv, SumOf, Laid
<1> QED  BY <1>3, <1>12 DEF MarginInv

LEMMA MarginSummed ==
  MarginInv /\ (Margin!Marginalized \/ Margin!GetParameterBlocks) => MarginInv'
<1> SUFFICES ASSUME MarginInv, Margin!Marginalized \/ Margin!GetParameterBlocks PROVE MarginInv'
  OBVIOUS
<1> USE DEF Margin!Marginalized, Margin!GetParameterBlocks
<1>1. MarginTypeInv /\ LayoutInv /\ DroppedInv /\ SavedInv /\ SumsInv
  BY DEF MarginInv
<1>2. /\ Margin!AllBlocks' = Margin!AllBlocks /\ Margin!Dropped' = Margin!Dropped
      /\ (\A c : Local(c)' = Local(c)) /\ Margin!Threads' = Margin!Threads
      /\ (\A u : Margin!Dealt(u)' = Margin!Dealt(u))
      /\ \A b, c : Margin!Connecting(b, c)' = Margin!Connecting(b, c)
  BY SameFactors
<1>3. /\ UNCHANGED <<factors, columns, pos, firstKept, saved, todo, sums, total, joining>>
      /\ marginPc \in Laid /\ marginPc' \in Laid /\ joining = -1
  BY <1>1 DEF SumsInv, Laid
<1>4. MarginTypeInv' /\ LayoutInv' /\ DroppedInv'
  BY <1>1, <1>2, <1>3 DEF MarginTypeInv, LayoutInv, DroppedInv, Laid
<1>5. SavedInv'
  BY <1>1, <1>2, <1>3 DEF SavedInv, Laid
<1>6. SumsInv'
  <2>1. Starts' = Starts /\ Joined' = Joined /\ \A u : AddedBy(u)' = AddedBy(u)
    BY <1>2, <1>3 DEF Starts, Joined, AddedBy
  <2> HIDE DEF Margin!Marginalized, Margin!GetParameterBlocks
  <2> QED  BY <1>1, <1>2, <1>3, <2>1 DEF SumsInv
<1>7. KeptInv'
  <2>1. CASE Margin!Marginalized
    BY <2>1 DEF KeptInv
  <2>2. CASE Margin!GetParameterBlocks
    <3> DEFINE K == {b \in Margin!AllBlocks : Margin!IsKept(b)}
    <3>1. PICK order \in Margin!Orders(K) :
            kept' = [i \in DOMAIN order |-> [block |-> order[i], size |-> Size[order[i]],
                                             idx |-> columns[order[i]], data |-> saved[order[i]]]]
      BY <2>2
    <3>2. /\ \A i \in DOMAIN order : order[i] \in K
          /\ \A b \in K : \E i \in DOMAIN order : \A j \in DOMAIN order : order[j] = b <=> j = i
      BY DEF Margin!Orders
    <3>3. \A b : Margin!IsKept(b)' <=> Margin!IsKept(b)
      BY <1>3 DEF Margin!IsKept
    <3>4. DOMAIN kept' = DOMAIN order /\ \A i \in DOMAIN order :
             /\ kept'[i].block = order[i] /\ kept'[i].size = Size[order[i]]
             /\ kept'[i].idx = columns[order[i]] /\ kept'[i].data = saved[order[i]]
      BY <3>1
    <3>5. \A b \in Margin!AllBlocks : b \in K <=> Margin!IsKept(b)
      OBVIOUS
    <3>6. K \subseteq Margin!AllBlocks
      OBVIOUS
    <3> HIDE DEF K, Margin!Marginalized, Margin!GetParameterBlocks
    <3>7. \A i, j \in DOMAIN order : order[i] = order[j] => i = j
      BY <3>2
    <3> QED  BY <1>2, <1>3, <3>2, <3>3, <3>4, <3>5, <3>6, <3>7 DEF KeptInv
  <2> QED  BY <2>1, <2>2
<1> QED  BY <1>4, <1>5, <1>6, <1>7 DEF MarginInv

LEMMA MarginInvariant == Margin!Spec => []MarginInv
<1>1. MarginInv /\ [Margin!Next]_(Margin!vars) => MarginInv'
  BY MarginStutter, MarginCollect, MarginLayOut, MarginDropped, MarginThreads, MarginAdd, MarginJoin, MarginSummed
     DEF Margin!Next
<1> QED  BY <1>1, MarginInitial, PTL DEF Margin!Spec

LEMMA PriorFromInvariant == MarginInv => Margin!PriorOfItsFactors
<1> SUFFICES ASSUME MarginInv, marginPc = "prior"
    PROVE  /\ {kept[i].block : i \in DOMAIN kept} = Margin!AllBlocks \ Margin!Dropped
           /\ \A i, j \in DOMAIN kept : i # j => /\ kept[i].block # kept[j].block
                                                 /\ Margin!Taken(i) \cap Margin!Taken(j) = {}
           /\ UNION {Margin!Taken(i) : i \in DOMAIN kept} = 0..(Margin!NumResiduals - 1)
           /\ \A i \in DOMAIN kept : kept[i].data = "linearized"
           /\ \A i, j \in DOMAIN kept :
                SumOf(total[<<kept[i].idx, kept[j].idx>>], Margin!Connecting(kept[i].block, kept[j].block))
  BY DEF Margin!PriorOfItsFactors, SumOf
<1>1. /\ DOMAIN columns = Margin!AllBlocks /\ Margin!Dropped \subseteq Margin!AllBlocks
      /\ Margin!AllBlocks \subseteq DOMAIN Size /\ firstKept \in Nat /\ pos \in Nat /\ firstKept <= pos
      /\ \A b \in Margin!AllBlocks : IF b \in Margin!Dropped THEN columns[b] + Local(b) <= firstKept
                                                             ELSE columns[b] >= firstKept
  BY GraphBlocks DEF MarginInv, MarginTypeInv, DroppedInv, Laid
<1>2. /\ \A b \in Margin!AllBlocks : columns[b] \in Nat /\ columns[b] + Local(b) <= pos
      /\ \A b, c \in Margin!AllBlocks :
           b # c => columns[b] + Local(b) <= columns[c] \/ columns[c] + Local(c) <= columns[b]
      /\ \A x \in 0..(pos - 1) : \E b \in Margin!AllBlocks : columns[b] <= x /\ x < columns[b] + Local(b)
  BY <1>1 DEF MarginInv, LayoutInv
<1>3. \A b \in Margin!AllBlocks : Local(b) \in Nat /\ Local(b) > 0
  BY <1>1, LocalSizes
<1>4. /\ \A i \in DOMAIN kept :
           /\ kept[i].block \in Margin!AllBlocks /\ Margin!IsKept(kept[i].block)
           /\ kept[i].size = Size[kept[i].block] /\ kept[i].idx = columns[kept[i].block]
           /\ kept[i].data = saved[kept[i].block]
      /\ \A b \in Margin!AllBlocks : Margin!IsKept(b) => \E i \in DOMAIN kept : kept[i].block = b
      /\ \A i, j \in DOMAIN kept : kept[i].block = kept[j].block => i = j
  BY DEF MarginInv, KeptInv
<1>5. \A b \in Margin!AllBlocks : Margin!IsKept(b) <=> b \notin Margin!Dropped
  BY <1>1, <1>2, <1>3 DEF Margin!IsKept
<1>6. {kept[i].block : i \in DOMAIN kept} = Margin!AllBlocks \ Margin!Dropped
  BY <1>1, <1>4, <1>5
<1>7. \A i \in DOMAIN kept : Margin!Taken(i) = (columns[kept[i].block] - firstKept)
                                               ..(columns[kept[i].block] - firstKept + Local(kept[i].block) - 1)
  BY <1>4 DEF Margin!Taken, Local
<1>8. ASSUME NEW i \in DOMAIN kept, NEW j \in DOMAIN kept, i # j
      PROVE  kept[i].block # kept[j].block /\ Margin!Taken(i) \cap Margin!Taken(j) = {}
  <2> DEFINE b == kept[i].block
             c == kept[j].block
  <2>1. b \in Margin!AllBlocks /\ c \in Margin!AllBlocks /\ b # c
    BY <1>4, <1>8
  <2>2. /\ Margin!Taken(i) = (columns[b] - firstKept)..(columns[b] - firstKept + Local(b) - 1)
        /\ Margin!Taken(j) = (columns[c] - firstKept)..(columns[c] - firstKept + Local(c) - 1)
    BY <1>7
  <2> HIDE DEF b, c
  <2>3. /\ columns[b] \in Nat /\ columns[c] \in Nat /\ Local(b) \in Nat /\ Local(c) \in Nat
        /\ columns[b] + Local(b) <= columns[c] \/ columns[c] + Local(c) <= columns[b]
    BY <1>2, <1>3, <2>1
  <2>4. Margin!Taken(i) \cap Margin!Taken(j) = {}
    BY <1>1, <2>2, <2>3, SMTT(30)
  <2> QED  BY <2>1, <2>4 DEF b, c
<1>9. UNION {Margin!Taken(i) : i \in DOMAIN kept} = 0..(Margin!NumResiduals - 1)
  <2>1. ASSUME NEW i \in DOMAIN kept, NEW x \in Margin!Taken(i) PROVE x \in 0..(pos - firstKept - 1)
    <3> DEFINE b == kept[i].block
    <3>1. b \in Margin!AllBlocks /\ b \notin Margin!Dropped
      BY <1>4, <1>5
    <3>2. Margin!Taken(i) = (columns[b] - firstKept)..(columns[b] - firstKept + Local(b) - 1)
      BY <1>7
    <3> HIDE DEF b
    <3>3. /\ columns[b] \in Nat /\ Local(b) \in Nat /\ columns[b] >= firstKept /\ columns[b] + Local(b) <= pos
      BY <1>1, <1>2, <1>3, <3>1
    <3> QED  BY <1>1, <2>1, <3>2, <3>3
  <2>2. ASSUME NEW x \in 0..(pos - firstKept - 1) PROVE \E i \in DOMAIN kept : x \in Margin!Taken(i)
    <3>1. x + firstKept \in 0..(pos - 1) /\ x \in Nat
      BY <1>1
    <3>2. PICK b \in Margin!AllBlocks : columns[b] <= x + firstKept /\ x + firstKept < columns[b] + Local(b)
      BY <1>2, <3>1
    <3>3. columns[b] \in Nat /\ Local(b) \in Nat
      BY <1>2, <1>3
    <3>4. b \notin Margin!Dropped
      <4>1. ASSUME b \in Margin!Dropped PROVE FALSE
        <5>1. columns[b] + Local(b) <= firstKept
          BY <1>1, <4>1
        <5> QED  BY <1>1, <3>1, <3>2, <3>3, <5>1
      <4> QED  BY <4>1
    <3>5. PICK i \in DOMAIN kept : kept[i].block = b
      BY <1>4, <1>5, <3>4
    <3>6. Margin!Taken(i) = (columns[b] - firstKept)..(columns[b] - firstKept + Local(b) - 1)
      BY <1>7, <3>5
    <3>7. x \in (columns[b] - firstKept)..(columns[b] - firstKept + Local(b) - 1)
      BY <1>1, <3>1, <3>2, <3>3
    <3> QED  BY <3>6, <3>7
  <2>3. Margin!NumResiduals = pos - firstKept
    BY DEF Margin!NumResiduals
  <2> QED  BY <2>1, <2>2, <2>3
<1>10. \A i \in DOMAIN kept : kept[i].data = "linearized"
  <2>1. saved = [b \in Margin!AllBlocks |-> "linearized"]
    BY DEF MarginInv, SavedInv, Laid
  <2> QED  BY <1>4, <2>1
<1>11. Joined = DOMAIN factors
  <2>1. joining = -1 /\ MarginTypeInv /\ marginPc # "add"
    BY DEF MarginInv, SumsInv
  <2>2. ASSUME NEW f \in DOMAIN factors PROVE (f - 1) % NumThreads > joining
    <3>1. (f - 1) % NumThreads \in 0..(NumThreads - 1)
      BY <2>1, DealtToAThread DEF Margin!Threads
    <3> DEFINE r == (f - 1) % NumThreads
    <3> HIDE DEF r
    <3>2. r > -1
      BY <3>1, MarginAssumption DEF r
    <3> QED  BY <2>1, <3>2 DEF r
  <2> QED  BY <2>2 DEF Joined
<1>12. ASSUME NEW i \in DOMAIN kept, NEW j \in DOMAIN kept
       PROVE  SumOf(total[<<kept[i].idx, kept[j].idx>>], Margin!Connecting(kept[i].block, kept[j].block))
  <2> DEFINE b == kept[i].block
             c == kept[j].block
  <2>1. b \in Margin!AllBlocks /\ c \in Margin!AllBlocks /\ kept[i].idx = columns[b] /\ kept[j].idx = columns[c]
    BY <1>4
  <2>2. Joined \cap Margin!Connecting(b, c) = Margin!Connecting(b, c)
    BY <1>11 DEF Margin!Connecting
  <2> HIDE DEF b, c
  <2>3. SumOf(total[<<columns[b], columns[c]>>], Joined \cap Margin!Connecting(b, c))
    BY <2>1 DEF MarginInv, SumsInv, Laid
  <2> QED  BY <2>1, <2>2, <2>3 DEF b, c
<1> QED  BY <1>6, <1>8, <1>9, <1>10, <1>12

\* For every number of threads and every set of residual blocks, whatever order the
\* maps are met in, the prior sums at the columns of two blocks exactly the factors
\* that connected them, and every block that was not dropped is a parameter of it
\* with columns of its own (marginalization_factor.cpp:141-380).
THEOREM PriorSumsItsFactors == Margin!Spec => []PriorOfItsFactors
<1>1. PriorOfItsFactors <=> Margin!PriorOfItsFactors
  BY DEF PriorOfItsFactors
<1> QED  BY <1>1, MarginInvariant, PriorFromInvariant, PTL

-----------------------------------------------------------------------------
(* Cost functions *)

\* What evaluating a cost function reads fits its blocks, its members and its class.
Fits(c, m) ==
  LET r == Costs!Evaluated(c)
  IN  /\ Len(r.blocks) = Len(c.blocks)
      /\ \A i \in DOMAIN c.blocks : /\ r.blocks[i].name = c.blocks[i].name
                                    /\ r.blocks[i].size <= c.blocks[i].size
      /\ r.members \subseteq c.members
      /\ c.class = Costs!Class[m]

LEMMA IntrinsicsSize == \A class : Costs!Intrinsics(class) \in Nat
BY CostAssumption DEF Costs!Intrinsics

LEMMA PointFits ==
  ASSUME NEW m \in Costs!Models
  PROVE  /\ Fits(Costs!FromPoint(m, Costs!CameraFlags, TRUE), m)
         /\ Fits(Costs!FromPoint(m, Costs!Pose6, TRUE), m)
         /\ Fits(Costs!FromWeightedPoint(m, Costs!CameraFlags, TRUE), m)
<1> USE IntrinsicsSize DEF Fits, Costs!Cost, Costs!Blocks, Costs!Block, Costs!Evaluated, Costs!Reads,
        Costs!CameraFlags, Costs!Pose6, Costs!Transform, Costs!InQT, Costs!WorldToCameraTransform,
        Costs!ReprojectionError1, Costs!ComprehensionError
<1>1. Fits(Costs!FromPoint(m, Costs!CameraFlags, TRUE), m)
  BY DEF Costs!FromPoint
<1>2. Fits(Costs!FromPoint(m, Costs!Pose6, TRUE), m)
  BY DEF Costs!FromPoint
<1>3. Fits(Costs!FromWeightedPoint(m, Costs!CameraFlags, TRUE), m)
  BY DEF Costs!FromWeightedPoint
<1> QED  BY <1>1, <1>2, <1>3

LEMMA PixelFits ==
  ASSUME NEW m \in Costs!Models
  PROVE  /\ Fits(Costs!FromPixelAndPose(m, {"CAMERA_POSE"} \cup Costs!Point, TRUE), m)
         /\ Fits(Costs!FromPixelAndOdometry(m, Costs!Pose6 \cup Costs!Point, TRUE), m)
         /\ Fits(Costs!FromPixelWithIntrinsics(m, {"CAMERA_INTRINSICS"} \cup Costs!Pose6 \cup Costs!Point, TRUE), m)
         /\ Fits(Costs!FromWeightedPixel(m, Costs!Pose6 \cup Costs!Point, TRUE), m)
         /\ Fits(Costs!FromWeightedPixel(m, {"CAMERA_INTRINSICS"} \cup Costs!Pose6 \cup Costs!Point, TRUE), m)
         /\ Fits(Costs!FromOdometry(m, {Costs!Transform} \cup Costs!Point, TRUE), m)
         /\ Fits(Costs!FromCameraAndOdometry(m, Costs!Point, TRUE), m)
         /\ Fits(Costs!Stereo(m), m)
<1> USE IntrinsicsSize DEF Fits, Costs!Cost, Costs!Blocks, Costs!Block, Costs!Evaluated, Costs!Reads,
        Costs!Pose6, Costs!Transform, Costs!Point, Costs!InQT, Costs!WorldToCameraTransform,
        Costs!ReprojectionError2, Costs!ReprojectionError3, Costs!OdometryFunctor, Costs!OdometryClass
<1>1. Fits(Costs!FromPixelAndPose(m, {"CAMERA_POSE"} \cup Costs!Point, TRUE), m)
  BY DEF Costs!FromPixelAndPose
<1>2. Fits(Costs!FromPixelAndOdometry(m, Costs!Pose6 \cup Costs!Point, TRUE), m)
  BY DEF Costs!FromPixelAndOdometry
<1>3. Fits(Costs!FromPixelWithIntrinsics(m, {"CAMERA_INTRINSICS"} \cup Costs!Pose6 \cup Costs!Point, TRUE), m)
  BY DEF Costs!FromPixelWithIntrinsics
<1>4. Fits(Costs!FromWeightedPixel(m, Costs!Pose6 \cup Costs!Point, TRUE), m)
  BY DEF Costs!FromWeightedPixel
<1>5. Fits(Costs!FromWeightedPixel(m, {"CAMERA_INTRINSICS"} \cup Costs!Pose6 \cup Costs!Point, TRUE), m)
  BY DEF Costs!FromWeightedPixel
<1>6. Fits(Costs!FromOdometry(m, {Costs!Transform} \cup Costs!Point, TRUE), m)
  BY DEF Costs!FromOdometry
<1>7. Fits(Costs!FromCameraAndOdometry(m, Costs!Point, TRUE), m)
  BY DEF Costs!FromCameraAndOdometry
<1>8. Fits(Costs!Stereo(m), m)
  BY DEF Costs!Stereo, Costs!StereoReprojectionError
<1> QED  BY <1>1, <1>2, <1>3, <1>4, <1>5, <1>6, <1>7, <1>8

\* Every request but those the code does not fit.
LEMMA GeneratedFits ==
  ASSUME NEW r \in Costs!Requests, r.z, "ODOMETRY_3D_POSE" \notin r.flags, NEW m \in Costs!Models
  PROVE  Fits(Costs!Generated(r, m), m)
<1> DEFINE o == r.overload
           f == r.flags
<1>1. o \in DOMAIN Costs!Cases /\ f \in Costs!Cases[o] /\ r.z = TRUE
  BY DEF Costs!Requests
<1>2. "ODOMETRY_3D_POSE" \notin f
  OBVIOUS
<1>3. DOMAIN Costs!Cases = {"FromPoint", "FromWeightedPoint", "FromPixelAndPose", "FromPixelAndOdometry",
        "FromPixelWithIntrinsics", "FromWeightedPixel", "FromOdometry", "FromCameraAndOdometry", "Stereo"}
  BY DEF Costs!Cases
<1>4. CASE o = "FromPoint"
  <2>1. f \in {Costs!CameraFlags, Costs!Pose6}
    BY <1>1, <1>4 DEF Costs!Cases
  <2>2. Costs!Generated(r, m) = Costs!FromPoint(m, f, TRUE)
    BY <1>1, <1>4 DEF Costs!Generated
  <2> QED  BY <2>1, <2>2, PointFits
<1>5. CASE o = "FromWeightedPoint"
  <2>1. f = Costs!CameraFlags
    BY <1>1, <1>5 DEF Costs!Cases
  <2>2. Costs!Generated(r, m) = Costs!FromWeightedPoint(m, f, TRUE)
    BY <1>1, <1>5 DEF Costs!Generated
  <2> QED  BY <2>1, <2>2, PointFits
<1>6. CASE o = "FromPixelAndPose"
  <2>1. f = {"CAMERA_POSE"} \cup Costs!Point
    BY <1>1, <1>6 DEF Costs!Cases
  <2>2. Costs!Generated(r, m) = Costs!FromPixelAndPose(m, f, TRUE)
    BY <1>1, <1>6 DEF Costs!Generated
  <2> QED  BY <2>1, <2>2, PixelFits
<1>7. CASE o = "FromPixelAndOdometry"
  <2>1. f \in {Costs!Pose3 \cup Costs!Point, Costs!Pose6 \cup Costs!Point}
    BY <1>1, <1>7 DEF Costs!Cases
  <2>2. f = Costs!Pose6 \cup Costs!Point
    BY <1>2, <2>1 DEF Costs!Pose3
  <2>3. Costs!Generated(r, m) = Costs!FromPixelAndOdometry(m, f, TRUE)
    BY <1>1, <1>7 DEF Costs!Generated
  <2> QED  BY <2>2, <2>3, PixelFits
<1>8. CASE o = "FromPixelWithIntrinsics"
  <2>1. f \in {{"CAMERA_INTRINSICS"} \cup Costs!Pose3 \cup Costs!Point,
               {"CAMERA_INTRINSICS"} \cup Costs!Pose6 \cup Costs!Point}
    BY <1>1, <1>8 DEF Costs!Cases
  <2>2. f = {"CAMERA_INTRINSICS"} \cup Costs!Pose6 \cup Costs!Point
    BY <1>2, <2>1 DEF Costs!Pose3
  <2>3. Costs!Generated(r, m) = Costs!FromPixelWithIntrinsics(m, f, TRUE)
    BY <1>1, <1>8 DEF Costs!Generated
  <2> QED  BY <2>2, <2>3, PixelFits
<1>9. CASE o = "FromWeightedPixel"
  <2>1. f \in {Costs!Pose6 \cup Costs!Point, {"CAMERA_INTRINSICS"} \cup Costs!Pose6 \cup Costs!Point}
    BY <1>1, <1>9 DEF Costs!Cases
  <2>2. Costs!Generated(r, m) = Costs!FromWeightedPixel(m, f, TRUE)
    BY <1>1, <1>9 DEF Costs!Generated
  <2> QED  BY <2>1, <2>2, PixelFits
<1>10. CASE o = "FromOdometry"
  <2>1. f = {Costs!Transform} \cup Costs!Point
    BY <1>1, <1>10 DEF Costs!Cases
  <2>2. Costs!Generated(r, m) = Costs!FromOdometry(m, f, TRUE)
    BY <1>1, <1>10 DEF Costs!Generated
  <2> QED  BY <2>1, <2>2, PixelFits
<1>11. CASE o = "FromCameraAndOdometry"
  <2>1. f = Costs!Point
    BY <1>1, <1>11 DEF Costs!Cases
  <2>2. Costs!Generated(r, m) = Costs!FromCameraAndOdometry(m, f, TRUE)
    BY <1>1, <1>11 DEF Costs!Generated
  <2> QED  BY <2>1, <2>2, PixelFits
<1>12. CASE o = "Stereo"
  <2>1. Costs!Generated(r, m) = Costs!Stereo(m)
    BY <1>1, <1>12 DEF Costs!Generated
  <2> QED  BY <2>1, PixelFits
<1> QED  BY <1>1, <1>3, <1>4, <1>5, <1>6, <1>7, <1>8, <1>9, <1>10, <1>11, <1>12

CostInv ==
  /\ costPc \in {"request", "generated", "evaluated"}
  /\ costPc # "request" => /\ model \in Costs!Models /\ request \in Costs!Requests
                           /\ cost = Costs!Generated(request, model)
  /\ costPc = "evaluated" => read = Costs!Evaluated(cost)

LEMMA CostInvariant == Costs!CostSpec => []CostInv
<1>1. Costs!CostInit => CostInv
  BY DEF Costs!CostInit, CostInv
<1>2. CostInv /\ [Costs!CostNext]_(Costs!costVars) => CostInv'
  <2> SUFFICES ASSUME CostInv, [Costs!CostNext]_(Costs!costVars) PROVE CostInv'
    OBVIOUS
  <2>1. CASE Costs!GenerateCostFunction
    BY <2>1 DEF CostInv, Costs!GenerateCostFunction
  <2>2. CASE Costs!Evaluate
    BY <2>2 DEF CostInv, Costs!Evaluate
  <2>3. CASE UNCHANGED Costs!costVars
    BY <2>3 DEF CostInv, Costs!costVars
  <2> QED  BY <2>1, <2>2, <2>3 DEF Costs!CostNext
<1> QED  BY <1>1, <1>2, PTL DEF Costs!CostSpec

\* Every cost function the calibration can ask for reads its blocks as what they are
\* and not past their ends, and no member left unset, however many parameters the
\* Scaramuzza camera has (CostFunctionFactory.cc:57-482, 501-1206).
THEOREM RequestsFit == Costs!CostSpec => []CostFunctionsFit
<1>1. CostInv => CostFunctionsFit
  <2> SUFFICES ASSUME CostInv, costPc = "evaluated", request.z, "ODOMETRY_3D_POSE" \notin request.flags
               PROVE  /\ Len(read.blocks) = Len(cost.blocks)
                      /\ \A i \in DOMAIN cost.blocks : /\ read.blocks[i].name = cost.blocks[i].name
                                                       /\ read.blocks[i].size <= cost.blocks[i].size
                      /\ read.members \subseteq cost.members
                      /\ cost.class = Costs!Class[model]
    BY DEF CostFunctionsFit, Costs!CostFunctionsFit
  <2>1. Fits(cost, model) /\ read = Costs!Evaluated(cost)
    BY GeneratedFits DEF CostInv
  <2> QED  BY <2>1 DEF Fits
<1> QED  BY <1>1, CostInvariant, PTL

-----------------------------------------------------------------------------
(* Calibration: the tables of the four models *)

Tables(m) ==
  /\ Cal!Count[m] \in Nat
  /\ \A n \in Cal!Members[m] : \E i \in 1..Cal!Count[m] : Cal!ReadBy[m][i] = n
  /\ \A i \in 1..Cal!Count[m] :
       /\ Cal!Writes[m][i] \in Cal!Members[m]
       /\ Cal!Projects[m][i] = IF Cal!ReadBy[m][i] = "poly1" THEN Cal!Unread ELSE Cal!ReadBy[m][i]
       /\ Cal!ReadBy[m][i] # Cal!Unread
       /\ Cal!ReadBy[m][i] = "poly1" => m = "SCARAMUZZA" /\ Cal!Writes[m][i] = "poly1"

\* Every parameter is in the vector, read back where it was written and, but for
\* poly(1), projected with there.
LEMMA VectorTables == \A m \in Cal!Models : Tables(m)
<1> USE DEF Tables, Cal!Members, Cal!Count, Cal!ReadBy, Cal!Writes, Cal!Projects, Cal!Unread
<1>1. Tables("KANNALA_BRANDT")
  BY DEF Cal!KannalaBrandt, Cal!KannalaBrandtReads, Cal!KannalaBrandtWrites, Cal!KannalaBrandtProjects
<1>2. Tables("PINHOLE")
  BY DEF Cal!Pinhole, Cal!PinholeReads, Cal!PinholeWrites, Cal!PinholeProjects
<1>3. Tables("MEI")
  BY DEF Cal!Mei, Cal!MeiReads, Cal!MeiWrites, Cal!MeiProjects
<1>4. Tables("SCARAMUZZA")
  BY DEF Cal!Scaramuzza, Cal!ScaramuzzaReads, Cal!ScaramuzzaWrites, Cal!ScaramuzzaProjects, Cal!Poly, Cal!InvPoly
<1>5. Cal!Models = {"KANNALA_BRANDT", "PINHOLE", "MEI", "SCARAMUZZA"}
  BY DEF Cal!Models
<1> QED  BY <1>1, <1>2, <1>3, <1>4, <1>5

\* Every parameter is in the file, under a key of its own, where it is looked for.
InFile(m) ==
  /\ \A n \in Cal!Members[m] : \E e \in Cal!FromFile[m] : e[3] = n
  /\ \A e \in Cal!FromFile[m] : e \in Cal!ToFile[m]
  /\ \A e, f \in Cal!ToFile[m] : <<e[1], e[2]>> = <<f[1], f[2]>> => e[3] = f[3]

LEMMA SameKeys == \A section, names : \A e \in Cal!Same(section, names) : e[2] = e[3]
BY DEF Cal!Same, Cal!Section

LEMMA NamesInSection ==
  ASSUME NEW section, NEW names, NEW i \in DOMAIN names
  PROVE  \E e \in Cal!Same(section, names) : e[3] = names[i]
<1>1. <<section, names[i], names[i]>> \in Cal!Same(section, names)
  BY DEF Cal!Same, Cal!Section
<1> QED  BY <1>1

LEMMA FileTables == \A m \in Cal!Models : InFile(m)
<1> USE DEF InFile, Cal!Members, Cal!FromFile, Cal!ToFile
<1>1. InFile("KANNALA_BRANDT")
  <2> DEFINE names == <<"k2", "k3", "k4", "k5", "mu", "mv", "u0", "v0">>
             table == Cal!Same("projection_parameters", names)
  <2>1. Cal!ToFile["KANNALA_BRANDT"] = table /\ Cal!FromFile["KANNALA_BRANDT"] = table
    BY DEF Cal!KannalaBrandtToFile, Cal!KannalaBrandtFromFile, Cal!KannalaBrandtWrites
  <2>2. \A n \in Cal!Members["KANNALA_BRANDT"] : \E i \in DOMAIN names : names[i] = n
    BY DEF Cal!KannalaBrandt
  <2>3. \A e \in table : e[2] = e[3]
    BY SameKeys
  <2>4. \A i \in DOMAIN names : \E e \in table : e[3] = names[i]
    BY NamesInSection
  <2> HIDE DEF names, table
  <2>5. \A n \in Cal!Members["KANNALA_BRANDT"] : \E e \in table : e[3] = n
    <3> HIDE DEF Cal!Members
    <3> QED  BY <2>2, <2>4
  <2>6. \A e, f \in table : <<e[1], e[2]>> = <<f[1], f[2]>> => e[3] = f[3]
    <3>1. ASSUME NEW e \in table, NEW f \in table, <<e[1], e[2]>> = <<f[1], f[2]>> PROVE e[3] = f[3]
      BY <2>3, <3>1
    <3> QED  BY <3>1
  <2> HIDE DEF Cal!Members, Cal!FromFile, Cal!ToFile
  <2> QED  BY <2>1, <2>5, <2>6
<1>2. InFile("PINHOLE")
  <2> DEFINE first == <<"k1", "k2", "p1", "p2">>
             second == <<"fx", "fy", "cx", "cy">>
             table == Cal!Same("distortion_parameters", first) \cup Cal!Same("projection_parameters", second)
  <2>1. Cal!ToFile["PINHOLE"] = table /\ Cal!FromFile["PINHOLE"] = table
    BY DEF Cal!PinholeToFile, Cal!PinholeFromFile, Cal!Distortion
  <2>2. \A n \in Cal!Members["PINHOLE"] : (\E i \in DOMAIN first : first[i] = n) \/ (\E i \in DOMAIN second : second[i] = n)
    BY DEF Cal!Pinhole
  <2>3. \A e \in table : e[2] = e[3]
    BY SameKeys
  <2>4. /\ \A i \in DOMAIN first : \E e \in table : e[3] = first[i]
        /\ \A i \in DOMAIN second : \E e \in table : e[3] = second[i]
    BY NamesInSection
  <2> HIDE DEF first, second, table
  <2>5. \A n \in Cal!Members["PINHOLE"] : \E e \in table : e[3] = n
    <3> HIDE DEF Cal!Members
    <3> QED  BY <2>2, <2>4
  <2>6. \A e, f \in table : <<e[1], e[2]>> = <<f[1], f[2]>> => e[3] = f[3]
    <3>1. ASSUME NEW e \in table, NEW f \in table, <<e[1], e[2]>> = <<f[1], f[2]>> PROVE e[3] = f[3]
      BY <2>3, <3>1
    <3> QED  BY <3>1
  <2> HIDE DEF Cal!Members, Cal!FromFile, Cal!ToFile
  <2> QED  BY <2>1, <2>5, <2>6
<1>3. InFile("MEI")
  <2> DEFINE first == <<"xi">>
             second == <<"k1", "k2", "p1", "p2">>
             third == <<"gamma1", "gamma2", "u0", "v0">>
             table == Cal!Same("mirror_parameters", first) \cup Cal!Same("distortion_parameters", second)
                        \cup Cal!Same("projection_parameters", third)
  <2>1. Cal!ToFile["MEI"] = table /\ Cal!FromFile["MEI"] = table
    BY DEF Cal!MeiToFile, Cal!MeiFromFile, Cal!Distortion
  <2>2. \A n \in Cal!Members["MEI"] : \/ \E i \in DOMAIN first : first[i] = n
                                      \/ \E i \in DOMAIN second : second[i] = n
                                      \/ \E i \in DOMAIN third : third[i] = n
    BY DEF Cal!Mei
  <2>3. \A e \in table : e[2] = e[3]
    BY SameKeys
  <2>4. /\ \A i \in DOMAIN first : \E e \in table : e[3] = first[i]
        /\ \A i \in DOMAIN second : \E e \in table : e[3] = second[i]
        /\ \A i \in DOMAIN third : \E e \in table : e[3] = third[i]
    BY NamesInSection
  <2> HIDE DEF first, second, third, table
  <2>5. \A n \in Cal!Members["MEI"] : \E e \in table : e[3] = n
    <3> HIDE DEF Cal!Members
    <3> QED  BY <2>2, <2>4
  <2>6. \A e, f \in table : <<e[1], e[2]>> = <<f[1], f[2]>> => e[3] = f[3]
    <3>1. ASSUME NEW e \in table, NEW f \in table, <<e[1], e[2]>> = <<f[1], f[2]>> PROVE e[3] = f[3]
      BY <2>3, <3>1
    <3> QED  BY <3>1
  <2> HIDE DEF Cal!Members, Cal!FromFile, Cal!ToFile
  <2> QED  BY <2>1, <2>5, <2>6
<1>4. InFile("SCARAMUZZA")
  <2> DEFINE table == {<<"poly_parameters", "p0", "poly0">>, <<"poly_parameters", "p1", "poly1">>,
                       <<"poly_parameters", "p2", "poly2">>,
                       <<"inv_poly_parameters", "p0", "inv_poly0">>, <<"inv_poly_parameters", "p1", "inv_poly1">>,
                       <<"affine_parameters", "ac", "C">>, <<"affine_parameters", "ad", "D">>,
                       <<"affine_parameters", "ae", "E">>,
                       <<"affine_parameters", "cx", "center_x">>, <<"affine_parameters", "cy", "center_y">>}
  <2>1. Cal!Section("poly_parameters", <<"p0", "p1", "p2">>, Cal!Poly)
          = {<<"poly_parameters", "p0", "poly0">>, <<"poly_parameters", "p1", "poly1">>, <<"poly_parameters", "p2", "poly2">>}
    BY DEF Cal!Section, Cal!Poly
  <2>2. Cal!Section("inv_poly_parameters", <<"p0", "p1">>, Cal!InvPoly)
          = {<<"inv_poly_parameters", "p0", "inv_poly0">>, <<"inv_poly_parameters", "p1", "inv_poly1">>}
    BY DEF Cal!Section, Cal!InvPoly
  <2>3. Cal!Section("affine_parameters", <<"ac", "ad", "ae", "cx", "cy">>, <<"C", "D", "E", "center_x", "center_y">>)
          = {<<"affine_parameters", "ac", "C">>, <<"affine_parameters", "ad", "D">>, <<"affine_parameters", "ae", "E">>,
             <<"affine_parameters", "cx", "center_x">>, <<"affine_parameters", "cy", "center_y">>}
    BY DEF Cal!Section
  <2>4. Cal!ToFile["SCARAMUZZA"] = table /\ Cal!FromFile["SCARAMUZZA"] = table
    <3>1. Cal!ToFile["SCARAMUZZA"] = Cal!ScaramuzzaToFile /\ Cal!FromFile["SCARAMUZZA"] = Cal!ScaramuzzaFromFile
      OBVIOUS
    <3> HIDE DEF Cal!ToFile, Cal!FromFile
    <3> QED  BY <2>1, <2>2, <2>3, <3>1 DEF Cal!ScaramuzzaToFile, Cal!ScaramuzzaFromFile
  <2>5. \A n \in Cal!Members["SCARAMUZZA"] : \E e \in table : e[3] = n
    BY DEF Cal!Scaramuzza
  <2>6. \A e, f \in table : <<e[1], e[2]>> = <<f[1], f[2]>> => e[3] = f[3]
    OBVIOUS
  <2> HIDE DEF table, Cal!Members, Cal!FromFile, Cal!ToFile
  <2> QED  BY <2>4, <2>5, <2>6
<1>5. Cal!Models = {"KANNALA_BRANDT", "PINHOLE", "MEI", "SCARAMUZZA"}
  BY DEF Cal!Models
<1> QED  BY <1>1, <1>2, <1>3, <1>4, <1>5

-----------------------------------------------------------------------------
(* Calibration: the inductive invariant *)

CalPcs == {"options", "images", "insufficient", "estimate", "extrinsics", "optimize",
           "writeParams", "writeData", "imagePoints", "scenePoints", "written"}
Filed == {"writeData", "imagePoints", "scenePoints", "written"}
Solved == Filed \cup {"writeParams"}

\* A camera of model m with the parameters p, and what follows from them.
CameraOf(m, p) == [model |-> m, params |-> p, derived |-> Cal!Derived(m, p)]
FunctionOf(m, p) == p = [n \in Cal!Members[m] |-> p[n]]
Stands(c) ==
  /\ c.model \in Cal!Models
  /\ FunctionOf(c.model, c.params)
  /\ c = CameraOf(c.model, c.params)
\* What the calibration ends with.
Best(m) == [n \in Cal!Members[m] |-> Cal!Value(n, IF n = "poly1" THEN "estimated" ELSE "optimized")]
\* The sections writeToYamlFile writes of it.
ValuesOf(m, p) == [k \in {<<e[1], e[2]>> : e \in Cal!ToFile[m]} |->
                     p[(CHOOSE e \in Cal!ToFile[m] : <<e[1], e[2]>> = k)[3]]]

CameraInv ==
  /\ calPc \in CalPcs
  /\ calPc # "options" => Stands(camera)
  /\ calPc \in {"extrinsics", "optimize"} /\ camera.model = "SCARAMUZZA" =>
       camera.params["poly1"] = Cal!Value("poly1", "estimated")
  /\ calPc \in Solved => camera.params = Best(camera.model)

PosesInv == calPc \in Solved => poses = [i \in DOMAIN views |-> camera.params]

FileInv ==
  /\ calPc \notin Filed => calFile = Cal!NoFile
  /\ calPc \in Filed => calFile = [type |-> calFile.type, values |-> ValuesOf(camera.model, camera.params)]

NodeInv ==
  node # Cal!NoCamera =>
    calPc \in Filed /\ (calFile.type = Cal!TypeName[camera.model] => node = camera)

\* Where the file's sets of points end: the number of sets stands at base, the
\* first i sets behind it; n sets of image points, then n of scene points.
SetEnd(base, i) == base + i * (Corners + 1)
ImageBase(n) == n + 2
SceneBase(n) == SetEnd(ImageBase(n), n) + 1

HeaderStands(d, n) ==
  /\ n + 1 <= Len(d)
  /\ d[1] = n
  /\ \A i \in 1..n : d[1 + i] = i
\* The first k sets stand in the file behind the number of sets.
SetStands(d, v, base, i) ==
  /\ d[SetEnd(base, i - 1) + 1] = Corners
  /\ \A c \in 1..Corners : d[SetEnd(base, i - 1) + 1 + c] = v[i][c]
SetsStand(d, v, base, k) ==
  /\ SetEnd(base, k) <= Len(d)
  /\ d[base] = Len(v)
  /\ \A i \in 1..k : SetStands(d, v, base, i)
\* A loop has put the number of sets and k - 1 of them, or nothing yet.
Put(d, v, base, k) ==
  /\ k = 0 => Len(d) = base - 1
  /\ k # 0 => /\ k - 1 <= Len(v)
              /\ Len(d) = SetEnd(base, k - 1)
              /\ SetsStand(d, v, base, k - 1)

ViewsInv ==
  /\ views \in Seq(Seq(Nat))
  /\ \A i \in DOMAIN views : Len(views[i]) = Corners
  /\ setsPut \in Nat
  /\ data \in Seq(Nat)
DataInv ==
  /\ calPc \in {"imagePoints", "scenePoints", "written"} => HeaderStands(data, Len(views))
  /\ calPc \notin {"imagePoints", "scenePoints"} => setsPut = 0
  /\ calPc = "imagePoints" => Put(data, views, ImageBase(Len(views)), setsPut)
  /\ calPc = "scenePoints" => Put(data, views, SceneBase(Len(views)), setsPut)
  /\ calPc \in {"scenePoints", "written"} => SetsStand(data, views, ImageBase(Len(views)), Len(views))
  /\ calPc = "written" => SetsStand(data, views, SceneBase(Len(views)), Len(views))

\* The sets read so far are the first of the views.
Taken(sets, v) ==
  /\ sets \in Seq(Seq(Nat))
  /\ Len(sets) <= Len(v)
  /\ \A i \in DOMAIN sets : sets[i] = v[i]
SessionInv ==
  /\ sessionPc \in {"file", "views", "scene", "read"}
  /\ session = [views |-> session.views, scene |-> session.scene, poses |-> session.poses]
  /\ Taken(session.views, views) /\ Taken(session.scene, views)
  /\ sessionPc \in {"file", "views"} => session.scene = <<>>
  /\ sessionPc = "file" => session.views = <<>>
  /\ sessionPc # "file" =>
       /\ calPc = "written"
       /\ setsDue = Len(views)
       /\ session.poses = [i \in 1..Len(views) |-> i]
  /\ sessionPc = "views" => cursor = SetEnd(ImageBase(Len(views)), Len(session.views))
  /\ sessionPc = "scene" => cursor = SetEnd(SceneBase(Len(views)), Len(session.scene))
  /\ sessionPc \in {"scene", "read"} => Len(session.views) = Len(views)
  /\ sessionPc = "read" => Len(session.scene) = Len(views)

CalInv == CameraInv /\ PosesInv /\ FileInv /\ NodeInv /\ ViewsInv /\ DataInv /\ SessionInv

LEMMA WithOf ==
  ASSUME NEW m, NEW p, NEW q
  PROVE  Cal!WithParameters(CameraOf(m, p), q) = CameraOf(m, q)
<1> DEFINE d == Cal!Derived(m, q)
<1>1. CameraOf(m, p).model = m
  BY DEF CameraOf
<1>2. Cal!WithParameters(CameraOf(m, p), q) = [[CameraOf(m, p) EXCEPT !.params = q] EXCEPT !.derived = d]
  BY <1>1 DEF Cal!WithParameters
<1>3. CameraOf(m, q) = [model |-> m, params |-> q, derived |-> d]
  BY DEF CameraOf
<1> HIDE DEF d
<1>4. [[CameraOf(m, p) EXCEPT !.params = q] EXCEPT !.derived = d] = [model |-> m, params |-> q, derived |-> d]
  <2> DEFINE x == Cal!Derived(m, p)
  <2>1. CameraOf(m, p) = [model |-> m, params |-> p, derived |-> x]
    BY DEF CameraOf
  <2> HIDE DEF x
  <2>2. [[[model |-> m, params |-> p, derived |-> x] EXCEPT !.params = q] EXCEPT !.derived = d]
          = [model |-> m, params |-> q, derived |-> d]
    <3>1. [[model |-> m, params |-> p, derived |-> x] EXCEPT !.params = q] = [model |-> m, params |-> q, derived |-> x]
      OBVIOUS
    <3>2. [[model |-> m, params |-> q, derived |-> x] EXCEPT !.derived = d] = [model |-> m, params |-> q, derived |-> d]
      OBVIOUS
    <3> QED  BY <3>1, <3>2
  <2> QED  BY <2>1, <2>2
<1> QED  BY <1>2, <1>3, <1>4

LEMMA DefaultOf ==
  ASSUME NEW m
  PROVE  Cal!Default(m) = CameraOf(m, [n \in Cal!Members[m] |-> Cal!Zero])
<1> DEFINE bare == [model |-> m, params |-> <<>>, derived |-> <<>>]
           zero == [n \in Cal!Members[m] |-> Cal!Zero]
           d == Cal!Derived(m, zero)
<1>1. Cal!Default(m) = [[bare EXCEPT !.params = zero] EXCEPT !.derived = d]
  BY DEF Cal!Default, Cal!WithParameters
<1>2. CameraOf(m, zero) = [model |-> m, params |-> zero, derived |-> d]
  BY DEF CameraOf
<1> HIDE DEF d, zero
<1>3. [[bare EXCEPT !.params = zero] EXCEPT !.derived = d] = [model |-> m, params |-> zero, derived |-> d]
  <2>1. [bare EXCEPT !.params = zero] = [model |-> m, params |-> zero, derived |-> <<>>]
    OBVIOUS
  <2>2. [[model |-> m, params |-> zero, derived |-> <<>>] EXCEPT !.derived = d]
          = [model |-> m, params |-> zero, derived |-> d]
    OBVIOUS
  <2> QED  BY <2>1, <2>2
<1> QED  BY <1>1, <1>2, <1>3 DEF zero

\* The optimum comes back to the parameter it was found for.
LEMMA OptimumRead ==
  ASSUME NEW m \in Cal!Models, NEW p, FunctionOf(m, p),
         m = "SCARAMUZZA" => p["poly1"] = Cal!Value("poly1", "estimated")
  PROVE  Cal!ReadParameters(CameraOf(m, p), Cal!Solved(m, [i \in 1..Cal!Count[m] |-> p[Cal!Writes[m][i]]]))
           = CameraOf(m, Best(m))
<1> DEFINE vector == [i \in 1..Cal!Count[m] |-> p[Cal!Writes[m][i]]]
           solved == Cal!Solved(m, vector)
           position(n) == CHOOSE i \in DOMAIN solved : Cal!ReadBy[m][i] = n
<1>1. Tables(m)
  BY VectorTables
<1>2. DOMAIN solved = 1..Cal!Count[m]
  BY DEF Cal!Solved
<1>3. Len(solved) = Cal!Count[m]
  <2> DEFINE e(i) == IF Cal!Projects[m][i] = Cal!Unread THEN vector[i] ELSE Cal!Value(Cal!Projects[m][i], "optimized")
  <2>1. solved = [i \in 1..Cal!Count[m] |-> e(i)]
    BY DEF Cal!Solved
  <2>2. Cal!Count[m] \in Nat
    BY <1>1 DEF Tables
  <2> HIDE DEF e, solved
  <2> QED  BY <2>1, <2>2
<1>4. ASSUME NEW n \in Cal!Members[m]
      PROVE  solved[position(n)] = Best(m)[n]
  <2>1. PICK i \in 1..Cal!Count[m] : position(n) = i /\ Cal!ReadBy[m][i] = n
    <3>1. \E i \in DOMAIN solved : Cal!ReadBy[m][i] = n
      BY <1>1, <1>2 DEF Tables
    <3> HIDE DEF solved
    <3> QED  BY <1>2, <3>1
  <2>2. solved[i] = IF Cal!Projects[m][i] = Cal!Unread THEN p[Cal!Writes[m][i]]
                    ELSE Cal!Value(Cal!Projects[m][i], "optimized")
    BY DEF Cal!Solved
  <2>3. /\ Cal!Projects[m][i] = IF n = "poly1" THEN Cal!Unread ELSE n
        /\ n # Cal!Unread
        /\ n = "poly1" => m = "SCARAMUZZA" /\ Cal!Writes[m][i] = "poly1"
    BY <1>1, <2>1 DEF Tables
  <2>4. Best(m)[n] = Cal!Value(n, IF n = "poly1" THEN "estimated" ELSE "optimized")
    BY DEF Best
  <2> QED  BY <2>1, <2>2, <2>3, <2>4
<1>5. [n \in Cal!Members[m] |-> solved[position(n)]] = Best(m)
  BY <1>4 DEF Best
<1>6. CameraOf(m, p).model = m
  BY DEF CameraOf
<1>7. Cal!ReadParameters(CameraOf(m, p), solved)
        = Cal!WithParameters(CameraOf(m, p), [n \in Cal!Members[m] |-> solved[position(n)]])
  <2> HIDE DEF solved
  <2> QED  BY <1>3, <1>6 DEF Cal!ReadParameters
<1> HIDE DEF solved, position
<1>8. Cal!ReadParameters(CameraOf(m, p), solved) = CameraOf(m, Best(m))
  BY <1>5, <1>7, WithOf
<1> QED  BY <1>8 DEF solved

\* The file gives every parameter back.
LEMMA ParsedBack ==
  ASSUME NEW m \in Cal!Models, NEW p, FunctionOf(m, p), calFile.values = ValuesOf(m, p)
  PROVE  Cal!Parsed(m) = p
<1> DEFINE member(n) == CHOOSE e \in Cal!FromFile[m] : e[3] = n
           key(n) == <<member(n)[1], member(n)[2]>>
           parsed(n) == IF key(n) \in DOMAIN calFile.values THEN calFile.values[key(n)] ELSE Cal!Zero
<1>1. InFile(m)
  BY FileTables
<1>2. ASSUME NEW n \in Cal!Members[m]
      PROVE  parsed(n) = p[n]
  <2>1. member(n) \in Cal!FromFile[m] /\ member(n)[3] = n
    BY <1>1 DEF InFile
  <2> HIDE DEF member
  <2>2. member(n) \in Cal!ToFile[m]
    BY <1>1, <2>1 DEF InFile
  <2>3. key(n) \in {<<e[1], e[2]>> : e \in Cal!ToFile[m]}
    BY <2>2
  <2> DEFINE f == CHOOSE e \in Cal!ToFile[m] : <<e[1], e[2]>> = key(n)
  <2>4. f \in Cal!ToFile[m] /\ <<f[1], f[2]>> = key(n)
    BY <2>2
  <2>5. calFile.values[key(n)] = p[f[3]] /\ key(n) \in DOMAIN calFile.values
    BY <2>3 DEF ValuesOf
  <2> HIDE DEF f
  <2>6. f[3] = member(n)[3]
    BY <1>1, <2>2, <2>4 DEF InFile
  <2> QED  BY <2>1, <2>5, <2>6
<1>3. Cal!Parsed(m) = [n \in Cal!Members[m] |-> parsed(n)]
  BY DEF Cal!Parsed
<1> HIDE DEF parsed
<1> QED  BY <1>2, <1>3 DEF FunctionOf

\* The factory takes the file for the model whose very name it has.
LEMMA FactoryTakes ==
  ASSUME NEW m \in Cal!Models, calFile.type = Cal!TypeName[m]
  PROVE  Cal!FactoryModel = m /\ Cal!Accepted(m)
<1>1. m \in {"KANNALA_BRANDT", "PINHOLE", "MEI", "SCARAMUZZA"}
  BY DEF Cal!Models, Cal!Members
<1>2. Cal!Models = {"KANNALA_BRANDT", "PINHOLE", "MEI", "SCARAMUZZA"}
  BY DEF Cal!Models, Cal!Members
<1>3. \A l \in Cal!Models : Cal!TypeName[l] = calFile.type <=> l = m
  BY <1>1, <1>2 DEF Cal!TypeName
<1>4. calFile.type # "absent" /\ calFile.type # "other case"
  <2>1. /\ Cal!TypeName["KANNALA_BRANDT"] = "KANNALA_BRANDT" /\ Cal!TypeName["PINHOLE"] = "PINHOLE"
        /\ Cal!TypeName["MEI"] = "MEI" /\ Cal!TypeName["SCARAMUZZA"] = "scaramuzza"
    BY DEF Cal!TypeName
  <2> QED  BY <1>1, <2>1
<1>5. (CHOOSE l \in Cal!Models : Cal!TypeName[l] = calFile.type) = m
  BY <1>3
<1>6. Cal!FactoryModel = m
  BY <1>4, <1>5 DEF Cal!FactoryModel
<1>7. Cal!Accepted(m)
  BY DEF Cal!Accepted
<1> QED  BY <1>6, <1>7

LEMMA StandsOf ==
  ASSUME NEW m \in Cal!Models, NEW p, FunctionOf(m, p), NEW c, c = CameraOf(m, p)
  PROVE  Stands(c) /\ c.model = m /\ c.params = p
<1>1. c.model = m /\ c.params = p
  BY DEF CameraOf
<1> QED  BY <1>1 DEF Stands

\* A step of the program that reads the file, or of the data's two loops.
Reads ==
  \/ Cal!ReadHeader \/ Cal!ReadSet("views") \/ Cal!ReadSet("scene") \/ Cal!ImagePointsRead \/ Cal!ScenePointsRead
Puts == Cal!WriteHeader \/ Cal!WriteNumberOfSets \/ Cal!WriteSet \/ Cal!SetsWritten

LEMMA ReadsLeave ==
  ASSUME Reads
  PROVE  UNCHANGED <<calPc, camera, views, poses, calFile, data, setsPut, node>>
<1> SUFFICES ASSUME NEW loop, Cal!ReadSet(loop)
             PROVE  UNCHANGED <<calPc, camera, views, poses, calFile, data, setsPut, node>>
  BY DEF Reads, Cal!ReadHeader, Cal!ImagePointsRead, Cal!ScenePointsRead
<1> QED  BY DEF Cal!ReadSet

LEMMA PutsLeave ==
  ASSUME Puts
  PROVE  /\ UNCHANGED <<camera, views, poses, calFile, node, session, sessionPc, cursor, setsDue>>
         /\ calPc \in {"writeData", "imagePoints", "scenePoints"}
         /\ calPc' \in {"imagePoints", "scenePoints", "written"}
BY DEF Puts, Cal!WriteHeader, Cal!WriteNumberOfSets, Cal!WriteSet, Cal!SetsWritten, Cal!sessionVars

LEMMA CalSteps ==
  ASSUME [Cal!CalNext]_(Cal!calVars)
  PROVE  \/ Cal!GenerateCamera \/ Cal!AddChessboardData \/ Cal!EnoughChessboards
         \/ Cal!EstimateIntrinsics \/ Cal!EstimateExtrinsics \/ Cal!Optimize \/ Cal!WriteParams
         \/ Puts \/ Reads \/ Cal!EditFile \/ Cal!GenerateCameraFromYamlFile
         \/ UNCHANGED Cal!calVars
BY DEF Cal!CalNext, Puts, Reads

LEMMA Estimated ==
  ASSUME CameraInv, Cal!EstimateIntrinsics
  PROVE  /\ Stands(camera')
         /\ camera'.model = "SCARAMUZZA" => camera'.params["poly1"] = Cal!Value("poly1", "estimated")
<1> DEFINE all(m) == Cal!All(m, "estimated")
<1>1. Stands(camera)
  BY DEF CameraInv, Cal!EstimateIntrinsics
<1>2. ASSUME NEW m \in Cal!Models, camera.model = m, camera' = Cal!WithParameters(camera, all(m))
      PROVE  Stands(camera') /\ camera'.model = m /\ camera'.params = all(m)
  <2>1. camera' = CameraOf(m, all(m))
    BY <1>1, <1>2, WithOf DEF Stands
  <2>2. FunctionOf(m, all(m))
    BY DEF FunctionOf, Cal!All
  <2> HIDE DEF all
  <2> QED  BY <2>1, <2>2, StandsOf
<1>3. all("SCARAMUZZA")["poly1"] = Cal!Value("poly1", "estimated")
  <2>1. "poly1" \in Cal!Members["SCARAMUZZA"]
    BY DEF Cal!Members, Cal!Scaramuzza
  <2> QED  BY <2>1 DEF Cal!All
<1>4. /\ "PINHOLE" \in Cal!Models /\ "SCARAMUZZA" \in Cal!Models
      /\ "KANNALA_BRANDT" \in Cal!Models /\ "MEI" \in Cal!Models
  BY DEF Cal!Models, Cal!Members
<1> HIDE DEF all
<1>5. CASE camera.model = "PINHOLE" /\ Cal!PinholeEstimates
  BY <1>2, <1>4, <1>5 DEF Cal!PinholeEstimates, all
<1>6. CASE camera.model = "SCARAMUZZA" /\ Cal!ScaramuzzaEstimates
  <2>1. camera' = Cal!WithParameters(camera, all("SCARAMUZZA"))
    BY <1>6 DEF Cal!ScaramuzzaEstimates, all
  <2> QED  BY <1>2, <1>3, <1>4, <1>6, <2>1
<1>7. CASE camera.model = "KANNALA_BRANDT" /\ Cal!KannalaBrandtEstimates
  <2>1. camera' = camera \/ camera' = Cal!WithParameters(camera, all("KANNALA_BRANDT"))
    BY <1>7 DEF Cal!KannalaBrandtEstimates, all
  <2>2. CASE camera' = camera
    BY <1>1, <1>7, <2>2
  <2>3. CASE camera' = Cal!WithParameters(camera, all("KANNALA_BRANDT"))
    BY <1>2, <1>4, <1>7, <2>3
  <2> QED  BY <2>1, <2>2, <2>3
<1>8. CASE camera.model = "MEI" /\ Cal!MeiEstimates
  <2>1. camera' = camera \/ camera' = Cal!WithParameters(camera, all("MEI"))
    BY <1>8 DEF Cal!MeiEstimates, all
  <2>2. CASE camera' = camera
    BY <1>1, <1>8, <2>2
  <2>3. CASE camera' = Cal!WithParameters(camera, all("MEI"))
    BY <1>2, <1>4, <1>8, <2>3
  <2> QED  BY <2>1, <2>2, <2>3
<1> QED  BY <1>5, <1>6, <1>7, <1>8 DEF Cal!EstimateIntrinsics

LEMMA Optimizes ==
  ASSUME CameraInv, Cal!Optimize
  PROVE  Stands(camera') /\ camera'.params = Best(camera'.model)
<1> DEFINE m == camera.model
           p == camera.params
           vector == [i \in 1..Cal!Count[m] |-> p[Cal!Writes[m][i]]]
<1>1. camera' = Cal!ReadParameters(camera, Cal!Solved(m, vector)) /\ calPc = "optimize"
  BY DEF Cal!Optimize
<1>2. m \in Cal!Models /\ FunctionOf(m, p) /\ camera = CameraOf(m, p)
  BY <1>1 DEF CameraInv, Stands
<1>3. m = "SCARAMUZZA" => p["poly1"] = Cal!Value("poly1", "estimated")
  BY <1>1 DEF CameraInv
<1>4. FunctionOf(m, Best(m))
  BY DEF FunctionOf, Best
<1>5. Cal!ReadParameters(CameraOf(m, p), Cal!Solved(m, vector)) = CameraOf(m, Best(m))
  BY <1>2, <1>3, OptimumRead
<1> HIDE DEF m, p, vector
<1>6. camera' = CameraOf(m, Best(m))
  BY <1>1, <1>2, <1>5
<1> QED  BY <1>2, <1>4, <1>6, StandsOf

LEMMA CameraPreserved ==
  ASSUME CameraInv, [Cal!CalNext]_(Cal!calVars)
  PROVE  CameraInv'
<1> USE DEF CameraInv, CalPcs, Solved, Filed
<1>1. CASE Cal!GenerateCamera
  <2>1. PICK m \in Cal!Models : camera' = CameraOf(m, [n \in Cal!Members[m] |-> Cal!Zero])
    BY <1>1, DefaultOf DEF Cal!GenerateCamera
  <2>2. FunctionOf(m, [n \in Cal!Members[m] |-> Cal!Zero])
    BY DEF FunctionOf
  <2>3. Stands(camera')
    BY <2>1, <2>2, StandsOf
  <2> QED  BY <1>1, <2>3 DEF Cal!GenerateCamera
<1>2. CASE Cal!AddChessboardData \/ Cal!EnoughChessboards
  BY <1>2 DEF Cal!AddChessboardData, Cal!EnoughChessboards
<1>3. CASE Cal!EstimateIntrinsics
  <2>1. calPc' = "extrinsics"
    BY <1>3 DEF Cal!EstimateIntrinsics
  <2> QED  BY <1>3, <2>1, Estimated
<1>4. CASE Cal!EstimateExtrinsics
  BY <1>4 DEF Cal!EstimateExtrinsics
<1>5. CASE Cal!Optimize
  <2>1. calPc' = "writeParams"
    BY <1>5 DEF Cal!Optimize
  <2> QED  BY <1>5, <2>1, Optimizes
<1>6. CASE Cal!WriteParams
  BY <1>6 DEF Cal!WriteParams
<1>7. CASE Puts
  BY <1>7, PutsLeave
<1>8. CASE Reads \/ Cal!EditFile \/ Cal!GenerateCameraFromYamlFile
  <2>1. UNCHANGED <<calPc, camera>>
    BY <1>8, ReadsLeave DEF Cal!EditFile, Cal!GenerateCameraFromYamlFile
  <2> QED  BY <2>1
<1>9. CASE UNCHANGED Cal!calVars
  BY <1>9 DEF Cal!calVars
<1> QED  BY <1>1, <1>2, <1>3, <1>4, <1>5, <1>6, <1>7, <1>8, <1>9, CalSteps

LEMMA PosesPreserved ==
  ASSUME CameraInv, PosesInv, [Cal!CalNext]_(Cal!calVars)
  PROVE  PosesInv'
<1> USE DEF PosesInv, Solved, Filed
<1>1. CASE Cal!GenerateCamera \/ Cal!AddChessboardData \/ Cal!EnoughChessboards \/ Cal!EstimateIntrinsics
           \/ Cal!EstimateExtrinsics
  BY <1>1 DEF Cal!GenerateCamera, Cal!AddChessboardData, Cal!EnoughChessboards, Cal!EstimateIntrinsics,
     Cal!EstimateExtrinsics
<1>2. CASE Cal!Optimize
  BY <1>2 DEF Cal!Optimize
<1>3. CASE Cal!WriteParams
  BY <1>3 DEF Cal!WriteParams
<1>4. CASE Puts
  BY <1>4, PutsLeave
<1>5. CASE Reads \/ Cal!EditFile \/ Cal!GenerateCameraFromYamlFile
  <2>1. UNCHANGED <<calPc, camera, views, poses>>
    BY <1>5, ReadsLeave DEF Cal!EditFile, Cal!GenerateCameraFromYamlFile
  <2> QED  BY <2>1
<1>6. CASE UNCHANGED Cal!calVars
  BY <1>6 DEF Cal!calVars
<1> QED  BY <1>1, <1>2, <1>3, <1>4, <1>5, <1>6, CalSteps

LEMMA FilePreserved ==
  ASSUME FileInv, [Cal!CalNext]_(Cal!calVars)
  PROVE  FileInv'
<1> USE DEF FileInv, Filed
<1>1. CASE Cal!GenerateCamera \/ Cal!AddChessboardData \/ Cal!EnoughChessboards \/ Cal!EstimateIntrinsics
           \/ Cal!EstimateExtrinsics \/ Cal!Optimize
  BY <1>1 DEF Cal!GenerateCamera, Cal!AddChessboardData, Cal!EnoughChessboards, Cal!EstimateIntrinsics,
     Cal!EstimateExtrinsics, Cal!Optimize
<1>2. CASE Cal!WriteParams
  <2>1. calFile' = [type |-> Cal!TypeName[camera.model], values |-> ValuesOf(camera.model, camera.params)]
    BY <1>2 DEF Cal!WriteParams, ValuesOf
  <2>2. calPc' = "writeData" /\ camera' = camera
    BY <1>2 DEF Cal!WriteParams
  <2> QED  BY <2>1, <2>2
<1>3. CASE Puts
  BY <1>3, PutsLeave
<1>4. CASE Cal!EditFile
  <2>1. PICK type : calFile' = [calFile EXCEPT !.type = type]
    BY <1>4 DEF Cal!EditFile
  <2>2. UNCHANGED <<calPc, camera>> /\ calPc \in Filed
    BY <1>4 DEF Cal!EditFile
  <2> QED  BY <2>1, <2>2
<1>5. CASE Reads \/ Cal!GenerateCameraFromYamlFile
  <2>1. UNCHANGED <<calPc, camera, calFile>>
    BY <1>5, ReadsLeave DEF Cal!GenerateCameraFromYamlFile
  <2> QED  BY <2>1
<1>6. CASE UNCHANGED Cal!calVars
  BY <1>6 DEF Cal!calVars
<1> QED  BY <1>1, <1>2, <1>3, <1>4, <1>5, <1>6, CalSteps

LEMMA NodePreserved ==
  ASSUME CameraInv, FileInv, NodeInv, [Cal!CalNext]_(Cal!calVars)
  PROVE  NodeInv'
<1>1. CASE Cal!GenerateCamera \/ Cal!AddChessboardData \/ Cal!EnoughChessboards \/ Cal!EstimateIntrinsics
           \/ Cal!EstimateExtrinsics \/ Cal!Optimize \/ Cal!WriteParams
  BY <1>1 DEF Cal!GenerateCamera, Cal!AddChessboardData, Cal!EnoughChessboards, Cal!EstimateIntrinsics,
     Cal!EstimateExtrinsics, Cal!Optimize, Cal!WriteParams, NodeInv, Filed
<1>2. CASE Puts
  BY <1>2, PutsLeave DEF NodeInv, Filed
<1>3. CASE Cal!EditFile
  BY <1>3 DEF Cal!EditFile, NodeInv
<1>4. CASE Reads
  BY <1>4, ReadsLeave DEF NodeInv
<1>5. CASE Cal!GenerateCameraFromYamlFile
  <2> DEFINE m == camera.model
             p == camera.params
  <2>1. calPc \in Filed /\ UNCHANGED <<calPc, camera, calFile>>
    BY <1>5 DEF Cal!GenerateCameraFromYamlFile, FileInv
  <2>2. m \in Cal!Models /\ FunctionOf(m, p) /\ camera = CameraOf(m, p)
    BY <2>1 DEF CameraInv, Stands, Filed
  <2>3. calFile.values = ValuesOf(m, p)
    BY <2>1 DEF FileInv
  <2>4. ASSUME calFile.type = Cal!TypeName[m] PROVE node' = camera
    <3>1. Cal!FactoryModel = m /\ Cal!Accepted(m)
      BY <2>2, <2>4, FactoryTakes
    <3>2. node' = Cal!WithParameters(Cal!Default(m), Cal!Parsed(m))
      BY <1>5, <3>1 DEF Cal!GenerateCameraFromYamlFile
    <3>3. Cal!Parsed(m) = p
      BY <2>2, <2>3, ParsedBack
    <3>4. Cal!WithParameters(Cal!Default(m), p) = CameraOf(m, p)
      BY DefaultOf, WithOf
    <3> QED  BY <2>2, <3>2, <3>3, <3>4
  <2> QED  BY <2>1, <2>4 DEF NodeInv
<1>6. CASE UNCHANGED Cal!calVars
  BY <1>6 DEF Cal!calVars, NodeInv
<1> QED  BY <1>1, <1>2, <1>3, <1>4, <1>5, <1>6, CalSteps

LEMMA SetEnds ==
  ASSUME NEW base \in Nat, NEW i \in Nat
  PROVE  /\ SetEnd(base, i) \in Nat
         /\ base <= SetEnd(base, i)
         /\ SetEnd(base, 0) = base
         /\ SetEnd(base, i + 1) = SetEnd(base, i) + Corners + 1
<1>1. i * (Corners + 1) \in Nat
  BY CalAssumption
<1>2. (i + 1) * (Corners + 1) = i * (Corners + 1) + Corners + 1
  BY CalAssumption
<1>3. 0 * (Corners + 1) = 0
  BY CalAssumption
<1> DEFINE x == i * (Corners + 1)
<1> HIDE DEF x
<1>4. /\ SetEnd(base, i) = base + x /\ SetEnd(base, 0) = base
      /\ SetEnd(base, i + 1) = base + (x + Corners + 1) /\ x \in Nat
  BY <1>1, <1>2, <1>3 DEF SetEnd, x
<1> QED  BY <1>4, CalAssumption

LEMMA SetEndGrows ==
  ASSUME NEW base \in Nat, NEW i \in Nat, NEW j \in Nat, i <= j
  PROVE  SetEnd(base, i) <= SetEnd(base, j)
<1> DEFINE x == i * (Corners + 1)
           y == (j - i) * (Corners + 1)
<1>1. x \in Nat /\ y \in Nat /\ j * (Corners + 1) = x + y
  <2>1. j - i \in Nat
    OBVIOUS
  <2>2. j = i + (j - i)
    OBVIOUS
  <2> DEFINE c == Corners + 1
             d == j - i
  <2>3. c \in Nat
    BY CalAssumption
  <2> HIDE DEF c
  <2>4. i * c \in Nat /\ d * c \in Nat /\ (i + d) * c = i * c + d * c
    BY <2>1, <2>3
  <2> QED  BY <2>2, <2>4 DEF c
<1> HIDE DEF x, y
<1>2. SetEnd(base, i) = base + x /\ SetEnd(base, j) = base + (x + y)
  BY <1>1 DEF SetEnd, x
<1> QED  BY <1>1, <1>2

\* A file that begins with another.
Begins(d, e) == Len(d) <= Len(e) /\ \A i \in 1..Len(d) : e[i] = d[i]

LEMMA HeaderKept ==
  ASSUME NEW n \in Nat, NEW d \in Seq(Nat), NEW e \in Seq(Nat), Begins(d, e), HeaderStands(d, n)
  PROVE  HeaderStands(e, n)
<1>1. n + 1 <= Len(e) /\ Len(d) \in Nat /\ Len(e) \in Nat
  BY DEF Begins, HeaderStands
<1>2. e[1] = n
  <2>1. 1 \in 1..Len(d)
    BY <1>1 DEF HeaderStands
  <2> QED  BY <2>1 DEF Begins, HeaderStands
<1>3. ASSUME NEW i \in 1..n PROVE e[1 + i] = i
  <2>1. 1 + i \in 1..Len(d)
    BY <1>1 DEF HeaderStands
  <2> QED  BY <2>1 DEF Begins, HeaderStands
<1> QED  BY <1>1, <1>2, <1>3 DEF HeaderStands

LEMMA SetKept ==
  ASSUME NEW d \in Seq(Nat), NEW e \in Seq(Nat), Begins(d, e), NEW v,
         NEW base \in Nat \ {0}, NEW i \in Nat \ {0}, SetEnd(base, i) <= Len(d), SetStands(d, v, base, i)
  PROVE  SetStands(e, v, base, i)
<1> DEFINE s == SetEnd(base, i - 1)
<1>1. s \in Nat /\ s + Corners + 1 = SetEnd(base, i)
  <2>1. i - 1 \in Nat /\ (i - 1) + 1 = i
    OBVIOUS
  <2>2. s \in Nat /\ SetEnd(base, (i - 1) + 1) = s + Corners + 1
    BY <2>1, SetEnds
  <2> QED  BY <2>1, <2>2
<1>2. Len(d) \in Nat /\ s + Corners + 1 <= Len(d)
  BY <1>1
<1>3. d[s + 1] = Corners /\ \A c \in 1..Corners : d[s + 1 + c] = v[i][c]
  BY DEF SetStands
<1> HIDE DEF s
<1>4. \A j \in 1..Len(d) : e[j] = d[j]
  BY DEF Begins
<1>5. s + 1 \in 1..Len(d) /\ \A c \in 1..Corners : s + 1 + c \in 1..Len(d)
  BY <1>1, <1>2, CalAssumption
<1>6. e[s + 1] = Corners
  BY <1>3, <1>4, <1>5
<1>7. \A c \in 1..Corners : e[s + 1 + c] = v[i][c]
  BY <1>3, <1>4, <1>5
<1> QED  BY <1>6, <1>7 DEF SetStands, s

LEMMA SetsKept ==
  ASSUME NEW d \in Seq(Nat), NEW e \in Seq(Nat), Begins(d, e), NEW v,
         NEW base \in Nat \ {0}, NEW k \in Nat, SetsStand(d, v, base, k)
  PROVE  SetsStand(e, v, base, k)
<1>1. SetEnd(base, k) <= Len(d) /\ SetEnd(base, k) \in Nat /\ base <= SetEnd(base, k)
  BY SetEnds DEF SetsStand
<1>2. SetEnd(base, k) <= Len(e) /\ Len(d) \in Nat /\ Len(e) \in Nat
  BY <1>1 DEF Begins
<1>3. e[base] = Len(v)
  <2>1. base \in 1..Len(d)
    BY <1>1, <1>2
  <2> QED  BY <2>1 DEF Begins, SetsStand
<1>4. ASSUME NEW i \in 1..k PROVE SetStands(e, v, base, i)
  <2>1. i \in Nat /\ i <= k
    OBVIOUS
  <2>2. SetEnd(base, i) <= SetEnd(base, k)
    BY <2>1, SetEndGrows
  <2>3. SetEnd(base, i) \in Nat
    BY <2>1, SetEnds
  <2>4. SetEnd(base, i) <= Len(d)
    BY <1>1, <1>2, <2>2, <2>3
  <2>5. SetStands(d, v, base, i)
    BY DEF SetsStand
  <2> QED  BY <2>4, <2>5, SetKept
<1> QED  BY <1>2, <1>3, <1>4 DEF SetsStand

LEMMA NumberAdded ==
  ASSUME NEW d \in Seq(Nat), NEW v, Len(v) \in Nat, NEW base \in Nat \ {0}, Len(d) = base - 1
  PROVE  /\ Append(d, Len(v)) \in Seq(Nat)
         /\ Begins(d, Append(d, Len(v)))
         /\ Put(Append(d, Len(v)), v, base, 1)
<1> DEFINE e == Append(d, Len(v))
<1>1. e \in Seq(Nat) /\ Len(e) = base /\ e[base] = Len(v) /\ \A i \in 1..Len(d) : e[i] = d[i]
  OBVIOUS
<1> HIDE DEF e
<1>2. Begins(d, e)
  BY <1>1 DEF Begins
<1>3. SetEnd(base, 0) = base
  BY SetEnds
<1>4. SetsStand(e, v, base, 0)
  BY <1>1, <1>3 DEF SetsStand
<1>5. Put(e, v, base, 1)
  BY <1>1, <1>3, <1>4 DEF Put
<1> QED  BY <1>1, <1>2, <1>5 DEF e

LEMMA SetAdded ==
  ASSUME NEW d \in Seq(Nat), NEW v \in Seq(Seq(Nat)), NEW k \in DOMAIN v, Len(v[k]) = Corners,
         NEW base \in Nat \ {0}, Put(d, v, base, k),
         NEW e, e = d \o (<<Len(v[k])>> \o v[k])
  PROVE  e \in Seq(Nat) /\ Begins(d, e) /\ Put(e, v, base, k + 1)
<1> DEFINE set == <<Len(v[k])>> \o v[k]
           s == SetEnd(base, k - 1)
<1>1. v[k] \in Seq(Nat) /\ k \in Nat \ {0} /\ Len(v) \in Nat /\ k <= Len(v)
  OBVIOUS
<1>2. set \in Seq(Nat) /\ Len(set) = Corners + 1 /\ set[1] = Corners /\ \A c \in 1..Corners : set[1 + c] = v[k][c]
  BY <1>1, CalAssumption
<1>3. Len(d) = s /\ SetsStand(d, v, base, k - 1)
  BY <1>1 DEF Put
<1> HIDE DEF set
<1>4. e \in Seq(Nat) /\ Len(e) = Len(d) + Corners + 1
  BY <1>2, CalAssumption DEF set
<1>5. /\ \A i \in 1..Len(d) : e[i] = d[i]
      /\ \A i \in 1..Corners + 1 : e[Len(d) + i] = set[i]
  <2>1. e = d \o set
    BY DEF set
  <2>2. \A i \in 1..Len(d) : (d \o set)[i] = d[i]
    BY <1>2, ConcatProperties
  <2>3. \A i \in 1..Len(set) : (d \o set)[Len(d) + i] = set[i]
    <3>1. ASSUME NEW i \in 1..Len(set)
          PROVE  (d \o set)[Len(d) + i] = set[i]
      BY <1>2
    <3> QED  BY <3>1
  <2> QED  BY <1>2, <2>1, <2>2, <2>3
<1>6. Begins(d, e)
  BY <1>4, <1>5, CalAssumption DEF Begins
<1>7. s \in Nat /\ SetEnd(base, k) = s + Corners + 1
  <2>1. k - 1 \in Nat /\ k = (k - 1) + 1
    BY <1>1
  <2> DEFINE j == k - 1
  <2>2. j \in Nat /\ k = j + 1 /\ s = SetEnd(base, j)
    BY <2>1
  <2> HIDE DEF j, s
  <2>3. SetEnd(base, j) \in Nat /\ SetEnd(base, j + 1) = SetEnd(base, j) + Corners + 1
    BY <2>2, SetEnds
  <2> QED  BY <2>2, <2>3
<1>8. SetStands(e, v, base, k)
  <2>1. e[s + 1] = Corners
    <3>1. 1 \in 1..Corners + 1
      BY CalAssumption
    <3>2. e[s + 1] = set[1]
      BY <1>3, <1>5, <3>1
    <3> QED  BY <1>2, <3>2
  <2>2. ASSUME NEW c \in 1..Corners PROVE e[s + 1 + c] = v[k][c]
    <3>1. 1 + c \in 1..Corners + 1 /\ s + 1 + c = s + (1 + c)
      BY <1>7, CalAssumption
    <3>2. e[s + (1 + c)] = set[1 + c]
      BY <1>3, <1>5, <3>1
    <3> QED  BY <1>2, <3>1, <3>2
  <2> QED  BY <2>1, <2>2 DEF SetStands
<1>9. SetsStand(e, v, base, k - 1)
  <2>1. k - 1 \in Nat
    BY <1>1
  <2> QED  BY <1>3, <1>4, <1>6, <2>1, SetsKept
<1>10. SetsStand(e, v, base, k)
  <2>1. SetEnd(base, k) <= Len(e)
    BY <1>3, <1>4, <1>7, CalAssumption
  <2>2. ASSUME NEW i \in 1..k PROVE SetStands(e, v, base, i)
    <3>1. CASE i = k
      BY <1>8, <3>1
    <3>2. CASE i # k
      <4>1. i \in 1..k - 1
        BY <1>1, <3>2
      <4> QED  BY <1>9, <4>1 DEF SetsStand
    <3> QED  BY <3>1, <3>2
  <2> QED  BY <1>9, <2>1, <2>2 DEF SetsStand
<1>11. Put(e, v, base, k + 1)
  <2>1. k + 1 # 0 /\ (k + 1) - 1 = k
    BY <1>1
  <2>2. Len(e) = SetEnd(base, k)
    BY <1>3, <1>4, <1>7, CalAssumption
  <2> QED  BY <1>1, <1>10, <2>1, <2>2 DEF Put
<1> QED  BY <1>4, <1>6, <1>11

LEMMA HeaderPut ==
  ASSUME NEW n \in Nat, NEW e, e = <<n>> \o [i \in 1..n |-> i]
  PROVE  e \in Seq(Nat) /\ Len(e) = n + 1 /\ HeaderStands(e, n)
<1> DEFINE rest == [i \in 1..n |-> i]
<1>1. rest \in Seq(Nat) /\ Len(rest) = n /\ \A i \in 1..n : rest[i] = i
  <2> DEFINE t(i) == i
  <2>1. rest = [i \in 1..n |-> t(i)] /\ \A i \in 1..n : t(i) = i /\ t(i) \in Nat
    OBVIOUS
  <2> HIDE DEF t, rest
  <2> QED  BY <2>1
<1> HIDE DEF rest
<1>2. e = <<n>> \o rest
  BY DEF rest
<1>3. e \in Seq(Nat) /\ Len(e) = n + 1 /\ e[1] = n /\ \A i \in 1..n : e[1 + i] = i
  BY <1>1, <1>2
<1> QED  BY <1>3 DEF HeaderStands

\* The set that is read at a place of the file, and where that ends.
SetAt(d, cur) == [i \in 1..d[cur + 1] |-> d[cur + 1 + i]]
Behind(d, cur) == cur + 1 + d[cur + 1]
SameLengths(v) == \A i \in DOMAIN v : Len(v[i]) = Corners

\* It is the one that was put there.
LEMMA SetRead ==
  ASSUME NEW d \in Seq(Nat), NEW v \in Seq(Seq(Nat)), SameLengths(v),
         NEW base \in Nat \ {0}, SetsStand(d, v, base, Len(v)), NEW k \in Nat, k < Len(v)
  PROVE  /\ SetAt(d, SetEnd(base, k)) = v[k + 1]
         /\ Behind(d, SetEnd(base, k)) = SetEnd(base, k + 1)
<1> DEFINE cur == SetEnd(base, k)
<1>1. k + 1 \in 1..Len(v) /\ (k + 1) - 1 = k /\ k + 1 \in DOMAIN v
  OBVIOUS
<1>2. SetStands(d, v, base, k + 1)
  BY <1>1 DEF SetsStand
<1>3. d[cur + 1] = Corners /\ \A c \in 1..Corners : d[cur + 1 + c] = v[k + 1][c]
  BY <1>1, <1>2 DEF SetStands
<1>4. v[k + 1] \in Seq(Nat) /\ Len(v[k + 1]) = Corners
  BY <1>1 DEF SameLengths
<1>5. v[k + 1] = [i \in 1..Corners |-> v[k + 1][i]]
  <2> DEFINE set == v[k + 1]
  <2>1. set \in Seq(Nat) /\ Len(set) = Corners
    BY <1>4
  <2> HIDE DEF set
  <2>2. set = [i \in 1..Corners |-> set[i]]
    BY <2>1
  <2> QED  BY <2>2 DEF set
<1>6. SetAt(d, cur) = v[k + 1]
  BY <1>3, <1>5 DEF SetAt
<1>7. cur \in Nat /\ SetEnd(base, k + 1) = cur + Corners + 1
  BY SetEnds
<1>8. Behind(d, cur) = cur + Corners + 1
  BY <1>3, <1>7, CalAssumption DEF Behind
<1> QED  BY <1>6, <1>7, <1>8

LEMMA Bases ==
  ASSUME NEW n \in Nat
  PROVE  ImageBase(n) \in Nat \ {0} /\ SceneBase(n) \in Nat \ {0}
<1>1. ImageBase(n) \in Nat \ {0}
  BY DEF ImageBase
<1>2. SetEnd(ImageBase(n), n) \in Nat
  BY <1>1, SetEnds
<1> QED  BY <1>1, <1>2 DEF SceneBase

LEMMA HeaderStep ==
  ASSUME PosesInv, ViewsInv, DataInv, Cal!WriteHeader
  PROVE  ViewsInv' /\ DataInv'
<1> DEFINE n == Len(views)
<1>1. n \in Nat /\ DOMAIN views = 1..n
  BY DEF ViewsInv
<1>2. poses = [i \in 1..n |-> camera.params]
  BY <1>1 DEF PosesInv, Solved, Filed, Cal!WriteHeader
<1>3. Len(poses) = n /\ DOMAIN poses = 1..n
  <2> DEFINE x == camera.params
  <2>1. poses = [i \in 1..n |-> x]
    BY <1>2
  <2> HIDE DEF x, n
  <2> QED  BY <1>1, <2>1
<1>4. data' = <<n>> \o [i \in 1..n |-> i]
  BY <1>3 DEF Cal!WriteHeader
<1>5. data' \in Seq(Nat) /\ Len(data') = n + 1 /\ HeaderStands(data', n)
  <2> HIDE DEF n
  <2> QED  BY <1>1, <1>4, HeaderPut
<1>6. calPc' = "imagePoints" /\ setsPut' = setsPut /\ setsPut = 0 /\ views' = views
  BY DEF Cal!WriteHeader, DataInv
<1>7. ViewsInv'
  BY <1>5, <1>6 DEF ViewsInv
<1>8. Put(data', views, ImageBase(n), 0)
  BY <1>1, <1>5 DEF Put, ImageBase
<1> QED  BY <1>5, <1>6, <1>7, <1>8 DEF DataInv

LEMMA NumberStep ==
  ASSUME ViewsInv, DataInv, Cal!WriteNumberOfSets
  PROVE  ViewsInv' /\ DataInv'
<1> DEFINE n == Len(views)
           base == IF calPc = "imagePoints" THEN ImageBase(n) ELSE SceneBase(n)
<1>1. /\ calPc \in {"imagePoints", "scenePoints"} /\ calPc' = calPc /\ setsPut' = 1 /\ views' = views
      /\ data' = Append(data, n) /\ n \in Nat /\ data \in Seq(Nat)
  BY DEF Cal!WriteNumberOfSets, ViewsInv
<1>2. ImageBase(n) \in Nat \ {0} /\ base \in Nat \ {0}
  <2> HIDE DEF n
  <2> QED  BY <1>1, Bases
<1>3. Len(data) = base - 1 /\ HeaderStands(data, n)
  BY <1>1 DEF DataInv, Put, Cal!WriteNumberOfSets
<1> HIDE DEF base
<1>4. data' \in Seq(Nat) /\ Begins(data, data') /\ Put(data', views, base, 1)
  BY <1>1, <1>2, <1>3, NumberAdded
<1>5. HeaderStands(data', n)
  <2> HIDE DEF n
  <2> QED  BY <1>1, <1>3, <1>4, HeaderKept
<1>6. calPc = "scenePoints" => SetsStand(data', views, ImageBase(n), n)
  <2>1. calPc = "scenePoints" => SetsStand(data, views, ImageBase(n), n)
    BY DEF DataInv
  <2> HIDE DEF n
  <2> QED  BY <1>1, <1>2, <1>4, <2>1, SetsKept
<1>7. ViewsInv'
  BY <1>1, <1>4 DEF ViewsInv
<1> QED  BY <1>1, <1>4, <1>5, <1>6, <1>7 DEF DataInv, base

LEMMA SetStep ==
  ASSUME ViewsInv, DataInv, Cal!WriteSet
  PROVE  ViewsInv' /\ DataInv'
<1> DEFINE n == Len(views)
           base == IF calPc = "imagePoints" THEN ImageBase(n) ELSE SceneBase(n)
<1>1. /\ calPc \in {"imagePoints", "scenePoints"} /\ calPc' = calPc /\ setsPut' = setsPut + 1 /\ views' = views
      /\ data' = data \o (<<Len(views[setsPut])>> \o views[setsPut])
      /\ n \in Nat /\ data \in Seq(Nat) /\ views \in Seq(Seq(Nat)) /\ setsPut \in DOMAIN views /\ setsPut \in Nat
      /\ Len(views[setsPut]) = Corners
  BY DEF Cal!WriteSet, ViewsInv
<1>2. ImageBase(n) \in Nat \ {0} /\ base \in Nat \ {0}
  <2> HIDE DEF n
  <2> QED  BY <1>1, Bases
<1>3. Put(data, views, base, setsPut) /\ HeaderStands(data, n)
  BY <1>1 DEF DataInv
<1> HIDE DEF base
<1>4. data' \in Seq(Nat) /\ Begins(data, data') /\ Put(data', views, base, setsPut + 1)
  BY <1>1, <1>2, <1>3, SetAdded
<1>5. HeaderStands(data', n)
  <2> HIDE DEF n
  <2> QED  BY <1>1, <1>3, <1>4, HeaderKept
<1>6. calPc = "scenePoints" => SetsStand(data', views, ImageBase(n), n)
  <2>1. calPc = "scenePoints" => SetsStand(data, views, ImageBase(n), n)
    BY DEF DataInv
  <2> HIDE DEF n
  <2> QED  BY <1>1, <1>2, <1>4, <2>1, SetsKept
<1>7. ViewsInv'
  BY <1>1, <1>4 DEF ViewsInv
<1> QED  BY <1>1, <1>4, <1>5, <1>6, <1>7 DEF DataInv, base

LEMMA LoopStep ==
  ASSUME ViewsInv, DataInv, Cal!SetsWritten
  PROVE  ViewsInv' /\ DataInv'
<1> DEFINE n == Len(views)
           base == IF calPc = "imagePoints" THEN ImageBase(n) ELSE SceneBase(n)
<1>1. /\ calPc \in {"imagePoints", "scenePoints"} /\ setsPut' = 0 /\ UNCHANGED <<views, data>>
      /\ calPc' = IF calPc = "imagePoints" THEN "scenePoints" ELSE "written"
      /\ n \in Nat /\ setsPut \in Nat /\ setsPut > n
  BY DEF Cal!SetsWritten, ViewsInv
<1>2. Put(data, views, base, setsPut) /\ HeaderStands(data, n)
  BY <1>1 DEF DataInv
<1>3. setsPut - 1 = n
  BY <1>1, <1>2 DEF Put
<1>4. SetsStand(data, views, base, n) /\ Len(data) = SetEnd(base, n)
  BY <1>1, <1>2, <1>3 DEF Put
<1>5. calPc = "imagePoints" => Put(data, views, SceneBase(n), 0)
  <2>1. SetEnd(ImageBase(n), n) \in Nat
    <3> HIDE DEF n
    <3> QED  BY <1>1, Bases, SetEnds
  <2> QED  BY <1>4, <2>1 DEF Put, SceneBase
<1>6. ViewsInv'
  BY <1>1 DEF ViewsInv
<1> QED  BY <1>1, <1>2, <1>4, <1>5, <1>6 DEF DataInv

LEMMA DataPreserved ==
  ASSUME PosesInv, ViewsInv, DataInv, [Cal!CalNext]_(Cal!calVars)
  PROVE  ViewsInv' /\ DataInv'
<1>1. CASE Cal!AddChessboardData
  <2> DEFINE v == [c \in 1..Corners |-> 10 * (Len(views) + 1) + c]
  <2>1. v \in Seq(Nat) /\ Len(v) = Corners
    <3> DEFINE t(c) == 10 * (Len(views) + 1) + c
    <3>1. \A c \in 1..Corners : t(c) \in Nat
      BY CalAssumption DEF ViewsInv
    <3>2. v = [c \in 1..Corners |-> t(c)]
      OBVIOUS
    <3> HIDE DEF t, v
    <3> QED  BY <3>1, <3>2, CalAssumption
  <2>2. views' = Append(views, v) /\ UNCHANGED <<calPc, data, setsPut>> /\ calPc = "images"
    BY <1>1 DEF Cal!AddChessboardData
  <2> HIDE DEF v
  <2>3. views' \in Seq(Seq(Nat)) /\ \A i \in DOMAIN views' : Len(views'[i]) = Corners
    <3>1. views \in Seq(Seq(Nat)) /\ \A i \in DOMAIN views : Len(views[i]) = Corners
      BY DEF ViewsInv
    <3>2. DOMAIN views = 1..Len(views) /\ Len(views) \in Nat
      BY <3>1
    <3>3. /\ views' \in Seq(Seq(Nat)) /\ DOMAIN views' = 1..Len(views) + 1
          /\ \A i \in 1..Len(views) : views'[i] = views[i]
          /\ views'[Len(views) + 1] = v
      BY <2>1, <2>2, <3>1
    <3>4. ASSUME NEW i \in DOMAIN views' PROVE Len(views'[i]) = Corners
      <4>1. i \in 1..Len(views) \/ i = Len(views) + 1
        BY <3>2, <3>3
      <4>2. CASE i \in 1..Len(views)
        <5>1. views'[i] = views[i] /\ Len(views[i]) = Corners
          BY <3>1, <3>2, <3>3, <4>2
        <5> QED  BY <5>1
      <4>3. CASE i = Len(views) + 1
        <5>1. views'[i] = v
          BY <3>3, <4>3
        <5> QED  BY <2>1, <5>1
      <4> QED  BY <4>1, <4>2, <4>3
    <3> QED  BY <3>3, <3>4
  <2> QED  BY <2>2, <2>3 DEF ViewsInv, DataInv
<1>2. CASE Cal!GenerateCamera \/ Cal!EnoughChessboards \/ Cal!EstimateIntrinsics \/ Cal!EstimateExtrinsics
           \/ Cal!Optimize \/ Cal!WriteParams
  <2>1. UNCHANGED <<views, data, setsPut>> /\ calPc \notin {"imagePoints", "scenePoints", "written"}
        /\ calPc' \notin {"imagePoints", "scenePoints", "written"}
    BY <1>2 DEF Cal!GenerateCamera, Cal!EnoughChessboards, Cal!EstimateIntrinsics, Cal!EstimateExtrinsics,
       Cal!Optimize, Cal!WriteParams
  <2> QED  BY <2>1 DEF ViewsInv, DataInv
<1>3. CASE Puts
  BY <1>3, HeaderStep, NumberStep, SetStep, LoopStep DEF Puts
<1>4. CASE Reads \/ Cal!EditFile \/ Cal!GenerateCameraFromYamlFile \/ UNCHANGED Cal!calVars
  <2>1. UNCHANGED <<calPc, views, data, setsPut>>
    BY <1>4, ReadsLeave DEF Cal!EditFile, Cal!GenerateCameraFromYamlFile, Cal!calVars
  <2> QED  BY <2>1 DEF ViewsInv, DataInv
<1> QED  BY <1>1, <1>2, <1>3, <1>4, CalSteps

LEMMA NothingTaken ==
  ASSUME NEW v, Len(v) \in Nat
  PROVE  Taken(<<>>, v)
BY DEF Taken

LEMMA TakenNext ==
  ASSUME NEW v \in Seq(Seq(Nat)), NEW sets, Taken(sets, v), Len(sets) < Len(v),
         NEW set, set = v[Len(sets) + 1]
  PROVE  Taken(Append(sets, set), v) /\ Len(Append(sets, set)) = Len(sets) + 1
<1> DEFINE k == Len(sets)
           more == Append(sets, set)
<1>1. sets \in Seq(Seq(Nat)) /\ k \in Nat /\ Len(v) \in Nat /\ DOMAIN sets = 1..k
  BY DEF Taken
<1>2. set \in Seq(Nat)
  <2>1. k + 1 \in DOMAIN v
    BY <1>1
  <2> QED  BY <2>1
<1>3. /\ more \in Seq(Seq(Nat)) /\ Len(more) = k + 1 /\ DOMAIN more = 1..k + 1
      /\ \A i \in 1..k : more[i] = sets[i]
      /\ more[k + 1] = set
  BY <1>1, <1>2
<1> HIDE DEF more
<1>4. ASSUME NEW i \in DOMAIN more PROVE more[i] = v[i]
  <2>1. i \in 1..k \/ i = k + 1
    BY <1>1, <1>3
  <2>2. CASE i \in 1..k
    BY <1>1, <1>3, <2>2 DEF Taken
  <2>3. CASE i = k + 1
    BY <1>3, <2>3
  <2> QED  BY <2>1, <2>2, <2>3
<1>5. Taken(more, v)
  BY <1>1, <1>3, <1>4 DEF Taken
<1> QED  BY <1>3, <1>5 DEF more

LEMMA AllTaken ==
  ASSUME NEW v \in Seq(Seq(Nat)), NEW sets, Taken(sets, v), Len(sets) = Len(v)
  PROVE  sets = v
<1>1. sets \in Seq(Seq(Nat)) /\ DOMAIN sets = 1..Len(sets) /\ DOMAIN v = 1..Len(v)
  BY DEF Taken
<1>2. \A i \in 1..Len(sets) : sets[i] = v[i]
  BY <1>1 DEF Taken
<1> QED  BY <1>1, <1>2, SeqEqual

LEMMA ReadHeaderStep ==
  ASSUME ViewsInv, DataInv, SessionInv, Cal!ReadHeader
  PROVE  SessionInv'
<1> DEFINE n == Len(views)
<1>1. n \in Nat /\ HeaderStands(data, n) /\ SetsStand(data, views, ImageBase(n), n)
  BY DEF ViewsInv, DataInv, Cal!ReadHeader
<1>2. data[1] = n /\ data[n + 2] = n /\ \A i \in 1..n : data[1 + i] = i
  BY <1>1 DEF HeaderStands, SetsStand, ImageBase
<1>3. [i \in 1..n |-> data[1 + i]] = [i \in 1..n |-> i]
  BY <1>2
<1>4. /\ session' = [session EXCEPT !.poses = [i \in 1..n |-> i]]
      /\ setsDue' = n /\ cursor' = n + 2 /\ sessionPc' = "views" /\ calPc' = "written" /\ views' = views
  BY <1>2, <1>3 DEF Cal!ReadHeader
<1>5. /\ session = [views |-> <<>>, scene |-> <<>>, poses |-> session.poses]
  BY DEF SessionInv, Cal!ReadHeader
<1> DEFINE ids == [i \in 1..n |-> i]
<1> HIDE DEF ids
<1>6. session' = [views |-> <<>>, scene |-> <<>>, poses |-> ids]
  <2>1. session' = [session EXCEPT !.poses = ids]
    BY <1>4 DEF ids
  <2> QED  BY <1>5, <2>1
<1>7. session'.views = <<>> /\ session'.scene = <<>> /\ session'.poses = ids
  BY <1>6
<1>8. cursor' = SetEnd(ImageBase(n), 0)
  BY <1>1, <1>4, Bases, SetEnds DEF ImageBase
<1>9. Taken(<<>>, views)
  BY <1>1, NothingTaken
<1> QED  BY <1>4, <1>6, <1>7, <1>8, <1>9 DEF SessionInv, ids

LEMMA ReadViewsStep ==
  ASSUME ViewsInv, DataInv, SessionInv, Cal!ReadSet("views")
  PROVE  SessionInv'
<1> DEFINE n == Len(views)
           k == Len(session.views)
           set == SetAt(data, cursor)
           more == Append(session.views, set)
<1>1. /\ n \in Nat /\ views \in Seq(Seq(Nat)) /\ SameLengths(views)
      /\ data \in Seq(Nat)
  BY DEF ViewsInv, SameLengths
<1>2. /\ sessionPc = "views" /\ calPc = "written" /\ setsDue = n /\ Taken(session.views, views)
      /\ cursor = SetEnd(ImageBase(n), k) /\ k < n
  BY DEF SessionInv, Cal!ReadSet
<1>3. SetsStand(data, views, ImageBase(n), n)
  BY <1>2 DEF DataInv
<1>4. k \in Nat
  BY <1>2 DEF Taken
<1>5. set = views[k + 1] /\ Behind(data, cursor) = SetEnd(ImageBase(n), k + 1)
  <2> DEFINE base == ImageBase(n)
  <2>1. base \in Nat \ {0} /\ SetsStand(data, views, base, n) /\ cursor = SetEnd(base, k)
    BY <1>1, <1>2, <1>3, Bases
  <2>2. k \in Nat /\ k < Len(views)
    BY <1>2, <1>4
  <2> HIDE DEF k, base
  <2>3. set = views[k + 1]
    BY <1>1, <2>1, <2>2, SetRead
  <2>4. Behind(data, cursor) = SetEnd(base, k + 1)
    BY <1>1, <2>1, <2>2, SetRead
  <2> QED  BY <2>3, <2>4 DEF base
<1>6. /\ session' = [session EXCEPT !.views = more] /\ cursor' = Behind(data, cursor)
      /\ UNCHANGED <<calPc, views, sessionPc, setsDue>>
  BY DEF Cal!ReadSet, SetAt, Behind
<1> HIDE DEF set
<1>7. Taken(more, views) /\ Len(more) = k + 1
  BY <1>1, <1>2, <1>5, TakenNext
<1> HIDE DEF more
<1>8. session = [views |-> session.views, scene |-> <<>>, poses |-> session.poses]
  BY <1>2 DEF SessionInv
<1>9. session' = [views |-> more, scene |-> <<>>, poses |-> session.poses]
  BY <1>6, <1>8
<1>10. session'.views = more /\ session'.scene = <<>> /\ session'.poses = session.poses
  BY <1>9
<1>11. session.poses = [i \in 1..n |-> i]
  BY <1>2 DEF SessionInv
<1>12. Taken(<<>>, views)
  BY <1>1, NothingTaken
<1> QED  BY <1>2, <1>5, <1>6, <1>7, <1>9, <1>10, <1>11, <1>12 DEF SessionInv

LEMMA ReadSceneStep ==
  ASSUME ViewsInv, DataInv, SessionInv, Cal!ReadSet("scene")
  PROVE  SessionInv'
<1> DEFINE n == Len(views)
           k == Len(session.scene)
           set == SetAt(data, cursor)
           more == Append(session.scene, set)
<1>1. /\ n \in Nat /\ views \in Seq(Seq(Nat)) /\ SameLengths(views)
      /\ data \in Seq(Nat)
  BY DEF ViewsInv, SameLengths
<1>2. /\ sessionPc = "scene" /\ calPc = "written" /\ setsDue = n /\ Taken(session.scene, views)
      /\ cursor = SetEnd(SceneBase(n), k) /\ k < n
      /\ Taken(session.views, views) /\ Len(session.views) = n
  BY DEF SessionInv, Cal!ReadSet
<1>3. SetsStand(data, views, SceneBase(n), n)
  BY <1>2 DEF DataInv
<1>4. k \in Nat
  BY <1>2 DEF Taken
<1>5. set = views[k + 1] /\ Behind(data, cursor) = SetEnd(SceneBase(n), k + 1)
  <2> DEFINE base == SceneBase(n)
  <2>1. base \in Nat \ {0} /\ SetsStand(data, views, base, n) /\ cursor = SetEnd(base, k)
    BY <1>1, <1>2, <1>3, Bases
  <2>2. k \in Nat /\ k < Len(views)
    BY <1>2, <1>4
  <2> HIDE DEF k, base
  <2>3. set = views[k + 1]
    BY <1>1, <2>1, <2>2, SetRead
  <2>4. Behind(data, cursor) = SetEnd(base, k + 1)
    BY <1>1, <2>1, <2>2, SetRead
  <2> QED  BY <2>3, <2>4 DEF base
<1>6. /\ session' = [session EXCEPT !.scene = more] /\ cursor' = Behind(data, cursor)
      /\ UNCHANGED <<calPc, views, sessionPc, setsDue>>
  BY DEF Cal!ReadSet, SetAt, Behind
<1> HIDE DEF set
<1>7. Taken(more, views) /\ Len(more) = k + 1
  BY <1>1, <1>2, <1>5, TakenNext
<1> HIDE DEF more
<1>8. session = [views |-> session.views, scene |-> session.scene, poses |-> session.poses]
  BY DEF SessionInv
<1>9. session' = [views |-> session.views, scene |-> more, poses |-> session.poses]
  BY <1>6, <1>8
<1>10. session'.views = session.views /\ session'.scene = more /\ session'.poses = session.poses
  BY <1>9
<1>11. session.poses = [i \in 1..n |-> i]
  BY <1>2 DEF SessionInv
<1> QED  BY <1>2, <1>5, <1>6, <1>7, <1>9, <1>10, <1>11 DEF SessionInv

LEMMA NextLoopStep ==
  ASSUME ViewsInv, DataInv, SessionInv, Cal!ImagePointsRead
  PROVE  SessionInv'
<1> DEFINE n == Len(views)
<1>1. /\ sessionPc = "views" /\ calPc = "written" /\ setsDue = n /\ Len(session.views) = n
      /\ cursor = SetEnd(ImageBase(n), n) /\ session.scene = <<>>
  BY DEF SessionInv, Cal!ImagePointsRead
<1>2. n \in Nat
  BY DEF ViewsInv
<1>3. SetsStand(data, views, SceneBase(n), n)
  BY <1>1 DEF DataInv
<1>4. data[cursor + 1] = n /\ cursor + 1 = SceneBase(n)
  BY <1>1, <1>3 DEF SetsStand, SceneBase
<1>5. /\ setsDue' = n /\ cursor' = SceneBase(n) /\ sessionPc' = "scene"
      /\ UNCHANGED <<calPc, views, session>>
  BY <1>4 DEF Cal!ImagePointsRead
<1>6. SetEnd(SceneBase(n), 0) = SceneBase(n)
  <2>1. SceneBase(n) \in Nat
    BY <1>2, Bases
  <2> QED  BY <2>1, SetEnds
<1>7. Len(session.scene) = 0
  BY <1>1
<1> QED  BY <1>1, <1>5, <1>6, <1>7 DEF SessionInv

LEMMA SessionPreserved ==
  ASSUME ViewsInv, DataInv, SessionInv, ViewsInv', [Cal!CalNext]_(Cal!calVars)
  PROVE  SessionInv'
<1>1. CASE Reads
  <2>1. CASE Cal!ScenePointsRead
    BY <2>1 DEF SessionInv, Cal!ScenePointsRead
  <2> QED  BY <1>1, <2>1, ReadHeaderStep, ReadViewsStep, ReadSceneStep, NextLoopStep DEF Reads
<1>2. CASE ~Reads
  <2>1. UNCHANGED <<session, sessionPc, cursor, setsDue>>
    BY <1>2, CalSteps, PutsLeave DEF Cal!GenerateCamera, Cal!AddChessboardData, Cal!EnoughChessboards,
       Cal!EstimateIntrinsics, Cal!EstimateExtrinsics, Cal!Optimize, Cal!WriteParams, Cal!EditFile,
       Cal!GenerateCameraFromYamlFile, Cal!calVars, Cal!sessionVars
  <2>2. CASE sessionPc = "file"
    <3>1. Taken(<<>>, views')
      BY NothingTaken DEF ViewsInv
    <3>2. session.views = <<>> /\ session.scene = <<>>
      BY <2>2 DEF SessionInv
    <3>3. /\ session' = session /\ sessionPc' = "file"
          /\ session = [views |-> session.views, scene |-> session.scene, poses |-> session.poses]
      BY <2>1, <2>2 DEF SessionInv
    <3> QED  BY <3>1, <3>2, <3>3 DEF SessionInv
  <2>3. CASE sessionPc # "file"
    <3>1. calPc = "written"
      BY <2>3 DEF SessionInv
    <3>2. UNCHANGED <<calPc, views>>
      BY <1>2, <3>1, CalSteps, PutsLeave DEF Cal!GenerateCamera, Cal!AddChessboardData, Cal!EnoughChessboards,
         Cal!EstimateIntrinsics, Cal!EstimateExtrinsics, Cal!Optimize, Cal!WriteParams, Cal!EditFile,
         Cal!GenerateCameraFromYamlFile, Cal!calVars
    <3> QED  BY <2>1, <3>2 DEF SessionInv
  <2> QED  BY <2>2, <2>3
<1> QED  BY <1>1, <1>2

LEMMA CalInvariant == Cal!CalSpec => []CalInv
<1>1. Cal!CalInit => CalInv
  <2> SUFFICES ASSUME Cal!CalInit PROVE CalInv
    OBVIOUS
  <2> USE DEF Cal!CalInit
  <2>1. CameraInv /\ PosesInv /\ FileInv /\ NodeInv
    BY DEF CameraInv, CalPcs, PosesInv, FileInv, NodeInv, Filed, Solved
  <2>2. ViewsInv /\ DataInv
    BY DEF ViewsInv, DataInv
  <2>3. SessionInv
    <3>1. /\ session = [views |-> <<>>, scene |-> <<>>, poses |-> <<>>] /\ views = <<>> /\ sessionPc = "file"
      BY DEF Cal!NoSession
    <3>2. Taken(<<>>, views)
      BY <3>1, NothingTaken
    <3> HIDE DEF Cal!CalInit
    <3> QED  BY <3>1, <3>2 DEF SessionInv
  <2> QED  BY <2>1, <2>2, <2>3 DEF CalInv
<1>2. CalInv /\ [Cal!CalNext]_(Cal!calVars) => CalInv'
  <2> SUFFICES ASSUME CalInv, [Cal!CalNext]_(Cal!calVars) PROVE CalInv'
    OBVIOUS
  <2>1. CameraInv /\ PosesInv /\ FileInv /\ NodeInv /\ ViewsInv /\ DataInv /\ SessionInv
    BY DEF CalInv
  <2>2. CameraInv'
    BY <2>1, CameraPreserved
  <2>3. PosesInv'
    BY <2>1, PosesPreserved
  <2>4. FileInv'
    BY <2>1, FilePreserved
  <2>5. NodeInv'
    BY <2>1, NodePreserved
  <2>6. ViewsInv' /\ DataInv'
    BY <2>1, DataPreserved
  <2>7. SessionInv'
    BY <2>1, <2>6, SessionPreserved
  <2> QED  BY <2>2, <2>3, <2>4, <2>5, <2>6, <2>7 DEF CalInv
<1> QED  BY <1>1, <1>2, PTL DEF Cal!CalSpec

\* Whatever the model of the camera, the number of chessboards and of their corners:
\* a program that generates a camera from the file of a calibration has that very
\* camera, every parameter the optimum found for it, and the points and poses read
\* from the data file are those that were written (Camera.cc:285-413,
\* CameraFactory.cc:71-168).
THEOREM FileReachesNode == Cal!CalSpec => []CalibrationReachesNode
<1>1. CalInv => CalibrationReachesNode
  <2> SUFFICES ASSUME CalInv PROVE CalibrationReachesNode
    OBVIOUS
  <2>1. ASSUME node # Cal!NoCamera, calFile.type = Cal!TypeName[camera.model]
        PROVE  /\ node = camera
               /\ \A n \in Cal!Members[node.model] :
                    node.params[n] = Cal!Value(n, IF n = "poly1" THEN "estimated" ELSE "optimized")
               /\ node.derived = Cal!Derived(node.model, node.params)
               /\ \A i \in DOMAIN poses : poses[i] = node.params
    <3>1. calPc \in Filed /\ node = camera
      BY <2>1 DEF CalInv, NodeInv
    <3>2. Stands(camera) /\ camera.params = Best(camera.model) /\ poses = [i \in DOMAIN views |-> camera.params]
      BY <3>1 DEF CalInv, CameraInv, PosesInv, Solved, Filed
    <3>3. camera.derived = Cal!Derived(camera.model, camera.params)
      BY <3>2 DEF Stands, CameraOf
    <3>4. \A n \in Cal!Members[camera.model] :
             camera.params[n] = Cal!Value(n, IF n = "poly1" THEN "estimated" ELSE "optimized")
      BY <3>2 DEF Best
    <3>5. \A i \in DOMAIN poses : poses[i] = camera.params
      BY <3>2
    <3> QED  BY <3>1, <3>3, <3>4, <3>5
  <2>2. ASSUME sessionPc = "read"
        PROVE  session.views = views /\ session.scene = views /\ session.poses = [i \in DOMAIN poses |-> i]
    <3>1. /\ calPc = "written" /\ Taken(session.views, views) /\ Len(session.views) = Len(views)
          /\ Taken(session.scene, views) /\ Len(session.scene) = Len(views)
          /\ session.poses = [i \in 1..Len(views) |-> i]
      BY <2>2 DEF CalInv, SessionInv
    <3>2. views \in Seq(Seq(Nat))
      BY DEF CalInv, ViewsInv
    <3>3. DOMAIN poses = 1..Len(views)
      BY <3>1, <3>2 DEF CalInv, PosesInv, Solved, Filed
    <3>4. session.views = views
      BY <3>1, <3>2, AllTaken
    <3>5. session.scene = views
      BY <3>1, <3>2, AllTaken
    <3> QED  BY <3>1, <3>3, <3>4, <3>5
  <2> QED  BY <2>1, <2>2 DEF CalibrationReachesNode, Cal!CalibrationReachesNode
<1> QED  BY <1>1, CalInvariant, PTL
=============================================================================
