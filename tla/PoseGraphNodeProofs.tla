------------------------- MODULE PoseGraphNodeProofs -------------------------
(***************************************************************************)
(* Theorems about PoseGraphNode, for every clock, every image stream and   *)
(* every interleaving of the topics and the threads.                       *)
(***************************************************************************)
EXTENDS PoseGraphNode, SequenceTheorems, WellFoundedInduction, TLAPS

-----------------------------------------------------------------------------
(* Buffers *)

\* The order of the naturals as a relation.
LEMMA LessInRelation ==
  ASSUME NEW x \in Nat, NEW y \in Nat, y < x
  PROVE  <<y, x>> \in OpToRel(<, Nat)
  BY DEF OpToRel

\* A set of naturals that is not empty has a smallest element.
LEMMA LeastNatural ==
  ASSUME NEW S, S \subseteq Nat, S # {}
  PROVE  \E least \in S : \A y \in S : least <= y
<1>1. IsWellFoundedOn(OpToRel(<, Nat), Nat)
  BY NatLessThanWellFounded
<1>2. \E x \in S : \A y \in S : ~ (<<y, x>> \in OpToRel(<, Nat))
  BY <1>1, WFMin, Zenon
<1>3. PICK m \in S : \A y \in S : ~ (<<y, m>> \in OpToRel(<, Nat))
  BY <1>2
<1>4. ASSUME NEW y \in S
      PROVE  m <= y
  <2>1. m \in Nat /\ y \in Nat
    BY <1>3
  <2>2. ~ (y < m)
    BY <1>3, <2>1, LessInRelation
  <2> QED
    BY <2>1, <2>2
<1> QED
  BY <1>3, <1>4

\* What is left of a buffer when its first i elements are popped.
LEMMA AfterBuffer ==
  ASSUME NEW buf \in Seq(Nat), NEW i \in 1..Len(buf)
  PROVE  /\ After(buf, i) \in Seq(Nat)
         /\ Len(After(buf, i)) = Len(buf) - i
         /\ \A j \in 1..(Len(buf) - i) : After(buf, i)[j] = buf[i + j]
<1>1. Len(buf) \in Nat /\ \A j \in 1..Len(buf) : buf[j] \in Nat
  BY ElementOfSeq, LenProperties
<1>2. i + 1 \in Int /\ Len(buf) \in Int /\ \A j \in (i + 1)..Len(buf) : buf[j] \in Nat
  BY <1>1
<1>3. /\ SubSeq(buf, i + 1, Len(buf)) \in Seq(Nat)
      /\ Len(SubSeq(buf, i + 1, Len(buf))) =
           IF i + 1 <= Len(buf) THEN Len(buf) - (i + 1) + 1 ELSE 0
      /\ \A j \in 1..(Len(buf) - (i + 1) + 1) :
           SubSeq(buf, i + 1, Len(buf))[j] = buf[(i + 1) + j - 1]
  BY <1>2, SubSeqProperties
<1>4. Len(SubSeq(buf, i + 1, Len(buf))) = Len(buf) - i
  BY <1>1, <1>3
<1>5. \A j \in 1..(Len(buf) - i) : SubSeq(buf, i + 1, Len(buf))[j] = buf[i + j]
  BY <1>1, <1>3
<1> QED
  BY <1>3, <1>4, <1>5 DEF After

\* Popping the front of a buffer is the same with i = 1.
LEMMA TailBuffer ==
  ASSUME NEW buf \in Seq(Nat), buf # <<>>
  PROVE  /\ Len(buf) \in Nat \ {0}
         /\ Tail(buf) \in Seq(Nat)
         /\ Len(Tail(buf)) = Len(buf) - 1
         /\ \A j \in 1..(Len(buf) - 1) : Tail(buf)[j] = buf[j + 1]
         /\ Head(buf) = buf[1]
  OBVIOUS

\* A buffer whose newest message is not older than the pose has a first such message, and
\* FirstFrom is its index.
LEMMA FirstFromFound ==
  ASSUME NEW buf \in Seq(Nat), buf # <<>>, NEW pose, Stamp(pose) \in Nat,
         \A i \in 1..Len(buf) : Stamp(buf[i]) \in Nat,
         Stamp(Last(buf)) >= Stamp(pose)
  PROVE  /\ FirstFrom(buf, pose) \in 1..Len(buf)
         /\ Stamp(buf[FirstFrom(buf, pose)]) >= Stamp(pose)
         /\ \A j \in 1..(FirstFrom(buf, pose) - 1) : Stamp(buf[j]) < Stamp(pose)
<1> DEFINE S == {i \in 1..Len(buf) : Stamp(buf[i]) >= Stamp(pose)}
<1>1. Len(buf) \in Nat \ {0} /\ DOMAIN buf = 1..Len(buf)
  BY LenProperties, EmptySeq
<1>2. Len(buf) \in S
  BY <1>1 DEF Last
<1>3. S \subseteq Nat /\ S # {}
  BY <1>1, <1>2
<1>4. PICK i \in S : \A j \in S : i <= j
  <2> HIDE DEF S
  <2> QED
    BY <1>3, LeastNatural
<1>5. \A j \in 1..(i - 1) : Stamp(buf[j]) < Stamp(pose)
  BY <1>1, <1>4
<1>6. \E k \in DOMAIN buf : /\ Stamp(buf[k]) >= Stamp(pose)
                            /\ \A j \in 1..(k - 1) : Stamp(buf[j]) < Stamp(pose)
  BY <1>1, <1>4, <1>5
<1> QED
  BY <1>1, <1>6 DEF FirstFrom

-----------------------------------------------------------------------------
(* The inductive invariant *)

Image == [stamp : Nat, session : Nat]

TypeInv ==
  /\ camera \in Seq(Image) /\ keyframes \in Seq(Nat)
  /\ tracking \in {"first", "run"} /\ overtaken \in BOOLEAN
  /\ taken_images \in 0..Len(camera)
  /\ taken_poses \in 0..Len(keyframes) /\ taken_points \in 0..Len(keyframes)
  /\ image_buf \in Seq(Nat) /\ pose_buf \in Seq(Nat) /\ point_buf \in Seq(Nat)
  /\ last_image_time \in Int /\ sequence \in Nat
  /\ spin \in {"idle", "check", "clear"} /\ command \in {"idle", "clear"}
  /\ proc \in {"match", "matched"}
  /\ match \in [image : Nat, point : Nat, pose : Nat]
  /\ frames \in Seq([image : Nat, sequence : Nat])

\* A discontinuity of the stamps is where a session begins, and no image there is tracked.
CameraInv ==
  /\ \A n \in 1..Len(camera) :
       Session(n) = IF n = 1 THEN 1
                    ELSE Session(n - 1) +
                           (IF Discontinuous(Stamp(n - 1), Stamp(n)) THEN 1 ELSE 0)
  /\ \A i, j \in 1..Len(camera) : i <= j => Session(i) <= Session(j)
  /\ \A n \in usable : n \in 2..Len(camera) /\ ~Discontinuous(Stamp(n - 1), Stamp(n))
  /\ tracking = "run" => camera # <<>>

\* The keyframes are tracked images, in order.
KeyframesInv ==
  /\ \A k \in 1..Len(keyframes) : keyframes[k] \in usable
  /\ \A j, k \in 1..Len(keyframes) : j < k => keyframes[j] < keyframes[k]

WorldInv == TypeInv /\ CameraInv /\ KeyframesInv

\* A buffer holds what was delivered last on its topic, without a gap.
BufferInv ==
  /\ Len(image_buf) <= taken_images
  /\ \A i \in 1..Len(image_buf) : image_buf[i] = taken_images - Len(image_buf) + i
  /\ Len(pose_buf) <= taken_poses
  /\ \A i \in 1..Len(pose_buf) : pose_buf[i] = keyframes[taken_poses - Len(pose_buf) + i]
  /\ Len(point_buf) <= taken_points
  /\ \A i \in 1..Len(point_buf) : point_buf[i] = keyframes[taken_points - Len(point_buf) + i]

\* The newest image whose stamp has been checked.
Checked == IF spin = "check" THEN taken_images - 1 ELSE taken_images

\* The callback's view of the stream is that of the images checked; before a discontinuity
\* empties the buffers they hold one session, but for an image yet to be checked.
SpinInv ==
  /\ spin # "idle" => taken_images > 0
  /\ last_image_time = IF Checked = 0 THEN -1 ELSE Stamp(Checked)
  /\ sequence >= 1
  /\ Checked # 0 => sequence >= Session(Checked)
  /\ spin \in {"idle", "check"} =>
       \A i \in 1..Len(image_buf) :
         image_buf[i] <= Checked => Session(image_buf[i]) = Session(Checked)

StreamInv == WorldInv /\ BufferInv /\ SpinInv

-----------------------------------------------------------------------------
(* Images and keyframes *)

USE ClockAssumption, SkipAssumption, LimitAssumption

\* The images taken, with their stamps and sessions.
LEMMA CameraTypes ==
  ASSUME TypeInv
  PROVE  /\ Len(camera) \in Nat /\ (camera # <<>> <=> Len(camera) > 0)
         /\ \A n \in 1..Len(camera) : Stamp(n) \in Nat /\ Session(n) \in Nat
         /\ DOMAIN camera = 1..Len(camera)
         /\ Len(keyframes) \in Nat /\ (keyframes # <<>> <=> Len(keyframes) > 0)
         /\ \A k \in 1..Len(keyframes) : keyframes[k] \in Nat
<1>1. camera \in Seq(Image) /\ keyframes \in Seq(Nat)
  BY DEF TypeInv
<1>2. Len(camera) \in Nat /\ \A n \in 1..Len(camera) : camera[n] \in Image
  BY <1>1, LenProperties, ElementOfSeq
<1>3. Len(keyframes) \in Nat /\ \A k \in 1..Len(keyframes) : keyframes[k] \in Nat
  BY <1>1, LenProperties, ElementOfSeq
<1>4. (camera # <<>> => Len(camera) \in Nat \ {0}) /\ (keyframes # <<>> => Len(keyframes) \in Nat \ {0})
  BY <1>1, EmptySeq
<1>5. (camera = <<>> => Len(camera) = 0) /\ (keyframes = <<>> => Len(keyframes) = 0)
  BY EmptySeq
<1>6. \A n \in 1..Len(camera) : Stamp(n) \in Nat /\ Session(n) \in Nat
  BY <1>2 DEF Image, Stamp, Session
<1> QED
  BY <1>1, <1>2, <1>3, <1>4, <1>5, <1>6, LenProperties

\* TakeImage adds one image to those taken, of the last session or of a new one.
LEMMA ImageTaken ==
  ASSUME TypeInv, NEW t \in 1..MaxStamp, TakeImage(t)
  PROVE  LET n == Len(camera) + 1
         IN  /\ camera' \in Seq(Image)
             /\ Len(camera') = n
             /\ \A i \in 1..Len(camera) : camera'[i] = camera[i]
             /\ camera'[n].stamp = t
             /\ camera'[n].session =
                  IF n = 1 THEN 1
                  ELSE Session(n - 1) + (IF Discontinuous(Stamp(n - 1), t) THEN 1 ELSE 0)
             /\ usable' \subseteq usable \cup {n}
             /\ n \in usable' /\ n \notin usable =>
                  tracking = "run" /\ ~(camera # <<>> /\ Discontinuous(Stamp(n - 1), t))
<1> DEFINE n == Len(camera) + 1
           image == [stamp |-> t,
                     session |-> IF camera = <<>> THEN 1 ELSE
                                 Last(camera).session +
                                   IF ~(camera = <<>>) /\ Discontinuous(Last(camera).stamp, t) THEN 1 ELSE 0]
<1>1. camera' = Append(camera, image)
  BY DEF TakeImage
<1>2. camera # <<>> => Last(camera).stamp = Stamp(n - 1) /\ Last(camera).session = Session(n - 1)
  BY CameraTypes DEF Last, Stamp, Session
<1>3. image.stamp = t /\
      image.session = IF n = 1 THEN 1
                      ELSE Session(n - 1) + (IF Discontinuous(Stamp(n - 1), t) THEN 1 ELSE 0)
  BY <1>2, CameraTypes
<1>4. image.session \in Nat
  <2>1. camera # <<>> => Session(n - 1) \in Nat
    BY CameraTypes
  <2> QED
    BY <1>3, <2>1, CameraTypes
<1>5. image \in Image
  BY <1>4 DEF Image
<1>6. camera \in Seq(Image)
  BY DEF TypeInv
<1>7. /\ usable' \subseteq usable \cup {n}
      /\ n \in usable' /\ n \notin usable =>
           tracking = "run" /\ ~(camera # <<>> /\ Discontinuous(Stamp(n - 1), t))
  BY <1>2 DEF TakeImage
<1> HIDE DEF image
<1>8. /\ camera' \in Seq(Image) /\ Len(camera') = n
      /\ \A i \in 1..Len(camera) : camera'[i] = camera[i]
      /\ camera'[n] = image
  BY <1>1, <1>5, <1>6, AppendProperties
<1> QED
  BY <1>3, <1>7, <1>8

\* A session begins where the stamps jump, whatever the camera does; keyframes stay in order.
LEMMA WorldSteps ==
  ASSUME TypeInv, CameraInv, KeyframesInv, World
  PROVE  CameraInv' /\ KeyframesInv'
<1>1. ASSUME NEW t \in 1..MaxStamp, TakeImage(t)
      PROVE  CameraInv' /\ KeyframesInv'
  <2>n. PICK n \in Nat : n = Len(camera) + 1
    BY CameraTypes
  <2>1. /\ camera' \in Seq(Image) /\ Len(camera') = n
        /\ \A i \in 1..Len(camera) : camera'[i] = camera[i]
        /\ camera'[n].stamp = t
        /\ camera'[n].session =
             IF n = 1 THEN 1
             ELSE Session(n - 1) + (IF Discontinuous(Stamp(n - 1), t) THEN 1 ELSE 0)
        /\ usable' \subseteq usable \cup {n}
        /\ n \in usable' /\ n \notin usable =>
             tracking = "run" /\ ~(camera # <<>> /\ Discontinuous(Stamp(n - 1), t))
    BY <1>1, <2>n, ImageTaken
  <2>2. \A i \in 1..Len(camera) : Stamp(i)' = Stamp(i) /\ Session(i)' = Session(i)
    BY <2>1 DEF Stamp, Session
  <2>3. /\ Stamp(n)' = t
        /\ n = 1 => Session(n)' = 1
        /\ n > 1 => Session(n)' =
             Session(n - 1) + (IF Discontinuous(Stamp(n - 1), t) THEN 1 ELSE 0)
    BY <2>n, <2>1, CameraTypes DEF Stamp, Session
  <2>4. ASSUME NEW i \in 1..n
        PROVE  Session(i)' = IF i = 1 THEN 1
                             ELSE Session(i - 1)' +
                                    (IF Discontinuous(Stamp(i - 1)', Stamp(i)') THEN 1 ELSE 0)
    <3>1. CASE i = n
      BY <2>n, <2>2, <2>3, <3>1, CameraTypes
    <3>2. CASE i \in 1..Len(camera)
      <4>1. i # 1 => i - 1 \in 1..Len(camera)
        BY <2>n, <3>2, CameraTypes
      <4> QED
        BY <2>2, <3>2, <4>1 DEF CameraInv
    <3> QED
      BY <2>n, <3>1, <3>2, CameraTypes
  <2>5. ASSUME NEW i \in 1..n, NEW j \in 1..n, i <= j
        PROVE  Session(i)' <= Session(j)'
    <3>1. CASE j \in 1..Len(camera)
      BY SMTT(30), <2>n, <2>2, <2>5, <3>1, CameraTypes DEF CameraInv
    <3>2. CASE j = n /\ i = n
      <4>1. Session(n)' \in Int
        BY <2>n, <2>3, CameraTypes
      <4> QED
        BY <3>2, <4>1
    <3>3. CASE j = n /\ i \in 1..Len(camera)
      <4>1. n - 1 \in 1..Len(camera) /\ n > 1 /\ i <= n - 1
        BY <2>n, <3>3, CameraTypes
      <4>2. Session(i) <= Session(n - 1)
        BY <3>3, <4>1 DEF CameraInv
      <4>3. Session(n)' >= Session(n - 1)
        BY <2>n, <2>3, <4>1, CameraTypes
      <4>4. Session(i) \in Nat /\ Session(n - 1) \in Nat /\ Session(n)' \in Int
        BY <2>3, <3>3, <4>1, CameraTypes
      <4> QED
        BY <2>2, <3>3, <4>2, <4>3, <4>4
    <3> QED
      BY <2>n, <3>1, <3>2, <3>3, CameraTypes
  <2>6. ASSUME NEW i \in usable'
        PROVE  i \in 2..n /\ ~Discontinuous(Stamp(i - 1)', Stamp(i)')
    <3>1. CASE i \in usable
      <4>1. i \in 2..Len(camera) /\ ~Discontinuous(Stamp(i - 1), Stamp(i))
        BY <3>1 DEF CameraInv
      <4>2. i - 1 \in 1..Len(camera) /\ i \in 1..Len(camera)
        BY <2>n, <4>1, CameraTypes
      <4> QED
        BY <2>n, <2>2, <4>1, <4>2, CameraTypes
    <3>2. CASE i \notin usable
      <4>1. i = n /\ tracking = "run" /\ ~(camera # <<>> /\ Discontinuous(Stamp(n - 1), t))
        BY <2>1, <2>6, <3>2
      <4>2. camera # <<>> /\ n - 1 \in 1..Len(camera) /\ n \in 2..n
        BY <2>n, <4>1, CameraTypes DEF CameraInv
      <4> QED
        BY <2>2, <2>3, <4>1, <4>2
    <3> QED
      BY <3>1, <3>2
  <2>7. camera' # <<>>
    <3>1. Len(camera') > 0
      BY <2>n, <2>1, CameraTypes
    <3> QED
      BY <3>1, EmptySeq
  <2>8. CameraInv'
    BY <2>1, <2>4, <2>5, <2>6, <2>7 DEF CameraInv
  <2>9. KeyframesInv'
    BY <1>1 DEF KeyframesInv, TakeImage
  <2> QED
    BY <2>8, <2>9
<1>2. ASSUME NEW n \in usable, PublishKeyframe(n)
      PROVE  CameraInv' /\ KeyframesInv'
  <2>1. n \in Nat /\ keyframes \in Seq(Nat) /\ keyframes' = Append(keyframes, n)
    BY SMTT(30), <1>2 DEF PublishKeyframe, CameraInv, TypeInv
  <2>2. /\ Len(keyframes') = Len(keyframes) + 1
        /\ \A k \in 1..Len(keyframes) : keyframes'[k] = keyframes[k]
        /\ keyframes'[Len(keyframes) + 1] = n
    BY <2>1, AppendProperties
  <2>3. \A k \in 1..Len(keyframes) : keyframes[k] < n
    <3>1. keyframes # <<>> => keyframes[Len(keyframes)] < n
      BY <1>2, <2>1, CameraTypes DEF PublishKeyframe, Last
    <3> QED
      BY SMTT(30), <2>1, <3>1, CameraTypes DEF KeyframesInv
  <2>4. UNCHANGED <<camera, tracking, usable>>
    BY <1>2 DEF PublishKeyframe
  <2>5. CameraInv'
    BY <2>4 DEF CameraInv, Stamp, Session
  <2>6. \A k \in 1..Len(keyframes') : keyframes'[k] \in usable'
    BY <2>2, <2>4, CameraTypes DEF KeyframesInv
  <2>7. ASSUME NEW j \in 1..Len(keyframes'), NEW k \in 1..Len(keyframes'), j < k
        PROVE  keyframes'[j] < keyframes'[k]
    <3>1. j \in 1..Len(keyframes)
      BY <2>2, <2>7, CameraTypes
    <3>2. CASE k \in 1..Len(keyframes)
      BY <2>2, <2>7, <3>1, <3>2 DEF KeyframesInv
    <3>3. CASE k = Len(keyframes) + 1
      BY <2>2, <2>3, <3>1, <3>3
    <3> QED
      BY <2>2, <3>2, <3>3, CameraTypes
  <2> QED
    BY <2>5, <2>6, <2>7 DEF KeyframesInv
<1> QED
  BY <1>1, <1>2 DEF World

\* The stream of images and that of keyframes only grow.
LEMMA WorldGrows ==
  ASSUME TypeInv, CameraInv, World
  PROVE  /\ TypeInv'
         /\ Len(camera') \in Nat /\ Len(camera) <= Len(camera')
         /\ \A i \in 1..Len(camera) : Stamp(i)' = Stamp(i) /\ Session(i)' = Session(i)
         /\ Len(keyframes') \in Nat /\ Len(keyframes) <= Len(keyframes')
         /\ \A k \in 1..Len(keyframes) : keyframes'[k] = keyframes[k]
         /\ UNCHANGED <<taken_images, taken_poses, taken_points, overtaken, image_buf, pose_buf,
                        point_buf, last_image_time, sequence, spin, proc, match, frames>>
<1> DEFINE Grown ==
      /\ TypeInv'
      /\ Len(camera') \in Nat /\ Len(camera) <= Len(camera')
      /\ \A i \in 1..Len(camera) : Stamp(i)' = Stamp(i) /\ Session(i)' = Session(i)
      /\ Len(keyframes') \in Nat /\ Len(keyframes) <= Len(keyframes')
      /\ \A k \in 1..Len(keyframes) : keyframes'[k] = keyframes[k]
      /\ UNCHANGED <<taken_images, taken_poses, taken_points, overtaken, image_buf, pose_buf,
                     point_buf, last_image_time, sequence, spin, proc, match, frames>>
<1>1. ASSUME NEW t \in 1..MaxStamp, TakeImage(t)
      PROVE  Grown
  <2>1. /\ camera' \in Seq(Image) /\ Len(camera') = Len(camera) + 1
        /\ \A i \in 1..Len(camera) : camera'[i] = camera[i]
    BY <1>1, ImageTaken
  <2>2. \A i \in 1..Len(camera) : Stamp(i)' = Stamp(i) /\ Session(i)' = Session(i)
    BY <2>1 DEF Stamp, Session
  <2>3. UNCHANGED <<keyframes, taken_images, taken_poses, taken_points, overtaken, image_buf,
                    pose_buf, point_buf, last_image_time, sequence, spin, command, proc, match,
                    frames>>
    BY <1>1 DEF TakeImage, inboxes, buffers
  <2>4. tracking' \in {"first", "run"}
    BY <1>1 DEF TakeImage
  <2>5. TypeInv'
    BY <2>1, <2>3, <2>4, CameraTypes DEF TypeInv
  <2> QED
    BY <2>1, <2>2, <2>3, <2>5, CameraTypes
<1>2. ASSUME NEW n \in usable, PublishKeyframe(n)
      PROVE  Grown
  <2>1. n \in Nat /\ keyframes \in Seq(Nat) /\ keyframes' = Append(keyframes, n)
    BY SMTT(30), <1>2 DEF PublishKeyframe, CameraInv, TypeInv
  <2>2. /\ keyframes' \in Seq(Nat)
        /\ Len(keyframes') = Len(keyframes) + 1
        /\ \A k \in 1..Len(keyframes) : keyframes'[k] = keyframes[k]
    BY <2>1, AppendProperties
  <2>3. UNCHANGED <<camera, tracking, taken_images, taken_poses, taken_points, overtaken,
                    image_buf, pose_buf, point_buf, last_image_time, sequence, spin, command,
                    proc, match, frames>>
    BY <1>2 DEF PublishKeyframe, inboxes, buffers
  <2>4. TypeInv'
    BY SMTT(30), <2>2, <2>3, CameraTypes DEF TypeInv
  <2> QED
    BY <2>2, <2>3, <2>4, CameraTypes DEF Stamp, Session
<1> QED
  BY <1>1, <1>2 DEF World

-----------------------------------------------------------------------------
(* Callbacks, keys and matches *)

\* What a buffer holds: images taken, of poses and points those of tracked images.
LEMMA BufferTypes ==
  ASSUME WorldInv, BufferInv
  PROVE  /\ taken_images \in Nat /\ taken_poses \in Nat /\ taken_points \in Nat
         /\ Len(image_buf) \in Nat /\ Len(pose_buf) \in Nat /\ Len(point_buf) \in Nat
         /\ (image_buf # <<>> <=> Len(image_buf) > 0) /\ (pose_buf # <<>> <=> Len(pose_buf) > 0)
         /\ (point_buf # <<>> <=> Len(point_buf) > 0)
         /\ \A i \in 1..Len(image_buf) :
              image_buf[i] \in 1..taken_images /\ image_buf[i] \in 1..Len(camera)
         /\ \A i \in 1..Len(pose_buf) : pose_buf[i] \in usable
         /\ \A i \in 1..Len(point_buf) : point_buf[i] \in usable
         /\ \A n \in usable : n \in 1..Len(camera)
<1>1. /\ image_buf \in Seq(Nat) /\ pose_buf \in Seq(Nat) /\ point_buf \in Seq(Nat)
      /\ taken_images \in 0..Len(camera)
      /\ taken_poses \in 0..Len(keyframes) /\ taken_points \in 0..Len(keyframes)
  BY DEF WorldInv, TypeInv
<1>2. Len(image_buf) \in Nat /\ Len(pose_buf) \in Nat /\ Len(point_buf) \in Nat
  BY <1>1, LenProperties
<1>3. /\ (image_buf # <<>> <=> Len(image_buf) > 0) /\ (pose_buf # <<>> <=> Len(pose_buf) > 0)
      /\ (point_buf # <<>> <=> Len(point_buf) > 0)
  BY <1>1, <1>2, EmptySeq
<1>4. ASSUME NEW i \in 1..Len(image_buf)
      PROVE  image_buf[i] \in 1..taken_images /\ image_buf[i] \in 1..Len(camera)
  <2>1. image_buf[i] \in 1..taken_images
    BY SMTT(30), <1>1, <1>2 DEF BufferInv
  <2>2. Len(camera) \in Nat
    BY CameraTypes DEF WorldInv
  <2> QED
    BY <1>1, <2>1, <2>2
<1>5. ASSUME NEW i \in 1..Len(pose_buf)
      PROVE  pose_buf[i] \in usable
  <2>1. /\ taken_poses - Len(pose_buf) + i \in 1..Len(keyframes)
        /\ pose_buf[i] = keyframes[taken_poses - Len(pose_buf) + i]
    BY <1>1, <1>2, CameraTypes DEF BufferInv
  <2> QED
    BY <2>1 DEF KeyframesInv, WorldInv
<1>6. ASSUME NEW i \in 1..Len(point_buf)
      PROVE  point_buf[i] \in usable
  <2>1. /\ taken_points - Len(point_buf) + i \in 1..Len(keyframes)
        /\ point_buf[i] = keyframes[taken_points - Len(point_buf) + i]
    BY SMTT(30), <1>1, <1>2, CameraTypes DEF BufferInv
  <2> QED
    BY <2>1 DEF KeyframesInv, WorldInv
<1>7. \A n \in usable : n \in 1..Len(camera)
  BY CameraTypes DEF CameraInv, WorldInv
<1> QED
  BY <1>1, <1>2, <1>3, <1>4, <1>5, <1>6, <1>7, CameraTypes

\* What MatchMessages takes: the oldest pose, and the first image and points not older.
LEMMA MatchTaken ==
  ASSUME WorldInv, BufferInv, MatchMessages
  PROVE  \E i \in 1..Len(image_buf), p \in 1..Len(point_buf) :
           /\ match' = [image |-> image_buf[i], point |-> point_buf[p], pose |-> pose_buf[1]]
           /\ 1 \in 1..Len(pose_buf)
           /\ Stamp(image_buf[i]) >= Stamp(pose_buf[1])
           /\ Stamp(point_buf[p]) >= Stamp(pose_buf[1])
           /\ \A j \in 1..(i - 1) : Stamp(image_buf[j]) < Stamp(pose_buf[1])
           /\ \A j \in 1..(p - 1) : Stamp(point_buf[j]) < Stamp(pose_buf[1])
           /\ image_buf' = After(image_buf, i)
           /\ point_buf' = After(point_buf, p)
           /\ pose_buf' = <<>>
<1>1. /\ image_buf \in Seq(Nat) /\ pose_buf \in Seq(Nat) /\ point_buf \in Seq(Nat)
  BY DEF WorldInv, TypeInv
<1>2. image_buf # <<>> /\ pose_buf # <<>> /\ point_buf # <<>> /\ CaughtUp(Head(pose_buf))
  BY DEF MatchMessages, Looking
<1>3. Head(pose_buf) = pose_buf[1] /\ 1 \in 1..Len(pose_buf)
  BY <1>1, <1>2, BufferTypes, TailBuffer
<1>4. Stamp(pose_buf[1]) \in Nat
  <2>1. pose_buf[1] \in 1..Len(camera)
    BY <1>3, BufferTypes
  <2> QED
    BY <2>1, CameraTypes DEF WorldInv
<1>5. /\ \A i \in 1..Len(image_buf) : Stamp(image_buf[i]) \in Nat
      /\ \A i \in 1..Len(point_buf) : Stamp(point_buf[i]) \in Nat
  <2>1. /\ \A i \in 1..Len(image_buf) : image_buf[i] \in 1..Len(camera)
        /\ \A i \in 1..Len(point_buf) : point_buf[i] \in 1..Len(camera)
    BY BufferTypes
  <2> QED
    BY <2>1, CameraTypes DEF WorldInv
<1>6. Stamp(Last(image_buf)) >= Stamp(pose_buf[1]) /\ Stamp(Last(point_buf)) >= Stamp(pose_buf[1])
  BY <1>2, <1>3 DEF CaughtUp
<1> DEFINE i == FirstFrom(image_buf, pose_buf[1])
           p == FirstFrom(point_buf, pose_buf[1])
<1>7. /\ i \in 1..Len(image_buf) /\ Stamp(image_buf[i]) >= Stamp(pose_buf[1])
      /\ \A j \in 1..(i - 1) : Stamp(image_buf[j]) < Stamp(pose_buf[1])
  BY <1>1, <1>2, <1>4, <1>5, <1>6, FirstFromFound
<1>8. /\ p \in 1..Len(point_buf) /\ Stamp(point_buf[p]) >= Stamp(pose_buf[1])
      /\ \A j \in 1..(p - 1) : Stamp(point_buf[j]) < Stamp(pose_buf[1])
  BY <1>1, <1>2, <1>4, <1>5, <1>6, FirstFromFound
<1>9. /\ match' = [image |-> image_buf[i], point |-> point_buf[p], pose |-> pose_buf[1]]
      /\ image_buf' = After(image_buf, i) /\ point_buf' = After(point_buf, p) /\ pose_buf' = <<>>
  BY <1>3 DEF MatchMessages
<1> QED
  BY <1>3, <1>7, <1>8, <1>9

\* Every step keeps the types.
LEMMA TypeNext ==
  ASSUME WorldInv, BufferInv, SpinInv, Next
  PROVE  TypeInv'
<1>a. TypeInv /\ CameraInv /\ KeyframesInv
  BY DEF WorldInv
<1>t. TypeInv
  BY <1>a
<1>1. ASSUME World
      PROVE  TypeInv'
  BY <1>1, <1>a, WorldGrows
<1>2. ASSUME ImageCallback
      PROVE  TypeInv'
  <2>1. /\ taken_images' \in 0..Len(camera') /\ taken_images' \in Nat
        /\ image_buf' = Append(image_buf, taken_images')
        /\ UNCHANGED <<camera, tracking, keyframes, taken_poses, taken_points, overtaken, pose_buf,
                       point_buf, last_image_time, sequence, command, proc, match, frames>>
        /\ spin' = "check"
    BY <1>2, <1>t, BufferTypes, CameraTypes DEF ImageCallback, world, TypeInv
  <2> QED
    BY <1>t, <2>1 DEF TypeInv
<1>3. ASSUME CheckStream
      PROVE  TypeInv'
  <2>1. /\ UNCHANGED <<camera, tracking, keyframes, taken_images, taken_poses, taken_points,
                       overtaken, image_buf, pose_buf, point_buf, command, proc, match, frames>>
        /\ last_image_time' = Stamp(taken_images)
        /\ sequence' \in {sequence, sequence + 1}
        /\ spin' \in {"clear", "idle"}
    BY <1>3 DEF CheckStream, world, inboxes, buffers, NextSequence
  <2>2. Stamp(taken_images) \in Nat
    <3>1. taken_images \in 1..Len(camera)
      BY <1>3, <1>t, BufferTypes DEF CheckStream, TypeInv, SpinInv
    <3> QED
      BY <1>t, <3>1, CameraTypes
  <2> QED
    BY <1>t, <2>1, <2>2 DEF TypeInv
<1>4. ASSUME PoseCallback
      PROVE  TypeInv'
  <2>1. /\ UNCHANGED <<camera, tracking, keyframes, taken_images, taken_points, image_buf,
                       point_buf, last_image_time, sequence, spin, command, proc, match, frames>>
        /\ overtaken' \in BOOLEAN
        /\ taken_poses' = taken_poses + 1
        /\ taken_poses < Len(keyframes)
        /\ pose_buf' = Append(pose_buf, keyframes[taken_poses + 1])
    BY <1>4, <1>t DEF PoseCallback, Overtakes, world, TypeInv
  <2>2. keyframes[taken_poses + 1] \in Nat /\ taken_poses + 1 \in 0..Len(keyframes)
    BY <1>t, <1>a, <2>1, BufferTypes, CameraTypes
  <2> QED
    BY <1>t, <2>1, <2>2 DEF TypeInv
<1>5. ASSUME PointCallback
      PROVE  TypeInv'
  <2>1. /\ UNCHANGED <<camera, tracking, keyframes, taken_images, taken_poses, image_buf,
                       pose_buf, last_image_time, sequence, spin, command, proc, match, frames>>
        /\ overtaken' \in BOOLEAN
        /\ taken_points' = taken_points + 1
        /\ taken_points < Len(keyframes)
        /\ point_buf' = Append(point_buf, keyframes[taken_points + 1])
    BY <1>5, <1>t DEF PointCallback, Overtakes, world, TypeInv
  <2>2. keyframes[taken_points + 1] \in Nat /\ taken_points + 1 \in 0..Len(keyframes)
    BY <1>t, <1>a, <2>1, BufferTypes, CameraTypes
  <2> QED
    BY <1>t, <2>1, <2>2 DEF TypeInv
<1>6. ASSUME ClearBuffers \/ PressN \/ ClearByKey
      PROVE  TypeInv'
  <2>1. /\ UNCHANGED <<camera, tracking, keyframes, taken_images, taken_poses, taken_points,
                       overtaken, last_image_time, proc, match, frames>>
        /\ sequence' \in {sequence, sequence + 1}
        /\ spin' \in {spin, "idle"} /\ command' \in {"idle", "clear"}
        /\ image_buf' \in {image_buf, <<>>} /\ pose_buf' \in {pose_buf, <<>>}
        /\ point_buf' \in {point_buf, <<>>}
    BY <1>6, <1>t DEF ClearBuffers, PressN, ClearByKey, Cleared, NextSequence, world, inboxes,
                      buffers, TypeInv
  <2>2. <<>> \in Seq(Nat)
    BY EmptySeq
  <2>3. image_buf' \in Seq(Nat) /\ pose_buf' \in Seq(Nat) /\ point_buf' \in Seq(Nat)
    BY <1>t, <2>1, <2>2 DEF TypeInv
  <2>4. sequence' \in Nat /\ spin' \in {"idle", "check", "clear"}
    BY SMTT(30), <1>t, <2>1 DEF TypeInv
  <2> QED
    BY <1>t, <2>1, <2>3, <2>4 DEF TypeInv
<1>7. ASSUME ThrowPose \/ ThrowPoint
      PROVE  TypeInv'
  <2>1. /\ UNCHANGED <<camera, tracking, keyframes, taken_images, taken_poses, taken_points,
                       overtaken, image_buf, last_image_time, sequence, spin, command, proc,
                       match, frames>>
        /\ pose_buf # <<>> /\ point_buf # <<>>
        /\ pose_buf' \in {pose_buf, Tail(pose_buf)} /\ point_buf' \in {point_buf, Tail(point_buf)}
    BY <1>7 DEF ThrowPose, ThrowPoint, Looking, world, inboxes
  <2>2. pose_buf \in Seq(Nat) /\ point_buf \in Seq(Nat)
    BY <1>t DEF TypeInv
  <2>3. pose_buf' \in Seq(Nat) /\ point_buf' \in Seq(Nat)
    <3>1. Tail(pose_buf) \in Seq(Nat) /\ Tail(point_buf) \in Seq(Nat)
      BY <2>1, <2>2, TailBuffer
    <3> QED
      BY <2>1, <2>2, <3>1, Zenon
  <2> QED
    BY <1>t, <2>1, <2>3 DEF TypeInv
<1>8. ASSUME MatchMessages
      PROVE  TypeInv'
  <2>1. PICK i \in 1..Len(image_buf), p \in 1..Len(point_buf) :
          /\ match' = [image |-> image_buf[i], point |-> point_buf[p], pose |-> pose_buf[1]]
          /\ 1 \in 1..Len(pose_buf)
          /\ image_buf' = After(image_buf, i) /\ point_buf' = After(point_buf, p)
          /\ pose_buf' = <<>>
    BY <1>8, MatchTaken
  <2>2. image_buf[i] \in Nat /\ point_buf[p] \in Nat /\ pose_buf[1] \in Nat
    BY SMTT(30), <2>1, BufferTypes
  <2>3. /\ After(image_buf, i) \in Seq(Nat) /\ After(point_buf, p) \in Seq(Nat)
        /\ <<>> \in Seq(Nat)
    BY <1>t, <2>1, AfterBuffer, EmptySeq DEF TypeInv
  <2>4. UNCHANGED <<camera, tracking, keyframes, taken_images, taken_poses, taken_points,
                    overtaken, last_image_time, sequence, spin, command, frames>> /\ proc' = "matched"
    BY <1>8 DEF MatchMessages, world, inboxes
  <2> QED
    BY <1>t, <2>1, <2>2, <2>3, <2>4 DEF TypeInv
<1>9. ASSUME SkipMatch \/ \E moved \in BOOLEAN : MakeKeyFrame(moved)
      PROVE  TypeInv'
  <2>1. /\ UNCHANGED <<camera, tracking, keyframes, taken_images, taken_poses, taken_points,
                       overtaken, image_buf, pose_buf, point_buf, last_image_time, sequence, spin,
                       command>>
        /\ proc' = "match" /\ match' = NoMatch
        /\ frames' \in {frames, Append(frames, [image |-> match.image, sequence |-> sequence])}
    BY <1>9 DEF SkipMatch, MakeKeyFrame, world, inboxes, buffers
  <2>2. match.image \in Nat /\ sequence \in Nat
    BY <1>t DEF TypeInv
  <2>3. frames' \in Seq([image : Nat, sequence : Nat])
    <3>1. frames \in Seq([image : Nat, sequence : Nat])
      BY <1>t DEF TypeInv
    <3>2. [image |-> match.image, sequence |-> sequence] \in [image : Nat, sequence : Nat]
      BY <2>2
    <3>3. Append(frames, [image |-> match.image, sequence |-> sequence])
            \in Seq([image : Nat, sequence : Nat])
      BY <3>1, <3>2, AppendProperties
    <3> QED
      BY <2>1, <3>1, <3>3, Zenon
  <2>4. match' \in [image : Nat, point : Nat, pose : Nat]
    BY <2>1 DEF NoMatch
  <2> QED
    BY <1>t, <2>1, <2>3, <2>4 DEF TypeInv
<1>10. ASSUME Poll
       PROVE  TypeInv'
  BY <1>10, <1>t DEF Poll, vars, TypeInv
<1> QED
  BY <1>1, <1>2, <1>3, <1>4, <1>5, <1>6, <1>7, <1>8, <1>9, <1>10
  DEF Next, Callbacks, Keyboard, Process

\* The camera and the estimator only add to their streams.
LEMMA OnlyWorldAdds ==
  ASSUME Callbacks \/ Keyboard \/ Process
  PROVE  UNCHANGED <<camera, tracking, usable, keyframes>>
<1>1. CASE Callbacks
  BY <1>1 DEF Callbacks, ImageCallback, CheckStream, PoseCallback, PointCallback, ClearBuffers, world
<1>2. CASE Keyboard
  BY <1>2 DEF Keyboard, PressN, ClearByKey, world
<1>3. CASE Process
  BY <1>3 DEF Process, ThrowPose, ThrowPoint, MatchMessages, Poll, SkipMatch, MakeKeyFrame, world, vars
<1> QED
  BY <1>1, <1>2, <1>3

\* A delivered message goes to the end of its buffer; what is popped goes from the front.
LEMMA BufferNext ==
  ASSUME WorldInv, BufferInv, SpinInv, Next
  PROVE  BufferInv'
<1>a. TypeInv /\ CameraInv /\ KeyframesInv
  BY DEF WorldInv
<1>t. /\ image_buf \in Seq(Nat) /\ pose_buf \in Seq(Nat) /\ point_buf \in Seq(Nat)
      /\ taken_images \in 0..Len(camera) /\ taken_images \in Nat
      /\ taken_poses \in 0..Len(keyframes) /\ taken_poses \in Nat
      /\ taken_points \in 0..Len(keyframes) /\ taken_points \in Nat
      /\ Len(keyframes) \in Nat
      /\ Len(image_buf) \in Nat /\ Len(pose_buf) \in Nat /\ Len(point_buf) \in Nat
  BY <1>a, BufferTypes, CameraTypes DEF TypeInv
<1> DEFINE ImagesHeld == /\ Len(image_buf) <= taken_images
                         /\ \A i \in 1..Len(image_buf) :
                              image_buf[i] = taken_images - Len(image_buf) + i
           PosesHeld == /\ Len(pose_buf) <= taken_poses
                        /\ \A i \in 1..Len(pose_buf) :
                             pose_buf[i] = keyframes[taken_poses - Len(pose_buf) + i]
           PointsHeld == /\ Len(point_buf) <= taken_points
                         /\ \A i \in 1..Len(point_buf) :
                              point_buf[i] = keyframes[taken_points - Len(point_buf) + i]
<1>0. ImagesHeld /\ PosesHeld /\ PointsHeld
  BY DEF BufferInv
<1>1. ASSUME World
      PROVE  ImagesHeld' /\ PosesHeld' /\ PointsHeld'
  <2>1. /\ \A k \in 1..Len(keyframes) : keyframes'[k] = keyframes[k]
        /\ UNCHANGED <<taken_images, taken_poses, taken_points, image_buf, pose_buf, point_buf>>
    BY <1>1, <1>a, WorldGrows
  <2>2. ImagesHeld'
    BY <1>0, <2>1
  <2>3. ASSUME NEW i \in 1..Len(pose_buf)
        PROVE  pose_buf[i] = keyframes'[taken_poses - Len(pose_buf) + i]
    <3>1. taken_poses - Len(pose_buf) + i \in 1..Len(keyframes)
      BY SMTT(30), <1>0, <1>t, BufferTypes
    <3> QED
      BY <1>0, <2>1, <3>1
  <2>4. ASSUME NEW i \in 1..Len(point_buf)
        PROVE  point_buf[i] = keyframes'[taken_points - Len(point_buf) + i]
    <3>1. taken_points - Len(point_buf) + i \in 1..Len(keyframes)
      BY SMTT(30), <1>0, <1>t, BufferTypes
    <3> QED
      BY <1>0, <2>1, <3>1
  <2> QED
    BY <1>0, <2>1, <2>2, <2>3, <2>4
<1>2. ASSUME Callbacks \/ Keyboard \/ Process
      PROVE  ImagesHeld'
  <2>1. UNCHANGED keyframes
    BY <1>2, OnlyWorldAdds
  <2>2. CASE ImageCallback
    <3>1. image_buf' = Append(image_buf, taken_images + 1) /\ taken_images' = taken_images + 1
      BY <2>2 DEF ImageCallback
    <3>2. /\ Len(image_buf') = Len(image_buf) + 1
          /\ \A i \in 1..Len(image_buf) : image_buf'[i] = image_buf[i]
          /\ image_buf'[Len(image_buf) + 1] = taken_images + 1
      BY <1>t, <3>1, AppendProperties
    <3>3. ASSUME NEW i \in 1..Len(image_buf')
          PROVE  image_buf'[i] = taken_images' - Len(image_buf') + i
      <4>1. CASE i \in 1..Len(image_buf)
        BY <1>0, <1>t, <3>1, <3>2, <4>1
      <4>2. CASE i = Len(image_buf) + 1
        BY <1>t, <3>1, <3>2, <4>2
      <4> QED
        BY SMTT(30), <1>t, <3>2, <4>1, <4>2
    <3> QED
      BY SMTT(30), <1>0, <1>t, <3>1, <3>2, <3>3
  <2>3. CASE image_buf' = <<>> /\ UNCHANGED taken_images
    BY <1>t, <2>3
  <2>4. CASE UNCHANGED <<image_buf, taken_images>>
    BY <1>0, <2>4
  <2>5. CASE MatchMessages
    <3>1. PICK i \in 1..Len(image_buf) : image_buf' = After(image_buf, i)
      BY <2>5, MatchTaken
    <3>2. /\ Len(image_buf') = Len(image_buf) - i
          /\ \A j \in 1..(Len(image_buf) - i) : image_buf'[j] = image_buf[i + j]
      BY <1>t, <3>1, AfterBuffer
    <3>3. UNCHANGED taken_images
      BY <2>5 DEF MatchMessages, inboxes
    <3>4. ASSUME NEW j \in 1..Len(image_buf')
          PROVE  image_buf'[j] = taken_images' - Len(image_buf') + j
      <4>1. j \in 1..(Len(image_buf) - i) /\ i + j \in 1..Len(image_buf)
        BY <1>t, <3>2
      <4>2. image_buf[i + j] = taken_images - Len(image_buf) + (i + j)
        BY <1>0, <4>1
      <4>3. image_buf'[j] = image_buf[i + j]
        BY <3>2, <4>1
      <4>4. taken_images' - Len(image_buf') + j = taken_images - Len(image_buf) + (i + j)
        BY <1>t, <3>2, <3>3
      <4> QED
        BY <4>2, <4>3, <4>4
    <3> QED
      BY <1>0, <1>t, <3>2, <3>3, <3>4
  <2> QED
    BY <1>2, <2>2, <2>3, <2>4, <2>5 DEF Callbacks, Keyboard, Process, CheckStream, PoseCallback,
       PointCallback, ClearBuffers, PressN, ClearByKey, Cleared, ThrowPose, ThrowPoint, Poll,
       SkipMatch, MakeKeyFrame, inboxes, buffers, vars
<1>3. ASSUME Callbacks \/ Keyboard \/ Process
      PROVE  PosesHeld'
  <2>1. UNCHANGED keyframes
    BY <1>3, OnlyWorldAdds
  <2>2. CASE PoseCallback
    <3>1. /\ pose_buf' = Append(pose_buf, keyframes[taken_poses + 1])
          /\ taken_poses' = taken_poses + 1 /\ taken_poses < Len(keyframes)
      BY <2>2 DEF PoseCallback
    <3>2. keyframes[taken_poses + 1] \in Nat
      BY <1>a, <1>t, <3>1, CameraTypes
    <3>3. /\ Len(pose_buf') = Len(pose_buf) + 1
          /\ \A i \in 1..Len(pose_buf) : pose_buf'[i] = pose_buf[i]
          /\ pose_buf'[Len(pose_buf) + 1] = keyframes[taken_poses + 1]
      BY <1>t, <3>1, <3>2, AppendProperties
    <3>4. ASSUME NEW i \in 1..Len(pose_buf')
          PROVE  pose_buf'[i] = keyframes'[taken_poses' - Len(pose_buf') + i]
      <4>1. taken_poses' - Len(pose_buf') + i = taken_poses - Len(pose_buf) + i
        BY <1>t, <3>1, <3>3
      <4>2. CASE i \in 1..Len(pose_buf)
        BY <1>0, <2>1, <3>3, <4>1, <4>2
      <4>3. CASE i = Len(pose_buf) + 1
        <5>1. taken_poses' - Len(pose_buf') + i = taken_poses + 1
          BY <1>t, <3>1, <3>3, <4>3
        <5> QED
          BY <2>1, <3>3, <4>3, <5>1
      <4> QED
        BY <1>t, <3>3, <4>2, <4>3
    <3> QED
      BY SMTT(60), <1>0, <1>t, <2>1, <3>1, <3>3, <3>4
  <2>3. CASE pose_buf' = <<>> /\ UNCHANGED taken_poses
    BY <1>t, <2>3
  <2>4. CASE UNCHANGED <<pose_buf, taken_poses>>
    BY <1>0, <2>1, <2>4
  <2>5. CASE ThrowPose
    <3>1. pose_buf # <<>> /\ pose_buf' = Tail(pose_buf) /\ UNCHANGED taken_poses
      BY <2>5 DEF ThrowPose, Looking, inboxes
    <3>2. /\ Len(pose_buf') = Len(pose_buf) - 1
          /\ \A j \in 1..(Len(pose_buf) - 1) : pose_buf'[j] = pose_buf[j + 1]
          /\ Len(pose_buf) \in Nat \ {0}
      BY <1>t, <3>1, TailBuffer
    <3> QED
      BY SMTT(30), <1>0, <1>t, <2>1, <3>1, <3>2
  <2> QED
    BY <1>3, <2>2, <2>3, <2>4, <2>5 DEF Callbacks, Keyboard, Process, CheckStream, ImageCallback,
       PointCallback, ClearBuffers, PressN, ClearByKey, Cleared, MatchMessages, ThrowPoint, Poll,
       SkipMatch, MakeKeyFrame, inboxes, buffers, vars
<1>4. ASSUME Callbacks \/ Keyboard \/ Process
      PROVE  PointsHeld'
  <2>1. UNCHANGED keyframes
    BY <1>4, OnlyWorldAdds
  <2>2. CASE PointCallback
    <3>1. /\ point_buf' = Append(point_buf, keyframes[taken_points + 1])
          /\ taken_points' = taken_points + 1 /\ taken_points < Len(keyframes)
      BY <2>2 DEF PointCallback
    <3>2. keyframes[taken_points + 1] \in Nat
      BY <1>a, <1>t, <3>1, CameraTypes
    <3>3. /\ Len(point_buf') = Len(point_buf) + 1
          /\ \A i \in 1..Len(point_buf) : point_buf'[i] = point_buf[i]
          /\ point_buf'[Len(point_buf) + 1] = keyframes[taken_points + 1]
      BY <1>t, <3>1, <3>2, AppendProperties
    <3>4. ASSUME NEW i \in 1..Len(point_buf')
          PROVE  point_buf'[i] = keyframes'[taken_points' - Len(point_buf') + i]
      <4>1. taken_points' - Len(point_buf') + i = taken_points - Len(point_buf) + i
        BY <1>t, <3>1, <3>3
      <4>2. CASE i \in 1..Len(point_buf)
        BY <1>0, <2>1, <3>3, <4>1, <4>2
      <4>3. CASE i = Len(point_buf) + 1
        <5>1. taken_points' - Len(point_buf') + i = taken_points + 1
          BY <1>t, <3>1, <3>3, <4>3
        <5> QED
          BY <2>1, <3>3, <4>3, <5>1
      <4> QED
        BY <1>t, <3>3, <4>2, <4>3
    <3> QED
      BY SMTT(30), <1>0, <1>t, <2>1, <3>1, <3>3, <3>4
  <2>3. CASE point_buf' = <<>> /\ UNCHANGED taken_points
    BY <1>t, <2>3
  <2>4. CASE UNCHANGED <<point_buf, taken_points>>
    BY <1>0, <2>1, <2>4
  <2>5. CASE ThrowPoint
    <3>1. point_buf # <<>> /\ point_buf' = Tail(point_buf) /\ UNCHANGED taken_points
      BY <2>5 DEF ThrowPoint, Looking, inboxes
    <3>2. /\ Len(point_buf') = Len(point_buf) - 1
          /\ \A j \in 1..(Len(point_buf) - 1) : point_buf'[j] = point_buf[j + 1]
          /\ Len(point_buf) \in Nat \ {0}
      BY <1>t, <3>1, TailBuffer
    <3> QED
      BY SMTT(30), <1>0, <1>t, <2>1, <3>1, <3>2
  <2>6. CASE MatchMessages
    <3>1. PICK p \in 1..Len(point_buf) : point_buf' = After(point_buf, p)
      BY <2>6, MatchTaken
    <3>2. /\ Len(point_buf') = Len(point_buf) - p
          /\ \A j \in 1..(Len(point_buf) - p) : point_buf'[j] = point_buf[p + j]
      BY <1>t, <3>1, AfterBuffer
    <3>3. UNCHANGED taken_points
      BY <2>6 DEF MatchMessages, inboxes
    <3>4. ASSUME NEW j \in 1..Len(point_buf')
          PROVE  point_buf'[j] = keyframes'[taken_points' - Len(point_buf') + j]
      <4>1. j \in 1..(Len(point_buf) - p) /\ p + j \in 1..Len(point_buf)
        BY <1>t, <3>2
      <4>2. taken_points' - Len(point_buf') + j = taken_points - Len(point_buf) + (p + j)
        BY <1>t, <3>2, <3>3
      <4> QED
        BY <1>0, <2>1, <3>2, <4>1, <4>2
    <3> QED
      BY SMTT(30), <1>0, <1>t, <2>1, <3>2, <3>3, <3>4
  <2> QED
    BY <1>4, <2>2, <2>3, <2>4, <2>5, <2>6 DEF Callbacks, Keyboard, Process, CheckStream,
       ImageCallback, PoseCallback, ClearBuffers, PressN, ClearByKey, Cleared, ThrowPose, Poll,
       SkipMatch, MakeKeyFrame, inboxes, buffers, vars
<1> QED
  BY <1>1, <1>2, <1>3, <1>4 DEF Next, BufferInv

\* What a step other than a callback of the stream does to the buffered images.
LEMMA ImagesPopped ==
  ASSUME WorldInv, BufferInv,
         ThrowPose \/ ThrowPoint \/ MatchMessages \/ Poll \/ SkipMatch
           \/ (\E moved \in BOOLEAN : MakeKeyFrame(moved)) \/ PoseCallback \/ PointCallback
  PROVE  /\ UNCHANGED <<camera, taken_images, last_image_time, sequence, spin>>
         /\ Len(image_buf') \in Nat
         /\ \A i \in 1..Len(image_buf') : \E j \in 1..Len(image_buf) : image_buf'[i] = image_buf[j]
<1>1. Len(image_buf) \in Nat /\ image_buf \in Seq(Nat)
  BY BufferTypes DEF WorldInv, TypeInv
<1>2. CASE UNCHANGED image_buf
  BY <1>1, <1>2 DEF ThrowPose, ThrowPoint, MatchMessages, Poll, SkipMatch, MakeKeyFrame, world,
    inboxes, buffers, vars, PoseCallback, PointCallback
<1>3. CASE MatchMessages
  <2>1. PICK i \in 1..Len(image_buf) : image_buf' = After(image_buf, i)
    BY <1>3, MatchTaken
  <2>2. /\ Len(image_buf') = Len(image_buf) - i
        /\ \A j \in 1..(Len(image_buf) - i) : image_buf'[j] = image_buf[i + j]
    BY <1>1, <2>1, AfterBuffer
  <2>3. \A j \in 1..(Len(image_buf) - i) : i + j \in 1..Len(image_buf)
    BY <1>1
  <2>4. Len(image_buf) - i \in Nat
    BY <1>1
  <2>5. \A j \in 1..Len(image_buf') : \E k \in 1..Len(image_buf) : image_buf'[j] = image_buf[k]
    BY <2>2, <2>3
  <2> QED
    BY <1>3, <2>2, <2>4, <2>5 DEF MatchMessages, world, inboxes
<1> QED
  BY <1>2, <1>3 DEF ThrowPose, ThrowPoint, Poll, SkipMatch, MakeKeyFrame, world, inboxes, buffers,
    vars, PoseCallback, PointCallback

\* The callback knows the stamp of the image before, numbers sequences at least as fast as
\* sessions begin, and leaves images of one session in the buffer.
LEMMA SpinNext ==
  ASSUME WorldInv, BufferInv, SpinInv, Next
  PROVE  SpinInv'
<1>a. TypeInv /\ CameraInv /\ KeyframesInv
  BY DEF WorldInv
<1>t. /\ image_buf \in Seq(Nat) /\ Len(image_buf) \in Nat
      /\ taken_images \in Nat /\ taken_images <= Len(camera) /\ Len(camera) \in Nat
      /\ sequence \in Nat /\ last_image_time \in Int
      /\ \A n \in 1..Len(camera) : Stamp(n) \in Nat /\ Session(n) \in Nat
      /\ \A i \in 1..Len(image_buf) : image_buf[i] \in 1..taken_images
      /\ spin \in {"idle", "check", "clear"}
  BY SMTT(30), <1>a, BufferTypes, CameraTypes DEF TypeInv
<1>k. Checked \in 0..Len(camera)
  BY <1>t DEF SpinInv, Checked
<1>1. ASSUME World
      PROVE  SpinInv'
  <2>1. /\ \A i \in 1..Len(camera) : Stamp(i)' = Stamp(i) /\ Session(i)' = Session(i)
        /\ UNCHANGED <<taken_images, image_buf, last_image_time, sequence, spin>>
    BY <1>1, <1>a, WorldGrows
  <2>2. Checked' = Checked
    BY <2>1 DEF Checked
  <2>3. Checked # 0 => Stamp(Checked)' = Stamp(Checked) /\ Session(Checked)' = Session(Checked)
    BY <1>k, <1>t, <2>1, <2>2
  <2>4. \A i \in 1..Len(image_buf) : Session(image_buf[i])' = Session(image_buf[i])
    BY <1>t, <2>1
  <2> QED
    BY <1>t, <1>k, <2>1, <2>2, <2>3, <2>4 DEF SpinInv
<1>2. ASSUME ImageCallback
      PROVE  SpinInv'
  <2>1. /\ spin = "idle" /\ spin' = "check" /\ taken_images' = taken_images + 1
        /\ image_buf' = Append(image_buf, taken_images + 1)
        /\ UNCHANGED <<camera, last_image_time, sequence>>
    BY <1>2 DEF ImageCallback, world
  <2>2. Checked = taken_images /\ Checked' = taken_images
    BY <1>t, <2>1 DEF Checked
  <2>3. /\ Len(image_buf') = Len(image_buf) + 1
        /\ \A i \in 1..Len(image_buf) : image_buf'[i] = image_buf[i]
        /\ image_buf'[Len(image_buf) + 1] = taken_images + 1
    BY <1>t, <2>1, AppendProperties
  <2>4. ASSUME NEW i \in 1..Len(image_buf'), image_buf'[i] <= taken_images
        PROVE  camera[image_buf'[i]].session = camera[taken_images].session
    <3>1. i \in 1..Len(image_buf)
      BY <1>t, <2>3, <2>4
    <3> QED
      BY <1>t, <2>1, <2>2, <2>3, <3>1 DEF SpinInv, Session
  <2>5. taken_images' > 0 /\ sequence' >= 1 /\ last_image_time' = last_image_time
    BY <1>t, <2>1 DEF SpinInv
  <2>6. /\ last_image_time = IF taken_images = 0 THEN -1 ELSE camera[taken_images].stamp
        /\ taken_images # 0 => sequence >= camera[taken_images].session
    BY <2>2 DEF SpinInv, Stamp, Session
  <2> QED
    BY <2>1, <2>2, <2>4, <2>5, <2>6 DEF SpinInv, Stamp, Session
<1>3. ASSUME CheckStream
      PROVE  SpinInv'
  <2>1. PICK n \in Nat : n = taken_images
    BY <1>t
  <2>2. n \in 1..Len(camera) /\ spin = "check" /\ Checked = n - 1
    BY <1>3, <1>t, <2>1 DEF CheckStream, SpinInv, Checked
  <2>3. /\ last_image_time' = Stamp(n)
        /\ UNCHANGED <<camera, taken_images, image_buf>>
        /\ LET jump == last_image_time # -1 /\ Discontinuous(last_image_time, Stamp(n))
           IN  /\ sequence' = IF jump THEN sequence + 1 ELSE sequence
               /\ spin' = IF jump THEN "clear" ELSE "idle"
    BY <1>3, <2>1 DEF CheckStream, world, inboxes, buffers, NextSequence
  <2>4. Checked' = n
    BY <2>1, <2>3 DEF Checked
  <2>5. Stamp(n)' = Stamp(n) /\ Session(n)' = Session(n)
    BY <2>3 DEF Stamp, Session
  <2>6. Session(n) = IF n = 1 THEN 1
                     ELSE Session(n - 1) + (IF Discontinuous(Stamp(n - 1), Stamp(n)) THEN 1 ELSE 0)
    BY <1>a, <2>2 DEF CameraInv
  <2>7. sequence' >= Session(n) /\ sequence' >= 1 /\ sequence' \in Nat
    <3>1. CASE n = 1
      BY <1>t, <2>2, <2>3, <2>6, <3>1 DEF SpinInv
    <3>2. CASE n # 1
      <4>1. n - 1 \in 1..Len(camera) /\ Stamp(n - 1) \in Nat /\ Session(n - 1) \in Nat
        BY <1>t, <2>2, <3>2
      <4>2. last_image_time = Stamp(n - 1) /\ sequence >= Session(n - 1) /\ sequence >= 1
        BY <2>2, <3>2, <4>1 DEF SpinInv
      <4> QED
        BY <1>t, <2>3, <2>6, <3>2, <4>1, <4>2
    <3> QED
      BY <3>1, <3>2
  <2>8. ASSUME spin' = "idle", NEW i \in 1..Len(image_buf)
        PROVE  camera[image_buf[i]].session = camera[n].session
    <3>1. image_buf[i] \in 1..n
      BY <1>t, <2>1
    <3>2. CASE image_buf[i] = n
      BY <3>2
    <3>3. CASE image_buf[i] # n
      <4>1. image_buf[i] <= n - 1 /\ n # 1 /\ n - 1 \in 1..Len(camera)
        BY <1>t, <2>2, <3>1, <3>3
      <4>2. Session(image_buf[i]) = Session(n - 1) /\ last_image_time = Stamp(n - 1)
        BY <2>2, <4>1 DEF SpinInv
      <4>3. Stamp(n - 1) \in Nat /\ Session(n - 1) \in Nat
        BY <1>t, <4>1
      <4>4. ~Discontinuous(Stamp(n - 1), Stamp(n))
        BY <2>3, <2>8, <4>2, <4>3
      <4>5. Session(n) = Session(n - 1)
        BY <2>6, <4>1, <4>3, <4>4
      <4> QED
        BY <4>2, <4>5 DEF Session
    <3> QED
      BY <3>2, <3>3
  <2>9. spin' \in {"idle", "clear"}
    BY <2>3
  <2>10. last_image_time' = IF n = 0 THEN -1 ELSE camera'[n].stamp
    BY <2>2, <2>3 DEF Stamp
  <2>11. taken_images' > 0 /\ sequence' >= camera'[n].session
    BY <2>1, <2>2, <2>3, <2>7 DEF Session
  <2>12. spin' \in {"idle", "check"} =>
           \A i \in 1..Len(image_buf') : camera'[image_buf'[i]].session = camera'[n].session
    BY <2>3, <2>8, <2>9
  <2> QED
    BY <2>4, <2>7, <2>10, <2>11, <2>12 DEF SpinInv, Stamp, Session
<1>4. ASSUME ClearBuffers
      PROVE  SpinInv'
  <2>1. /\ spin = "clear" /\ spin' = "idle" /\ image_buf' = <<>>
        /\ UNCHANGED <<camera, taken_images, last_image_time, sequence>>
    BY <1>4 DEF ClearBuffers, Cleared, world, inboxes
  <2>2. Checked = taken_images /\ Checked' = taken_images
    BY <2>1 DEF Checked
  <2> QED
    BY <2>1, <2>2 DEF SpinInv, Stamp, Session
<1>5. ASSUME Keyboard
      PROVE  SpinInv'
  <2>1. /\ UNCHANGED <<camera, taken_images, last_image_time, spin>>
        /\ sequence' \in {sequence, sequence + 1}
        /\ UNCHANGED image_buf \/ image_buf' = <<>>
    BY <1>5 DEF Keyboard, PressN, ClearByKey, Cleared, NextSequence, world, inboxes, buffers
  <2>2. Checked' = Checked
    BY <2>1 DEF Checked
  <2>3. sequence' >= 1 /\ (Checked # 0 => sequence' >= camera[Checked].session)
    BY <1>k, <1>t, <2>1 DEF SpinInv, Session
  <2> QED
    BY <2>1, <2>2, <2>3 DEF SpinInv, Stamp, Session
<1>6. ASSUME ThrowPose \/ ThrowPoint \/ MatchMessages \/ Poll \/ SkipMatch
               \/ (\E moved \in BOOLEAN : MakeKeyFrame(moved)) \/ PoseCallback \/ PointCallback
      PROVE  SpinInv'
  <2>1. /\ UNCHANGED <<camera, taken_images, last_image_time, sequence, spin>>
        /\ \A i \in 1..Len(image_buf') : \E j \in 1..Len(image_buf) : image_buf'[i] = image_buf[j]
    BY <1>6, ImagesPopped
  <2>2. Checked' = Checked
    BY <2>1 DEF Checked
  <2>3. spin \in {"idle", "check"} =>
          \A i \in 1..Len(image_buf') :
            image_buf'[i] <= Checked => camera[image_buf'[i]].session = camera[Checked].session
    BY <2>1 DEF SpinInv, Session
  <2> QED
    BY <2>1, <2>2, <2>3 DEF SpinInv, Stamp, Session
<1> QED
  BY <1>1, <1>2, <1>3, <1>4, <1>5, <1>6 DEF Next, Callbacks, Process

-----------------------------------------------------------------------------
(* Matches *)

\* The images matched and the keyframes made of them.
ShownInv ==
  /\ proc = "matched" => match.image \in 1..Len(camera)
  /\ \A i \in 1..Len(frames) : frames[i].image \in 1..Len(camera)

\* While stamps go forward the image matched is that of the pose, of a session not later than
\* the sequence.
ImageInv ==
  Increasing =>
    /\ proc = "matched" => match.image = match.pose /\ sequence >= Session(match.image)
    /\ \A i \in 1..Len(frames) : frames[i].sequence >= Session(frames[i].image)

\* No keyframe has been delivered before its image.
DeliveredInv ==
  ~overtaken =>
    \A k \in 1..Len(keyframes) : k <= taken_poses \/ k <= taken_points => keyframes[k] <= taken_images

\* Then also the points matched are those of the pose: points are popped only with their image.
PointInv ==
  Increasing /\ ~overtaken =>
    /\ proc = "matched" => match.point = match.pose
    /\ \A k \in 1..(taken_points - Len(point_buf)) : keyframes[k] <= taken_images - Len(image_buf)

MatchInv == ShownInv /\ ImageInv /\ DeliveredInv /\ PointInv

IInv == WorldInv /\ BufferInv /\ SpinInv /\ MatchInv

\* With a newer image the stamp is larger, and the reverse.
LEMMA StampOrder ==
  ASSUME TypeInv, Increasing, NEW i \in 1..Len(camera), NEW j \in 1..Len(camera)
  PROVE  /\ Stamp(i) >= Stamp(j) => i >= j
         /\ Stamp(i) > Stamp(j) => i > j
<1>1. Stamp(i) \in Nat /\ Stamp(j) \in Nat /\ i \in Int /\ j \in Int
  BY CameraTypes
<1>2. \A a, b \in 1..Len(camera) : a < b => Stamp(a) < Stamp(b)
  BY CameraTypes DEF Increasing, Images
<1>3. (i < j => Stamp(i) < Stamp(j)) /\ (j < i => Stamp(j) < Stamp(i))
  BY <1>2
<1> QED
  BY <1>1, <1>3

\* Stamps have gone forward if they still do after a step, and what has overtaken stays so.
LEMMA HistoryKept ==
  ASSUME WorldInv, Next
  PROVE  /\ Increasing' => Increasing
         /\ overtaken \in BOOLEAN /\ (~overtaken' => ~overtaken)
<1>a. TypeInv /\ CameraInv
  BY DEF WorldInv
<1>1. CASE World
  <2>1. /\ Len(camera') \in Nat /\ Len(camera) <= Len(camera') /\ UNCHANGED overtaken /\ TypeInv'
        /\ \A i \in 1..Len(camera) : Stamp(i)' = Stamp(i)
    BY <1>1, <1>a, WorldGrows
  <2>2. camera' \in Seq(Image) /\ DOMAIN camera' = 1..Len(camera')
    BY <2>1, LenProperties DEF TypeInv
  <2>3. ASSUME Increasing', NEW i \in 1..Len(camera), NEW j \in 1..Len(camera), i < j
        PROVE  Stamp(i) < Stamp(j)
    <3>1. i \in 1..Len(camera') /\ j \in 1..Len(camera')
      BY <1>a, <2>1, CameraTypes
    <3>2. Stamp(i)' < Stamp(j)'
      BY <2>2, <2>3, <3>1 DEF Increasing, Images
    <3> QED
      BY <2>1, <3>2
  <2> QED
    BY <1>a, <2>1, <2>3, CameraTypes DEF Increasing, Images, TypeInv
<1>2. CASE Callbacks \/ Keyboard \/ Process
  <2>1. UNCHANGED camera
    BY <1>2, OnlyWorldAdds
  <2>2. overtaken \in BOOLEAN
    BY <1>a DEF TypeInv
  <2>3. UNCHANGED overtaken \/ \E n : Overtakes(n)
    BY <1>2 DEF Callbacks, Keyboard, Process, ImageCallback, CheckStream, PoseCallback,
       PointCallback, ClearBuffers, PressN, ClearByKey, ThrowPose, ThrowPoint, MatchMessages, Poll,
       SkipMatch, MakeKeyFrame, inboxes, vars
  <2> QED
    BY <2>1, <2>2, <2>3 DEF Increasing, Images, Stamp, Overtakes
<1> QED
  BY <1>1, <1>2 DEF Next

\* The image taken with a pose is the pose's, and the sequence has counted its session.
LEMMA MatchOfPose ==
  ASSUME WorldInv, BufferInv, SpinInv, Increasing, MatchMessages,
         NEW i \in 1..Len(image_buf), 1 \in 1..Len(pose_buf),
         Stamp(image_buf[i]) >= Stamp(pose_buf[1]),
         \A j \in 1..(i - 1) : Stamp(image_buf[j]) < Stamp(pose_buf[1])
  PROVE  /\ image_buf[i] = pose_buf[1]
         /\ pose_buf[1] \in usable /\ pose_buf[1] \in 1..taken_images
         /\ sequence >= Session(pose_buf[1])
<1>a. TypeInv /\ CameraInv /\ KeyframesInv
  BY DEF WorldInv
<1>1. PICK q : q = pose_buf[1]
  OBVIOUS
<1>2. PICK m : m = image_buf[i]
  OBVIOUS
<1>3. /\ Len(image_buf) \in Nat /\ taken_images \in Nat /\ Len(image_buf) <= taken_images
      /\ \A j \in 1..Len(image_buf) : image_buf[j] = taken_images - Len(image_buf) + j
      /\ \A j \in 1..Len(image_buf) : image_buf[j] \in 1..Len(camera)
      /\ taken_images <= Len(camera) /\ Len(camera) \in Nat
  <2>1. Len(image_buf) \in Nat /\ taken_images \in Nat
    BY BufferTypes
  <2>2. \A j \in 1..Len(image_buf) : image_buf[j] \in 1..Len(camera)
    BY BufferTypes
  <2>3. taken_images <= Len(camera) /\ Len(camera) \in Nat
    BY <1>a, CameraTypes DEF TypeInv
  <2> QED
    BY <2>1, <2>2, <2>3 DEF BufferInv
<1>4. q \in usable /\ q \in 1..Len(camera) /\ m \in 1..Len(camera) /\ m \in 1..taken_images
  BY <1>1, <1>2, BufferTypes
<1>5. m >= q
  BY <1>a, <1>1, <1>2, <1>4, StampOrder
<1>6. Stamp(q) >= Stamp(image_buf[1])
  <2>1. ~PastPose /\ image_buf # <<>> /\ pose_buf # <<>>
    BY DEF MatchMessages, Looking
  <2>2. Head(image_buf) = image_buf[1] /\ Head(pose_buf) = q
    BY <1>a, <1>1, <2>1, TailBuffer DEF TypeInv
  <2>3. image_buf[1] \in 1..Len(camera)
    BY <1>3
  <2>4. Stamp(image_buf[1]) \in Nat /\ Stamp(q) \in Nat
    BY <1>a, <1>4, <2>3, CameraTypes
  <2> QED
    BY <2>1, <2>2, <2>4 DEF PastPose
<1>7. q >= image_buf[1]
  <2>1. image_buf[1] \in 1..Len(camera)
    BY <1>3
  <2> QED
    BY <1>a, <1>4, <1>6, <2>1, StampOrder
<1>8. m = q
  <2>1. SUFFICES ASSUME m > q PROVE FALSE
    BY <1>4, <1>5
  <2>2. PICK j \in 1..(i - 1) : image_buf[j] = q
    <3>1. q - (taken_images - Len(image_buf)) \in 1..(i - 1)
      BY SMTT(30), <1>2, <1>3, <1>4, <1>7, <2>1
    <3>2. image_buf[q - (taken_images - Len(image_buf))] = q
      BY <1>3, <1>4, <3>1
    <3> QED
      BY <3>1, <3>2
  <2>3. Stamp(q) < Stamp(q)
    BY <1>1, <2>2
  <2>4. Stamp(q) \in Nat
    BY <1>a, <1>4, CameraTypes
  <2> QED
    BY <2>3, <2>4
<1>9. sequence >= Session(q)
  <2>1. /\ \A n \in 1..Len(camera) : Session(n) \in Nat /\ Stamp(n) \in Nat
        /\ sequence \in Nat /\ spin \in {"idle", "check", "clear"}
    BY <1>a, CameraTypes DEF TypeInv
  <2>2. Checked = taken_images \/ Checked = taken_images - 1
    BY DEF Checked
  <2>3. CASE q <= Checked
    <3>1. Checked \in 1..Len(camera) /\ Checked # 0
      BY <1>3, <1>4, <2>2, <2>3
    <3>2. Session(q) <= Session(Checked) /\ sequence >= Session(Checked)
      BY <1>a, <1>4, <2>3, <3>1 DEF CameraInv, SpinInv
    <3> QED
      BY <1>4, <2>1, <3>1, <3>2
  <2>4. CASE ~(q <= Checked)
    <3>1. q = taken_images /\ Checked = q - 1
      BY <1>3, <1>4, <1>8, <2>2, <2>4
    <3>2. q \in 2..Len(camera) /\ ~Discontinuous(Stamp(q - 1), Stamp(q))
      BY <1>a, <1>4 DEF CameraInv
    <3>3. Session(q) = Session(q - 1) /\ q - 1 \in 1..Len(camera)
      <4>1. q - 1 \in 1..Len(camera)
        BY <1>3, <3>2
      <4>2. Session(q) = Session(q - 1) + 0 /\ Session(q - 1) \in Nat
        BY <1>a, <1>4, <2>1, <3>2, <4>1 DEF CameraInv
      <4> QED
        BY <4>1, <4>2
    <3>4. sequence >= Session(q - 1)
      BY <3>1, <3>2, <3>3 DEF SpinInv
    <3> QED
      BY <3>3, <3>4
  <2> QED
    BY <2>3, <2>4
<1> QED
  BY <1>1, <1>2, <1>4, <1>8, <1>9

\* When no message has overtaken its image the points taken with a pose are the pose's, and
\* every keyframe before is older than the images that are left.
LEMMA PointOfPose ==
  ASSUME WorldInv, BufferInv, DeliveredInv, PointInv, Increasing, ~overtaken,
         NEW i \in 1..Len(image_buf), NEW p \in 1..Len(point_buf), 1 \in 1..Len(pose_buf),
         image_buf[i] = pose_buf[1],
         Stamp(point_buf[p]) >= Stamp(pose_buf[1]),
         \A j \in 1..(p - 1) : Stamp(point_buf[j]) < Stamp(pose_buf[1])
  PROVE  /\ point_buf[p] = pose_buf[1]
         /\ \A k \in 1..(taken_points - (Len(point_buf) - p)) :
              keyframes[k] <= taken_images - (Len(image_buf) - i)
<1>a. TypeInv /\ CameraInv /\ KeyframesInv
  BY DEF WorldInv
<1>1. PICK q : q = pose_buf[1]
  OBVIOUS
<1>2. /\ Len(image_buf) \in Nat /\ taken_images \in Nat /\ Len(image_buf) <= taken_images
      /\ Len(pose_buf) \in Nat /\ taken_poses \in Nat /\ Len(pose_buf) <= taken_poses
      /\ Len(point_buf) \in Nat /\ taken_points \in Nat /\ Len(point_buf) <= taken_points
      /\ taken_poses <= Len(keyframes) /\ taken_points <= Len(keyframes) /\ Len(keyframes) \in Nat
  <2>1. taken_poses <= Len(keyframes) /\ taken_points <= Len(keyframes)
    BY <1>a, CameraTypes DEF TypeInv
  <2>2. Len(keyframes) \in Nat
    BY <1>a, CameraTypes
  <2> QED
    BY <2>1, <2>2, BufferTypes DEF BufferInv
<1>3. PICK f \in Nat : f = taken_poses - Len(pose_buf) + 1
  <2>1. taken_poses - Len(pose_buf) + 1 \in Nat
    BY <1>2
  <2> QED
    BY <2>1
<1>4. PICK g \in Nat : g = taken_points - Len(point_buf) + p
  <2>1. taken_points - Len(point_buf) + p \in Nat
    BY <1>2
  <2> QED
    BY <2>1
<1>5. f \in 1..Len(keyframes) /\ q = keyframes[f]
  BY <1>1, <1>2, <1>3 DEF BufferInv
<1>6. g \in 1..Len(keyframes) /\ point_buf[p] = keyframes[g]
  BY SMTT(30), <1>2, <1>4 DEF BufferInv
<1>7. /\ q = taken_images - Len(image_buf) + i
      /\ q \in 1..Len(camera) /\ keyframes[g] \in 1..Len(camera) /\ q \in Int
  <2>1. image_buf[i] \in 1..Len(camera) /\ point_buf[p] \in 1..Len(camera)
    BY BufferTypes
  <2> QED
    BY <1>1, <1>6, <2>1 DEF BufferInv
<1>8. keyframes[g] >= keyframes[f]
  BY <1>a, <1>1, <1>5, <1>6, <1>7, StampOrder
<1>9. \A j, k \in 1..Len(keyframes) : keyframes[j] \in Int /\ (j < k => keyframes[j] < keyframes[k])
  BY <1>a, CameraTypes DEF KeyframesInv
<1>10. g >= f
  BY <1>5, <1>6, <1>8, <1>9
<1>11. f > taken_points - Len(point_buf)
  <2>1. SUFFICES ASSUME f <= taken_points - Len(point_buf) PROVE FALSE
    BY <1>2
  <2>2. keyframes[f] <= taken_images - Len(image_buf)
    BY <1>5, <2>1 DEF PointInv
  <2> QED
    BY <1>2, <1>5, <1>7, <2>2
<1>12. g = f
  <2>1. SUFFICES ASSUME g > f PROVE FALSE
    BY <1>10
  <2>2. PICK j \in 1..(p - 1) : point_buf[j] = q
    <3>1. f - (taken_points - Len(point_buf)) \in 1..(p - 1)
      BY <1>2, <1>4, <1>11, <2>1
    <3>2. point_buf[f - (taken_points - Len(point_buf))] = keyframes[f]
      <4>1. f - (taken_points - Len(point_buf)) \in 1..Len(point_buf)
        BY <1>2, <3>1
      <4>2. taken_points - Len(point_buf) + (f - (taken_points - Len(point_buf))) = f
        BY <1>2
      <4> QED
        BY <4>1, <4>2 DEF BufferInv
    <3> QED
      BY <1>5, <3>1, <3>2
  <2>3. Stamp(q) < Stamp(q)
    BY <1>1, <2>2
  <2>4. Stamp(q) \in Nat
    BY <1>a, <1>7, CameraTypes
  <2> QED
    BY <2>3, <2>4
<1>13. ASSUME NEW k \in 1..(taken_points - (Len(point_buf) - p))
       PROVE  keyframes[k] <= taken_images - (Len(image_buf) - i)
  <2>1. k \in 1..Len(keyframes) /\ k <= g
    BY <1>2, <1>4
  <2>2. keyframes[k] <= keyframes[g]
    BY <1>6, <1>9, <2>1
  <2>3. taken_images - (Len(image_buf) - i) = q
    BY <1>2, <1>7
  <2> QED
    BY <1>5, <1>12, <2>2, <2>3
<1> QED
  BY <1>1, <1>5, <1>6, <1>12, <1>13

\* What is matched and what is made a keyframe are images taken.
LEMMA ShownNext ==
  ASSUME WorldInv, BufferInv, ShownInv, Next
  PROVE  ShownInv'
<1>a. TypeInv /\ CameraInv
  BY DEF WorldInv
<1>1. CASE World
  <2>1. /\ Len(camera) <= Len(camera') /\ Len(camera') \in Nat
        /\ UNCHANGED <<proc, match, frames>>
    BY <1>1, <1>a, WorldGrows
  <2> QED
    BY <1>a, <2>1, CameraTypes DEF ShownInv
<1>2. CASE MatchMessages
  <2>1. PICK i \in 1..Len(image_buf) : match'.image = image_buf[i]
    <3>1. PICK i \in 1..Len(image_buf), p \in 1..Len(point_buf) :
            match' = [image |-> image_buf[i], point |-> point_buf[p], pose |-> pose_buf[1]]
      BY <1>2, MatchTaken
    <3> QED
      BY <3>1
  <2>2. image_buf[i] \in 1..Len(camera)
    BY BufferTypes
  <2>3. UNCHANGED <<camera, frames>>
    BY <1>2 DEF MatchMessages, world
  <2> QED
    BY <2>1, <2>2, <2>3 DEF ShownInv
<1>3. CASE SkipMatch \/ \E moved \in BOOLEAN : MakeKeyFrame(moved)
  <2>1. /\ UNCHANGED camera /\ proc = "matched" /\ proc' = "match"
        /\ frames' \in {frames, Append(frames, [image |-> match.image, sequence |-> sequence])}
    BY <1>3 DEF SkipMatch, MakeKeyFrame, world
  <2>2. CASE frames' = frames
    BY <2>1, <2>2 DEF ShownInv
  <2>3. CASE frames' = Append(frames, [image |-> match.image, sequence |-> sequence])
    <3>1. [image |-> match.image, sequence |-> sequence] \in [image : Nat, sequence : Nat]
      BY <1>a DEF TypeInv
    <3>2. /\ Len(frames) \in Nat /\ Len(frames') = Len(frames) + 1
          /\ \A i \in 1..Len(frames) : frames'[i] = frames[i]
          /\ frames'[Len(frames) + 1] = [image |-> match.image, sequence |-> sequence]
      BY <1>a, <2>3, <3>1, AppendProperties, LenProperties DEF TypeInv
    <3>3. ASSUME NEW i \in 1..Len(frames')
          PROVE  frames'[i].image \in 1..Len(camera)
      <4>1. CASE i \in 1..Len(frames)
        BY <3>2, <4>1 DEF ShownInv
      <4>2. CASE i = Len(frames) + 1
        BY <2>1, <3>2, <4>2 DEF ShownInv
      <4> QED
        BY <3>2, <4>1, <4>2
    <3> QED
      BY <2>1, <3>3 DEF ShownInv
  <2> QED
    BY <2>1, <2>2, <2>3
<1>4. CASE UNCHANGED <<camera, proc, match, frames>>
  BY <1>4 DEF ShownInv
<1> QED
  BY <1>1, <1>2, <1>3, <1>4 DEF Next, Callbacks, Keyboard, Process, ImageCallback, CheckStream,
    PoseCallback, PointCallback, ClearBuffers, PressN, ClearByKey, ThrowPose, ThrowPoint, Poll,
    world, vars

\* The image matched is the pose's, in a sequence not older than its session.
LEMMA ImageNext ==
  ASSUME WorldInv, BufferInv, SpinInv, ShownInv, ImageInv, Next
  PROVE  ImageInv'
<1>a. TypeInv /\ CameraInv
  BY DEF WorldInv
<1>i. SUFFICES ASSUME Increasing'
               PROVE  /\ proc' = "matched" => match'.image = match'.pose
                                              /\ sequence' >= camera'[match'.image].session
                      /\ \A i \in 1..Len(frames') :
                           frames'[i].sequence >= camera'[frames'[i].image].session
  BY DEF ImageInv, Session
<1>j. /\ proc = "matched" => match.image = match.pose /\ sequence >= Session(match.image)
      /\ \A i \in 1..Len(frames) : frames[i].sequence >= Session(frames[i].image)
  BY <1>i, HistoryKept DEF ImageInv
<1>1. CASE World
  <2>1. /\ \A i \in 1..Len(camera) : Session(i)' = Session(i)
        /\ UNCHANGED <<proc, match, frames, sequence>>
    BY <1>1, <1>a, WorldGrows
  <2>2. /\ proc = "matched" => camera'[match.image].session = Session(match.image)
        /\ \A i \in 1..Len(frames) : camera'[frames[i].image].session = Session(frames[i].image)
    BY <2>1 DEF ShownInv, Session
  <2> QED
    BY <1>j, <2>1, <2>2
<1>2. CASE MatchMessages
  <2>1. PICK i \in 1..Len(image_buf) :
          /\ match'.image = image_buf[i] /\ match'.pose = pose_buf[1]
          /\ 1 \in 1..Len(pose_buf) /\ Stamp(image_buf[i]) >= Stamp(pose_buf[1])
          /\ \A j \in 1..(i - 1) : Stamp(image_buf[j]) < Stamp(pose_buf[1])
    <3>1. PICK i \in 1..Len(image_buf), p \in 1..Len(point_buf) :
            /\ match' = [image |-> image_buf[i], point |-> point_buf[p], pose |-> pose_buf[1]]
            /\ 1 \in 1..Len(pose_buf) /\ Stamp(image_buf[i]) >= Stamp(pose_buf[1])
            /\ \A j \in 1..(i - 1) : Stamp(image_buf[j]) < Stamp(pose_buf[1])
      BY <1>2, MatchTaken
    <3> QED
      BY <3>1
  <2>2. image_buf[i] = pose_buf[1] /\ sequence >= Session(pose_buf[1])
    BY <1>2, <1>i, <2>1, HistoryKept, MatchOfPose
  <2>3. UNCHANGED <<camera, frames, sequence>>
    BY <1>2 DEF MatchMessages, world
  <2> QED
    BY <1>j, <2>1, <2>2, <2>3 DEF Session
<1>3. CASE SkipMatch \/ \E moved \in BOOLEAN : MakeKeyFrame(moved)
  <2>1. /\ UNCHANGED camera /\ proc = "matched" /\ proc' = "match"
        /\ frames' \in {frames, Append(frames, [image |-> match.image, sequence |-> sequence])}
    BY <1>3 DEF SkipMatch, MakeKeyFrame, world
  <2>2. CASE frames' = frames
    BY <1>j, <2>1, <2>2 DEF Session
  <2>3. CASE frames' = Append(frames, [image |-> match.image, sequence |-> sequence])
    <3>1. [image |-> match.image, sequence |-> sequence] \in [image : Nat, sequence : Nat]
      BY <1>a DEF TypeInv
    <3>2. /\ Len(frames) \in Nat /\ Len(frames') = Len(frames) + 1
          /\ \A i \in 1..Len(frames) : frames'[i] = frames[i]
          /\ frames'[Len(frames) + 1] = [image |-> match.image, sequence |-> sequence]
      BY <1>a, <2>3, <3>1, AppendProperties, LenProperties DEF TypeInv
    <3>3. ASSUME NEW i \in 1..Len(frames')
          PROVE  frames'[i].sequence >= camera[frames'[i].image].session
      <4>1. CASE i \in 1..Len(frames)
        BY <1>j, <3>2, <4>1 DEF Session
      <4>2. CASE i = Len(frames) + 1
        BY <1>j, <2>1, <3>2, <4>2 DEF Session
      <4> QED
        BY <3>2, <4>1, <4>2
    <3> QED
      BY <2>1, <3>3
  <2> QED
    BY <2>1, <2>2, <2>3
<1>4. CASE /\ UNCHANGED <<camera, proc, match, frames>>
           /\ sequence' \in {sequence, sequence + 1}
  <2>1. sequence \in Nat
    BY <1>a DEF TypeInv
  <2>2. proc = "matched" => Session(match.image) \in Nat
    BY <1>a, CameraTypes DEF ShownInv
  <2>3. proc = "matched" => sequence' >= Session(match.image)
    BY <1>j, <1>4, <2>1, <2>2
  <2> QED
    BY <1>j, <1>4, <2>3 DEF Session
<1> QED
  BY <1>1, <1>2, <1>3, <1>4 DEF Next, Callbacks, Keyboard, Process, ImageCallback, CheckStream,
    PoseCallback, PointCallback, ClearBuffers, PressN, ClearByKey, ThrowPose, ThrowPoint, Poll,
    NextSequence, world, vars

\* A delivered keyframe whose image is still to come has overtaken it.
LEMMA DeliveredNext ==
  ASSUME WorldInv, DeliveredInv, Next
  PROVE  DeliveredInv'
<1>a. TypeInv /\ CameraInv
  BY DEF WorldInv
<1>t. /\ taken_images \in Nat /\ taken_poses \in Nat /\ taken_points \in Nat
      /\ taken_poses <= Len(keyframes) /\ taken_points <= Len(keyframes) /\ Len(keyframes) \in Nat
      /\ \A k \in 1..Len(keyframes) : keyframes[k] \in Nat
  BY <1>a, CameraTypes DEF TypeInv
<1>j. ~overtaken' =>
        \A k \in 1..Len(keyframes) : k <= taken_poses \/ k <= taken_points => keyframes[k] <= taken_images
  BY HistoryKept DEF DeliveredInv
<1>1. CASE World
  <2>1. /\ \A k \in 1..Len(keyframes) : keyframes'[k] = keyframes[k]
        /\ Len(keyframes') \in Nat
        /\ UNCHANGED <<taken_images, taken_poses, taken_points, overtaken>>
    BY <1>1, <1>a, WorldGrows
  <2>2. ASSUME ~overtaken', NEW k \in 1..Len(keyframes'), k <= taken_poses \/ k <= taken_points
        PROVE  keyframes'[k] <= taken_images
    <3>1. k \in 1..Len(keyframes)
      BY <1>t, <2>1, <2>2
    <3> QED
      BY <1>j, <2>1, <2>2, <3>1
  <2> QED
    BY <2>1, <2>2 DEF DeliveredInv
<1>2. CASE ImageCallback
  <2>1. taken_images' = taken_images + 1 /\ UNCHANGED <<keyframes, taken_poses, taken_points>>
    BY <1>2 DEF ImageCallback, world
  <2> QED
    BY <1>j, <1>t, <2>1 DEF DeliveredInv
<1>3. CASE PoseCallback \/ PointCallback
  <2>1. /\ UNCHANGED <<keyframes, taken_images>>
        /\ \/ /\ taken_poses' = taken_poses + 1 /\ UNCHANGED taken_points
              /\ taken_poses < Len(keyframes) /\ Overtakes(keyframes[taken_poses + 1])
           \/ /\ taken_points' = taken_points + 1 /\ UNCHANGED taken_poses
              /\ taken_points < Len(keyframes) /\ Overtakes(keyframes[taken_points + 1])
    BY <1>3 DEF PoseCallback, PointCallback, world
  <2>2. PICK n \in 1..Len(keyframes) :
          /\ Overtakes(keyframes[n])
          /\ \/ taken_poses' = n /\ n = taken_poses + 1 /\ UNCHANGED taken_points
             \/ taken_points' = n /\ n = taken_points + 1 /\ UNCHANGED taken_poses
    BY <1>t, <2>1
  <2>3. ~overtaken' => keyframes[n] <= taken_images
    <3>1. ~overtaken' => ~(taken_images < keyframes[n])
      BY <2>2, Zenon DEF Overtakes
    <3> QED
      BY <1>t, <3>1
  <2>4. ASSUME ~overtaken', NEW k \in 1..Len(keyframes), k <= taken_poses' \/ k <= taken_points'
        PROVE  keyframes[k] <= taken_images
    <3>1. k = n \/ k <= taken_poses \/ k <= taken_points
      BY <1>t, <2>2, <2>4
    <3> QED
      BY <1>j, <2>3, <2>4, <3>1
  <2> QED
    BY <2>1, <2>4 DEF DeliveredInv
<1>4. CASE UNCHANGED <<keyframes, taken_images, taken_poses, taken_points, overtaken>>
  BY <1>4 DEF DeliveredInv
<1> QED
  BY <1>1, <1>2, <1>3, <1>4 DEF Next, Callbacks, Keyboard, Process, CheckStream, ClearBuffers,
    PressN, ClearByKey, ThrowPose, ThrowPoint, MatchMessages, Poll, SkipMatch, MakeKeyFrame, world,
    inboxes, vars

\* Points are popped only with the image they belong to, or with all messages.
LEMMA PointNext ==
  ASSUME WorldInv, BufferInv, SpinInv, MatchInv, Next
  PROVE  PointInv'
<1>a. TypeInv /\ CameraInv /\ ShownInv /\ ImageInv /\ DeliveredInv /\ PointInv
  BY DEF WorldInv, MatchInv
<1>i. SUFFICES ASSUME Increasing', ~overtaken'
               PROVE  /\ proc' = "matched" => match'.point = match'.pose
                      /\ \A k \in 1..(taken_points' - Len(point_buf')) :
                           keyframes'[k] <= taken_images' - Len(image_buf')
  BY DEF PointInv
<1>h. Increasing /\ ~overtaken
  BY <1>i, HistoryKept
<1>j. /\ proc = "matched" => match.point = match.pose
      /\ \A k \in 1..(taken_points - Len(point_buf)) : keyframes[k] <= taken_images - Len(image_buf)
      /\ \A k \in 1..Len(keyframes) : k <= taken_points => keyframes[k] <= taken_images
  BY <1>a, <1>h DEF PointInv, DeliveredInv
<1>t. /\ taken_images \in Nat /\ taken_points \in Nat /\ taken_points <= Len(keyframes)
      /\ Len(keyframes) \in Nat /\ Len(image_buf) \in Nat /\ Len(point_buf) \in Nat
      /\ Len(point_buf) <= taken_points /\ Len(image_buf) <= taken_images
      /\ image_buf \in Seq(Nat) /\ point_buf \in Seq(Nat)
      /\ \A k \in 1..Len(keyframes) : keyframes[k] \in Nat
  <2>1. /\ taken_images \in Nat /\ taken_points \in Nat
        /\ Len(image_buf) \in Nat /\ Len(point_buf) \in Nat
    BY BufferTypes
  <2>2. /\ Len(keyframes) \in Nat /\ \A k \in 1..Len(keyframes) : keyframes[k] \in Nat
    BY <1>a, CameraTypes
  <2> QED
    BY <1>a, <2>1, <2>2 DEF TypeInv, BufferInv
<1>1. CASE World
  <2>1. /\ \A k \in 1..Len(keyframes) : keyframes'[k] = keyframes[k]
        /\ UNCHANGED <<taken_images, taken_points, image_buf, point_buf, proc, match>>
    BY <1>1, <1>a, WorldGrows
  <2>2. \A k \in 1..(taken_points - Len(point_buf)) : k \in 1..Len(keyframes)
    BY <1>t
  <2> QED
    BY <1>j, <2>1, <2>2
<1>2. CASE ImageCallback
  <2>1. /\ taken_images' = taken_images + 1 /\ image_buf' = Append(image_buf, taken_images + 1)
        /\ UNCHANGED <<keyframes, taken_points, point_buf, proc, match>>
    BY <1>2 DEF ImageCallback, world
  <2>2. Len(image_buf') = Len(image_buf) + 1
    BY <1>t, <2>1, AppendProperties
  <2>3. taken_images' - Len(image_buf') = taken_images - Len(image_buf)
    BY <1>t, <2>1, <2>2
  <2> QED
    BY <1>j, <2>1, <2>3
<1>3. CASE PointCallback
  <2>1. /\ taken_points' = taken_points + 1 /\ taken_points < Len(keyframes)
        /\ point_buf' = Append(point_buf, keyframes[taken_points + 1])
        /\ UNCHANGED <<keyframes, taken_images, image_buf, proc, match>>
    BY <1>3 DEF PointCallback, world
  <2>2. Len(point_buf') = Len(point_buf) + 1
    BY <1>t, <2>1, AppendProperties
  <2>3. taken_points' - Len(point_buf') = taken_points - Len(point_buf)
    BY <1>t, <2>1, <2>2
  <2> QED
    BY <1>j, <2>1, <2>3
<1>4. CASE ThrowPoint
  <2>1. /\ point_buf # <<>> /\ point_buf' = Tail(point_buf) /\ PastPoint /\ image_buf # <<>>
        /\ UNCHANGED <<keyframes, taken_images, taken_points, image_buf, proc, match>>
    BY <1>4 DEF ThrowPoint, Looking, world, inboxes
  <2>2. Len(point_buf') = Len(point_buf) - 1 /\ Len(point_buf) > 0 /\ Len(image_buf) > 0
    BY <1>t, <2>1, TailBuffer
  <2>3. Stamp(image_buf[1]) > Stamp(point_buf[1])
    BY <1>t, <2>1, TailBuffer DEF PastPoint
  <2>4. image_buf[1] \in 1..Len(camera) /\ point_buf[1] \in 1..Len(camera)
    <3>1. 1 \in 1..Len(image_buf) /\ 1 \in 1..Len(point_buf)
      BY <1>t, <2>2
    <3> QED
      BY <3>1, BufferTypes
  <2>5. image_buf[1] > point_buf[1]
    BY <1>a, <1>h, <2>3, <2>4, StampOrder
  <2>6. /\ image_buf[1] = taken_images - Len(image_buf) + 1
        /\ point_buf[1] = keyframes[taken_points - Len(point_buf) + 1]
    BY <1>t, <2>2 DEF BufferInv
  <2>7. keyframes[taken_points - Len(point_buf) + 1] <= taken_images - Len(image_buf)
    BY <1>t, <2>4, <2>5, <2>6
  <2>8. ASSUME NEW k \in 1..(taken_points - Len(point_buf'))
        PROVE  keyframes[k] <= taken_images - Len(image_buf)
    <3>0. taken_points - Len(point_buf') = taken_points - Len(point_buf) + 1
      BY <1>t, <2>1, <2>2
    <3>1. k \in 1..(taken_points - Len(point_buf)) \/ k = taken_points - Len(point_buf) + 1
      <4>1. taken_points - Len(point_buf) \in Nat
        BY <1>t
      <4>2. k \in 1..(taken_points - Len(point_buf) + 1)
        BY <3>0
      <4> QED
        BY <4>1, <4>2
    <3> QED
      BY <1>j, <2>7, <3>1
  <2> QED
    BY <1>j, <2>1, <2>8
<1>5. CASE MatchMessages
  <2>1. PICK i \in 1..Len(image_buf), p \in 1..Len(point_buf) :
          /\ match' = [image |-> image_buf[i], point |-> point_buf[p], pose |-> pose_buf[1]]
          /\ 1 \in 1..Len(pose_buf)
          /\ Stamp(image_buf[i]) >= Stamp(pose_buf[1])
          /\ Stamp(point_buf[p]) >= Stamp(pose_buf[1])
          /\ \A j \in 1..(i - 1) : Stamp(image_buf[j]) < Stamp(pose_buf[1])
          /\ \A j \in 1..(p - 1) : Stamp(point_buf[j]) < Stamp(pose_buf[1])
          /\ image_buf' = After(image_buf, i) /\ point_buf' = After(point_buf, p)
    BY <1>5, MatchTaken
  <2>2. image_buf[i] = pose_buf[1]
    BY <1>5, <1>h, <2>1, MatchOfPose
  <2>3. /\ point_buf[p] = pose_buf[1]
        /\ \A k \in 1..(taken_points - (Len(point_buf) - p)) :
             keyframes[k] <= taken_images - (Len(image_buf) - i)
    BY <1>a, <1>h, <2>1, <2>2, PointOfPose
  <2>4. Len(image_buf') = Len(image_buf) - i /\ Len(point_buf') = Len(point_buf) - p
    BY <1>t, <2>1, AfterBuffer
  <2>5. UNCHANGED <<keyframes, taken_images, taken_points>>
    BY <1>5 DEF MatchMessages, world, inboxes
  <2> QED
    BY <2>1, <2>3, <2>4, <2>5
<1>6. CASE ClearBuffers \/ ClearByKey
  <2>1. /\ image_buf' = <<>> /\ point_buf' = <<>>
        /\ UNCHANGED <<keyframes, taken_images, taken_points, proc, match>>
    BY <1>6 DEF ClearBuffers, ClearByKey, Cleared, world, inboxes
  <2> QED
    BY <1>j, <1>t, <2>1
<1>7. CASE SkipMatch \/ \E moved \in BOOLEAN : MakeKeyFrame(moved)
  <2>1. /\ proc' = "match"
        /\ UNCHANGED <<keyframes, taken_images, taken_points, image_buf, point_buf>>
    BY <1>7 DEF SkipMatch, MakeKeyFrame, world, inboxes, buffers
  <2> QED
    BY <1>j, <2>1
<1>8. CASE UNCHANGED <<keyframes, taken_images, taken_points, image_buf, point_buf, proc, match>>
  BY <1>j, <1>8
<1> QED
  BY <1>1, <1>2, <1>3, <1>4, <1>5, <1>6, <1>7, <1>8 DEF Next, Callbacks, Keyboard, Process,
    CheckStream, PoseCallback, PressN, ThrowPose, Poll, world, inboxes, buffers, vars

\* The inductive invariant holds in the first state.
LEMMA InvariantInit ==
  ASSUME Init
  PROVE  IInv
<1>1. camera = <<>> /\ Len(camera) = 0 /\ Len(keyframes) = 0 /\ Len(image_buf) = 0
      /\ Len(pose_buf) = 0 /\ Len(point_buf) = 0 /\ Len(frames) = 0
  BY DEF Init
<1>2. TypeInv
  <2>1. /\ camera \in Seq(Image) /\ keyframes \in Seq(Nat) /\ image_buf \in Seq(Nat)
        /\ pose_buf \in Seq(Nat) /\ point_buf \in Seq(Nat)
        /\ frames \in Seq([image : Nat, sequence : Nat])
    BY EmptySeq DEF Init
  <2>2. match \in [image : Nat, point : Nat, pose : Nat]
    BY DEF Init, NoMatch
  <2>3. /\ taken_images \in 0..Len(camera)
        /\ taken_poses \in 0..Len(keyframes) /\ taken_points \in 0..Len(keyframes)
    <3>1. taken_images = 0 /\ taken_poses = 0 /\ taken_points = 0
      BY DEF Init
    <3>2. 0 \in 0..0
      OBVIOUS
    <3> QED
      BY <1>1, <3>1, <3>2
  <2>4. /\ tracking \in {"first", "run"} /\ overtaken \in BOOLEAN
        /\ last_image_time \in Int /\ sequence \in Nat
        /\ spin \in {"idle", "check", "clear"} /\ command \in {"idle", "clear"}
        /\ proc \in {"match", "matched"}
    <3>1. /\ tracking = "first" /\ overtaken = FALSE /\ last_image_time = -1 /\ sequence = 1
          /\ spin = "idle" /\ command = "idle" /\ proc = "match"
      BY DEF Init
    <3>2. overtaken \in BOOLEAN
      BY Zenon DEF Init
    <3>3. last_image_time \in Int /\ sequence \in Nat
      BY <3>1
    <3> QED
      BY <3>1, <3>2, <3>3, Zenon
  <2> QED
    BY <2>1, <2>2, <2>3, <2>4 DEF TypeInv
<1>3. CameraInv /\ KeyframesInv
  BY <1>1 DEF Init, CameraInv, KeyframesInv
<1>4. BufferInv /\ SpinInv
  BY <1>1 DEF Init, BufferInv, SpinInv, Checked
<1>5. MatchInv
  BY <1>1 DEF Init, MatchInv, ShownInv, ImageInv, DeliveredInv, PointInv
<1> QED
  BY <1>2, <1>3, <1>4, <1>5 DEF IInv, WorldInv

\* Every step keeps it.
LEMMA InvariantNext ==
  ASSUME IInv, [Next]_vars
  PROVE  IInv'
<1>a. WorldInv /\ BufferInv /\ SpinInv /\ MatchInv
  BY DEF IInv
<1>1. CASE Next
  <2>1. TypeInv' /\ BufferInv' /\ SpinInv'
    BY <1>1, <1>a, TypeNext, BufferNext, SpinNext
  <2>2. CameraInv' /\ KeyframesInv'
    <3>1. CASE World
      BY <1>a, <3>1, WorldSteps DEF WorldInv
    <3>2. CASE Callbacks \/ Keyboard \/ Process
      BY <1>a, <3>2, OnlyWorldAdds DEF WorldInv, CameraInv, KeyframesInv, Stamp, Session
    <3> QED
      BY <1>1, <3>1, <3>2 DEF Next
  <2>3. MatchInv'
    BY <1>1, <1>a, ShownNext, ImageNext, DeliveredNext, PointNext DEF MatchInv
  <2> QED
    BY <2>1, <2>2, <2>3 DEF IInv, WorldInv
<1>2. CASE UNCHANGED vars
  BY <1>2, <1>a DEF vars, IInv, WorldInv, TypeInv, CameraInv, KeyframesInv, BufferInv, SpinInv,
    Checked, MatchInv, ShownInv, ImageInv, DeliveredInv, PointInv, Increasing, Images, Stamp, Session
<1> QED
  BY <1>1, <1>2

\* The inductive invariant holds in every behaviour.
LEMMA Invariance ==
  Spec => []IInv
  BY InvariantInit, InvariantNext, PTL DEF Spec

-----------------------------------------------------------------------------
(* Theorems *)

\* Once a discontinuity is dealt with, only images of the session that goes on are left,
\* whatever the stamps and whichever thread clears the buffers (image_callback, new_sequence).
THEOREM OneSessionBuffered ==
  Spec => []ImagesOfSession
<1>1. IInv => ImagesOfSession
  <2> SUFFICES ASSUME IInv, spin = "idle", NEW i \in DOMAIN image_buf
               PROVE  Session(image_buf[i]) = Session(taken_images)
    BY DEF ImagesOfSession, Buffered
  <2>1. Checked = taken_images
    BY DEF Checked
  <2>2. i \in 1..Len(image_buf) /\ image_buf[i] \in 1..taken_images /\ taken_images \in Nat
    BY BufferTypes, LenProperties DEF IInv, WorldInv, TypeInv
  <2> QED
    BY <2>1, <2>2 DEF IInv, SpinInv
<1> QED
  BY <1>1, Invariance, PTL

\* While stamps go forward a keyframe is never put into a sequence older than its own
\* session, in every interleaving of the callbacks, the keyboard and the process thread
\* (pose_graph_node.cpp, new_sequence and process).
THEOREM SequenceCountsSessions ==
  Spec => []NeverInOlderSequence
<1>1. IInv => NeverInOlderSequence
  <2>1. IInv => DOMAIN frames = 1..Len(frames)
    BY LenProperties DEF IInv, WorldInv, TypeInv
  <2> QED
    BY <2>1 DEF IInv, MatchInv, ImageInv, NeverInOlderSequence
<1> QED
  BY <1>1, Invariance, PTL

\* The three messages process() takes for a keyframe have one stamp, as long as stamps go
\* forward and no keyframe's message overtakes its image (pose_graph_node.cpp, process).
THEOREM OneStampMatched ==
  Spec => []SameStampInOrder
<1>1. IInv => SameStampInOrder
  BY DEF IInv, MatchInv, ImageInv, PointInv, SameStampInOrder, SameStamp
<1> QED
  BY <1>1, Invariance, PTL
=============================================================================
