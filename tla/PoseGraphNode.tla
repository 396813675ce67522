--------------------------- MODULE PoseGraphNode ---------------------------
(***************************************************************************)
(* The pose_graph node: pose_graph/src/pose_graph_node.cpp.                *)
(*                                                                         *)
(* Images come from the camera, poses and points of keyframes from the     *)
(* estimator, later and on topics of their own.  The spin thread buffers   *)
(* them; the process thread looks for three messages of one stamp and      *)
(* makes a keyframe of them; a discontinuous image stream or a key starts  *)
(* a new sequence and empties the buffers.                                 *)
(*                                                                         *)
(* A message is the number of its image: the stamp follows from it.  Each  *)
(* topic is delivered in order and without loss, the topics in any order   *)
(* among each other.  The camera, whose stamps may jump (a gap, a replayed *)
(* bag), and the estimator are the environment.                            *)
(***************************************************************************)
EXTENDS Integers, Sequences

CONSTANTS
  Second,          \* ticks in the second after which an image stream is discontinuous
  SKIP_FIRST_CNT,  \* matches skipped at the start (10 in the code)
  SKIP_CNT,        \* matches skipped between two keyframes
  MaxStamp,        \* bound: stamps
  MaxImages,       \* bound: images
  MaxKeys          \* bound: new sequences asked for at the keyboard

ASSUME ClockAssumption == Second \in Nat \ {0}
ASSUME SkipAssumption  == SKIP_FIRST_CNT \in Nat /\ SKIP_CNT \in Nat
ASSUME LimitAssumption == MaxStamp \in Nat /\ MaxImages \in Nat /\ MaxKeys \in Nat

VARIABLES
  camera,          \* [stamp, session] of each image taken
  tracking,        \* "first", "run": the feature tracker's first_image_flag
  usable,          \* the images the feature tracker has tracked
  keyframes,       \* the images the estimator has published as keyframes, in order
  overtaken,       \* history: a keyframe's pose or points were delivered before its image
  taken_images, taken_poses, taken_points,  \* messages delivered per topic
  image_buf, pose_buf, point_buf,           \* m_buf
  last_image_time, sequence, keys,
  spin,            \* "idle", or what is left of a callback: "check", "clear"
  command,         \* "idle" or "clear": the keyboard thread inside new_sequence
  proc,            \* "match" or "matched"
  match,           \* the image, point and pose found
  skip_first_cnt, skip_cnt,
  frames           \* the keyframes handed to PoseGraph: image number and sequence

world    == <<camera, tracking, usable, keyframes>>
inboxes  == <<taken_images, taken_poses, taken_points, overtaken>>
buffers  == <<image_buf, pose_buf, point_buf>>
skips    == <<skip_first_cnt, skip_cnt>>
vars == <<camera, tracking, usable, keyframes, overtaken, taken_images, taken_poses, taken_points,
          image_buf, pose_buf, point_buf, last_image_time, sequence, keys, spin, command, proc,
          match, skip_first_cnt, skip_cnt, frames>>

NoMatch == [image |-> 0, point |-> 0, pose |-> 0]

Init ==
  /\ camera = <<>> /\ tracking = "first" /\ usable = {} /\ keyframes = <<>>
  /\ taken_images = 0 /\ taken_poses = 0 /\ taken_points = 0 /\ overtaken = FALSE
  /\ image_buf = <<>> /\ pose_buf = <<>> /\ point_buf = <<>>
  /\ last_image_time = -1
  /\ sequence = 1
  /\ keys = 0
  /\ spin = "idle" /\ command = "idle" /\ proc = "match"
  /\ match = NoMatch
  /\ skip_first_cnt = 0 /\ skip_cnt = 0
  /\ frames = <<>>

Stamp(n)   == camera[n].stamp
Session(n) == camera[n].session
Last(s)    == s[Len(s)]

\* More than a second has passed since the last image, or the image is older.
Discontinuous(last, t) == t - last > Second \/ t < last

-----------------------------------------------------------------------------
(* The environment *)

\* An image is taken.  The feature tracker uses neither the first image nor a
\* discontinuous one, nor the one after that.
TakeImage(t) ==
  /\ Len(camera) < MaxImages
  /\ LET first == camera = <<>>
         jump  == ~first /\ Discontinuous(Last(camera).stamp, t)
         n     == Len(camera) + 1
     IN /\ camera' = Append(camera, [stamp   |-> t,
                                     session |-> IF first THEN 1 ELSE
                                                 Last(camera).session + IF jump THEN 1 ELSE 0])
        /\ tracking' = IF tracking = "run" /\ jump THEN "first" ELSE "run"
        /\ usable' = IF tracking = "run" /\ ~jump THEN usable \cup {n} ELSE usable
  /\ UNCHANGED <<keyframes, inboxes, buffers, last_image_time, sequence, keys, spin, command,
                 proc, match, skips, frames>>

\* The estimator publishes the pose and the points of a tracked image as a keyframe.
PublishKeyframe(n) ==
  /\ n \in usable
  /\ keyframes # <<>> => n > Last(keyframes)
  /\ keyframes' = Append(keyframes, n)
  /\ UNCHANGED <<camera, tracking, usable, inboxes, buffers, last_image_time, sequence, keys,
                 spin, command, proc, match, skips, frames>>

-----------------------------------------------------------------------------
(* The callbacks *)

\* image_callback under m_buf.
ImageCallback ==
  /\ spin = "idle"
  /\ taken_images < Len(camera)
  /\ taken_images' = taken_images + 1
  /\ image_buf' = Append(image_buf, taken_images')
  /\ spin' = "check"
  /\ UNCHANGED <<world, taken_poses, taken_points, overtaken, pose_buf, point_buf, last_image_time,
                 sequence, keys, command, proc, match, skips, frames>>

\* Mutant: the sequence is not advanced.
SequenceKept == sequence

\* new_sequence before m_buf: one more sequence.
NextSequence == sequence + 1

\* image_callback after m_buf: a discontinuity starts a new sequence.
CheckStream ==
  /\ spin = "check"
  /\ LET t    == Stamp(taken_images)
         jump == last_image_time # -1 /\ Discontinuous(last_image_time, t)
     IN /\ last_image_time' = t
        /\ sequence' = IF jump THEN NextSequence ELSE sequence
        /\ spin' = IF jump THEN "clear" ELSE "idle"
  /\ UNCHANGED <<world, inboxes, buffers, keys, command, proc, match, skips, frames>>

\* History: a keyframe's message is delivered before its image.
Overtakes(n) == overtaken' = (overtaken \/ taken_images < n)

PoseCallback ==
  /\ spin = "idle"
  /\ taken_poses < Len(keyframes)
  /\ Overtakes(keyframes[taken_poses + 1])
  /\ taken_poses' = taken_poses + 1
  /\ pose_buf' = Append(pose_buf, keyframes[taken_poses'])
  /\ UNCHANGED <<world, taken_images, taken_points, image_buf, point_buf, last_image_time,
                 sequence, keys, spin, command, proc, match, skips, frames>>

PointCallback ==
  /\ spin = "idle"
  /\ taken_points < Len(keyframes)
  /\ Overtakes(keyframes[taken_points + 1])
  /\ taken_points' = taken_points + 1
  /\ point_buf' = Append(point_buf, keyframes[taken_points'])
  /\ UNCHANGED <<world, taken_images, taken_poses, image_buf, pose_buf, last_image_time,
                 sequence, keys, spin, command, proc, match, skips, frames>>

\* Mutant: the images are kept.
ImagesKept == UNCHANGED image_buf /\ pose_buf' = <<>> /\ point_buf' = <<>>

\* new_sequence pops every buffer empty.
Cleared == image_buf' = <<>> /\ pose_buf' = <<>> /\ point_buf' = <<>>

\* new_sequence under m_buf, called by the spin thread.
ClearBuffers ==
  /\ spin = "clear"
  /\ Cleared
  /\ spin' = "idle"
  /\ UNCHANGED <<world, inboxes, last_image_time, sequence, keys, command, proc, match, skips,
                 frames>>

\* Key n: new_sequence on the keyboard thread.
PressN ==
  /\ command = "idle"
  /\ keys < MaxKeys
  /\ keys' = keys + 1
  /\ sequence' = NextSequence
  /\ command' = "clear"
  /\ UNCHANGED <<world, inboxes, buffers, last_image_time, spin, proc, match, skips, frames>>

ClearByKey ==
  /\ command = "clear"
  /\ Cleared
  /\ command' = "idle"
  /\ UNCHANGED <<world, inboxes, last_image_time, sequence, keys, spin, proc, match, skips, frames>>

-----------------------------------------------------------------------------
(* The process thread *)

\* All three buffers hold something, and the process thread looks at them.
Looking == proc = "match" /\ image_buf # <<>> /\ pose_buf # <<>> /\ point_buf # <<>>

\* The oldest image is newer than the oldest message of a buffer, which is useless then.
PastPose  == Stamp(Head(image_buf)) > Stamp(Head(pose_buf))
PastPoint == Stamp(Head(image_buf)) > Stamp(Head(point_buf))

ThrowPose ==
  /\ Looking /\ PastPose
  /\ pose_buf' = Tail(pose_buf)
  /\ UNCHANGED <<world, inboxes, image_buf, point_buf, last_image_time, sequence, keys, spin,
                 command, proc, match, skips, frames>>

ThrowPoint ==
  /\ Looking /\ ~PastPose /\ PastPoint
  /\ point_buf' = Tail(point_buf)
  /\ UNCHANGED <<world, inboxes, image_buf, pose_buf, last_image_time, sequence, keys, spin,
                 command, proc, match, skips, frames>>

\* Mutant: the older messages are not popped.
Oldest(buf, pose) == 1

\* The index in buf of the first message that is not older than the pose.
FirstFrom(buf, pose) ==
  CHOOSE i \in DOMAIN buf : /\ Stamp(buf[i]) >= Stamp(pose)
                            /\ \A j \in 1..(i - 1) : Stamp(buf[j]) < Stamp(pose)

After(buf, i) == SubSeq(buf, i + 1, Len(buf))

\* Mutant: images and points have to be newer than the pose.
CaughtUpLater(pose) == Stamp(Last(image_buf)) > Stamp(pose) /\ Stamp(Last(point_buf)) > Stamp(pose)

\* Images and points have come as far as the pose.
CaughtUp(pose) == Stamp(Last(image_buf)) >= Stamp(pose) /\ Stamp(Last(point_buf)) >= Stamp(pose)

\* The oldest pose is taken, the others are thrown away; with it go the first image and
\* the first points that are not older, whatever their stamps.
MatchMessages ==
  /\ Looking /\ ~PastPose /\ ~PastPoint
  /\ CaughtUp(Head(pose_buf))
  /\ LET pose == Head(pose_buf)
         i    == FirstFrom(image_buf, pose)
         p    == FirstFrom(point_buf, pose)
     IN /\ match' = [image |-> image_buf[i], point |-> point_buf[p], pose |-> pose]
        /\ image_buf' = After(image_buf, i)
        /\ point_buf' = After(point_buf, p)
        /\ pose_buf' = <<>>
  /\ proc' = "matched"
  /\ UNCHANGED <<world, inboxes, last_image_time, sequence, keys, spin, command, skips, frames>>

\* Nothing to be done: the thread sleeps and looks again.
Poll ==
  /\ proc = "match"
  /\ Looking => ~PastPose /\ ~PastPoint /\ ~CaughtUp(Head(pose_buf))
  /\ UNCHANGED vars

\* Enough matches have been skipped at the start.
FirstsSkipped == skip_first_cnt >= SKIP_FIRST_CNT

\* The first matches, and then SKIP_CNT of every SKIP_CNT + 1, make no keyframe.
SkipMatch ==
  /\ proc = "matched"
  /\ \/ /\ ~FirstsSkipped
        /\ skip_first_cnt' = skip_first_cnt + 1
        /\ UNCHANGED skip_cnt
     \/ /\ FirstsSkipped /\ skip_cnt < SKIP_CNT
        /\ skip_cnt' = skip_cnt + 1
        /\ UNCHANGED skip_first_cnt
  /\ match' = NoMatch
  /\ proc' = "match"
  /\ UNCHANGED <<world, inboxes, buffers, last_image_time, sequence, keys, spin, command, frames>>

\* The match becomes a keyframe of the sequence current now, unless the camera has hardly
\* moved.
MakeKeyFrame(moved) ==
  /\ proc = "matched"
  /\ FirstsSkipped /\ skip_cnt >= SKIP_CNT
  /\ skip_cnt' = 0
  /\ frames' = IF moved THEN Append(frames, [image |-> match.image, sequence |-> sequence])
               ELSE frames
  /\ match' = NoMatch
  /\ proc' = "match"
  /\ UNCHANGED <<world, inboxes, buffers, last_image_time, sequence, keys, spin, command,
                 skip_first_cnt>>

-----------------------------------------------------------------------------
World == \/ \E t \in 1..MaxStamp : TakeImage(t)
         \/ \E n \in usable : PublishKeyframe(n)

Callbacks == ImageCallback \/ CheckStream \/ PoseCallback \/ PointCallback \/ ClearBuffers

Keyboard == PressN \/ ClearByKey

Process == \/ ThrowPose \/ ThrowPoint \/ MatchMessages \/ Poll \/ SkipMatch
           \/ \E moved \in BOOLEAN : MakeKeyFrame(moved)

Next == World \/ Callbacks \/ Keyboard \/ Process

Spec == Init /\ [][Next]_vars

\* Each of the three threads is scheduled; the spin thread runs a callback as long as one
\* is due.  The camera, the estimator and the keyboard need not do anything.
FairSpec == Spec /\ WF_vars(Process) /\ WF_vars(Callbacks) /\ WF_vars(ClearByKey)

-----------------------------------------------------------------------------
Images == DOMAIN camera
Buffered(buf) == {buf[i] : i \in DOMAIN buf}

\* The stamps of the images taken have only gone forward.
Increasing == \A i, j \in Images : i < j => Stamp(i) < Stamp(j)

\* The three messages process() takes for one keyframe have the same stamp.
SameStamp == proc = "matched" => /\ Stamp(match.image) = Stamp(match.pose)
                                 /\ Stamp(match.point) = Stamp(match.pose)

\* They do ("find out the messages with same time stamp", pose_graph_node.cpp:303) in every
\* interleaving of the topics, also when a gap or a key has emptied the buffers, as long as
\* stamps go forward and no keyframe's message overtakes its image.
SameStampInOrder == (Increasing /\ ~overtaken) => SameStamp

\* Once a discontinuity is dealt with, only images of the session that goes on are left:
\* no later keyframe can show a view from before the gap (image_callback and new_sequence).
ImagesOfSession ==
  spin = "idle" => \A n \in Buffered(image_buf) : Session(n) = Session(taken_images)

\* While stamps go forward a keyframe is never put into a sequence older than its own
\* session, though sequence is advanced outside m_buf and read only after the match
\* (lines 72 and 414).
NeverInOlderSequence ==
  Increasing => \A i \in DOMAIN frames : frames[i].sequence >= Session(frames[i].image)

\* While stamps go forward and no keyframe's message overtakes its image, a delivered pose
\* is matched or thrown away, also when the camera stops after it, unless its session ends
\* or a new sequence is asked for.  (The first image has no earlier one to be tracked
\* from and never becomes a keyframe.)
PoseServed ==
  \A n \in 2..MaxImages :
    n \in Buffered(pose_buf)
      ~> \/ n \notin Buffered(pose_buf) \/ Session(n) # Session(Len(camera))
         \/ keys > 0 \/ overtaken \/ ~Increasing
=============================================================================
