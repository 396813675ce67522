------------------------------- MODULE ArDemo -------------------------------
(* The node that draws a cube into the camera's images: images are buffered, *)
(* a camera pose takes the first image that is not older than it, the cube   *)
(* is projected and its three nearest faces are painted, and point clouds    *)
(* move the cube onto the ground. One thread runs the callbacks, a topic     *)
(* keeps its order. An image is known by its number, the stream's stamps may *)
(* jump back. The heights are numbered by the ranges of point_callback and a *)
(* corner is known by the signs of its offset from the centre.               *)
EXTENDS Integers, Sequences, FiniteSets, SequencesExt

CONSTANTS
  MaxImages,   \* bound: images the camera gives
  MaxStamp,    \* bound: their stamps
  Unstable,    \* poses thrown at the start (50)
  Ranges,      \* height ranges of point_callback (30)
  Clouds,      \* heights of the points of a cloud, as sequences of ranges
  Views        \* for a pose: the corners by distance from the camera, nearest first

VARIABLES
  images,              \* history: what the camera gave, and in which session it did
  poseSent,            \* the image the estimator gave the last pose for
  imgTopic, poseTopic, \* images, and the images of poses: each delivered in order
  pose_init,
  img_buf,
  img_cnt,
  look_ground,
  height,              \* the range of the ground the cube stands on
  taken,               \* history: images and poses given to callback, faces painted
  dropped,             \* history: images thrown before pose_init
  thrown,              \* history: images the loop of pose_callback threw, with the pose's
  running              \* FALSE when reading past the end of img_buf has ended the node

arVars == <<images, poseSent, imgTopic, poseTopic, pose_init, img_buf, img_cnt,
            look_ground, height, taken, dropped, thrown, running>>

\* add_object, which main calls before it spins: the corners follow the centre.
\* The height the cube starts at is none that a cloud has shown.
Unseen == -1

ArInit ==
  /\ images = <<>> /\ poseSent = 0
  /\ imgTopic = <<>> /\ poseTopic = <<>>
  /\ pose_init = FALSE
  /\ img_buf = <<>>
  /\ img_cnt = 0
  /\ look_ground = FALSE
  /\ height = Unseen
  /\ taken = <<>>
  /\ dropped = {}
  /\ thrown = {}
  /\ running = TRUE

Stamp(n) == images[n].stamp
Session(n) == images[n].session

\* The camera's images reach this node. The stamps go forward, or jump back: then the
\* feature tracker starts over and has the estimator restarted, and a new session begins.
CameraImage ==
  /\ Len(images) < MaxImages
  /\ \E stamp \in 1..MaxStamp :
       \/ /\ images = <<>>
          /\ images' = <<[stamp |-> stamp, session |-> 1]>>
       \/ /\ images # <<>> /\ stamp > Stamp(Len(images))
          /\ images' = Append(images, [stamp |-> stamp, session |-> Session(Len(images))])
       \/ /\ images # <<>> /\ stamp < Stamp(Len(images))
          /\ images' = Append(images, [stamp |-> stamp, session |-> Session(Len(images)) + 1])
  /\ imgTopic' = Append(imgTopic, Len(images) + 1)
  /\ UNCHANGED <<poseSent, poseTopic, pose_init, img_buf, img_cnt, look_ground, height,
                 taken, dropped, thrown, running>>

\* Through tracker and estimator some images get a pose, which carries their stamp.
CameraPose ==
  \E image \in (poseSent + 1)..Len(images) :
    /\ poseSent' = image
    /\ poseTopic' = Append(poseTopic, image)
    /\ UNCHANGED <<images, imgTopic, pose_init, img_buf, img_cnt, look_ground, height,
                   taken, dropped, thrown, running>>

\* img_callback.
ImgCallback ==
  /\ running
  /\ imgTopic # <<>>
  /\ imgTopic' = Tail(imgTopic)
  /\ IF pose_init
       THEN img_buf' = Append(img_buf, Head(imgTopic)) /\ dropped' = dropped
       ELSE dropped' = dropped \cup {Head(imgTopic)} /\ img_buf' = img_buf
  /\ UNCHANGED <<images, poseSent, poseTopic, pose_init, img_cnt, look_ground, height, taken, thrown, running>>

\* The eight corners cube_generate makes, in its order.
Corner == [j \in 0..7 |-> <<j % 2, (j \div 2) % 2, j \div 4>>]
\* point_group: the corners of three faces for the corner nearest to the camera.
PointGroup ==
  << <<0,1,5,4, 0,4,6,2, 0,1,3,2>>, <<0,1,5,4, 1,5,7,3, 0,1,3,2>>,
     <<2,3,7,6, 0,4,6,2, 0,1,3,2>>, <<2,3,7,6, 1,5,7,3, 0,1,3,2>>,
     <<0,1,5,4, 0,4,6,2, 4,5,7,6>>, <<0,1,5,4, 1,5,7,3, 4,5,7,6>>,
     <<2,3,7,6, 0,4,6,2, 4,5,7,6>>, <<2,3,7,6, 1,5,7,3, 4,5,7,6>> >>
Face(nearest, k) == SubSeq(PointGroup[nearest + 1], 4 * k - 3, 4 * k)
\* draw_object: the second face, the first over it, the second again when it is
\* the nearer, which is an outcome, and the third. The faces that are painted
\* when it ends are these, a cube behind the camera has none.
Faces(byDistance) == IF byDistance = <<>> THEN <<>> ELSE [k \in 1..3 |-> Face(byDistance[1], k)]

\* callback: the unstable poses are thrown; whether the camera looks down and
\* how it sees the cube follow from the pose. project_object, draw_object.
Callback(image, pose) ==
  LET Took(faces) == taken' = Append(taken, [image |-> image, pose |-> pose, faces |-> faces])
  IN  IF img_cnt < Unstable
        THEN Took(<<>>) /\ img_cnt' = img_cnt + 1 /\ UNCHANGED look_ground
        ELSE /\ \E view \in Views \cup {<<>>} : Took(Faces(view))
             /\ look_ground' \in BOOLEAN
             /\ UNCHANGED img_cnt

\* Mutant: an image of the pose's own stamp is thrown.
After(image, pose) == Stamp(image) > Stamp(pose)
\* An image the loop stops at for a pose.
NotBefore(image, pose) == Stamp(image) >= Stamp(pose)
Stops(buf, pose) == {k \in DOMAIN buf : NotBefore(buf[k], pose)}

\* pose_callback. The loop throws images from the front until it stops at one. It
\* reads img_buf.front() before it asks whether there is one: when it has thrown
\* all images it compares memory that is no image, which may end the node, and
\* then stops.
PoseCallback ==
  /\ running
  /\ poseTopic # <<>>
  /\ poseTopic' = Tail(poseTopic)
  /\ pose_init' = TRUE
  /\ LET pose == Head(poseTopic)
         stops == Stops(img_buf, pose)
     IN  IF ~pose_init \/ img_buf = <<>>
           THEN UNCHANGED <<img_buf, img_cnt, look_ground, taken, thrown, running>>
         ELSE IF stops = {}
           THEN /\ img_buf' = <<>>
                /\ thrown' = thrown \cup {<<img_buf[k], pose>> : k \in DOMAIN img_buf}
                /\ running' \in BOOLEAN
                /\ UNCHANGED <<img_cnt, look_ground, taken>>
         ELSE /\ Callback(img_buf[Min(stops)], pose)
              /\ img_buf' = SubSeq(img_buf, Min(stops) + 1, Len(img_buf))
              /\ thrown' = thrown \cup {<<img_buf[k], pose>> : k \in 1..(Min(stops) - 1)}
              /\ UNCHANGED running
  /\ UNCHANGED <<images, poseSent, imgTopic, height, dropped>>

InRange(cloud, r) == Cardinality({i \in DOMAIN cloud : cloud[i] = r})
Around(cloud, r) == InRange(cloud, r - 1) + InRange(cloud, r) + InRange(cloud, r + 1)
\* The fullest range that has two neighbours, the lowest one of those.
Fullest(cloud) ==
  FoldLeft(LAMBDA best, r : IF InRange(cloud, best) < InRange(cloud, r) THEN r ELSE best,
           Unseen, [r \in 1..(Ranges - 2) |-> r])

\* point_callback, for the points whose heights are in a range and the others.
PointCallback ==
  /\ running
  /\ look_ground
  /\ \E cloud \in Clouds :
       LET r == Fullest(SelectSeq(cloud, LAMBDA h : h \in 0..(Ranges - 1)))
       IN  /\ r # Unseen
           /\ Around(cloud, r) >= Len(cloud) \div 2
           /\ height' = r
  /\ UNCHANGED <<images, poseSent, imgTopic, poseTopic, pose_init, img_buf, img_cnt,
                 look_ground, taken, dropped, thrown, running>>

ArNext == CameraImage \/ CameraPose \/ ImgCallback \/ PoseCallback \/ PointCallback
ArSpec == ArInit /\ [][ArNext]_arVars
-----------------------------------------------------------------------------
\* The corners of one side of the cube along an axis.
Side(axis, sign) == {j \in 0..7 : Corner[j][axis] = sign}

\* The image was thrown for a pose of an earlier session.
ThrownByOldPose(n) == \E t \in thrown : t[1] = n /\ Session(t[2]) < Session(n)

\* Images and poses are taken in the order they were given in, each once. An image is
\* taken with its own pose, with two exceptions. A pose takes an earlier image only across
\* a jump of the stamps: one left over in img_buf, which no restart empties. It takes a later
\* one only when its own image is gone: thrown before the first pose, taken already, or
\* thrown for a pose from before a jump. The faces that are painted are the three that meet
\* at the nearest corner, each a side of the cube (ar_demo_node.cpp:311-347, 459-494).
DrawnWithItsPose ==
  /\ \A i, j \in DOMAIN taken : i < j => taken[i].image < taken[j].image /\ taken[i].pose < taken[j].pose
  /\ \A i \in DOMAIN taken :
       LET image == taken[i].image
           own == taken[i].pose
       IN  /\ image < own => Session(image) < Session(own)
           /\ image > own => \/ own \in dropped \cup {taken[k].image : k \in 1..(i - 1)}
                            \/ ThrownByOldPose(own)
  /\ \A i \in DOMAIN taken : taken[i].faces # <<>> =>
       LET corners(k) == ToSet(taken[i].faces[k])
       IN  /\ \A k \in 1..3 : \E axis \in 1..3, sign \in 0..1 : corners(k) = Side(axis, sign)
           /\ Cardinality(corners(1) \cap corners(2) \cap corners(3)) = 1
=============================================================================
