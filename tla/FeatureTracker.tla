--------------------------- MODULE FeatureTracker ---------------------------
(***************************************************************************)
(* The feature_tracker node: feature_tracker/src/feature_tracker_node.cpp  *)
(* and feature_tracker.cpp, with one camera.                               *)
(*                                                                         *)
(* img_callback decides whether an image is dropped, tracked, or tracked   *)
(* and published; readImage keeps parallel vectors of points, ids, track   *)
(* lengths and velocities that several functions shrink, reorder and grow. *)
(* The node has one thread: the steps of readImage are actions only so     *)
(* that each can choose its outcome.                                       *)
(*                                                                         *)
(* A point is the number of its track, fresh for each detected corner; its *)
(* coordinates are left out.  A velocity is the pair of tracks it is the   *)
(* difference of, or Zero.  Stamps are ticks, Hz of them a second.         *)
(* prev_pts and prev_un_pts are written and reduced but never used: they   *)
(* are left out.                                                           *)
(***************************************************************************)
EXTENDS Integers, SequencesExt

CONSTANTS
  Hz,         \* ticks in a second
  FREQ,       \* images published per second, at least 1 (readParameters turns 0 into 100)
  MAX_CNT,    \* points tracked at a time
  MinRansac,  \* points below which rejectWithF does nothing (8 in the code)
  MaxStamp,   \* bound: stamps
  MaxImages,  \* bound: images
  MaxTracks   \* bound: corners detected

ASSUME RateAssumption  == Hz \in Nat \ {0} /\ FREQ \in Nat \ {0}
ASSUME CountAssumption == MAX_CNT \in Nat /\ MinRansac \in Nat
ASSUME LimitAssumption == MaxStamp \in Nat /\ MaxImages \in Nat /\ MaxTracks \in Nat

VARIABLES
  phase,              \* the part of img_callback that comes next, "idle" between images
  first_image_flag, first_image_time, last_image_time, pub_count, init_pub,
  PUB_THIS_FRAME,
  cur_pts, forw_pts,  \* points of the last and of the current image
  ids, track_cnt, cur_un_pts, pts_velocity,
  prev_un_pts_map,    \* id -> point of the last image
  n_id,               \* the next id
  images, tracks,     \* images received and corners detected so far (bounds; track numbers)
  named, age,         \* history: the id each track was given, the images in which each
                      \* track that was not lost has been seen
  start, sent, sent_at,     \* history of a session: its first image, the images selected
                            \* for publication, the last of them (or the first image)
  latest, shown, ever       \* history: last published stamp, its ids, all published ids

node    == <<first_image_flag, first_image_time, last_image_time, pub_count, PUB_THIS_FRAME>>
points  == <<cur_pts, forw_pts, ids, track_cnt, cur_un_pts>>
flow    == <<pts_velocity, prev_un_pts_map>>
session == <<start, sent, sent_at>>
stream  == <<latest, shown, ever>>
vars == <<phase, first_image_flag, first_image_time, last_image_time, pub_count, init_pub,
          PUB_THIS_FRAME, cur_pts, forw_pts, ids, track_cnt, cur_un_pts, pts_velocity,
          prev_un_pts_map, n_id, images, tracks, named, age, start, sent, sent_at,
          latest, shown, ever>>

Zero == <<0, 0>>
Empty == [x \in {} |-> 0]

Init ==
  /\ phase = "idle"
  /\ first_image_flag = TRUE /\ first_image_time = 0 /\ last_image_time = 0
  /\ pub_count = 1 /\ init_pub = FALSE
  /\ PUB_THIS_FRAME = FALSE
  /\ cur_pts = <<>> /\ forw_pts = <<>> /\ ids = <<>> /\ track_cnt = <<>>
  /\ cur_un_pts = <<>> /\ pts_velocity = <<>>
  /\ prev_un_pts_map = Empty
  /\ n_id = 0
  /\ images = 0 /\ tracks = 0
  /\ named = Empty /\ age = Empty
  /\ start = 0 /\ sent = 0 /\ sent_at = 0
  /\ latest = 0 /\ shown = {} /\ ever = {}

-----------------------------------------------------------------------------
(* img_callback: which images are used *)

Receive(t) ==
  /\ phase = "idle"
  /\ images < MaxImages
  /\ images' = images + 1

\* The first image, and the first one after a discontinuity, only starts the clock.
FirstImage(t) ==
  /\ Receive(t)
  /\ first_image_flag
  /\ first_image_flag' = FALSE
  /\ first_image_time' = t /\ last_image_time' = t
  /\ start' = t /\ sent' = 0 /\ sent_at' = t
  /\ UNCHANGED <<phase, pub_count, init_pub, PUB_THIS_FRAME, points, flow, n_id, tracks,
                 named, age, stream>>

\* More than a second has passed, or the image is older than the last one.
Discontinuous(t) == t - last_image_time > Hz \/ t < last_image_time

\* A restart is published and the image dropped.  The tracks are kept.
Discontinuity(t) ==
  /\ Receive(t)
  /\ ~first_image_flag /\ Discontinuous(t)
  /\ first_image_flag' = TRUE
  /\ last_image_time' = 0
  /\ pub_count' = 1
  /\ latest' = 0
  /\ UNCHANGED <<phase, first_image_time, init_pub, PUB_THIS_FRAME, points, flow, n_id,
                 tracks, named, age, session, shown, ever>>

\* Mutant: the image about to be published is not counted.
WithinRateLate(t) ==
  LET dt == t - first_image_time IN dt > 0 /\ 2 * (pub_count - 1) * Hz < (2 * FREQ + 1) * dt

\* round(pub_count / dt) <= FREQ, with pub_count / 0 infinite and 0 / 0 not a number.
WithinRate(t) ==
  LET dt == t - first_image_time IN dt > 0 /\ 2 * pub_count * Hz < (2 * FREQ + 1) * dt

Distance(x, y) == IF x < y THEN y - x ELSE x - y

\* abs(pub_count / dt - FREQ) < 0.01 * FREQ: the rate is met and its clock starts anew.
RateMet(t) ==
  LET dt == t - first_image_time IN 100 * Distance(pub_count * Hz, FREQ * dt) < FREQ * dt

\* A usable image: frequency control, then tracking.
ContinuousImage(t) ==
  /\ Receive(t)
  /\ ~first_image_flag /\ ~Discontinuous(t)
  /\ last_image_time' = t
  /\ PUB_THIS_FRAME' = WithinRate(t)
  /\ IF WithinRate(t) /\ RateMet(t)
       THEN first_image_time' = t /\ pub_count' = 0
       ELSE UNCHANGED <<first_image_time, pub_count>>
  /\ phase' = "flow"
  /\ UNCHANGED <<first_image_flag, init_pub, points, flow, n_id, tracks, named, age,
                 session, stream>>

-----------------------------------------------------------------------------
(* readImage *)

\* The elements of s at the indices ix, in that order.
Picked(s, ix) == [k \in DOMAIN ix |-> s[ix[k]]]

\* The ways in which a status vector for n points reduces them: reduceVector keeps order.
Reductions(n) ==
  {ix \in SetToAllKPermutations(1..n) : \A k, l \in DOMAIN ix : k < l => ix[k] < ix[l]}

\* calcOpticalFlowPyrLK and the border test decide what survives; each survivor's track is
\* one longer.  forw_pts continue the tracks of cur_pts.
OpticalFlow(ix) ==
  /\ phase = "flow"
  /\ ix \in Reductions(Len(cur_pts))
  /\ cur_pts' = Picked(cur_pts, ix)
  /\ forw_pts' = Picked(cur_pts, ix)
  /\ ids' = Picked(ids, ix)
  /\ cur_un_pts' = Picked(cur_un_pts, ix)
  /\ track_cnt' = [k \in DOMAIN ix |-> track_cnt[ix[k]] + 1]
  /\ age' = [p \in ToSet(forw_pts') |-> age[p] + 1]
  /\ phase' = IF PUB_THIS_FRAME THEN "reject" ELSE "undistort"
  /\ UNCHANGED <<node, init_pub, flow, n_id, images, tracks, named, session, stream>>

\* rejectWithF: outliers of the fundamental matrix are dropped.
RejectWithF(ix) ==
  /\ phase = "reject"
  /\ ix \in Reductions(Len(forw_pts))
  /\ Len(forw_pts) < MinRansac => Len(ix) = Len(forw_pts)
  /\ cur_pts' = Picked(cur_pts, ix)
  /\ forw_pts' = Picked(forw_pts, ix)
  /\ ids' = Picked(ids, ix)
  /\ cur_un_pts' = Picked(cur_un_pts, ix)
  /\ track_cnt' = Picked(track_cnt, ix)
  /\ phase' = "mask"
  /\ UNCHANGED <<node, init_pub, flow, n_id, images, tracks, named, age, session, stream>>

\* Mutant: the ids keep their old order.
MaskedIdsUnsorted(ix) == /\ forw_pts' = Picked(forw_pts, ix)
                         /\ track_cnt' = Picked(track_cnt, ix)
                         /\ ids' = SubSeq(ids, 1, Len(ix))

\* The three vectors that setMask rebuilds.
Masked(ix) == /\ forw_pts' = Picked(forw_pts, ix)
              /\ track_cnt' = Picked(track_cnt, ix)
              /\ ids' = Picked(ids, ix)

\* setMask: the points by falling track length, without those too close to another or
\* under the fisheye mask.  cur_pts and cur_un_pts are not touched.
SetMask(ix) ==
  /\ phase = "mask"
  /\ ix \in SetToAllKPermutations(1..Len(forw_pts))
  /\ \A k, l \in DOMAIN ix : k < l => track_cnt[ix[k]] >= track_cnt[ix[l]]
  /\ Masked(ix)
  /\ phase' = "detect"
  /\ UNCHANGED <<node, init_pub, cur_pts, cur_un_pts, flow, n_id, images, tracks, named, age,
                 session, stream>>

\* The corners that may be added.
Room == MAX_CNT - Len(forw_pts)

\* goodFeaturesToTrack and addPoints: at most MAX_CNT points in all, the new ones unnamed.
AddPoints(n) ==
  /\ phase = "detect"
  /\ n <= Room
  /\ tracks + n <= MaxTracks
  /\ LET corners == [k \in 1..n |-> tracks + k]
     IN /\ forw_pts' = forw_pts \o corners
        /\ ids' = ids \o [k \in 1..n |-> -1]
        /\ track_cnt' = track_cnt \o [k \in 1..n |-> 1]
        /\ age' = [p \in DOMAIN age \cup ToSet(corners) |-> IF p \in DOMAIN age THEN age[p] ELSE 1]
  /\ tracks' = tracks + n
  /\ phase' = "undistort"
  /\ UNCHANGED <<node, init_pub, cur_pts, cur_un_pts, flow, n_id, images, named, session,
                 stream>>

\* Mutant: unnamed points are looked up like the others.
HasPastAny(id) == id \in DOMAIN prev_un_pts_map

\* A point whose velocity undistortedPoints can compute: named, and in the last image.
HasPast(id) == id # -1 /\ id \in DOMAIN prev_un_pts_map

\* undistortedPoints, after the current image has become the last one.  Velocities are
\* cleared only when there is a last image to compare with.  A map takes the first of the
\* points inserted under one key: all new points share the key -1.
UndistortedPoints ==
  /\ phase = "undistort"
  /\ cur_pts' = forw_pts
  /\ cur_un_pts' = forw_pts
  /\ pts_velocity' =
       IF DOMAIN prev_un_pts_map # {}
         THEN [i \in DOMAIN forw_pts |->
                 IF HasPast(ids[i]) THEN <<forw_pts[i], prev_un_pts_map[ids[i]]>> ELSE Zero]
         ELSE pts_velocity \o [i \in DOMAIN forw_pts |-> Zero]
  /\ prev_un_pts_map' =
       [id \in ToSet(ids) |->
          forw_pts[CHOOSE i \in DOMAIN ids : ids[i] = id /\ \A j \in DOMAIN ids : ids[j] = id => i <= j]]
  /\ phase' = "name"
  /\ UNCHANGED <<node, init_pub, forw_pts, ids, track_cnt, n_id, images, tracks, named, age,
                 session, stream>>

-----------------------------------------------------------------------------
(* img_callback: ids and publication *)

\* The points before index i without an id.
Unnamed(i) == Cardinality({j \in 1..(i - 1) : ids[j] = -1})

\* Mutant: the ids given by one image are given again by the next.
NextIdStuck(unnamed) == n_id

\* n_id after that many points have been named.
NextId(unnamed) == n_id + unnamed

\* The updateID loop names the new points in the order of their indices.
UpdateID ==
  /\ phase = "name"
  /\ ids' = [i \in DOMAIN ids |-> IF ids[i] = -1 THEN n_id + Unnamed(i) ELSE ids[i]]
  /\ n_id' = NextId(Unnamed(Len(ids) + 1))
  /\ named' = [p \in DOMAIN named \cup {cur_pts[i] : i \in {j \in DOMAIN ids : ids[j] = -1}} |->
                 IF p \in DOMAIN named THEN named[p]
                 ELSE ids'[CHOOSE i \in DOMAIN cur_pts : cur_pts[i] = p]]
  /\ phase' = IF PUB_THIS_FRAME THEN "publish" ELSE "idle"
  /\ UNCHANGED <<node, init_pub, cur_pts, forw_pts, track_cnt, cur_un_pts, flow, images,
                 tracks, age, session, stream>>

\* The points a message carries have been tracked from the last image.
Tracked == {ids[j] : j \in {i \in DOMAIN ids : track_cnt[i] > 1}}

\* The message is built, and published unless it is the first.
Publish ==
  /\ phase = "publish"
  /\ pub_count' = pub_count + 1
  /\ init_pub' = TRUE
  /\ IF init_pub
       THEN /\ latest' = last_image_time
            /\ shown' = Tracked
            /\ ever' = ever \cup Tracked
       ELSE UNCHANGED stream
  /\ sent' = sent + 1 /\ sent_at' = last_image_time
  /\ phase' = "idle"
  /\ UNCHANGED <<first_image_flag, first_image_time, last_image_time, PUB_THIS_FRAME, points,
                 flow, n_id, images, tracks, named, age, start>>

\* Every image of the bound has been handled.
Finished == phase = "idle" /\ images = MaxImages /\ UNCHANGED vars

Next ==
  \/ \E t \in 1..MaxStamp : FirstImage(t) \/ Discontinuity(t) \/ ContinuousImage(t)
  \/ \E ix \in SetToAllKPermutations(1..MAX_CNT) : OpticalFlow(ix) \/ RejectWithF(ix) \/ SetMask(ix)
  \/ \E n \in 0..MAX_CNT : AddPoints(n)
  \/ UndistortedPoints \/ UpdateID \/ Publish
  \/ Finished

Spec == Init /\ [][Next]_vars

-----------------------------------------------------------------------------
(* Properties *)

Ids    == 0..(MaxTracks - 1)
Stamps == 0..MaxStamp

\* Between images the parallel vectors still describe the same points index by index,
\* although six calls have reduced them, setMask has sorted three of them and addPoints
\* has extended three: there are never more than MAX_CNT, and each point has the one id it
\* was ever given, which no other track was given, and the length of its own track.
VectorsAligned ==
  phase = "idle" =>
    /\ Len(cur_pts) <= MAX_CNT
    /\ Len(ids) = Len(cur_pts) /\ Len(track_cnt) = Len(cur_pts)
    /\ cur_un_pts = cur_pts
    /\ \A i \in DOMAIN cur_pts : /\ ids[i] = named[cur_pts[i]]
                                 /\ track_cnt[i] = age[cur_pts[i]]
    /\ \A p, q \in DOMAIN named : named[p] = named[q] => p = q

\* Velocities have the index of their point although pts_velocity is cleared in one branch
\* of undistortedPoints only, none mixes two tracks although all new points share a key,
\* and a point in its third image or later has one.
VelocitiesMatch ==
  phase \in {"name", "publish", "idle"} =>
    /\ Len(pts_velocity) = Len(cur_pts)
    /\ \A i \in DOMAIN cur_pts :
         /\ pts_velocity[i] \in {Zero, <<cur_pts[i], cur_pts[i]>>}
         /\ track_cnt[i] > 2 => pts_velocity[i] # Zero

\* Since the session began never more than FREQ + 1/2 images a second have been published,
\* whatever the images' stamps and however often the rate's clock has been started anew;
\* yet an image that comes 1/FREQ or more after the last published one is published too:
\* the count that the rate is computed from never runs ahead.
PublicationRate ==
  /\ (phase = "idle" /\ ~first_image_flag)
       => 2 * sent * Hz <= (2 * FREQ + 1) * (last_image_time - start)
  /\ (phase # "idle" /\ ~PUB_THIS_FRAME) => (last_image_time - sent_at) * FREQ < Hz

\* The published stream is what the estimator's FeatureManager relies on when it takes an
\* id it knows for one more observation of the same run of frames: a feature a message
\* leaves out never returns, and stamps do not go back without a restart.
Stream == INSTANCE TrackStream
FeaturesNeverReturn == Stream!Spec
=============================================================================
