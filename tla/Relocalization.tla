--------------------------- MODULE Relocalization ---------------------------
(* One fast relocalization, across both nodes: pubKeyframe gives a keyframe  *)
(* its points, KeyFrame::findConnection matches them with an older keyframe, *)
(* keeps the inliers in parallel vectors and publishes them, and the         *)
(* estimator looks the frame up in its window and adds a factor for every    *)
(* match. A point is known by its landmark's id, an old keypoint by its      *)
(* position; a stamp is a number of nanoseconds.                             *)
EXTENDS Integers, Sequences, FiniteSets

CONSTANTS
  Ids,            \* 1..n, ids of landmarks
  OldKeypoints,   \* 1..n, keypoints of the older keyframe
  MIN_LOOP_NUM,   \* matches there must be more than
  Stamps,         \* stamps of images, in nanoseconds
  Second          \* nanoseconds in a second

VARIABLES
  reloPc,         \* the step the relocalization is at
  stamp,          \* time_stamp of the keyframe
  listed,         \* position of each landmark in f_manager.feature
  matched,        \* the six vectors of findConnection
  status,         \* status: 1 for the entries to keep
  inliers,        \* history: the pairs PnP found consistent
  message,        \* match_points: old keypoint and id of every inlier
  messageStamp,   \* its stamp
  headers,        \* stamps of the frames setReloFrame compares with
  info,           \* relocalization_info
  eligible,       \* landmarks optimization() looks matches up for
  unvisited,      \* those its loop has not come to
  retrive_feature_index,   \* position in match_points, from 1
  factors,        \* residual blocks between a landmark and an old keypoint
  arbitrary       \* landmarks compared with memory past the end of match_points

reloVars == <<reloPc, stamp, listed, matched, status, inliers, message, messageStamp,
              headers, info, eligible, unvisited, retrive_feature_index, factors, arbitrary>>
loopVars == <<eligible, unvisited, retrive_feature_index, factors, arbitrary>>

None == 0
Vectors == {"3d", "cur", "cur_norm", "id", "old", "old_norm"}
OfKeyFrame == {"3d", "cur", "cur_norm", "id"}
Empty == [v \in Vectors |-> <<>>]
\* S in the order of rank: the element at position k has k - 1 of lower rank.
InOrder(S, rank) ==
  [k \in 1..Cardinality(S) |-> CHOOSE x \in S : Cardinality({y \in S : rank[y] < rank[x]}) = k - 1]

ReloInit ==
  /\ reloPc = "keyframe"
  /\ stamp = 0
  /\ listed = [id \in Ids |-> id]
  /\ matched = Empty
  /\ status = <<>>
  /\ inliers = {}
  /\ message = <<>>
  /\ messageStamp = 0
  /\ headers = {}
  /\ info = FALSE
  /\ eligible = {}
  /\ unvisited = {}
  /\ retrive_feature_index = 1
  /\ factors = {}
  /\ arbitrary = {}

\* The orders f_manager.feature can be in. addFeatureCheckParallax appends the new
\* landmarks of an image by ascending id, but removeFailures erases one whose depth came
\* out negative while it is still tracked, and its next observation appends it again,
\* behind greater ids: any order can arise.
Orders == {order \in [Ids -> Ids] : \A i, j \in Ids : order[i] = order[j] => i = j}

\* pubKeyframe publishes the landmarks the frame observes in the order of
\* f_manager.feature; the KeyFrame constructor computes one descriptor for each of them
\* and findConnection copies its four vectors.
NewKeyFrame ==
  /\ reloPc = "keyframe"
  /\ stamp' \in Stamps
  /\ listed' \in Orders
  /\ \E seen \in SUBSET Ids :
       matched' = [v \in Vectors |-> IF v \in OfKeyFrame THEN InOrder(seen, listed') ELSE <<>>]
  /\ reloPc' = "search"
  /\ UNCHANGED <<status, inliers, message, messageStamp, headers, info, loopVars>>

\* reduceVector: the entries whose status is set, in their order.
Reduced(v, s) == LET kept == {i \in DOMAIN v : s[i] = 1}
                     entries == InOrder(kept, [i \in kept |-> i])
                 IN  [k \in DOMAIN entries |-> v[entries[k]]]
\* Mutant: matched_id is not reduced with the other vectors.
ReducedButIds(m, s) == [v \in Vectors |-> IF v = "id" THEN m[v] ELSE Reduced(m[v], s)]
\* The six calls of reduceVector with one status.
AllReduced(m, s) == [v \in Vectors |-> Reduced(m[v], s)]

\* searchByBRIEFDes: an old keypoint for every point, or none when the best
\* descriptor is not close enough (bestDist < 80); two points may share one.
SearchByBRIEFDes ==
  /\ reloPc = "search"
  /\ \E best \in [DOMAIN matched["cur"] -> OldKeypoints \cup {None}] :
       LET found == [i \in DOMAIN best |-> IF best[i] = None THEN 0 ELSE 1]
       IN  matched' = AllReduced([matched EXCEPT !["old"] = best, !["old_norm"] = best], found)
  /\ status' = <<>>
  /\ reloPc' = "pnp"
  /\ UNCHANGED <<stamp, listed, inliers, message, messageStamp, headers, info, loopVars>>

Enough(m) == Len(m["cur"]) > MIN_LOOP_NUM

\* PnPRANSAC on matched_2d_old_norm and matched_3d: a status for each entry,
\* pushed after what status holds; without enough matches it is not called.
PnPRANSAC ==
  /\ reloPc = "pnp"
  /\ IF Enough(matched)
       THEN \E kept \in SUBSET DOMAIN matched["old_norm"] :
              LET flags == [i \in DOMAIN matched["old_norm"] |-> IF i \in kept THEN 1 ELSE 0]
              IN  /\ status' = status \o flags
                  /\ matched' = AllReduced(matched, status')
                  /\ inliers' = {<<matched["3d"][i], matched["old_norm"][i]>> : i \in kept}
       ELSE UNCHANGED <<status, matched, inliers>>
  /\ reloPc' = "connect"
  /\ UNCHANGED <<stamp, listed, message, messageStamp, headers, info, loopVars>>

\* rclcpp::Time takes an integer number of nanoseconds and is given a double of
\* seconds, which loses its fraction: a second becomes a nanosecond.
MessageStamp(time_stamp) == time_stamp \div Second

\* A loop when enough inliers remain and the relative yaw and distance are small,
\* which is an outcome; with FAST_RELOCALIZATION the matches are published.
Connected ==
  /\ reloPc = "connect"
  /\ Enough(matched)
  /\ message' = [i \in DOMAIN matched["old_norm"] |-> <<matched["old_norm"][i], matched["id"][i]>>]
  /\ messageStamp' = MessageStamp(stamp)
  /\ reloPc' = "message"
  /\ UNCHANGED <<stamp, listed, matched, status, inliers, headers, info, loopVars>>

NotConnected ==
  /\ reloPc = "connect"
  /\ reloPc' = "none"
  /\ UNCHANGED <<stamp, listed, matched, status, inliers, message, messageStamp,
                 headers, info, loopVars>>

\* process takes the message and setReloFrame searches its stamp among the frames
\* of the window but the newest, which may have lost the keyframe by then.
SetReloFrame ==
  /\ reloPc = "message"
  /\ headers' \in SUBSET Stamps
  /\ info' = (messageStamp \in headers')
  /\ reloPc' = "optimization"
  /\ UNCHANGED <<stamp, listed, matched, status, inliers, message, messageStamp, loopVars>>

Id(r) == message[r][2]
Old(r) == message[r][1]
\* The while loop over match_points from r on: the first id that is not below
\* the landmark's, or the end of the vector.
Retrieved(r, id) ==
  LET from == {s \in r..Len(message) : Id(s) >= id}
  IN  IF from = {} THEN Len(message) + 1 ELSE CHOOSE s \in from : \A t \in from : s <= t

\* optimization() with a relocalization frame: landmarks observed at least twice
\* that start no later than the frame, some of the keyframe's already gone and
\* others never matched. They were all in the list when the keyframe was published (one
\* that was erased and appended since starts after the frame), and erasing keeps the
\* order of the others.
Optimization ==
  /\ reloPc = "optimization"
  /\ info
  /\ eligible' \in SUBSET Ids
  /\ unvisited' = eligible'
  /\ retrive_feature_index' = 1
  /\ reloPc' = "landmarks"
  /\ UNCHANGED <<stamp, listed, matched, status, inliers, message, messageStamp, headers, info,
                 factors, arbitrary>>

\* One landmark of the loop, which takes them in the order of f_manager.feature: a
\* factor if the id it has come to is the landmark's. A read past the end gives any
\* memory: it can look like a match of that landmark.
VisitLandmark ==
  /\ reloPc = "landmarks"
  /\ \E id \in unvisited :
       /\ \A other \in unvisited : listed[id] <= listed[other]
       /\ unvisited' = unvisited \ {id}
       /\ LET r == Retrieved(retrive_feature_index, id)
          IN  \/ /\ r > Len(message)
                 /\ arbitrary' \in {arbitrary, arbitrary \cup {id}}
                 /\ retrive_feature_index' = r
                 /\ UNCHANGED factors
              \/ /\ r <= Len(message) /\ Id(r) = id
                 /\ factors' = factors \cup {<<id, Old(r)>>}
                 /\ retrive_feature_index' = r + 1
                 /\ UNCHANGED arbitrary
              \/ /\ r <= Len(message) /\ Id(r) # id
                 /\ retrive_feature_index' = r
                 /\ UNCHANGED <<factors, arbitrary>>
  /\ UNCHANGED <<reloPc, stamp, listed, matched, status, inliers, message, messageStamp, headers, info, eligible>>

Optimized ==
  /\ reloPc = "landmarks"
  /\ unvisited = {}
  /\ reloPc' = "done"
  /\ UNCHANGED <<stamp, listed, matched, status, inliers, message, messageStamp, headers, info, loopVars>>

ReloNext ==
  \/ NewKeyFrame \/ SearchByBRIEFDes \/ PnPRANSAC \/ Connected \/ NotConnected
  \/ SetReloFrame \/ Optimization \/ VisitLandmark \/ Optimized

ReloSpec == ReloInit /\ [][ReloNext]_reloVars
-----------------------------------------------------------------------------
\* The landmarks of just one of the two lists, the window's and the message's.
Unpaired == (eligible \ {Id(r) : r \in DOMAIN message}) \cup ({Id(r) : r \in DOMAIN message} \ eligible)
\* One of them with a greater id is in f_manager.feature before the landmark.
Overtaken(id) == \E other \in Unpaired : listed[other] < listed[id] /\ id < other

\* Every inlier of PnP whose landmark the window still holds constrains that
\* landmark with its own old keypoint, and nothing else read from the message
\* does: six vectors are reduced twice, the message pairs two of them, and the
\* estimator finds the matches of its landmarks in one pass (keyframe.cpp:302-307,
\* 410-415, 492-499, estimator.cpp:788-813). The pass compares ids, so a match can be
\* lost where f_manager.feature does not ascend; it is lost only behind a landmark with a
\* greater id that is in one of the two lists and not in the other. What is read
\* past the end is kept apart.
EveryMatchConstrains ==
  reloPc = "done" =>
    /\ factors \subseteq {p \in inliers : p[1] \in eligible}
    /\ \A p \in inliers : p[1] \in eligible /\ p \notin factors => Overtaken(p[1])

\* A relocalization of a frame that is still in the window sets the
\* relocalization frame, as estimator_node.cpp:389 announces.
RelocalizationFrameSet ==
  reloPc = "optimization" /\ stamp \in headers => info
=============================================================================
