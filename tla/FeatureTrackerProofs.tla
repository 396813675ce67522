------------------------ MODULE FeatureTrackerProofs ------------------------
(***************************************************************************)
(* Theorems about FeatureTracker, for every number of points, every rate   *)
(* of publication and every bound on images, stamps and corners.           *)
(***************************************************************************)
EXTENDS FeatureTracker, FiniteSetTheorems, SequenceTheorems, TLAPS

-----------------------------------------------------------------------------
(* The inductive invariant *)

Phases == {"idle", "flow", "reject", "mask", "detect", "undistort", "name", "publish"}

\* The phases between undistortedPoints and the next optical flow.
Joined == phase \in {"name", "publish", "idle", "flow"}

TypeInv ==
  /\ phase \in Phases
  /\ first_image_flag \in BOOLEAN /\ init_pub \in BOOLEAN /\ PUB_THIS_FRAME \in BOOLEAN
  /\ first_image_time \in Stamps /\ last_image_time \in Stamps
  /\ start \in Stamps /\ sent_at \in Stamps /\ latest \in Stamps
  /\ pub_count \in Nat /\ sent \in Nat /\ tracks \in 0..MaxTracks /\ n_id \in 0..tracks
  /\ forw_pts \in Seq(Nat) /\ ids \in Seq(Int) /\ track_cnt \in Seq(Nat)

\* The three vectors that follow the current image have one length, within the limit, and
\* the other two agree with them but between setMask and undistortedPoints.  No point is
\* listed twice.
PointsInv ==
  /\ Len(forw_pts) <= MAX_CNT
  /\ Len(ids) = Len(forw_pts) /\ Len(track_cnt) = Len(forw_pts)
  /\ phase \notin {"detect", "undistort"} => cur_pts = forw_pts /\ cur_un_pts = forw_pts
  /\ \A i \in DOMAIN forw_pts : forw_pts[i] \in 1..tracks
  /\ \A i, j \in DOMAIN forw_pts : forw_pts[i] = forw_pts[j] => i = j

\* track_cnt counts the images of the point at its index.
AgeInv ==
  /\ DOMAIN age \subseteq 1..tracks
  /\ \A i \in DOMAIN forw_pts :
       forw_pts[i] \in DOMAIN age /\ track_cnt[i] = age[forw_pts[i]] /\ track_cnt[i] >= 1

\* An id belongs to the point at its index and to no other; points without one are new.
NamedInv ==
  /\ DOMAIN named \subseteq 1..tracks
  /\ \A p \in DOMAIN named : named[p] \in 0..(n_id - 1)
  /\ \A p, q \in DOMAIN named : named[p] = named[q] => p = q
  /\ \A i \in DOMAIN forw_pts :
       /\ ids[i] = -1 => forw_pts[i] \notin DOMAIN named /\ track_cnt[i] = 1
       /\ ids[i] # -1 => forw_pts[i] \in DOMAIN named /\ named[forw_pts[i]] = ids[i]

\* The points without an id stand at the end, and there are as many corners as ids.
CountInv ==
  /\ phase \notin {"undistort", "name"} => \A i \in DOMAIN ids : ids[i] # -1
  /\ phase \in {"undistort", "name"} =>
       \E m \in 0..Len(ids) : /\ \A i \in DOMAIN ids : ids[i] = -1 <=> i > m
                              /\ n_id + (Len(ids) - m) <= tracks

\* The map leads from an id to its own point, and holds every point seen in two images
\* before the map was made; velocities are left over only if it holds something.
MapInv ==
  /\ \A id \in DOMAIN prev_un_pts_map :
       id # -1 => prev_un_pts_map[id] \in DOMAIN named /\ named[prev_un_pts_map[id]] = id
  /\ DOMAIN prev_un_pts_map = {} => pts_velocity = <<>>
  /\ Joined => \A i \in DOMAIN forw_pts : track_cnt[i] > 1 => ids[i] \in DOMAIN prev_un_pts_map
  /\ ~Joined => \A i \in DOMAIN forw_pts : track_cnt[i] > 2 => ids[i] \in DOMAIN prev_un_pts_map

VelocityInv ==
  Joined =>
    /\ Len(pts_velocity) = Len(forw_pts)
    /\ \A i \in DOMAIN forw_pts :
         /\ pts_velocity[i] \in {Zero, <<forw_pts[i], forw_pts[i]>>}
         /\ track_cnt[i] > 2 => pts_velocity[i] # Zero

\* An image that will be published.
Selected == phase # "idle" /\ PUB_THIS_FRAME

\* Since the rate's clock was started one image less than counted has been published, and
\* the limit has been kept before that, since then, and in all.
Rate(counted, out, at) ==
  /\ 1 <= counted /\ counted <= out + 1
  /\ start <= first_image_time /\ first_image_time <= at /\ at <= last_image_time
  /\ 2 * (out + 1 - counted) * Hz <= (2 * FREQ + 1) * (first_image_time - start)
  /\ 2 * (counted - 1) * Hz <= (2 * FREQ + 1) * (at - first_image_time)
  /\ 2 * out * Hz <= (2 * FREQ + 1) * (last_image_time - start)

RateInv ==
  /\ phase = "publish" => PUB_THIS_FRAME
  /\ first_image_flag => pub_count = 1 /\ phase = "idle"
  /\ ~first_image_flag /\ ~Selected => Rate(pub_count, sent, sent_at)
  /\ ~first_image_flag /\ Selected => Rate(pub_count + 1, sent + 1, last_image_time)
  /\ phase # "idle" /\ ~PUB_THIS_FRAME => (last_image_time - sent_at) * FREQ < Hz

\* A feature that has been published and is still tracked was in the last message.
StreamInv ==
  /\ first_image_flag => latest = 0
  /\ latest <= last_image_time
  /\ ever \subseteq 0..(n_id - 1)
  /\ \A i \in DOMAIN forw_pts : ids[i] \in ever => ids[i] \in shown /\ track_cnt[i] > 1

VectorInv == PointsInv /\ AgeInv /\ NamedInv /\ CountInv
IInv == TypeInv /\ VectorInv /\ MapInv /\ VelocityInv /\ RateInv /\ StreamInv

-----------------------------------------------------------------------------
(* Choices of indices *)

\* A permutation of some of the numbers up to n is a sequence of at most n of them that
\* names none twice.
LEMMA Indices ==
  ASSUME NEW n \in Nat, NEW ix \in SetToAllKPermutations(1..n)
  PROVE  /\ ix \in Seq(1..n)
         /\ Len(ix) <= n
         /\ DOMAIN ix = 1..Len(ix)
         /\ \A k \in DOMAIN ix : ix[k] \in 1..n
         /\ \A k, l \in DOMAIN ix : ix[k] = ix[l] => k = l
<1>1. PICK s \in SUBSET (1..n) : ix \in SetToSeqs(s)
  BY DEF SetToAllKPermutations
<1>2. IsFiniteSet(1..n) /\ Cardinality(1..n) = n
  BY FS_Interval
<1>3. Cardinality(s) \in Nat /\ Cardinality(s) <= n
  <2>1. IsFiniteSet(s) /\ Cardinality(s) <= Cardinality(1..n)
    BY <1>2, FS_Subset
  <2> QED
    BY <1>2, <2>1, FS_CardinalityType
<1>4. /\ ix \in [1..Cardinality(s) -> s]
      /\ \A k, l \in 1..Cardinality(s) : k # l => ix[k] # ix[l]
  BY <1>1 DEF SetToSeqs
<1>5. ix \in [1..Cardinality(s) -> 1..n]
  BY <1>4
<1>6. ix \in Seq(1..n) /\ Len(ix) = Cardinality(s)
  BY <1>3, <1>5
<1> QED
  BY <1>3, <1>4, <1>5, <1>6

\* What is picked from a vector at some indices.
LEMMA PickedAt ==
  ASSUME NEW S, NEW s \in Seq(S), NEW ix \in Seq(1..Len(s))
  PROVE  /\ Picked(s, ix) \in Seq(S)
         /\ Len(Picked(s, ix)) = Len(ix)
         /\ DOMAIN Picked(s, ix) = 1..Len(ix)
         /\ \A k \in 1..Len(ix) : ix[k] \in 1..Len(s) /\ Picked(s, ix)[k] = s[ix[k]]
<1>1. DOMAIN ix = 1..Len(ix) /\ Len(ix) \in Nat
  OBVIOUS
<1>2. \A k \in 1..Len(ix) : ix[k] \in 1..Len(s)
  OBVIOUS
<1>3. \A k \in 1..Len(ix) : s[ix[k]] \in S
  BY <1>2
<1>4. Picked(s, ix) \in [1..Len(ix) -> S]
  BY <1>1, <1>3 DEF Picked
<1> QED
  BY <1>1, <1>2, <1>4 DEF Picked

\* Only what SetToAllKPermutations gives reduces a vector.
LEMMA ReductionsArePermutations ==
  ASSUME NEW n \in Nat
  PROVE  Reductions(n) \subseteq SetToAllKPermutations(1..n)
BY DEF Reductions

-----------------------------------------------------------------------------
(* img_callback *)

\* The node starts in the invariant.
LEMMA Initially == Init => IInv
<1> USE LimitAssumption, CountAssumption
<1> SUFFICES ASSUME Init
             PROVE  IInv
  OBVIOUS
<1>1. TypeInv
  <2>1. 0 \in Stamps /\ 0 \in 0..MaxTracks /\ 0 \in 0..0 /\ "idle" \in Phases
    BY DEF Stamps, Phases
  <2>2. <<>> \in Seq(Nat) /\ <<>> \in Seq(Int)
    OBVIOUS
  <2>3. /\ phase = "idle" /\ first_image_flag = TRUE /\ init_pub = FALSE /\ PUB_THIS_FRAME = FALSE
        /\ first_image_time = 0 /\ last_image_time = 0 /\ start = 0 /\ sent_at = 0 /\ latest = 0
        /\ pub_count = 1 /\ sent = 0 /\ tracks = 0 /\ n_id = 0
        /\ forw_pts = <<>> /\ ids = <<>> /\ track_cnt = <<>>
    BY DEF Init
  <2> QED
    BY <2>1, <2>2, <2>3 DEF TypeInv
<1>2. VectorInv
  BY DEF Init, VectorInv, PointsInv, AgeInv, NamedInv, CountInv, Empty
<1>3. MapInv /\ VelocityInv
  BY DEF Init, MapInv, VelocityInv, Joined, Empty
<1>4. RateInv /\ StreamInv
  BY DEF Init, RateInv, StreamInv, Selected
<1> QED
  BY <1>1, <1>2, <1>3, <1>4 DEF IInv

\* The first image of a session.
LEMMA FirstImageStep ==
  ASSUME IInv, NEW t \in 1..MaxStamp, FirstImage(t)
  PROVE  IInv'
<1> USE LimitAssumption
<1> USE DEF IInv, FirstImage, Receive
<1>1. TypeInv'
  <2>1. t \in Stamps
    BY DEF Stamps
  <2> QED
    BY <2>1 DEF TypeInv, points, stream
<1>2. VectorInv'
  BY DEF VectorInv, PointsInv, AgeInv, NamedInv, CountInv, points
<1>3. MapInv' /\ VelocityInv'
  BY DEF MapInv, VelocityInv, Joined, points, flow
<1>4. RateInv'
  <2>1. pub_count' = 1 /\ phase' = "idle"
    BY DEF RateInv
  <2>2. t \in Nat
    OBVIOUS
  <2>3. Rate(pub_count, sent, sent_at)'
    <3>1. start' = t /\ first_image_time' = t /\ sent_at' = t /\ last_image_time' = t /\ sent' = 0
      OBVIOUS
    <3>2. t - t = 0 /\ 2 * (0 + 1 - 1) = 0
      BY <2>2
    <3>3. (2 * FREQ + 1) * 0 = 0 /\ 0 * Hz = 0
      BY RateAssumption
    <3> QED
      BY <2>1, <2>2, <3>1, <3>2, <3>3, RateAssumption DEF Rate
  <2> QED
    BY <2>1, <2>3 DEF RateInv, Selected
<1>5. StreamInv'
  BY DEF StreamInv, RateInv, TypeInv, Stamps, points, stream
<1> QED
  BY <1>1, <1>2, <1>3, <1>4, <1>5

\* An image that is dropped: the session ends.
LEMMA DiscontinuityStep ==
  ASSUME IInv, NEW t \in 1..MaxStamp, Discontinuity(t)
  PROVE  IInv'
<1> USE LimitAssumption
<1> USE DEF IInv, Discontinuity, Receive
<1>1. TypeInv'
  BY DEF TypeInv, Stamps, points, session
<1>2. VectorInv'
  BY DEF VectorInv, PointsInv, AgeInv, NamedInv, CountInv, points
<1>3. MapInv' /\ VelocityInv'
  BY DEF MapInv, VelocityInv, Joined, points, flow
<1>4. RateInv'
  BY DEF RateInv, Selected
<1>5. StreamInv'
  BY DEF StreamInv, points
<1> QED
  BY <1>1, <1>2, <1>3, <1>4, <1>5

\* The limit is kept up to first and from there on: it is kept in all.
LEMMA RatesAdd ==
  ASSUME NEW a \in Int, NEW b \in Int, NEW d \in Int, NEW x \in Int, NEW y \in Int,
         NEW h \in Nat, NEW f \in Nat,
         2 * x * h <= (2 * f + 1) * (b - a),
         2 * y * h <= (2 * f + 1) * (d - b)
  PROVE  2 * (x + y) * h <= (2 * f + 1) * (d - a)
<1>1. 2 * (x + y) * h = 2 * x * h + 2 * y * h
  OBVIOUS
<1>2. (2 * f + 1) * (d - a) = (2 * f + 1) * (b - a) + (2 * f + 1) * (d - b)
  OBVIOUS
<1>3. /\ 2 * x * h \in Int /\ 2 * y * h \in Int
      /\ (2 * f + 1) * (b - a) \in Int /\ (2 * f + 1) * (d - b) \in Int
  OBVIOUS
<1> QED
  BY <1>1, <1>2, <1>3

\* The limit does not get harder to keep as time goes on.
LEMMA RateLater ==
  ASSUME NEW a \in Int, NEW b \in Int, NEW d \in Int, NEW z \in Int, NEW f \in Nat,
         z <= (2 * f + 1) * (b - a), b <= d
  PROVE  z <= (2 * f + 1) * (d - a)
<1>1. (2 * f + 1) * (d - a) = (2 * f + 1) * (b - a) + (2 * f + 1) * (d - b)
  OBVIOUS
<1>2. d - b \in Nat /\ 2 * f + 1 \in Nat
  OBVIOUS
<1>3. (2 * f + 1) * (d - b) >= 0
  BY <1>2
<1>4. (2 * f + 1) * (b - a) \in Int /\ (2 * f + 1) * (d - b) \in Int
  OBVIOUS
<1> QED
  BY <1>1, <1>3, <1>4

\* An image that the rate keeps from being published comes less than a period after the
\* last one that was.
LEMMA HeldBackBriefly ==
  ASSUME NEW a \in Int, NEW s \in Int, NEW t \in Int, NEW c \in Int,
         NEW h \in Nat \ {0}, NEW f \in Nat \ {0},
         a <= s, s <= t,
         2 * (c - 1) * h <= (2 * f + 1) * (s - a),
         ~ (t - a > 0 /\ 2 * c * h < (2 * f + 1) * (t - a))
  PROVE  (t - s) * f < h
<1>1. CASE t = s
  <2>1. t - s = 0 /\ 0 * f = 0
    BY <1>1
  <2> QED
    BY <2>1
<1>2. CASE t > s
  <2>1. (2 * f + 1) * (t - a) <= 2 * c * h
    <3>1. t - a > 0
      BY <1>2
    <3>2. 2 * c * h \in Int /\ (2 * f + 1) * (t - a) \in Int
      OBVIOUS
    <3> QED
      BY <3>1, <3>2
  <2>2. 2 * c * h = 2 * (c - 1) * h + 2 * h
    OBVIOUS
  <2>3. (2 * f + 1) * (t - a) = (2 * f + 1) * (s - a) + (2 * f + 1) * (t - s)
    OBVIOUS
  <2>4. (2 * f + 1) * (t - s) = 2 * ((t - s) * f) + (t - s)
    OBVIOUS
  <2>5. /\ 2 * (c - 1) * h \in Int /\ (2 * f + 1) * (s - a) \in Int
        /\ (2 * f + 1) * (t - s) \in Int /\ (t - s) * f \in Int /\ 2 * h \in Int
    OBVIOUS
  <2>6. (2 * f + 1) * (t - s) <= 2 * h
    BY <2>1, <2>2, <2>3, <2>5
  <2> QED
    BY <1>2, <2>4, <2>5, <2>6
<1> QED
  BY <1>1, <1>2

\* A usable image: whether it will be published.
LEMMA ContinuousImageStep ==
  ASSUME IInv, NEW t \in 1..MaxStamp, ContinuousImage(t)
  PROVE  IInv'
<1> USE LimitAssumption
<1>0. t \in Nat /\ t \in Stamps
  BY DEF Stamps
<1>1. TypeInv'
  <2>1. /\ TypeInv /\ phase' = "flow" /\ last_image_time' = t /\ PUB_THIS_FRAME' = WithinRate(t)
        /\ \/ first_image_time' = t /\ pub_count' = 0
           \/ UNCHANGED <<first_image_time, pub_count>>
        /\ UNCHANGED <<first_image_flag, init_pub, points, flow, n_id, tracks, session, stream>>
    BY DEF IInv, ContinuousImage
  <2>2. WithinRate(t) \in BOOLEAN
    BY DEF WithinRate
  <2>3. "flow" \in Phases /\ 0 \in Nat
    BY DEF Phases
  <2>4. first_image_time' \in Stamps /\ pub_count' \in Nat
    BY <1>0, <2>1, <2>3 DEF TypeInv
  <2> QED
    BY <1>0, <2>1, <2>2, <2>3, <2>4 DEF TypeInv, points, session, stream
<1>2. phase = "idle" /\ phase' = "flow"
  BY DEF ContinuousImage, Receive
<1>3. VectorInv'
  BY <1>2 DEF IInv, ContinuousImage, VectorInv, PointsInv, AgeInv, NamedInv, CountInv, points
<1>4. MapInv' /\ VelocityInv'
  BY <1>2 DEF IInv, ContinuousImage, MapInv, VelocityInv, Joined, points, flow
<1>5. RateInv'
  <2>1. /\ ~first_image_flag /\ ~first_image_flag' /\ last_image_time <= t
        /\ last_image_time' = t /\ start' = start /\ sent' = sent /\ sent_at' = sent_at
        /\ PUB_THIS_FRAME' = WithinRate(t)
    BY <1>0 DEF ContinuousImage, Discontinuous, session, IInv, TypeInv, Stamps
  <2>2. Rate(pub_count, sent, sent_at)
    BY <1>2, <2>1 DEF IInv, RateInv, Selected
  <2>3. /\ first_image_time \in Nat /\ start \in Nat /\ sent_at \in Nat /\ last_image_time \in Nat
        /\ pub_count \in Nat /\ sent \in Nat /\ Hz \in Nat \ {0} /\ FREQ \in Nat \ {0}
    BY RateAssumption DEF IInv, TypeInv, Stamps
  <2>4. /\ 1 <= pub_count /\ pub_count <= sent + 1
        /\ start <= first_image_time /\ first_image_time <= sent_at /\ sent_at <= last_image_time
    BY <2>2 DEF Rate
  <2>5. /\ 2 * (sent + 1 - pub_count) * Hz <= (2 * FREQ + 1) * (first_image_time - start)
        /\ 2 * (pub_count - 1) * Hz <= (2 * FREQ + 1) * (sent_at - first_image_time)
        /\ 2 * sent * Hz <= (2 * FREQ + 1) * (last_image_time - start)
    BY <2>2 DEF Rate
  <2>6. CASE WithinRate(t)
    <3>1. t - first_image_time > 0 /\ 2 * pub_count * Hz < (2 * FREQ + 1) * (t - first_image_time)
      BY <2>6 DEF WithinRate
    <3>2. 2 * pub_count * Hz <= (2 * FREQ + 1) * (t - first_image_time)
      <4>1. 2 * pub_count * Hz \in Int /\ (2 * FREQ + 1) * (t - first_image_time) \in Int
        BY <1>0, <2>3
      <4> QED
        BY <3>1, <4>1
    <3>3. 2 * (sent + 1) * Hz <= (2 * FREQ + 1) * (t - start)
      <4>1. sent + 1 - pub_count \in Int /\ (sent + 1 - pub_count) + pub_count = sent + 1
        BY <2>3
      <4> DEFINE x == sent + 1 - pub_count
      <4>2. x \in Int /\ 2 * x * Hz <= (2 * FREQ + 1) * (first_image_time - start)
        BY <2>5, <4>1
      <4>3. x + pub_count = sent + 1
        BY <4>1
      <4> HIDE DEF x
      <4>4. 2 * (x + pub_count) * Hz <= (2 * FREQ + 1) * (t - start)
        BY <1>0, <2>3, <3>2, <4>2, RatesAdd
      <4> QED
        BY <4>3, <4>4
    <3>4. CASE RateMet(t)
      <4>1. first_image_time' = t /\ pub_count' = 0
        BY <2>6, <3>4 DEF ContinuousImage
      <4>2. 2 * (0 + 1 - 1) * Hz = 0 /\ (2 * FREQ + 1) * (t - t) = 0
        BY <1>0, <2>3
      <4>3. (sent + 1) + 1 - (0 + 1) = sent + 1
        BY <2>3
      <4>4. start <= t
        BY <1>0, <2>1, <2>3, <2>4
      <4>5. Rate(pub_count + 1, sent + 1, last_image_time)'
        <5>1. 1 <= 0 + 1 /\ 0 + 1 <= sent + 1 + 1 /\ t <= t
          BY <1>0, <2>3
        <5> QED
          BY <2>1, <3>3, <4>1, <4>2, <4>3, <4>4, <5>1 DEF Rate
      <4> QED
        BY <1>2, <2>1, <2>6, <4>5 DEF RateInv, Selected
    <3>5. CASE ~RateMet(t)
      <4>1. first_image_time' = first_image_time /\ pub_count' = pub_count
        BY <3>5 DEF ContinuousImage
      <4>2. pub_count + 1 - 1 = pub_count /\ (sent + 1) + 1 - (pub_count + 1) = sent + 1 - pub_count
        BY <2>3
      <4>3. first_image_time <= t
        BY <1>0, <2>1, <2>3, <2>4
      <4>4. Rate(pub_count + 1, sent + 1, last_image_time)'
        <5>1. 1 <= pub_count + 1 /\ pub_count + 1 <= sent + 1 + 1 /\ t <= t
          BY <1>0, <2>3, <2>4
        <5>2. 2 * (pub_count + 1 - 1) * Hz <= (2 * FREQ + 1) * (t - first_image_time)
          BY <3>2, <4>2
        <5>3. 2 * ((sent + 1) + 1 - (pub_count + 1)) * Hz <= (2 * FREQ + 1) * (first_image_time - start)
          BY <2>5, <4>2
        <5>4. start <= first_image_time
          BY <2>4
        <5>5. /\ start' = start /\ sent' = sent /\ last_image_time' = t
              /\ first_image_time' = first_image_time /\ pub_count' = pub_count
          BY <2>1, <4>1
        <5>6. 1 <= pub_count' + 1 /\ pub_count' + 1 <= (sent' + 1) + 1
          BY <5>1, <5>5
        <5>7. /\ start' <= first_image_time' /\ first_image_time' <= last_image_time'
              /\ last_image_time' <= last_image_time'
          BY <4>3, <5>1, <5>4, <5>5
        <5>8. 2 * ((sent' + 1) + 1 - (pub_count' + 1)) * Hz <= (2 * FREQ + 1) * (first_image_time' - start')
          BY <5>3, <5>5
        <5>9. 2 * ((pub_count' + 1) - 1) * Hz <= (2 * FREQ + 1) * (last_image_time' - first_image_time')
          <6>1. (pub_count' + 1) - 1 = pub_count' /\ pub_count' = pub_count
            BY <2>3, <5>5
          <6>2. 2 * pub_count * Hz <= (2 * FREQ + 1) * (last_image_time' - first_image_time')
            BY <3>2, <5>5
          <6> QED
            BY <6>1, <6>2
        <5>10. 2 * (sent' + 1) * Hz <= (2 * FREQ + 1) * (last_image_time' - start')
          BY <3>3, <5>5
        <5> QED
          BY <5>6, <5>7, <5>8, <5>9, <5>10 DEF Rate
      <4> QED
        BY <1>2, <2>1, <2>6, <4>4 DEF RateInv, Selected
    <3> QED
      BY <3>4, <3>5
  <2>7. CASE ~WithinRate(t)
    <3>1. first_image_time' = first_image_time /\ pub_count' = pub_count
      BY <2>7 DEF ContinuousImage
    <3>2. (t - sent_at) * FREQ < Hz
      <4>1. ~ (t - first_image_time > 0 /\ 2 * pub_count * Hz < (2 * FREQ + 1) * (t - first_image_time))
        BY <2>7 DEF WithinRate
      <4>2. sent_at <= t
        BY <1>0, <2>1, <2>3, <2>4
      <4> QED
        BY <1>0, <2>3, <2>4, <2>5, <4>1, <4>2, HeldBackBriefly
    <3>3. 2 * sent * Hz <= (2 * FREQ + 1) * (t - start)
      <4>1. 2 * sent * Hz \in Int
        BY <2>3
      <4> QED
        BY <1>0, <2>1, <2>3, <2>5, <4>1, RateLater
    <3>4. Rate(pub_count, sent, sent_at)'
      <4>1. sent_at <= t
        BY <1>0, <2>1, <2>3, <2>4
      <4> QED
        BY <2>1, <2>4, <2>5, <3>1, <3>3, <4>1 DEF Rate
    <3> QED
      BY <1>2, <2>1, <2>7, <3>2, <3>4 DEF RateInv, Selected
  <2> QED
    BY <2>6, <2>7
<1>6. StreamInv'
  <2>1. last_image_time <= t /\ latest <= last_image_time /\ latest \in Nat /\ last_image_time \in Nat
    BY <1>0 DEF ContinuousImage, Discontinuous, IInv, StreamInv, TypeInv, Stamps
  <2>2. latest <= t
    BY <1>0, <2>1
  <2> QED
    BY <2>2 DEF IInv, StreamInv, ContinuousImage, points, stream
<1> QED
  BY <1>1, <1>3, <1>4, <1>5, <1>6 DEF IInv

-----------------------------------------------------------------------------
(* readImage: what reduces and reorders the vectors *)

\* Points and ids picked at the same indices: the same points under the same ids.
LEMMA PickedTogether ==
  ASSUME TypeInv, PointsInv, NEW ix \in SetToAllKPermutations(1..Len(forw_pts)),
         forw_pts' = Picked(forw_pts, ix), ids' = Picked(ids, ix)
  PROVE  /\ Len(ix) \in Nat /\ Len(ix) <= MAX_CNT /\ DOMAIN ix = 1..Len(ix)
         /\ forw_pts' \in Seq(Nat) /\ Len(forw_pts') = Len(ix) /\ DOMAIN forw_pts' = 1..Len(ix)
         /\ ids' \in Seq(Int) /\ Len(ids') = Len(ix) /\ DOMAIN ids' = 1..Len(ix)
         /\ \A k \in 1..Len(ix) : /\ ix[k] \in DOMAIN forw_pts /\ ix[k] \in DOMAIN ids
                                  /\ forw_pts'[k] = forw_pts[ix[k]]
                                  /\ ids'[k] = ids[ix[k]]
         /\ \A i, j \in DOMAIN forw_pts' : forw_pts'[i] = forw_pts'[j] => i = j
<1>1. /\ forw_pts \in Seq(Nat) /\ ids \in Seq(Int) /\ Len(ids) = Len(forw_pts)
      /\ Len(forw_pts) \in Nat /\ Len(forw_pts) <= MAX_CNT /\ MAX_CNT \in Nat
      /\ DOMAIN forw_pts = 1..Len(forw_pts) /\ DOMAIN ids = 1..Len(forw_pts)
  BY CountAssumption DEF TypeInv, PointsInv
<1>2. /\ ix \in Seq(1..Len(forw_pts)) /\ Len(ix) <= Len(forw_pts) /\ Len(ix) \in Nat
      /\ DOMAIN ix = 1..Len(ix)
      /\ \A k, l \in DOMAIN ix : ix[k] = ix[l] => k = l
  BY <1>1, Indices
<1>3. /\ forw_pts' \in Seq(Nat) /\ Len(forw_pts') = Len(ix) /\ DOMAIN forw_pts' = 1..Len(ix)
      /\ \A k \in 1..Len(ix) : ix[k] \in 1..Len(forw_pts) /\ forw_pts'[k] = forw_pts[ix[k]]
  <2>1. /\ Picked(forw_pts, ix) \in Seq(Nat) /\ Len(Picked(forw_pts, ix)) = Len(ix)
        /\ DOMAIN Picked(forw_pts, ix) = 1..Len(ix)
        /\ \A k \in 1..Len(ix) : ix[k] \in 1..Len(forw_pts) /\ Picked(forw_pts, ix)[k] = forw_pts[ix[k]]
    <3>1. forw_pts \in Seq(Nat) /\ ix \in Seq(1..Len(forw_pts))
      BY <1>1, <1>2
    <3> QED
      BY SMTT(30), <3>1, PickedAt
  <2> QED
    BY <2>1
<1>4. /\ ids' \in Seq(Int) /\ Len(ids') = Len(ix) /\ DOMAIN ids' = 1..Len(ix)
      /\ \A k \in 1..Len(ix) : ids'[k] = ids[ix[k]]
  <2>1. ix \in Seq(1..Len(ids))
    BY <1>1, <1>2
  <2>2. /\ Picked(ids, ix) \in Seq(Int) /\ Len(Picked(ids, ix)) = Len(ix)
        /\ DOMAIN Picked(ids, ix) = 1..Len(ix)
        /\ \A k \in 1..Len(ix) : Picked(ids, ix)[k] = ids[ix[k]]
    BY SMTT(60), <1>1, <2>1, PickedAt
  <2> QED
    BY <2>2
<1>5. Len(ix) <= MAX_CNT
  BY <1>1, <1>2
<1>6. \A i, j \in DOMAIN forw_pts' : forw_pts'[i] = forw_pts'[j] => i = j
  <2> SUFFICES ASSUME NEW i \in 1..Len(ix), NEW j \in 1..Len(ix), forw_pts'[i] = forw_pts'[j]
               PROVE  i = j
    BY <1>3
  <2>1. /\ forw_pts[ix[i]] = forw_pts[ix[j]]
        /\ ix[i] \in DOMAIN forw_pts /\ ix[j] \in DOMAIN forw_pts
    BY <1>1, <1>3
  <2>2. ix[i] = ix[j]
    BY <2>1 DEF PointsInv
  <2> QED
    BY <1>2, <2>2
<1> QED
  BY <1>1, <1>2, <1>3, <1>4, <1>5, <1>6

\* calcOpticalFlowPyrLK and what it loses.
LEMMA OpticalFlowStep ==
  ASSUME IInv, NEW ix, OpticalFlow(ix)
  PROVE  IInv'
<1>1. /\ TypeInv /\ PointsInv /\ AgeInv /\ NamedInv /\ CountInv
      /\ MapInv /\ VelocityInv /\ RateInv /\ StreamInv
  BY DEF IInv, VectorInv
<1>2. phase = "flow" /\ phase' \in {"reject", "undistort"}
  BY DEF OpticalFlow
<1>3. cur_pts = forw_pts /\ cur_un_pts = forw_pts
  BY <1>1, <1>2 DEF PointsInv
<1>4. forw_pts \in Seq(Nat) /\ ids \in Seq(Int) /\ track_cnt \in Seq(Nat)
  BY <1>1 DEF TypeInv
<1>5. ix \in SetToAllKPermutations(1..Len(forw_pts))
  BY <1>3, <1>4, ReductionsArePermutations DEF OpticalFlow
<1>6. /\ forw_pts' = Picked(forw_pts, ix) /\ ids' = Picked(ids, ix)
      /\ cur_pts' = forw_pts' /\ cur_un_pts' = forw_pts'
      /\ track_cnt' = [k \in DOMAIN ix |-> track_cnt[ix[k]] + 1]
      /\ age' = [p \in ToSet(forw_pts') |-> age[p] + 1]
  BY <1>3 DEF OpticalFlow
<1>7. /\ Len(ix) \in Nat /\ Len(ix) <= MAX_CNT /\ DOMAIN ix = 1..Len(ix)
      /\ forw_pts' \in Seq(Nat) /\ Len(forw_pts') = Len(ix) /\ DOMAIN forw_pts' = 1..Len(ix)
      /\ ids' \in Seq(Int) /\ Len(ids') = Len(ix) /\ DOMAIN ids' = 1..Len(ix)
      /\ \A k \in 1..Len(ix) : /\ ix[k] \in DOMAIN forw_pts /\ ix[k] \in DOMAIN ids
                               /\ forw_pts'[k] = forw_pts[ix[k]]
                               /\ ids'[k] = ids[ix[k]]
      /\ \A i, j \in DOMAIN forw_pts' : forw_pts'[i] = forw_pts'[j] => i = j
  BY <1>1, <1>5, <1>6, PickedTogether
<1>8. \A k \in 1..Len(ix) : track_cnt[ix[k]] \in Nat /\ track_cnt[ix[k]] >= 1
  <2> SUFFICES ASSUME NEW k \in 1..Len(ix)
               PROVE  track_cnt[ix[k]] \in Nat /\ track_cnt[ix[k]] >= 1
    OBVIOUS
  <2>1. ix[k] \in DOMAIN forw_pts /\ DOMAIN forw_pts = DOMAIN track_cnt
    BY <1>1, <1>4, <1>7 DEF PointsInv
  <2>2. track_cnt[ix[k]] \in Nat
    BY <1>4, <2>1
  <2> QED
    BY <1>1, <2>1, <2>2 DEF AgeInv
<1>9. /\ track_cnt' \in Seq(Nat) /\ Len(track_cnt') = Len(ix)
      /\ \A k \in 1..Len(ix) : track_cnt'[k] = track_cnt[ix[k]] + 1
  <2>1. track_cnt' \in [1..Len(ix) -> Nat]
    BY <1>6, <1>7, <1>8
  <2> QED
    BY <1>6, <1>7, <2>1
<1>10. TypeInv'
  <2>1. phase' \in Phases
    BY <1>2 DEF Phases
  <2> QED
    BY <1>1, <1>7, <1>9, <2>1 DEF TypeInv, OpticalFlow, node, session, stream
<1>11. tracks' = tracks /\ n_id' = n_id /\ named' = named /\ prev_un_pts_map' = prev_un_pts_map
       /\ pts_velocity' = pts_velocity
  BY DEF OpticalFlow, flow
<1>12. PointsInv'
  <2>1. \A k \in 1..Len(ix) : forw_pts'[k] \in 1..tracks
    BY <1>1, <1>7 DEF PointsInv
  <2> QED
    BY <1>6, <1>7, <1>9, <1>11, <2>1 DEF PointsInv
<1>13. AgeInv'
  <2>1. ToSet(forw_pts') = {forw_pts'[k] : k \in 1..Len(ix)}
    BY <1>7 DEF ToSet
  <2>2. DOMAIN age' = ToSet(forw_pts')
    BY <1>6
  <2>3. DOMAIN age' \subseteq 1..tracks
    BY <1>1, <1>7, <2>1, <2>2 DEF PointsInv
  <2>4. \A k \in 1..Len(ix) :
          forw_pts'[k] \in DOMAIN age' /\ track_cnt'[k] = age'[forw_pts'[k]] /\ track_cnt'[k] >= 1
    <3> SUFFICES ASSUME NEW k \in 1..Len(ix)
                 PROVE  /\ forw_pts'[k] \in DOMAIN age'
                        /\ track_cnt'[k] = age'[forw_pts'[k]] /\ track_cnt'[k] >= 1
      OBVIOUS
    <3>1. forw_pts'[k] \in ToSet(forw_pts')
      BY <2>1
    <3>2. age'[forw_pts'[k]] = age[forw_pts'[k]] + 1
      BY <1>6, <3>1
    <3>3. age[forw_pts[ix[k]]] = track_cnt[ix[k]]
      BY <1>1, <1>7 DEF AgeInv
    <3> QED
      BY SMTT(30), <1>7, <1>8, <1>9, <2>2, <3>1, <3>2, <3>3
  <2> QED
    BY <1>7, <1>11, <2>3, <2>4 DEF AgeInv
<1>14. \A k \in 1..Len(ix) : ids'[k] # -1
  BY <1>1, <1>2, <1>7 DEF CountInv
<1>15. NamedInv'
  <2>1. \A k \in 1..Len(ix) : forw_pts'[k] \in DOMAIN named /\ named[forw_pts'[k]] = ids'[k]
    BY <1>1, <1>7, <1>14 DEF NamedInv
  <2> QED
    BY <1>1, <1>7, <1>11, <1>14, <2>1 DEF NamedInv
<1>16. CountInv'
  <2>1. n_id' + (Len(ids') - Len(ids')) <= tracks'
    BY <1>1, <1>7, <1>11 DEF TypeInv
  <2>2. \A i \in DOMAIN ids' : ids'[i] = -1 <=> i > Len(ids')
    BY <1>7, <1>14
  <2>3. Len(ids') \in 0..Len(ids')
    BY <1>7
  <2> QED
    BY <1>7, <1>14, <2>1, <2>2, <2>3 DEF CountInv
<1>17. MapInv' /\ VelocityInv'
  <2>1. ~Joined' /\ Joined
    BY <1>2 DEF Joined
  <2>2. \A k \in 1..Len(ix) : track_cnt'[k] > 2 => ids'[k] \in DOMAIN prev_un_pts_map
    <3> SUFFICES ASSUME NEW k \in 1..Len(ix), track_cnt'[k] > 2
                 PROVE  ids'[k] \in DOMAIN prev_un_pts_map
      OBVIOUS
    <3>1. track_cnt[ix[k]] > 1
      BY <1>8, <1>9
    <3> QED
      BY <1>1, <1>7, <2>1, <3>1 DEF MapInv
  <2> QED
    BY <1>1, <1>7, <1>11, <2>1, <2>2 DEF MapInv, VelocityInv
<1>18. RateInv'
  BY <1>1, <1>2 DEF RateInv, Rate, Selected, OpticalFlow, node, session
<1>19. StreamInv'
  <2>1. \A k \in 1..Len(ix) : ids'[k] \in ever => ids'[k] \in shown /\ track_cnt'[k] > 1
    <3> SUFFICES ASSUME NEW k \in 1..Len(ix), ids'[k] \in ever
                 PROVE  ids'[k] \in shown /\ track_cnt'[k] > 1
      OBVIOUS
    <3>1. ids[ix[k]] \in shown
      BY <1>1, <1>7 DEF StreamInv
    <3>2. track_cnt'[k] > 1
      BY <1>8, <1>9
    <3> QED
      BY <1>7, <3>1, <3>2
  <2>2. UNCHANGED stream /\ UNCHANGED node
    BY DEF OpticalFlow
  <2> QED
    BY <1>1, <1>7, <1>11, <2>1, <2>2 DEF StreamInv, stream, node
<1> QED
  BY <1>10, <1>12, <1>13, <1>15, <1>16, <1>17, <1>18, <1>19 DEF IInv, VectorInv

\* What rejectWithF and setMask have in common: points, ids and lengths are picked at the
\* same indices.
LEMMA PickingStep ==
  ASSUME IInv, NEW ix \in SetToAllKPermutations(1..Len(forw_pts)),
         forw_pts' = Picked(forw_pts, ix), ids' = Picked(ids, ix),
         track_cnt' = Picked(track_cnt, ix),
         phase \in {"reject", "mask"}, phase' \in {"mask", "detect"},
         phase' = "mask" => cur_pts' = forw_pts' /\ cur_un_pts' = forw_pts',
         UNCHANGED <<node, init_pub, flow, n_id, tracks, named, age, session, stream>>
  PROVE  IInv'
<1>1. /\ TypeInv /\ PointsInv /\ AgeInv /\ NamedInv /\ CountInv
      /\ MapInv /\ VelocityInv /\ RateInv /\ StreamInv
  BY DEF IInv, VectorInv
<1>2. forw_pts \in Seq(Nat) /\ ids \in Seq(Int) /\ track_cnt \in Seq(Nat)
  BY <1>1 DEF TypeInv
<1>3. /\ Len(ix) \in Nat /\ Len(ix) <= MAX_CNT /\ DOMAIN ix = 1..Len(ix)
      /\ forw_pts' \in Seq(Nat) /\ Len(forw_pts') = Len(ix) /\ DOMAIN forw_pts' = 1..Len(ix)
      /\ ids' \in Seq(Int) /\ Len(ids') = Len(ix) /\ DOMAIN ids' = 1..Len(ix)
      /\ \A k \in 1..Len(ix) : /\ ix[k] \in DOMAIN forw_pts /\ ix[k] \in DOMAIN ids
                               /\ forw_pts'[k] = forw_pts[ix[k]]
                               /\ ids'[k] = ids[ix[k]]
      /\ \A i, j \in DOMAIN forw_pts' : forw_pts'[i] = forw_pts'[j] => i = j
  BY <1>1, PickedTogether
<1>4. /\ track_cnt' \in Seq(Nat) /\ Len(track_cnt') = Len(ix)
      /\ \A k \in 1..Len(ix) : track_cnt'[k] = track_cnt[ix[k]]
  <2>1. Len(track_cnt) = Len(forw_pts) /\ Len(forw_pts) \in Nat
    BY <1>1, <1>2 DEF PointsInv
  <2>2. ix \in Seq(1..Len(track_cnt))
    BY <2>1, Indices
  <2>3. /\ Picked(track_cnt, ix) \in Seq(Nat) /\ Len(Picked(track_cnt, ix)) = Len(ix)
        /\ \A k \in 1..Len(ix) : Picked(track_cnt, ix)[k] = track_cnt[ix[k]]
    BY SMTT(30), <1>2, <2>2, PickedAt
  <2> QED
    BY <2>3
<1>5. /\ tracks' = tracks /\ n_id' = n_id /\ named' = named /\ age' = age
      /\ prev_un_pts_map' = prev_un_pts_map /\ pts_velocity' = pts_velocity
      /\ latest' = latest /\ shown' = shown /\ ever' = ever
      /\ first_image_flag' = first_image_flag /\ last_image_time' = last_image_time
  BY DEF flow, stream, node
<1>6. TypeInv'
  <2>1. phase' \in Phases
    BY DEF Phases
  <2> QED
    BY <1>1, <1>3, <1>4, <2>1 DEF TypeInv, node, session, stream
<1>7. PointsInv'
  <2>1. \A k \in 1..Len(ix) : forw_pts'[k] \in 1..tracks
    BY <1>1, <1>3 DEF PointsInv
  <2> QED
    BY <1>3, <1>4, <1>5, <2>1 DEF PointsInv
<1>8. AgeInv'
  <2>1. \A k \in 1..Len(ix) :
          forw_pts'[k] \in DOMAIN age /\ track_cnt'[k] = age[forw_pts'[k]] /\ track_cnt'[k] >= 1
    <3> SUFFICES ASSUME NEW k \in 1..Len(ix)
                 PROVE  /\ forw_pts'[k] \in DOMAIN age
                        /\ track_cnt'[k] = age[forw_pts'[k]] /\ track_cnt'[k] >= 1
      OBVIOUS
    <3>1. ix[k] \in DOMAIN forw_pts /\ forw_pts'[k] = forw_pts[ix[k]] /\ track_cnt'[k] = track_cnt[ix[k]]
      BY <1>3, <1>4
    <3> QED
      BY <1>1, <3>1 DEF AgeInv
  <2> QED
    BY <1>1, <1>3, <1>5, <2>1 DEF AgeInv
<1>9. \A k \in 1..Len(ix) : ids'[k] # -1
  BY <1>1, <1>3 DEF CountInv
<1>10. NamedInv'
  <2>1. \A k \in 1..Len(ix) : forw_pts'[k] \in DOMAIN named /\ named[forw_pts'[k]] = ids'[k]
    BY <1>1, <1>3, <1>9 DEF NamedInv
  <2> QED
    BY <1>1, <1>3, <1>5, <1>9, <2>1 DEF NamedInv
<1>11. CountInv'
  BY <1>3, <1>9 DEF CountInv
<1>12. MapInv' /\ VelocityInv'
  <2>1. ~Joined' /\ ~Joined
    BY DEF Joined
  <2>2. \A k \in 1..Len(ix) : track_cnt'[k] > 2 => ids'[k] \in DOMAIN prev_un_pts_map
    BY <1>1, <1>3, <1>4, <2>1 DEF MapInv
  <2> QED
    BY <1>1, <1>3, <1>5, <2>1, <2>2 DEF MapInv, VelocityInv
<1>13. RateInv'
  BY <1>1 DEF RateInv, Rate, Selected, node, session
<1>14. StreamInv'
  <2>1. \A k \in 1..Len(ix) : ids'[k] \in ever => ids'[k] \in shown /\ track_cnt'[k] > 1
    BY <1>1, <1>3, <1>4 DEF StreamInv
  <2> QED
    BY <1>1, <1>3, <1>5, <2>1 DEF StreamInv
<1> QED
  BY <1>6, <1>7, <1>8, <1>10, <1>11, <1>12, <1>13, <1>14 DEF IInv, VectorInv

\* rejectWithF.
LEMMA RejectWithFStep ==
  ASSUME IInv, NEW ix, RejectWithF(ix)
  PROVE  IInv'
<1>1. cur_pts = forw_pts /\ cur_un_pts = forw_pts
  BY DEF IInv, VectorInv, PointsInv, RejectWithF
<1>2. Len(forw_pts) \in Nat
  BY DEF IInv, TypeInv
<1>3. ix \in SetToAllKPermutations(1..Len(forw_pts))
  BY <1>2, ReductionsArePermutations DEF RejectWithF
<1>4. /\ forw_pts' = Picked(forw_pts, ix) /\ ids' = Picked(ids, ix)
      /\ track_cnt' = Picked(track_cnt, ix)
      /\ phase = "reject" /\ phase' = "mask" /\ cur_pts' = forw_pts' /\ cur_un_pts' = forw_pts'
      /\ UNCHANGED <<node, init_pub, flow, n_id, tracks, named, age, session, stream>>
  BY <1>1 DEF RejectWithF
<1> QED
  BY <1>3, <1>4, PickingStep

\* setMask.
LEMMA SetMaskStep ==
  ASSUME IInv, NEW ix, SetMask(ix)
  PROVE  IInv'
<1>1. /\ ix \in SetToAllKPermutations(1..Len(forw_pts))
      /\ forw_pts' = Picked(forw_pts, ix) /\ ids' = Picked(ids, ix)
      /\ track_cnt' = Picked(track_cnt, ix)
      /\ phase = "mask" /\ phase' = "detect"
      /\ UNCHANGED <<node, init_pub, flow, n_id, tracks, named, age, session, stream>>
  BY DEF SetMask, Masked
<1> QED
  BY <1>1, PickingStep

-----------------------------------------------------------------------------
(* readImage: what extends the vectors and computes the velocities *)

\* goodFeaturesToTrack and addPoints.
LEMMA AddPointsStep ==
  ASSUME IInv, NEW n \in 0..MAX_CNT, AddPoints(n)
  PROVE  IInv'
<1> USE CountAssumption, LimitAssumption
<1>1. /\ TypeInv /\ PointsInv /\ AgeInv /\ NamedInv /\ CountInv
      /\ MapInv /\ VelocityInv /\ RateInv /\ StreamInv
  BY DEF IInv, VectorInv
<1>2. /\ forw_pts \in Seq(Nat) /\ ids \in Seq(Int) /\ track_cnt \in Seq(Nat)
      /\ tracks \in Nat /\ n_id \in 0..tracks /\ n \in Nat
  BY <1>1 DEF TypeInv
<1> DEFINE len == Len(forw_pts)
           corners == [k \in 1..n |-> tracks + k]
           unnamed == [k \in 1..n |-> -1]
           ones == [k \in 1..n |-> 1]
<1>3. /\ phase = "detect" /\ phase' = "undistort" /\ n <= MAX_CNT - len
      /\ tracks + n <= MaxTracks /\ tracks' = tracks + n
      /\ forw_pts' = forw_pts \o corners /\ ids' = ids \o unnamed /\ track_cnt' = track_cnt \o ones
      /\ age' = [p \in DOMAIN age \cup ToSet(corners) |-> IF p \in DOMAIN age THEN age[p] ELSE 1]
      /\ UNCHANGED <<node, init_pub, cur_pts, cur_un_pts, flow, n_id, named, session, stream>>
  BY DEF AddPoints, Room
<1>4. /\ len \in Nat /\ Len(ids) = len /\ Len(track_cnt) = len
      /\ DOMAIN forw_pts = 1..len /\ DOMAIN ids = 1..len /\ DOMAIN track_cnt = 1..len
  BY <1>1, <1>2 DEF PointsInv
<1>5. /\ corners \in Seq(Nat) /\ Len(corners) = n /\ DOMAIN corners = 1..n
      /\ unnamed \in Seq(Int) /\ Len(unnamed) = n
      /\ ones \in Seq(Nat) /\ Len(ones) = n
  <2>1. corners \in [1..n -> Nat] /\ unnamed \in [1..n -> Int] /\ ones \in [1..n -> Nat]
    BY <1>2
  <2> QED
    BY <1>2, <2>1
<1>6. ToSet(corners) = (tracks + 1)..(tracks + n)
  <2>1. ToSet(corners) = {tracks + k : k \in 1..n}
    BY <1>5 DEF ToSet
  <2>2. ASSUME NEW p \in (tracks + 1)..(tracks + n)
        PROVE  p \in {tracks + k : k \in 1..n}
    <3>1. p - tracks \in 1..n /\ tracks + (p - tracks) = p
      BY <1>2
    <3> QED
      BY <3>1
  <2>3. \A k \in 1..n : tracks + k \in (tracks + 1)..(tracks + n)
    BY <1>2
  <2> QED
    BY <2>1, <2>2, <2>3
<1>7. /\ forw_pts' \in Seq(Nat) /\ Len(forw_pts') = len + n /\ DOMAIN forw_pts' = 1..(len + n)
      /\ \A i \in 1..len : forw_pts'[i] = forw_pts[i]
      /\ \A i \in (len + 1)..(len + n) : forw_pts'[i] = tracks + (i - len)
  <2>1. forw_pts' \in Seq(Nat) /\ Len(forw_pts') = len + n
    BY <1>2, <1>3, <1>5
  <2>2. \A i \in 1..(len + n) : forw_pts'[i] = IF i <= len THEN forw_pts[i] ELSE corners[i - len]
    BY <1>2, <1>3, <1>4, <1>5
  <2>3. ASSUME NEW i \in (len + 1)..(len + n)
        PROVE  forw_pts'[i] = tracks + (i - len)
    <3>1. i \in 1..(len + n) /\ ~(i <= len) /\ i - len \in 1..n
      BY <1>2, <1>4
    <3>2. forw_pts'[i] = corners[i - len]
      BY <2>2, <3>1
    <3> QED
      BY <3>1, <3>2
  <2>4. ASSUME NEW i \in 1..len
        PROVE  forw_pts'[i] = forw_pts[i]
    <3>1. i \in 1..(len + n) /\ i <= len
      BY <1>2, <1>4
    <3> QED
      BY <2>2, <3>1
  <2> QED
    BY <2>1, <2>3, <2>4
<1>8. /\ ids' \in Seq(Int) /\ Len(ids') = len + n
      /\ \A i \in 1..len : ids'[i] = ids[i]
      /\ \A i \in (len + 1)..(len + n) : ids'[i] = -1
  <2>1. ids' \in Seq(Int) /\ Len(ids') = len + n
    <3> HIDE DEF len, unnamed
    <3>1. ids \in Seq(Int) /\ unnamed \in Seq(Int) /\ Len(ids) = len /\ Len(unnamed) = n
      BY <1>2, <1>4, <1>5
    <3>2. ids \o unnamed \in Seq(Int) /\ Len(ids \o unnamed) = Len(ids) + Len(unnamed)
      BY <3>1, ConcatProperties
    <3> QED
      BY <1>3, <3>1, <3>2
  <2>2. \A i \in 1..(len + n) : ids'[i] = IF i <= len THEN ids[i] ELSE unnamed[i - len]
    <3> HIDE DEF len, unnamed
    <3>1. ids \in Seq(Int) /\ unnamed \in Seq(Int) /\ Len(ids) = len /\ Len(unnamed) = n
      BY <1>2, <1>4, <1>5
    <3>2. \A i \in 1..(Len(ids) + Len(unnamed)) :
            (ids \o unnamed)[i] = IF i <= Len(ids) THEN ids[i] ELSE unnamed[i - Len(ids)]
      BY <3>1, ConcatProperties
    <3> QED
      BY <1>3, <3>1, <3>2
  <2>3. ASSUME NEW i \in (len + 1)..(len + n)
        PROVE  ids'[i] = -1
    <3>1. i \in 1..(len + n) /\ ~(i <= len) /\ i - len \in 1..n
      BY <1>2, <1>4
    <3>2. ids'[i] = unnamed[i - len]
      BY <2>2, <3>1
    <3> QED
      BY <3>1, <3>2
  <2>4. ASSUME NEW i \in 1..len
        PROVE  ids'[i] = ids[i]
    <3>1. i \in 1..(len + n) /\ i <= len
      BY <1>2, <1>4
    <3> QED
      BY <2>2, <3>1
  <2> QED
    BY <2>1, <2>3, <2>4
<1>9. /\ track_cnt' \in Seq(Nat) /\ Len(track_cnt') = len + n
      /\ \A i \in 1..len : track_cnt'[i] = track_cnt[i]
      /\ \A i \in (len + 1)..(len + n) : track_cnt'[i] = 1
  <2>1. track_cnt' \in Seq(Nat) /\ Len(track_cnt') = len + n
    <3> HIDE DEF len, ones
    <3>1. track_cnt \in Seq(Nat) /\ ones \in Seq(Nat) /\ Len(track_cnt) = len /\ Len(ones) = n
      BY <1>2, <1>4, <1>5
    <3>2. track_cnt \o ones \in Seq(Nat) /\ Len(track_cnt \o ones) = Len(track_cnt) + Len(ones)
      BY <3>1, ConcatProperties
    <3> QED
      BY <1>3, <3>1, <3>2
  <2>2. \A i \in 1..(len + n) : track_cnt'[i] = IF i <= len THEN track_cnt[i] ELSE ones[i - len]
    <3> HIDE DEF len, ones
    <3>1. track_cnt \in Seq(Nat) /\ ones \in Seq(Nat) /\ Len(track_cnt) = len /\ Len(ones) = n
      BY <1>2, <1>4, <1>5
    <3>2. \A i \in 1..(Len(track_cnt) + Len(ones)) :
            (track_cnt \o ones)[i] = IF i <= Len(track_cnt) THEN track_cnt[i] ELSE ones[i - Len(track_cnt)]
      BY <3>1, ConcatProperties
    <3> QED
      BY <1>3, <3>1, <3>2
  <2>3. ASSUME NEW i \in (len + 1)..(len + n)
        PROVE  track_cnt'[i] = 1
    <3>1. i \in 1..(len + n) /\ ~(i <= len) /\ i - len \in 1..n
      BY <1>2, <1>4
    <3>2. track_cnt'[i] = ones[i - len]
      BY <2>2, <3>1
    <3> QED
      BY <3>1, <3>2
  <2>4. ASSUME NEW i \in 1..len
        PROVE  track_cnt'[i] = track_cnt[i]
    <3>1. i \in 1..(len + n) /\ i <= len
      BY <1>2, <1>4
    <3> QED
      BY <2>2, <3>1
  <2> QED
    BY <2>1, <2>3, <2>4
<1>10. \A i \in 1..(len + n) : i \in 1..len \/ i \in (len + 1)..(len + n)
  BY <1>2, <1>4
<1>11. \A i \in 1..len : forw_pts[i] \in 1..tracks /\ forw_pts[i] \in Nat
  BY SMTT(30), <1>1, <1>2, <1>4 DEF PointsInv
<1>12. \A i \in (len + 1)..(len + n) :
         forw_pts'[i] \in (tracks + 1)..(tracks + n) /\ forw_pts'[i] \notin 1..tracks
  <2> SUFFICES ASSUME NEW i \in (len + 1)..(len + n)
               PROVE  /\ tracks + (i - len) \in (tracks + 1)..(tracks + n)
                      /\ tracks + (i - len) \notin 1..tracks
    BY <1>7
  <2> QED
    BY <1>2, <1>4
<1>13. n_id' = n_id /\ named' = named /\ prev_un_pts_map' = prev_un_pts_map
       /\ pts_velocity' = pts_velocity
       /\ latest' = latest /\ shown' = shown /\ ever' = ever
       /\ first_image_flag' = first_image_flag /\ last_image_time' = last_image_time
  BY <1>3 DEF flow, stream, node
<1> HIDE DEF len, corners, unnamed, ones
<1>14. TypeInv'
  <2>1. phase' \in Phases
    BY <1>3 DEF Phases
  <2>2. tracks' \in 0..MaxTracks /\ n_id' \in 0..tracks'
    BY <1>2, <1>3, <1>13
  <2> QED
    BY <1>1, <1>3, <1>7, <1>8, <1>9, <2>1, <2>2 DEF TypeInv, node, session, stream
<1>15. PointsInv'
  <2>1. len + n <= MAX_CNT
    BY <1>2, <1>3, <1>4
  <2>2. \A i \in 1..(len + n) : forw_pts'[i] \in 1..tracks'
    <3> SUFFICES ASSUME NEW i \in 1..(len + n)
                 PROVE  forw_pts'[i] \in 1..(tracks + n)
      BY <1>3
    <3>1. CASE i \in 1..len
      <4>1. forw_pts'[i] \in 1..tracks
        BY <1>7, <1>11, <3>1
      <4> QED
        BY <1>2, <4>1
    <3>2. CASE i \in (len + 1)..(len + n)
      BY <1>2, <1>12, <3>2
    <3> QED
      BY <1>10, <3>1, <3>2
  <2>3. ASSUME NEW i \in 1..(len + n), NEW j \in 1..(len + n), forw_pts'[i] = forw_pts'[j]
        PROVE  i = j
    <3>1. CASE i \in 1..len /\ j \in 1..len
      <4>1. forw_pts[i] = forw_pts[j]
        BY <1>7, <2>3, <3>1
      <4> QED
        BY <1>1, <1>4, <3>1, <4>1 DEF PointsInv
    <3>2. CASE i \in (len + 1)..(len + n) /\ j \in (len + 1)..(len + n)
      <4>1. tracks + (i - len) = tracks + (j - len)
        BY <1>7, <2>3, <3>2
      <4> QED
        BY <1>2, <1>4, <4>1
    <3>3. CASE i \in 1..len /\ j \in (len + 1)..(len + n)
      BY <1>7, <1>11, <1>12, <2>3, <3>3
    <3>4. CASE i \in (len + 1)..(len + n) /\ j \in 1..len
      BY <1>7, <1>11, <1>12, <2>3, <3>4
    <3> QED
      BY <1>10, <3>1, <3>2, <3>3, <3>4
  <2> QED
    BY <1>3, <1>7, <1>8, <1>9, <2>1, <2>2, <2>3 DEF PointsInv
<1>16. AgeInv'
  <2>1. DOMAIN age' = DOMAIN age \cup ((tracks + 1)..(tracks + n))
    BY <1>3, <1>6
  <2>2. DOMAIN age \subseteq 1..tracks
    BY <1>1 DEF AgeInv
  <2>3. DOMAIN age' \subseteq 1..tracks'
    BY <1>2, <1>3, <2>1, <2>2
  <2>4. ASSUME NEW i \in 1..(len + n)
        PROVE  forw_pts'[i] \in DOMAIN age' /\ track_cnt'[i] = age'[forw_pts'[i]] /\ track_cnt'[i] >= 1
    <3>1. CASE i \in 1..len
      <4>1. forw_pts[i] \in DOMAIN age /\ track_cnt[i] = age[forw_pts[i]] /\ track_cnt[i] >= 1
        BY <1>1, <1>4, <3>1 DEF AgeInv
      <4>2. age'[forw_pts[i]] = age[forw_pts[i]]
        BY <1>3, <4>1
      <4> QED
        BY <1>7, <1>9, <2>1, <3>1, <4>1, <4>2
    <3>2. CASE i \in (len + 1)..(len + n)
      <4>1. forw_pts'[i] \in (tracks + 1)..(tracks + n) /\ forw_pts'[i] \notin DOMAIN age
        BY <1>12, <2>2, <3>2
      <4>2. age'[forw_pts'[i]] = 1
        BY <1>3, <1>6, <4>1
      <4>3. track_cnt'[i] = 1
        BY <1>9, <3>2
      <4> QED
        BY <2>1, <4>1, <4>2, <4>3
    <3> QED
      BY <1>10, <3>1, <3>2
  <2> QED
    BY <1>7, <2>3, <2>4 DEF AgeInv
<1>17. \A i \in 1..len : ids'[i] # -1
  BY <1>1, <1>3, <1>4, <1>8 DEF CountInv
<1>18. NamedInv'
  <2>1. DOMAIN named \subseteq 1..tracks /\ 1..tracks \subseteq 1..(tracks + n)
    BY <1>1, <1>2 DEF NamedInv
  <2>2. ASSUME NEW i \in 1..(len + n)
        PROVE  /\ ids'[i] = -1 => forw_pts'[i] \notin DOMAIN named /\ track_cnt'[i] = 1
               /\ ids'[i] # -1 => forw_pts'[i] \in DOMAIN named /\ named[forw_pts'[i]] = ids'[i]
    <3>1. CASE i \in 1..len
      BY <1>1, <1>4, <1>7, <1>8, <1>17, <3>1 DEF NamedInv
    <3>2. CASE i \in (len + 1)..(len + n)
      BY <1>8, <1>9, <1>12, <2>1, <3>2
    <3> QED
      BY <1>10, <3>1, <3>2
  <2> QED
    BY <1>1, <1>3, <1>7, <1>13, <2>1, <2>2 DEF NamedInv
<1>19. CountInv'
  <2>1. ASSUME NEW i \in 1..(len + n)
        PROVE  ids'[i] = -1 <=> i > len
    <3>1. CASE i \in 1..len
      <4>1. ~(i > len)
        BY <1>4, <3>1
      <4> QED
        BY <1>17, <3>1, <4>1
    <3>2. CASE i \in (len + 1)..(len + n)
      <4>1. i > len
        BY <1>2, <1>4, <3>2
      <4> QED
        BY <1>8, <3>2, <4>1
    <3> QED
      BY <1>10, <3>1, <3>2
  <2>2. DOMAIN ids' = 1..(len + n) /\ len \in 0..Len(ids')
    BY <1>2, <1>4, <1>8
  <2>3. n_id' + (Len(ids') - len) <= tracks'
    BY <1>2, <1>3, <1>4, <1>8, <1>13
  <2>4. \A i \in DOMAIN ids' : ids'[i] = -1 <=> i > len
    BY <2>1, <2>2
  <2> QED
    BY <1>3, <2>2, <2>3, <2>4 DEF CountInv
<1>20. MapInv' /\ VelocityInv'
  <2>1. ~Joined' /\ ~Joined
    BY <1>3 DEF Joined
  <2>2. ASSUME NEW i \in 1..(len + n), track_cnt'[i] > 2
        PROVE  ids'[i] \in DOMAIN prev_un_pts_map
    <3>1. CASE i \in 1..len
      BY <1>1, <1>4, <1>8, <1>9, <2>1, <2>2, <3>1 DEF MapInv
    <3>2. CASE i \in (len + 1)..(len + n)
      BY <1>9, <2>2, <3>2
    <3> QED
      BY <1>10, <3>1, <3>2
  <2> QED
    BY <1>1, <1>7, <1>13, <2>1, <2>2 DEF MapInv, VelocityInv
<1>21. RateInv'
  BY <1>1, <1>3 DEF RateInv, Rate, Selected, node, session
<1>22. StreamInv'
  <2>1. ASSUME NEW i \in 1..(len + n), ids'[i] \in ever
        PROVE  ids'[i] \in shown /\ track_cnt'[i] > 1
    <3>1. CASE i \in 1..len
      BY <1>1, <1>4, <1>8, <1>9, <2>1, <3>1 DEF StreamInv
    <3>2. CASE i \in (len + 1)..(len + n)
      <4>1. ids'[i] = -1
        BY <1>8, <3>2
      <4>2. ever \subseteq Nat
        BY <1>1, <1>2 DEF StreamInv
      <4> QED
        BY <2>1, <4>1, <4>2
    <3> QED
      BY <1>10, <3>1, <3>2
  <2> QED
    BY <1>1, <1>7, <1>13, <2>1 DEF StreamInv
<1> QED
  BY <1>14, <1>15, <1>16, <1>18, <1>19, <1>20, <1>21, <1>22 DEF IInv, VectorInv

\* undistortedPoints: a point's velocity is taken from its own last place.
LEMMA UndistortedPointsStep ==
  ASSUME IInv, UndistortedPoints
  PROVE  IInv'
<1> USE CountAssumption, LimitAssumption
<1>1. /\ TypeInv /\ PointsInv /\ AgeInv /\ NamedInv /\ CountInv
      /\ MapInv /\ VelocityInv /\ RateInv /\ StreamInv
  BY DEF IInv, VectorInv
<1> DEFINE len == Len(forw_pts)
           zeros == [i \in DOMAIN forw_pts |-> Zero]
           differences == [i \in DOMAIN forw_pts |->
                             IF HasPast(ids[i]) THEN <<forw_pts[i], prev_un_pts_map[ids[i]]>> ELSE Zero]
<1>2. /\ forw_pts \in Seq(Nat) /\ ids \in Seq(Int) /\ track_cnt \in Seq(Nat)
      /\ len \in Nat /\ Len(ids) = len /\ Len(track_cnt) = len
      /\ DOMAIN forw_pts = 1..len /\ DOMAIN ids = 1..len
  BY <1>1 DEF TypeInv, PointsInv
<1>3. /\ phase = "undistort" /\ phase' = "name"
      /\ cur_pts' = forw_pts /\ cur_un_pts' = forw_pts
      /\ pts_velocity' = IF DOMAIN prev_un_pts_map # {} THEN differences ELSE pts_velocity \o zeros
      /\ prev_un_pts_map' =
           [id \in ToSet(ids) |->
              forw_pts[CHOOSE i \in DOMAIN ids : ids[i] = id /\ \A j \in DOMAIN ids : ids[j] = id => i <= j]]
      /\ UNCHANGED <<node, init_pub, forw_pts, ids, track_cnt, n_id, tracks, named, age, session, stream>>
  BY DEF UndistortedPoints
<1>4. TypeInv'
  <2>1. phase' \in Phases
    BY <1>3 DEF Phases
  <2> QED
    BY <1>1, <1>3, <2>1 DEF TypeInv, node, session, stream
<1>5. VectorInv'
  BY <1>1, <1>3 DEF VectorInv, PointsInv, AgeInv, NamedInv, CountInv
<1>6. Joined' /\ ~Joined
  BY <1>3 DEF Joined
<1>7. \A i \in 1..len : ids[i] # -1 => forw_pts[i] \in DOMAIN named /\ named[forw_pts[i]] = ids[i]
  BY <1>1, <1>2 DEF NamedInv
<1>8. ToSet(ids) = {ids[i] : i \in 1..len}
  BY <1>2 DEF ToSet
<1>9. zeros \in [1..len -> Nat \X Nat] /\ \A i \in 1..len : zeros[i] = Zero
  BY <1>2 DEF Zero
<1>10. ASSUME DOMAIN prev_un_pts_map # {}
       PROVE  VelocityInv' /\ (len = 0 => pts_velocity' = <<>>)
  <2>1. pts_velocity' = differences /\ DOMAIN differences = 1..len
    BY <1>2, <1>3, <1>10
  <2>2. Len(pts_velocity') = len
    BY <1>2, <2>1
  <2>3. ASSUME NEW i \in 1..len
        PROVE  /\ pts_velocity'[i] \in {Zero, <<forw_pts[i], forw_pts[i]>>}
               /\ track_cnt[i] > 2 => pts_velocity'[i] # Zero
    <3>1. pts_velocity'[i] = IF HasPast(ids[i]) THEN <<forw_pts[i], prev_un_pts_map[ids[i]]>> ELSE Zero
      BY <1>2, <2>1
    <3>2. forw_pts[i] \in Nat \ {0}
      <4>1. i \in DOMAIN forw_pts => forw_pts[i] \in 1..tracks
        BY <1>1 DEF PointsInv
      <4>2. tracks \in Nat
        BY <1>1 DEF TypeInv
      <4> QED
        BY <1>2, <4>1, <4>2
    <3>3. CASE HasPast(ids[i])
      <4>1. ids[i] # -1 /\ ids[i] \in DOMAIN prev_un_pts_map
        BY <3>3 DEF HasPast
      <4>2. /\ prev_un_pts_map[ids[i]] \in DOMAIN named
            /\ named[prev_un_pts_map[ids[i]]] = ids[i]
        BY <1>1, <4>1 DEF MapInv
      <4>3. forw_pts[i] \in DOMAIN named /\ named[forw_pts[i]] = ids[i]
        BY <1>7, <4>1
      <4>4. prev_un_pts_map[ids[i]] = forw_pts[i]
        BY <1>1, <4>2, <4>3 DEF NamedInv
      <4>5. <<forw_pts[i], forw_pts[i]>> # Zero
        BY <3>2 DEF Zero
      <4> QED
        BY <3>1, <3>3, <4>4, <4>5
    <3>4. CASE ~HasPast(ids[i])
      <4>1. ~(track_cnt[i] > 2)
        <5> SUFFICES ASSUME track_cnt[i] > 2
                     PROVE  FALSE
          OBVIOUS
        <5>1. ids[i] \in DOMAIN prev_un_pts_map
          BY <1>1, <1>2, <1>6 DEF MapInv
        <5>2. ids[i] = -1
          BY <3>4, <5>1 DEF HasPast
        <5>3. track_cnt[i] = 1
          BY <1>1, <1>2, <5>2 DEF NamedInv
        <5> QED
          BY <5>3
      <4> QED
        BY <3>1, <3>4, <4>1
    <3> QED
      BY <3>3, <3>4
  <2>4. VelocityInv'
    BY <1>2, <1>3, <2>2, <2>3 DEF VelocityInv
  <2>5. len = 0 => pts_velocity' = <<>>
    <3> HAVE len = 0
    <3>1. differences \in [1..0 -> {}]
      BY <2>1
    <3>2. differences \in Seq({}) /\ Len(differences) = 0
      BY <3>1
    <3> QED
      BY <2>1, <3>2, EmptySeq
  <2> QED
    BY <2>4, <2>5
<1>11. ASSUME DOMAIN prev_un_pts_map = {}
       PROVE  VelocityInv' /\ (len = 0 => pts_velocity' = <<>>)
  <2>1. pts_velocity = <<>>
    BY <1>1, <1>11 DEF MapInv
  <2>2. zeros \in Seq(Nat \X Nat) /\ Len(zeros) = len
    BY <1>2, <1>9
  <2>3. pts_velocity' = zeros
    <3>1. pts_velocity' = <<>> \o zeros
      BY <1>3, <1>11, <2>1
    <3> QED
      BY <2>2, <3>1, ConcatEmptySeq
  <2>4. \A i \in 1..len : ~(track_cnt[i] > 2)
    BY <1>1, <1>2, <1>6, <1>11 DEF MapInv
  <2>5. VelocityInv'
    BY <1>2, <1>3, <1>9, <2>2, <2>3, <2>4 DEF VelocityInv
  <2>6. len = 0 => pts_velocity' = <<>>
    BY <2>2, <2>3, EmptySeq
  <2> QED
    BY <2>5, <2>6
<1>12. MapInv'
  <2>1. DOMAIN prev_un_pts_map' = {ids[i] : i \in 1..len}
    BY <1>3, <1>8
  <2>2. ASSUME NEW id \in DOMAIN prev_un_pts_map', id # -1
        PROVE  prev_un_pts_map'[id] \in DOMAIN named /\ named[prev_un_pts_map'[id]] = id
    <3> DEFINE First(i) == ids[i] = id /\ \A j \in DOMAIN ids : ids[j] = id => i <= j
    <3>1. PICK i \in 1..len : ids[i] = id
      BY <2>1
    <3>2. \A j \in 1..len : ids[j] = id => j = i
      <4> SUFFICES ASSUME NEW j \in 1..len, ids[j] = id
                   PROVE  j = i
        OBVIOUS
      <4>1. /\ forw_pts[i] \in DOMAIN named /\ named[forw_pts[i]] = id
            /\ forw_pts[j] \in DOMAIN named /\ named[forw_pts[j]] = id
        BY <1>7, <2>2, <3>1
      <4>2. forw_pts[i] = forw_pts[j]
        BY <1>1, <4>1 DEF NamedInv
      <4> QED
        BY <1>1, <1>2, <4>2 DEF PointsInv
    <3>3. First(i)
      <4>1. i <= i
        BY <1>2
      <4> QED
        BY <1>2, <3>1, <3>2, <4>1
    <3>4. prev_un_pts_map'[id] = forw_pts[CHOOSE j \in DOMAIN ids : First(j)]
      BY <1>3, <1>8, <2>1
    <3>5. (CHOOSE j \in DOMAIN ids : First(j)) \in DOMAIN ids /\ First(CHOOSE j \in DOMAIN ids : First(j))
      <4>1. \E j \in DOMAIN ids : First(j)
        BY <1>2, <3>3
      <4> HIDE DEF First
      <4> QED
        BY <4>1
    <3>6. prev_un_pts_map'[id] = forw_pts[i]
      <4> DEFINE c == CHOOSE j \in DOMAIN ids : First(j)
      <4>1. c \in 1..len /\ ids[c] = id
        BY <1>2, <3>5
      <4> HIDE DEF c
      <4>2. c = i
        BY <3>2, <4>1
      <4> QED
        BY <3>4, <4>2 DEF c
    <3> QED
      BY <1>7, <2>2, <3>1, <3>6
  <2>3. DOMAIN prev_un_pts_map' = {} => pts_velocity' = <<>>
    <3> HAVE DOMAIN prev_un_pts_map' = {}
    <3>1. len = 0
      <4>1. \A i \in 1..len : FALSE
        BY <2>1
      <4>2. len # 0 => 1 \in 1..len
        BY <1>2
      <4> QED
        BY <4>1, <4>2
    <3> QED
      BY <1>10, <1>11, <3>1
  <2>4. \A i \in 1..len : ids[i] \in DOMAIN prev_un_pts_map'
    BY <2>1
  <2> QED
    BY <1>2, <1>3, <1>6, <2>2, <2>3, <2>4 DEF MapInv
<1>13. VelocityInv'
  BY <1>10, <1>11
<1>14. RateInv'
  BY <1>1, <1>3 DEF RateInv, Rate, Selected, node, session
<1>15. StreamInv'
  BY <1>1, <1>3 DEF StreamInv, stream, node
<1> QED
  BY <1>4, <1>5, <1>12, <1>13, <1>14, <1>15 DEF IInv

-----------------------------------------------------------------------------
(* img_callback: ids and publication *)

\* The points without an id stand at the end: those before an index can be counted.
LEMMA UnnamedBefore ==
  ASSUME ids \in Seq(Int), NEW m \in 0..Len(ids),
         \A i \in DOMAIN ids : ids[i] = -1 <=> i > m,
         NEW i \in 1..(Len(ids) + 1), i > m
  PROVE  Unnamed(i) = i - 1 - m
<1>1. m \in Nat /\ Len(ids) \in Nat /\ DOMAIN ids = 1..Len(ids)
  OBVIOUS
<1>2. {j \in 1..(i - 1) : ids[j] = -1} = (m + 1)..(i - 1)
  <2>1. ASSUME NEW j \in 1..(i - 1)
        PROVE  ids[j] = -1 <=> j \in (m + 1)..(i - 1)
    <3>1. j \in DOMAIN ids /\ (j \in (m + 1)..(i - 1) <=> j > m)
      BY <1>1
    <3> QED
      BY <3>1
  <2>2. (m + 1)..(i - 1) \subseteq 1..(i - 1)
    BY <1>1
  <2> QED
    BY <2>1, <2>2
<1>3. Cardinality((m + 1)..(i - 1)) = IF m + 1 > i - 1 THEN 0 ELSE (i - 1) - (m + 1) + 1
  BY <1>1, FS_Interval
<1>4. Unnamed(i) = Cardinality((m + 1)..(i - 1))
  BY <1>2 DEF Unnamed
<1>5. i - 1 - m = IF m + 1 > i - 1 THEN 0 ELSE (i - 1) - (m + 1) + 1
  BY <1>1
<1> QED
  BY <1>3, <1>4, <1>5

\* Ids stay ids when more are given.
LEMMA MoreIds ==
  ASSUME NEW a \in Nat, NEW b \in Nat, b >= a
  PROVE  0..(a - 1) \subseteq 0..(b - 1)
OBVIOUS

\* The updateID loop.
LEMMA UpdateIDStep ==
  ASSUME IInv, UpdateID
  PROVE  IInv'
<1>1. /\ TypeInv /\ PointsInv /\ AgeInv /\ NamedInv /\ CountInv
      /\ MapInv /\ VelocityInv /\ RateInv /\ StreamInv
  BY DEF IInv, VectorInv
<1> DEFINE len == Len(forw_pts)
<1>2. /\ ids \in Seq(Int) /\ len \in Nat /\ Len(ids) = len
      /\ DOMAIN forw_pts = 1..len /\ DOMAIN ids = 1..len
      /\ n_id \in 0..tracks /\ tracks \in Nat
  BY <1>1 DEF TypeInv, PointsInv
<1>3. /\ phase = "name" /\ phase' \in {"publish", "idle"} /\ cur_pts = forw_pts
      /\ phase' = IF PUB_THIS_FRAME THEN "publish" ELSE "idle"
      /\ ids' = [i \in DOMAIN ids |-> IF ids[i] = -1 THEN n_id + Unnamed(i) ELSE ids[i]]
      /\ n_id' = n_id + Unnamed(len + 1)
      /\ named' = [p \in DOMAIN named \cup {forw_pts[i] : i \in {j \in DOMAIN ids : ids[j] = -1}} |->
                     IF p \in DOMAIN named THEN named[p]
                     ELSE ids'[CHOOSE i \in DOMAIN forw_pts : forw_pts[i] = p]]
      /\ UNCHANGED <<node, init_pub, cur_pts, forw_pts, track_cnt, cur_un_pts, flow,
                     tracks, age, session, stream>>
  BY <1>1, <1>2 DEF UpdateID, NextId, PointsInv
<1>4. PICK m \in 0..len :
        /\ \A i \in DOMAIN ids : ids[i] = -1 <=> i > m
        /\ n_id + (len - m) <= tracks
  BY <1>1, <1>2, <1>3 DEF CountInv
<1>5. m \in Nat /\ m <= len
  BY <1>2
<1>6. /\ \A i \in 1..m : i \in 1..len /\ ids[i] # -1
      /\ \A i \in (m + 1)..len : i \in 1..len /\ ids[i] = -1
      /\ \A i \in 1..len : i \in 1..m \/ i \in (m + 1)..len
  <2>1. ASSUME NEW i \in 1..m
        PROVE  i \in 1..len /\ ids[i] # -1
    <3>1. i \in 1..len /\ ~(i > m)
      BY <1>2, <1>5
    <3> QED
      BY <1>2, <1>4, <3>1
  <2>2. ASSUME NEW i \in (m + 1)..len
        PROVE  i \in 1..len /\ ids[i] = -1
    <3>1. i \in 1..len /\ i > m
      BY <1>2, <1>5
    <3> QED
      BY <1>2, <1>4, <3>1
  <2>3. \A i \in 1..len : i \in 1..m \/ i \in (m + 1)..len
    BY <1>2, <1>5
  <2> QED
    BY <2>1, <2>2, <2>3
<1>7. \A i \in 1..(len + 1) : i > m => Unnamed(i) = i - 1 - m
  BY <1>2, <1>4, UnnamedBefore
<1>8. n_id' = n_id + (len - m)
  <2>1. len + 1 \in 1..(len + 1) /\ len + 1 > m /\ (len + 1) - 1 - m = len - m
    BY <1>2, <1>5
  <2>2. Unnamed(len + 1) = (len + 1) - 1 - m
    BY <1>7, <2>1
  <2> QED
    BY <1>3, <2>1, <2>2
<1>9. /\ DOMAIN ids' = 1..len
      /\ \A i \in 1..m : ids'[i] = ids[i]
      /\ \A i \in (m + 1)..len : ids'[i] = n_id + (i - 1 - m)
  <2>1. \A i \in 1..m : ids'[i] = ids[i]
    BY <1>2, <1>3, <1>6
  <2>2. ASSUME NEW i \in (m + 1)..len
        PROVE  ids'[i] = n_id + (i - 1 - m)
    <3>1. i \in 1..(len + 1) /\ i > m
      BY <1>2, <1>5
    <3>2. Unnamed(i) = i - 1 - m
      BY <1>7, <3>1
    <3>3. ids'[i] = n_id + Unnamed(i)
      BY <1>2, <1>3, <1>6
    <3> QED
      BY <3>2, <3>3
  <2> QED
    BY <1>2, <1>3, <2>1, <2>2
<1>10. \A i \in 1..m : /\ forw_pts[i] \in DOMAIN named /\ named[forw_pts[i]] = ids[i]
                       /\ ids[i] \in 0..(n_id - 1)
  BY <1>1, <1>2, <1>6 DEF NamedInv
<1>11. \A i \in (m + 1)..len : forw_pts[i] \notin DOMAIN named /\ track_cnt[i] = 1
  BY <1>1, <1>2, <1>6 DEF NamedInv
<1>12. \A i \in (m + 1)..len : ids'[i] \in n_id..(n_id' - 1)
  <2> SUFFICES ASSUME NEW i \in (m + 1)..len
               PROVE  ids'[i] \in n_id..(n_id' - 1)
    OBVIOUS
  <2>1. n_id + (i - 1 - m) \in n_id..(n_id + (len - m) - 1)
    BY <1>2, <1>5
  <2>2. ids'[i] = n_id + (i - 1 - m)
    BY <1>9
  <2>3. n_id' - 1 = n_id + (len - m) - 1
    BY <1>2, <1>5, <1>8
  <2> QED
    BY <2>1, <2>2, <2>3
<1>13. n_id' \in Nat /\ n_id' >= n_id /\ n_id' <= tracks /\ n_id \in Nat
  BY <1>2, <1>4, <1>5, <1>8
<1>14. \A i \in 1..len : ids'[i] \in 0..(n_id' - 1)
  <2> SUFFICES ASSUME NEW i \in 1..len
               PROVE  ids'[i] \in 0..(n_id' - 1)
    OBVIOUS
  <2>1. CASE i \in 1..m
    <3>1. ids'[i] \in 0..(n_id - 1)
      BY <1>9, <1>10, <2>1
    <3> QED
      BY <1>13, <3>1
  <2>2. CASE i \in (m + 1)..len
    <3>1. ids'[i] \in n_id..(n_id' - 1)
      BY <1>12, <2>2
    <3> QED
      BY <1>13, <3>1
  <2> QED
    BY <1>6, <2>1, <2>2
<1>15. ids' \in Seq(Int) /\ Len(ids') = len /\ \A i \in 1..len : ids'[i] # -1
  <2>1. \A i \in 1..len : ids'[i] \in Int /\ ids'[i] # -1
    <3> SUFFICES ASSUME NEW i \in 1..len
                 PROVE  ids'[i] \in Int /\ ids'[i] # -1
      OBVIOUS
    <3>1. ids'[i] \in 0..(n_id' - 1)
      BY <1>14
    <3> QED
      BY <1>13, <3>1
  <2>2. ids' \in [1..len -> Int]
    BY <1>2, <1>3, <2>1
  <2> QED
    BY <1>2, <2>1, <2>2
<1>16. /\ DOMAIN named' = DOMAIN named \cup {forw_pts[i] : i \in (m + 1)..len}
       /\ \A p \in DOMAIN named : named'[p] = named[p]
       /\ \A i \in (m + 1)..len : named'[forw_pts[i]] = ids'[i]
  <2>1. {j \in DOMAIN ids : ids[j] = -1} = (m + 1)..len
    BY <1>2, <1>6
  <2>2. DOMAIN named' = DOMAIN named \cup {forw_pts[i] : i \in (m + 1)..len}
    BY <1>3, <2>1
  <2>3. \A p \in DOMAIN named : named'[p] = named[p]
    BY <1>3, <2>1, <2>2
  <2>4. ASSUME NEW i \in (m + 1)..len
        PROVE  named'[forw_pts[i]] = ids'[i]
    <3>1. named'[forw_pts[i]] = ids'[CHOOSE j \in DOMAIN forw_pts : forw_pts[j] = forw_pts[i]]
      BY <1>3, <1>11, <2>1, <2>2
    <3>2. i \in DOMAIN forw_pts
      BY <1>2, <1>6
    <3>3. (CHOOSE j \in DOMAIN forw_pts : forw_pts[j] = forw_pts[i]) = i
      BY <1>1, <3>2 DEF PointsInv
    <3> QED
      BY <3>1, <3>3
  <2> QED
    BY <2>2, <2>3, <2>4
<1>17. tracks' = tracks /\ forw_pts' = forw_pts /\ track_cnt' = track_cnt /\ age' = age
       /\ cur_pts' = cur_pts /\ cur_un_pts' = cur_un_pts
       /\ prev_un_pts_map' = prev_un_pts_map /\ pts_velocity' = pts_velocity
       /\ latest' = latest /\ shown' = shown /\ ever' = ever
       /\ first_image_flag' = first_image_flag /\ last_image_time' = last_image_time
  BY <1>3 DEF flow, stream, node
<1> HIDE DEF len
<1>18. TypeInv'
  <2>1. phase' \in Phases
    BY <1>3 DEF Phases
  <2>2. n_id' \in 0..tracks
    BY <1>2, <1>13
  <2> QED
    BY <1>1, <1>3, <1>15, <1>17, <2>1, <2>2 DEF TypeInv, node, session, stream
<1>19. PointsInv'
  BY <1>1, <1>2, <1>3, <1>15, <1>17 DEF PointsInv, len
<1>20. AgeInv'
  BY <1>1, <1>17 DEF AgeInv
<1>21. NamedInv'
  <2>1. DOMAIN named' \subseteq 1..tracks
    <3>1. \A i \in (m + 1)..len : forw_pts[i] \in 1..tracks
      BY <1>1, <1>2, <1>6 DEF PointsInv
    <3> QED
      BY <1>1, <1>16, <3>1 DEF NamedInv
  <2>2. \A p \in DOMAIN named : named'[p] \in 0..(n_id - 1)
    BY <1>1, <1>16 DEF NamedInv
  <2>3. \A p \in DOMAIN named' : p \in DOMAIN named \/ \E i \in (m + 1)..len : p = forw_pts[i]
    BY <1>16
  <2>4. ASSUME NEW p \in DOMAIN named'
        PROVE  named'[p] \in 0..(n_id' - 1)
    <3>1. CASE p \in DOMAIN named
      <4>1. named'[p] \in 0..(n_id - 1)
        BY <2>2, <3>1
      <4> QED
        BY <1>13, <4>1
    <3>2. CASE \E i \in (m + 1)..len : p = forw_pts[i]
      <4>1. PICK i \in (m + 1)..len : p = forw_pts[i]
        BY <3>2
      <4> QED
        BY <1>6, <1>14, <1>16, <4>1
    <3> QED
      BY <2>3, <3>1, <3>2
  <2>5. ASSUME NEW p \in DOMAIN named', NEW q \in DOMAIN named', named'[p] = named'[q]
        PROVE  p = q
    <3>1. ASSUME NEW r \in DOMAIN named, NEW i \in (m + 1)..len
          PROVE  named'[r] # named'[forw_pts[i]]
      <4>1. named'[r] \in 0..(n_id - 1)
        BY <2>2
      <4>2. named'[forw_pts[i]] \in n_id..(n_id' - 1)
        BY <1>12, <1>16
      <4> QED
        BY <1>13, <4>1, <4>2
    <3>2. CASE p \in DOMAIN named /\ q \in DOMAIN named
      BY <1>1, <1>16, <2>5, <3>2 DEF NamedInv
    <3>3. CASE p \notin DOMAIN named /\ q \notin DOMAIN named
      <4>1. PICK i \in (m + 1)..len : p = forw_pts[i]
        BY <2>3, <3>3
      <4>2. PICK j \in (m + 1)..len : q = forw_pts[j]
        BY <2>3, <3>3
      <4>3. n_id + (i - 1 - m) = n_id + (j - 1 - m)
        BY <1>9, <1>16, <2>5, <4>1, <4>2
      <4>4. i = j
        BY <1>2, <1>5, <4>3
      <4> QED
        BY <4>1, <4>2, <4>4
    <3>4. CASE p \in DOMAIN named /\ q \notin DOMAIN named
      BY <2>3, <2>5, <3>1, <3>4
    <3>5. CASE p \notin DOMAIN named /\ q \in DOMAIN named
      BY <2>3, <2>5, <3>1, <3>5
    <3> QED
      BY <3>2, <3>3, <3>4, <3>5
  <2>6. ASSUME NEW i \in 1..len
        PROVE  forw_pts[i] \in DOMAIN named' /\ named'[forw_pts[i]] = ids'[i]
    <3>1. CASE i \in 1..m
      BY <1>9, <1>10, <1>16, <3>1
    <3>2. CASE i \in (m + 1)..len
      BY <1>16, <3>2
    <3> QED
      BY <1>6, <3>1, <3>2
  <2> QED
    BY <1>2, <1>15, <1>17, <2>1, <2>4, <2>5, <2>6 DEF NamedInv
<1>22. CountInv'
  <2>1. DOMAIN ids' = 1..len
    BY <1>9
  <2> QED
    BY <1>3, <1>15, <2>1 DEF CountInv
<1>23. MapInv' /\ VelocityInv'
  <2>1. Joined /\ Joined'
    BY <1>3 DEF Joined
  <2>2. ASSUME NEW id \in DOMAIN prev_un_pts_map, id # -1
        PROVE  /\ prev_un_pts_map[id] \in DOMAIN named'
               /\ named'[prev_un_pts_map[id]] = id
    <3>1. prev_un_pts_map[id] \in DOMAIN named /\ named[prev_un_pts_map[id]] = id
      BY <1>1, <2>2 DEF MapInv
    <3> QED
      BY <1>16, <3>1
  <2>3. ASSUME NEW i \in 1..len, track_cnt[i] > 1
        PROVE  ids'[i] \in DOMAIN prev_un_pts_map
    <3>1. CASE i \in 1..m
      BY <1>1, <1>2, <1>9, <2>1, <2>3, <3>1 DEF MapInv
    <3>2. CASE i \in (m + 1)..len
      BY <1>11, <2>3, <3>2
    <3> QED
      BY <1>6, <3>1, <3>2
  <2>4. VelocityInv'
    BY <1>1, <1>17, <2>1 DEF VelocityInv
  <2> QED
    BY <1>1, <1>2, <1>17, <2>1, <2>2, <2>3, <2>4 DEF MapInv
<1>24. RateInv'
  BY <1>1, <1>3 DEF RateInv, Rate, Selected, node, session
<1>25. StreamInv'
  <2>1. ever \subseteq 0..(n_id' - 1)
    <3>1. ever \subseteq 0..(n_id - 1)
      BY <1>1 DEF StreamInv
    <3>2. 0..(n_id - 1) \subseteq 0..(n_id' - 1)
      BY <1>13, MoreIds
    <3> QED
      BY <3>1, <3>2
  <2>2. ASSUME NEW i \in 1..len, ids'[i] \in ever
        PROVE  ids'[i] \in shown /\ track_cnt[i] > 1
    <3>1. CASE i \in 1..m
      BY <1>1, <1>2, <1>6, <1>9, <2>2, <3>1 DEF StreamInv
    <3>2. CASE i \in (m + 1)..len
      <4>1. ids'[i] \in 0..(n_id - 1)
        BY <1>1, <2>2 DEF StreamInv
      <4>2. ids'[i] \in n_id..(n_id' - 1)
        BY <1>12, <3>2
      <4> QED
        BY <1>13, <4>1, <4>2
    <3> QED
      BY <1>6, <3>1, <3>2
  <2> QED
    BY <1>1, <1>2, <1>17, <2>1, <2>2 DEF StreamInv
<1> QED
  BY <1>18, <1>19, <1>20, <1>21, <1>22, <1>23, <1>24, <1>25 DEF IInv, VectorInv

\* A message is built, and published unless it is the first.
LEMMA PublishStep ==
  ASSUME IInv, Publish
  PROVE  IInv'
<1>1. /\ TypeInv /\ PointsInv /\ AgeInv /\ NamedInv /\ CountInv
      /\ MapInv /\ VelocityInv /\ RateInv /\ StreamInv
  BY DEF IInv, VectorInv
<1>2. /\ phase = "publish" /\ phase' = "idle" /\ pub_count' = pub_count + 1 /\ init_pub' = TRUE
      /\ sent' = sent + 1 /\ sent_at' = last_image_time
      /\ UNCHANGED <<first_image_flag, first_image_time, last_image_time, PUB_THIS_FRAME, points,
                     flow, n_id, tracks, named, age, start>>
  BY DEF Publish
<1>3. \/ latest' = last_image_time /\ shown' = Tracked /\ ever' = ever \cup Tracked
      \/ latest' = latest /\ shown' = shown /\ ever' = ever
  BY DEF Publish, stream
<1>4. TypeInv'
  <2>1. phase' \in Phases
    BY <1>2 DEF Phases
  <2>2. latest' \in Stamps /\ sent_at' \in Stamps
    BY <1>1, <1>2, <1>3 DEF TypeInv
  <2>3. pub_count' \in Nat /\ sent' \in Nat
    BY <1>1, <1>2 DEF TypeInv
  <2> QED
    BY <1>1, <1>2, <2>1, <2>2, <2>3 DEF TypeInv, points
<1>5. VectorInv'
  BY <1>1, <1>2 DEF VectorInv, PointsInv, AgeInv, NamedInv, CountInv, points
<1>6. MapInv' /\ VelocityInv'
  <2>1. Joined /\ Joined'
    BY <1>2 DEF Joined
  <2> QED
    BY <1>1, <1>2, <2>1 DEF MapInv, VelocityInv, points, flow
<1>7. RateInv'
  <2>1. ~first_image_flag
    BY <1>1, <1>2 DEF RateInv
  <2>2. Rate(pub_count + 1, sent + 1, last_image_time)
    BY <1>1, <1>2, <2>1 DEF RateInv, Selected
  <2>3. Rate(pub_count, sent, sent_at)'
    BY <1>2, <2>2 DEF Rate
  <2> QED
    BY <1>2, <2>1, <2>3 DEF RateInv, Selected
<1>8. StreamInv'
  <2>1. /\ forw_pts' = forw_pts /\ ids' = ids /\ track_cnt' = track_cnt /\ n_id' = n_id
        /\ first_image_flag' = first_image_flag /\ last_image_time' = last_image_time
        /\ DOMAIN ids = DOMAIN forw_pts
    BY <1>1, <1>2 DEF points, TypeInv, PointsInv
  <2>2. CASE latest' = last_image_time /\ shown' = Tracked /\ ever' = ever \cup Tracked
    <3>1. ~first_image_flag
      BY <1>1, <1>2 DEF RateInv
    <3>2. last_image_time <= last_image_time
      BY <1>1 DEF TypeInv, Stamps
    <3>3. Tracked \subseteq 0..(n_id - 1)
      <4> SUFFICES ASSUME NEW i \in DOMAIN ids
                   PROVE  ids[i] \in 0..(n_id - 1)
        BY DEF Tracked
      <4>1. ids[i] # -1
        BY <1>1, <1>2 DEF CountInv
      <4> QED
        BY <1>1, <2>1, <4>1 DEF NamedInv
    <3>4. ASSUME NEW i \in DOMAIN forw_pts, ids[i] \in ever \cup Tracked
          PROVE  ids[i] \in Tracked /\ track_cnt[i] > 1
      <4>1. track_cnt[i] > 1
        <5>1. CASE ids[i] \in ever
          BY <1>1, <5>1 DEF StreamInv
        <5>2. CASE ids[i] \in Tracked
          <6>1. PICK j \in DOMAIN ids : ids[j] = ids[i] /\ track_cnt[j] > 1
            BY <5>2 DEF Tracked
          <6>2. ids[i] # -1 /\ ids[j] # -1
            BY <1>1, <1>2, <2>1 DEF CountInv
          <6>3. /\ forw_pts[i] \in DOMAIN named /\ named[forw_pts[i]] = ids[i]
                /\ forw_pts[j] \in DOMAIN named /\ named[forw_pts[j]] = ids[i]
            BY <1>1, <2>1, <6>1, <6>2 DEF NamedInv
          <6>4. forw_pts[i] = forw_pts[j]
            BY <1>1, <6>3 DEF NamedInv
          <6>5. i = j
            BY <1>1, <2>1, <6>4 DEF PointsInv
          <6> QED
            BY <6>1, <6>5
        <5> QED
          BY <3>4, <5>1, <5>2
      <4> QED
        BY <2>1, <4>1 DEF Tracked
    <3> QED
      BY <1>1, <2>1, <2>2, <3>1, <3>2, <3>3, <3>4 DEF StreamInv
  <2>3. CASE latest' = latest /\ shown' = shown /\ ever' = ever
    BY <1>1, <2>1, <2>3 DEF StreamInv
  <2> QED
    BY <1>3, <2>2, <2>3
<1> QED
  BY <1>4, <1>5, <1>6, <1>7, <1>8 DEF IInv

-----------------------------------------------------------------------------
(* The theorems *)

\* What changes nothing keeps the invariant.
LEMMA StutterStep ==
  ASSUME IInv, UNCHANGED vars
  PROVE  IInv'
<1>1. TypeInv'
  BY DEF vars, IInv, TypeInv
<1>2. PointsInv' /\ AgeInv' /\ NamedInv'
  BY DEF vars, IInv, VectorInv, PointsInv, AgeInv, NamedInv
<1>3. CountInv'
  BY DEF vars, IInv, VectorInv, CountInv
<1>4. MapInv' /\ VelocityInv'
  BY DEF vars, IInv, MapInv, VelocityInv, Joined
<1>5. RateInv'
  BY DEF vars, IInv, RateInv, Rate, Selected
<1>6. StreamInv'
  BY DEF vars, IInv, StreamInv
<1> QED
  BY <1>1, <1>2, <1>3, <1>4, <1>5, <1>6 DEF IInv, VectorInv

\* Every step keeps the invariant.
LEMMA Stepwise == IInv /\ [Next]_vars => IInv'
<1> SUFFICES ASSUME IInv, [Next]_vars
             PROVE  IInv'
  OBVIOUS
<1>1. ASSUME NEW t \in 1..MaxStamp, FirstImage(t) \/ Discontinuity(t) \/ ContinuousImage(t)
      PROVE  IInv'
  BY <1>1, FirstImageStep, DiscontinuityStep, ContinuousImageStep
<1>2. ASSUME NEW ix \in SetToAllKPermutations(1..MAX_CNT),
             OpticalFlow(ix) \/ RejectWithF(ix) \/ SetMask(ix)
      PROVE  IInv'
  BY <1>2, OpticalFlowStep, RejectWithFStep, SetMaskStep
<1>3. ASSUME NEW n \in 0..MAX_CNT, AddPoints(n)
      PROVE  IInv'
  BY <1>3, AddPointsStep
<1>4. CASE UndistortedPoints
  BY <1>4, UndistortedPointsStep
<1>5. CASE UpdateID
  BY <1>5, UpdateIDStep
<1>6. CASE Publish
  BY <1>6, PublishStep
<1>7. CASE Finished \/ UNCHANGED vars
  BY <1>7, StutterStep DEF Finished
<1> QED
  BY <1>1, <1>2, <1>3, <1>4, <1>5, <1>6, <1>7 DEF Next

\* The invariant holds in every state the node can be in.
THEOREM Invariance == Spec => []IInv
BY Initially, Stepwise, PTL DEF Spec

\* The parallel vectors describe the same points after every loss, rejection, sorting and
\* replenishment of readImage, whatever the optical flow and the detector give.
THEOREM VectorsStayAligned == Spec => []VectorsAligned
<1>1. IInv => VectorsAligned
  <2> SUFFICES ASSUME IInv, phase = "idle"
               PROVE  /\ Len(cur_pts) <= MAX_CNT
                      /\ Len(ids) = Len(cur_pts) /\ Len(track_cnt) = Len(cur_pts)
                      /\ cur_un_pts = cur_pts
                      /\ \A i \in DOMAIN cur_pts : /\ ids[i] = named[cur_pts[i]]
                                                   /\ track_cnt[i] = age[cur_pts[i]]
                      /\ \A p, q \in DOMAIN named : named[p] = named[q] => p = q
    BY DEF VectorsAligned
  <2>1. cur_pts = forw_pts /\ cur_un_pts = forw_pts
    BY DEF IInv, VectorInv, PointsInv
  <2>2. DOMAIN ids = DOMAIN forw_pts
    BY DEF IInv, TypeInv, VectorInv, PointsInv
  <2>3. \A i \in DOMAIN forw_pts : ids[i] # -1
    BY <2>2 DEF IInv, VectorInv, CountInv
  <2>4. \A i \in DOMAIN forw_pts : ids[i] = named[forw_pts[i]] /\ track_cnt[i] = age[forw_pts[i]]
    BY <2>3 DEF IInv, VectorInv, NamedInv, AgeInv
  <2> QED
    BY <2>1, <2>4 DEF IInv, VectorInv, PointsInv, NamedInv
<1> QED
  BY <1>1, Invariance, PTL

\* A velocity is that of the point at its index, from the point's own last place.
THEOREM VelocitiesOfTheirPoints == Spec => []VelocitiesMatch
<1>1. IInv => VelocitiesMatch
  <2> SUFFICES ASSUME IInv, phase \in {"name", "publish", "idle"}
               PROVE  /\ Len(pts_velocity) = Len(cur_pts)
                      /\ \A i \in DOMAIN cur_pts :
                           /\ pts_velocity[i] \in {Zero, <<cur_pts[i], cur_pts[i]>>}
                           /\ track_cnt[i] > 2 => pts_velocity[i] # Zero
    BY DEF VelocitiesMatch
  <2>1. cur_pts = forw_pts
    BY DEF IInv, VectorInv, PointsInv
  <2>2. Joined
    BY DEF Joined
  <2> QED
    BY <2>1, <2>2 DEF IInv, VelocityInv
<1> QED
  BY <1>1, Invariance, PTL

\* The rate of publication is kept over a whole session, and no image that is due is held back.
THEOREM RateIsKept == Spec => []PublicationRate
<1>1. IInv => PublicationRate
  <2> SUFFICES ASSUME IInv
               PROVE  PublicationRate
    OBVIOUS
  <2>1. phase = "idle" /\ ~first_image_flag => Rate(pub_count, sent, sent_at)
    BY DEF IInv, RateInv, Selected
  <2>2. phase # "idle" /\ ~PUB_THIS_FRAME => (last_image_time - sent_at) * FREQ < Hz
    BY DEF IInv, RateInv
  <2> QED
    BY <2>1, <2>2 DEF PublicationRate, Rate
<1> QED
  BY <1>1, Invariance, PTL

\* The published messages are a TrackStream: a feature that one leaves out is never in a
\* later one, and stamps do not go back without a restart.
THEOREM ImplementsTrackStream == Spec => FeaturesNeverReturn
<1>1. Init => Stream!Init
  BY DEF Init, Stream!Init
<1>2. IInv /\ [Next]_vars => [Stream!Next]_<<latest, shown, ever>>
  <2> SUFFICES ASSUME IInv, [Next]_vars
               PROVE  Stream!Next \/ UNCHANGED <<latest, shown, ever>>
    OBVIOUS
  <2>1. ASSUME NEW t \in 1..MaxStamp, FirstImage(t) \/ ContinuousImage(t)
        PROVE  UNCHANGED <<latest, shown, ever>>
    BY <2>1 DEF FirstImage, ContinuousImage, stream
  <2>2. ASSUME NEW t \in 1..MaxStamp, Discontinuity(t)
        PROVE  Stream!Next
    BY <2>2 DEF Discontinuity, Stream!Next, Stream!Restart
  <2>3. ASSUME NEW ix, OpticalFlow(ix) \/ RejectWithF(ix) \/ SetMask(ix)
        PROVE  UNCHANGED <<latest, shown, ever>>
    BY <2>3 DEF OpticalFlow, RejectWithF, SetMask, stream
  <2>4. ASSUME NEW n, AddPoints(n)
        PROVE  UNCHANGED <<latest, shown, ever>>
    BY <2>4 DEF AddPoints, stream
  <2>5. CASE UndistortedPoints \/ UpdateID
    BY <2>5 DEF UndistortedPoints, UpdateID, stream
  <2>6. CASE Publish
    <3>1. CASE init_pub
      <4>1. latest' = last_image_time /\ shown' = Tracked /\ ever' = ever \cup Tracked
        BY <2>6, <3>1 DEF Publish
      <4>2. last_image_time \in Stamps /\ last_image_time >= latest
        BY DEF IInv, TypeInv, Stamps, StreamInv
      <4>3. /\ phase = "publish" /\ DOMAIN ids = DOMAIN forw_pts
            /\ n_id \in 0..tracks /\ tracks \in 0..MaxTracks
        BY <2>6 DEF Publish, IInv, TypeInv, VectorInv, PointsInv
      <4>4. \A i \in DOMAIN ids : ids[i] \in 0..(n_id - 1) /\ (ids[i] \in ever => ids[i] \in shown)
        <5>1. \A i \in DOMAIN ids : ids[i] # -1
          BY <4>3 DEF IInv, VectorInv, CountInv
        <5> QED
          BY <4>3, <5>1 DEF IInv, VectorInv, NamedInv, StreamInv
      <4>5. 0..(n_id - 1) \subseteq Ids
        <5>1. n_id \in Nat /\ MaxTracks \in Nat /\ MaxTracks >= n_id
          BY <4>3, LimitAssumption
        <5> QED
          BY <5>1, MoreIds DEF Ids
      <4>6. Tracked \in SUBSET Ids /\ Tracked \cap ever \subseteq shown
        BY <4>4, <4>5 DEF Tracked
      <4>7. Stream!Show(last_image_time, Tracked)
        BY <4>1, <4>2, <4>6 DEF Stream!Show
      <4> QED
        BY <4>2, <4>6, <4>7 DEF Stream!Next
    <3>2. CASE ~init_pub
      BY <2>6, <3>2 DEF Publish, stream
    <3> QED
      BY <3>1, <3>2
  <2>7. CASE Finished \/ UNCHANGED vars
    BY <2>7 DEF Finished, vars
  <2> QED
    BY <2>1, <2>2, <2>3, <2>4, <2>5, <2>6, <2>7 DEF Next
<1> QED
  BY <1>1, <1>2, Invariance, PTL DEF Spec, FeaturesNeverReturn, Stream!Spec
=============================================================================
