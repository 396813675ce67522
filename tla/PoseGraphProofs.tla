--------------------------- MODULE PoseGraphProofs ---------------------------
(***************************************************************************)
(* Theorems about PoseGraph, for every number of keyframes and sequences,  *)
(* every Recent and every query result.                                    *)
(***************************************************************************)
EXTENDS PoseGraph, FiniteSetTheorems, SequenceTheorems, WellFoundedInduction, TLAPS

-----------------------------------------------------------------------------
(* detectLoop *)

\* A set of naturals that is not empty has a smallest element, and Minimum is it.
LEMMA MinimumOfNaturals ==
  ASSUME NEW S, S \subseteq Nat, S # {}
  PROVE  Minimum(S) \in S /\ \A y \in S : Minimum(S) <= y
<1> DEFINE R == OpToRel(<, Nat)
<1>1. PICK x \in S : \A y \in S : ~ (<<y, x>> \in R)
  <2>1. IsWellFoundedOn(R, Nat)
    BY NatLessThanWellFounded
  <2> HIDE DEF R
  <2> QED
    BY <2>1, WFMin
<1>2. \A y \in S : ~ (y < x)
  <2> SUFFICES ASSUME NEW y \in S, y < x
               PROVE  FALSE
    OBVIOUS
  <2>1. <<y, x>> \in R
    BY DEF OpToRel
  <2> QED
    BY <1>1, <2>1
<1>3. \A y \in S : x <= y
  BY <1>2
<1> QED
  BY <1>1, <1>3 DEF Minimum

\* The loop of keyframe n is a keyframe before it and older than the recent ones.
LEMMA LoopIsOld ==
  ASSUME NEW n \in Nat, NEW loop \in Loops(n), loop # -1
  PROVE  loop \in 0..(n - Recent - 1)
<1> USE QueryAssumption
<1>1. PICK ret \in Results(n) : loop = DetectLoop(ret, n)
  BY DEF Loops
<1>2. PICK k \in 0..MaxResults :
        /\ ret \in [1..k -> [id : Matches(n), score : Scores]]
        /\ \A i, j \in 1..k : i < j => ret[i].id # ret[j].id
  BY <1>1 DEF Results
<1>3. HasLoop(ret) /\ n > Recent
  BY <1>1 DEF DetectLoop
<1>4. PICK i \in 1..k : i > 1 /\ ret[i].score # "low"
  BY <1>2, <1>3 DEF HasLoop
<1> DEFINE ids == {ret[1].id} \cup {ret[m].id : m \in {j \in DOMAIN ret : ret[j].score # "low"}}
<1>5. loop = Minimum(ids)
  BY <1>1, <1>3 DEF DetectLoop
<1>6. \A m \in 1..k : ret[m].id \in Matches(n)
  BY <1>2
<1>7. ids \subseteq Matches(n) /\ ret[1].id \in ids /\ ret[i].id \in ids
  BY <1>2, <1>4, <1>6
<1>8. Matches(n) \subseteq Nat
  BY DEF Matches
<1>9. loop \in ids /\ loop <= ret[1].id /\ loop <= ret[i].id
  <2> HIDE DEF ids
  <2> QED
    BY <1>5, <1>7, <1>8, MinimumOfNaturals
<1>10. \A m \in Matches(n) : m \in 0..(n - Recent - 1) \/ m = n - 1
  BY <1>3 DEF Matches
<1>11. ret[1].id # ret[i].id
  BY <1>2, <1>4
<1> HIDE DEF ids
<1>12. ret[1].id \in 0..(n - Recent - 1) \/ ret[i].id \in 0..(n - Recent - 1)
  BY <1>7, <1>10, <1>11
<1>13. loop \in Nat
  BY <1>7, <1>8, <1>9
<1> QED
  BY <1>7, <1>8, <1>9, <1>12, <1>13

-----------------------------------------------------------------------------
(* The inductive invariant *)

Pose == [by : {"none", "graph", "relo", "solution"}, of : Int, vio : Int]
KeyFrame ==
  [index : Int, sequence : Nat, loop : Nat \cup {-1}, vio : Int, pose : Pose, from : Int]

\* The keyframe being added has its index, and is not in the list.
Adding == adder \in {"connect", "shift", "push", "insert"}

TypeInv ==
  /\ sequence \in Nat /\ sequence_cnt \in Nat /\ global_index \in Nat
  /\ adder \in {"load", "idle", "connect", "shift", "push", "insert"}
  /\ cur \in KeyFrame /\ keyframelist \in Seq(KeyFrame)
  /\ w_vio \in Int /\ drift \in Pose
  /\ earliest_loop_index \in Nat \cup {-1} /\ optimize_buf \in Seq(Nat)
  /\ optimizer \in {"sleep", "build", "solve", "path"}
  /\ cur_index \in Int /\ first_looped_index \in Int /\ optimized \in Int
  /\ Adding => cur.index \in Nat
  /\ answers \in SUBSET Nat /\ found \in BOOLEAN /\ crashed \in BOOLEAN

\* Indices are given without a gap: a keyframe stands at its index.
IndexInv ==
  /\ \A k \in DOMAIN keyframelist : keyframelist[k].index = k - 1
  /\ global_index = Len(keyframelist) + (IF Adding THEN 1 ELSE 0)
  /\ Adding => cur.index = Len(keyframelist)

\* Nothing else has happened when the node is loading.
LoadInv ==
  adder = "load" =>
    /\ answers = {} /\ optimize_buf = <<>> /\ optimizer = "sleep"
    /\ drift = Identity /\ sequence = 1 /\ sequence_cnt = 0 /\ w_vio = -1

OldLoop(frame) == frame.loop = -1 \/ frame.loop \in 0..(frame.index - Recent - 1)

\* A loop leads to an older keyframe, in the list and in the keyframe being added.
LoopInv ==
  /\ \A k \in DOMAIN keyframelist : OldLoop(keyframelist[k])
  /\ Adding => OldLoop(cur)
  /\ adder \in {"connect", "shift", "push"} => cur.loop # -1

Remembered(frame) ==
  frame.loop # -1 => earliest_loop_index # -1 /\ earliest_loop_index <= frame.loop

\* earliest_loop_index is at most every loop that has been confirmed.
EarliestInv ==
  /\ \A k \in DOMAIN keyframelist : Remembered(keyframelist[k])
  /\ adder \in {"shift", "push", "insert"} => Remembered(cur)

StructureInv == IndexInv /\ LoadInv /\ LoopInv /\ EarliestInv

\* The keyframe that was found is still in the list, and the problem has what it was built
\* from for every keyframe that gets its pose from it.
SolvedInv ==
  optimizer = "solve" /\ found =>
    /\ cur_index \in 0..(Len(keyframelist) - 1)
    /\ \A k \in DOMAIN keyframelist :
         keyframelist[k].index \in first_looped_index..cur_index =>
           k \in DOMAIN problem /\ problem[k] \in Int

-----------------------------------------------------------------------------
(* Types and structure *)

USE QueryAssumption, FlagsAssumption, LimitAssumption DEF Adding

\* The values of a pose that the steps assign.
LEMMA Poses ==
  /\ Identity \in Pose
  /\ \A i, v \in Int : /\ [by |-> "graph", of |-> i, vio |-> v] \in Pose
                      /\ [by |-> "relo", of |-> i, vio |-> v] \in Pose
                      /\ [by |-> "solution", of |-> i, vio |-> v] \in Pose
  BY DEF Identity, Pose

\* A function on 1..n is a sequence of length n.
LEMMA FunctionIsSequence ==
  ASSUME NEW S, NEW n \in Nat, NEW f \in [1..n -> S]
  PROVE  f \in Seq(S) /\ Len(f) = n
<1>1. f \in Seq(S)
  BY SeqDef
<1>2. DOMAIN f = 1..Len(f) /\ Len(f) \in Nat /\ DOMAIN f = 1..n
  BY <1>1, LenProperties
<1> QED
  BY <1>2

\* The places of the list, and the keyframes in them.
LEMMA ListedFrames ==
  ASSUME TypeInv
  PROVE  /\ Len(keyframelist) \in Nat
         /\ DOMAIN keyframelist = 1..Len(keyframelist)
         /\ \A k \in 1..Len(keyframelist) : keyframelist[k] \in KeyFrame
<1>1. keyframelist \in Seq(KeyFrame)
  BY DEF TypeInv
<1> QED
  BY <1>1, LenProperties, ElementOfSeq

\* A keyframe is found by its index.
LEMMA FrameFound ==
  ASSUME TypeInv, NEW i \in Listed
  PROVE  Frame(i) \in KeyFrame /\ Frame(i).index = i
<1> DEFINE P(k) == k \in DOMAIN keyframelist /\ keyframelist[k].index = i
<1>1. \E k : P(k)
  BY DEF Listed
<1>2. P(CHOOSE k : P(k))
  <2> HIDE DEF P
  <2> QED
    BY <1>1
<1>3. Frame(i) = keyframelist[CHOOSE k : P(k)]
  BY DEF Frame
<1> QED
  BY <1>2, <1>3, ListedFrames

\* When indices have no gap, it stands one place behind its index.
LEMMA FrameAt ==
  ASSUME TypeInv, IndexInv, NEW i \in 0..(Len(keyframelist) - 1)
  PROVE  i \in Listed /\ Frame(i) = keyframelist[i + 1]
<1> DEFINE P(k) == k \in DOMAIN keyframelist /\ keyframelist[k].index = i
<1>a. /\ Len(keyframelist) \in Nat /\ DOMAIN keyframelist = 1..Len(keyframelist)
      /\ \A k \in 1..Len(keyframelist) : keyframelist[k].index = k - 1
  BY ListedFrames DEF IndexInv
<1>b. i + 1 \in 1..Len(keyframelist) /\ i + 1 - 1 = i
  BY <1>a
<1>1. P(i + 1)
  BY <1>a, <1>b
<1>2. \A k : P(k) => k = i + 1
  <2> SUFFICES ASSUME NEW k \in 1..Len(keyframelist), keyframelist[k].index = i
               PROVE  k = i + 1
    BY <1>a
  <2>1. k - 1 = i /\ k \in Int
    BY <1>a
  <2> QED
    BY <2>1
<1>3. Frame(i) = keyframelist[CHOOSE k : P(k)]
  BY DEF Frame
<1>4. i \in Listed
  BY <1>1 DEF Listed
<1>5. (CHOOSE k : P(k)) = i + 1
  <2> HIDE DEF P
  <2> QED
    BY <1>1, <1>2
<1> QED
  BY <1>3, <1>4, <1>5

\* A keyframe that the walk over cur's sequence has changed: its odometry pose is half written,
\* or shifted, and then its pose comes from it.
Walked(new, old) ==
  /\ old.sequence = cur.sequence /\ old.vio # cur.index
  /\ new.vio = Half \/ (new.vio = cur.index /\ new.from = cur.index)

\* The walk leaves the list's keyframes alone but for one's odometry pose and pose.
LEMMA ShiftedFrames ==
  ASSUME TypeInv, ShiftKeyFrame
  PROVE  /\ keyframelist' \in Seq(KeyFrame)
         /\ Len(keyframelist') = Len(keyframelist)
         /\ \A k \in 1..Len(keyframelist) :
              /\ keyframelist'[k].index = keyframelist[k].index
              /\ keyframelist'[k].loop = keyframelist[k].loop
              /\ keyframelist'[k].sequence = keyframelist[k].sequence
              /\ keyframelist'[k] = keyframelist[k] \/ Walked(keyframelist'[k], keyframelist[k])
<1> DEFINE n == Len(keyframelist)
<1>1. PICK m \in Unshifted : keyframelist' = [keyframelist EXCEPT ![m] = Shifted(keyframelist[m])]
  BY DEF ShiftKeyFrame
<1>2. m \in 1..n /\ keyframelist[m].sequence = cur.sequence /\ keyframelist[m].vio # cur.index
  BY ListedFrames DEF Unshifted
<1>3. DOMAIN keyframelist' = 1..n /\ keyframelist' = [k \in 1..n |-> keyframelist'[k]]
  BY <1>1, ListedFrames
<1>4. ASSUME NEW k \in 1..n
      PROVE  /\ keyframelist'[k] \in KeyFrame
             /\ keyframelist'[k].index = keyframelist[k].index
             /\ keyframelist'[k].loop = keyframelist[k].loop
             /\ keyframelist'[k].sequence = keyframelist[k].sequence
             /\ keyframelist'[k] = keyframelist[k] \/ Walked(keyframelist'[k], keyframelist[k])
  <2> DEFINE frame == keyframelist[k]
             new == keyframelist'[k]
  <2>1. frame \in KeyFrame /\ cur.index \in Int /\ Half \in Int
    <3>1. cur.index \in Int
      BY DEF TypeInv, KeyFrame
    <3>2. frame \in KeyFrame
      BY ListedFrames
    <3> QED
      BY <3>1, <3>2 DEF Half
  <2>2. CASE k # m
    <3>1. new = frame
      BY <1>1, <2>2, ListedFrames
    <3> QED
      BY <2>1, <3>1
  <2>3. CASE k = m
    <3>1. /\ new = Shifted(frame)
          /\ frame.sequence = cur.sequence /\ frame.vio # cur.index
      BY <1>1, <1>2, <2>3, ListedFrames
    <3> HIDE DEF frame, new
    <3>2. \/ new = [frame EXCEPT !.vio = Half]
          \/ new = [frame EXCEPT !.vio = cur.index, !.pose = Identity, !.from = cur.index]
      BY <3>1 DEF Shifted
    <3>3. /\ new \in KeyFrame /\ new.index = frame.index /\ new.loop = frame.loop
          /\ new.sequence = frame.sequence
          /\ new.vio = Half \/ (new.vio = cur.index /\ new.from = cur.index)
      BY <2>1, <3>2, Poses DEF KeyFrame
    <3>4. Walked(new, frame)
      BY <3>1, <3>3 DEF Walked
    <3> QED
      BY <3>3, <3>4 DEF frame, new
  <2> QED
    BY <2>2, <2>3
<1>5. keyframelist' \in [1..n -> KeyFrame]
  BY <1>3, <1>4
<1>6. keyframelist' \in Seq(KeyFrame) /\ Len(keyframelist') = n
  BY <1>5, ListedFrames, FunctionIsSequence
<1> QED
  BY <1>4, <1>6

\* UpdatePoses leaves the list's keyframes alone but for their poses.
LEMMA UpdatedFrames ==
  ASSUME TypeInv, IndexInv, SolvedInv, UpdatePoses
  PROVE  /\ keyframelist' \in Seq(KeyFrame)
         /\ drift' \in Pose
         /\ drift'.of = cur_index /\ drift'.vio = keyframelist[cur_index + 1].vio
         /\ cur_index \in 0..(Len(keyframelist) - 1)
         /\ Len(keyframelist') = Len(keyframelist)
         /\ \A k \in 1..Len(keyframelist) :
              /\ keyframelist'[k].index = keyframelist[k].index
              /\ keyframelist'[k].loop = keyframelist[k].loop
              /\ keyframelist'[k].sequence = keyframelist[k].sequence
              /\ keyframelist'[k].vio = keyframelist[k].vio
              /\ keyframelist[k].index < first_looped_index => keyframelist'[k] = keyframelist[k]
              /\ keyframelist[k].index \in first_looped_index..cur_index
                   => keyframelist'[k].from = problem[k]
              /\ keyframelist[k].index >= first_looped_index /\ keyframelist[k].index > cur_index
                   => keyframelist'[k].pose = drift' /\ keyframelist'[k].from = keyframelist[k].vio
<1> DEFINE n == Len(keyframelist)
           solved == [by |-> "solution", of |-> cur_index, vio |-> -1]
<1>1. cur_index \in 0..(n - 1) /\ first_looped_index \in Int /\ n \in Nat
  BY ListedFrames DEF UpdatePoses, TypeInv, SolvedInv
<1>2. ASSUME NEW k \in 1..n
      PROVE  keyframelist[k].index \in Int /\ keyframelist[k].vio \in Int
  BY ListedFrames DEF KeyFrame
<1> DEFINE New(k) ==
             CASE keyframelist[k].index < first_looped_index -> keyframelist[k]
               [] keyframelist[k].index \in first_looped_index..cur_index ->
                    [keyframelist[k] EXCEPT !.pose = solved, !.from = problem[k]]
               [] OTHER -> [keyframelist[k] EXCEPT !.pose = drift', !.from = keyframelist[k].vio]
<1>d. keyframelist' = [k \in 1..n |-> New(k)]
  BY ListedFrames DEF UpdatePoses, LaterPose
<1>4. \A k \in 1..n : keyframelist'[k] = New(k)
  <2> HIDE DEF New
  <2> QED
    BY <1>d
<1>3. DOMAIN keyframelist' = 1..n /\ keyframelist' = [k \in 1..n |-> keyframelist'[k]]
  <2> HIDE DEF New
  <2> QED
    BY <1>d
<1>a. drift' = [by |-> "graph", of |-> cur_index, vio |-> keyframelist[cur_index + 1].vio]
  <2>1. Frame(cur_index) = keyframelist[cur_index + 1]
    BY <1>1, FrameAt
  <2> QED
    BY <2>1 DEF UpdatePoses
<1>b. drift' \in Pose /\ solved \in Pose
  <2>1. cur_index + 1 \in 1..n /\ cur_index \in Int
    BY <1>1
  <2>2. keyframelist[cur_index + 1].vio \in Int
    BY <1>2, <2>1
  <2>3. [by |-> "graph", of |-> cur_index, vio |-> keyframelist[cur_index + 1].vio] \in Pose
    BY <2>1, <2>2, Poses
  <2>4. solved \in Pose
    BY <2>1 DEF Pose
  <2> QED
    BY <1>a, <2>3, <2>4
<1>c. drift'.of = cur_index /\ drift'.vio = keyframelist[cur_index + 1].vio
  BY <1>a
<1>5. ASSUME NEW k \in 1..n
      PROVE  /\ keyframelist'[k] \in KeyFrame
             /\ keyframelist'[k].index = keyframelist[k].index
             /\ keyframelist'[k].loop = keyframelist[k].loop
             /\ keyframelist'[k].sequence = keyframelist[k].sequence
             /\ keyframelist'[k].vio = keyframelist[k].vio
             /\ keyframelist[k].index < first_looped_index => keyframelist'[k] = keyframelist[k]
             /\ keyframelist[k].index \in first_looped_index..cur_index
                  => keyframelist'[k].from = problem[k]
             /\ keyframelist[k].index >= first_looped_index /\ keyframelist[k].index > cur_index
                  => keyframelist'[k].pose = drift' /\ keyframelist'[k].from = keyframelist[k].vio
  <2> DEFINE frame == keyframelist[k]
             new == keyframelist'[k]
             built == problem[k]
  <2>1. frame \in KeyFrame /\ frame.index \in Int /\ frame.vio \in Int
    BY <1>2, ListedFrames
  <2>2. new =
          CASE frame.index < first_looped_index -> frame
            [] frame.index \in first_looped_index..cur_index ->
                 [frame EXCEPT !.pose = solved, !.from = built]
            [] OTHER -> [frame EXCEPT !.pose = drift', !.from = frame.vio]
    BY <1>4
  <2>a. frame.index \in first_looped_index..cur_index => built \in Int
    BY ListedFrames DEF SolvedInv, UpdatePoses
  <2>b. cur_index \in Int
    BY <1>1
  <2> HIDE DEF frame, solved, new, built
  <2>3. CASE frame.index < first_looped_index
    <3>1. new = frame
      BY <1>1, <2>1, <2>2, <2>3
    <3> QED
      BY <1>1, <2>b, <2>1, <2>3, <3>1 DEF frame, new
  <2>4. CASE frame.index \in first_looped_index..cur_index
    <3>1. new = [frame EXCEPT !.pose = solved, !.from = built]
      BY <1>1, <2>b, <2>1, <2>2, <2>4
    <3>2. /\ new \in KeyFrame
          /\ new.index = frame.index /\ new.loop = frame.loop
          /\ new.sequence = frame.sequence /\ new.vio = frame.vio /\ new.from = built
      BY <1>b, <2>1, <2>4, <2>a, <3>1 DEF KeyFrame
    <3>3. ~ (frame.index < first_looped_index) /\ ~ (frame.index > cur_index)
      BY <1>1, <2>b, <2>1, <2>4
    <3> QED
      BY <3>2, <3>3 DEF frame, new, built
  <2>5. CASE frame.index >= first_looped_index /\ frame.index > cur_index
    <3>1. new = [frame EXCEPT !.pose = drift', !.from = frame.vio]
      BY <1>1, <2>b, <2>1, <2>2, <2>5
    <3>2. /\ new \in KeyFrame
          /\ new.index = frame.index /\ new.loop = frame.loop
          /\ new.sequence = frame.sequence /\ new.vio = frame.vio
          /\ new.pose = drift' /\ new.from = frame.vio
      BY <1>b, <2>1, <3>1 DEF KeyFrame
    <3>3. ~ (frame.index < first_looped_index) /\ frame.index \notin first_looped_index..cur_index
      BY <1>1, <2>b, <2>1, <2>5
    <3> QED
      BY <3>2, <3>3 DEF frame, new
  <2> QED
    BY <1>1, <2>b, <2>1, <2>3, <2>4, <2>5
<1>6. keyframelist' \in [1..n -> KeyFrame]
  BY <1>3, <1>5
<1>7. keyframelist' \in Seq(KeyFrame) /\ Len(keyframelist') = n
  BY <1>6, ListedFrames, FunctionIsSequence
<1> QED
  BY <1>1, <1>b, <1>c, <1>5, <1>7

\* The list keeps its keyframes in their places when one is appended.
LEMMA InsertedFrame ==
  ASSUME TypeInv, NEW frame \in KeyFrame, keyframelist' = Append(keyframelist, frame)
  PROVE  /\ keyframelist' \in Seq(KeyFrame)
         /\ Len(keyframelist) \in Nat
         /\ Len(keyframelist') = Len(keyframelist) + 1
         /\ DOMAIN keyframelist = 1..Len(keyframelist)
         /\ DOMAIN keyframelist' = 1..(Len(keyframelist) + 1)
         /\ \A k \in 1..Len(keyframelist) : keyframelist'[k] = keyframelist[k]
         /\ keyframelist'[Len(keyframelist) + 1] = frame
<1>1. keyframelist \in Seq(KeyFrame)
  BY DEF TypeInv
<1>2. keyframelist' \in Seq(KeyFrame)
  BY <1>1, AppendProperties
<1> QED
  BY <1>1, <1>2, AppendProperties, LenProperties

\* The state the node starts from satisfies both.
LEMMA StructureInit == Init => TypeInv /\ StructureInv /\ SolvedInv
<1> SUFFICES ASSUME Init
             PROVE  TypeInv /\ StructureInv /\ SolvedInv
  OBVIOUS
<1>1. keyframelist \in Seq(KeyFrame) /\ optimize_buf \in Seq(Nat) /\ Len(keyframelist) = 0
      /\ DOMAIN keyframelist = {}
  BY EmptySeq DEF Init
<1>2. TypeInv
  BY <1>1 DEF Init, TypeInv
<1>3. StructureInv
  BY <1>1 DEF Init, StructureInv, IndexInv, LoadInv, LoopInv, EarliestInv, Adding, OldLoop, Remembered
<1>4. SolvedInv
  BY DEF Init, SolvedInv
<1> QED
  BY <1>2, <1>3, <1>4

\* The loops a keyframe can be given are integers.
LEMMA LoopType ==
  ASSUME NEW n \in Nat, NEW loop \in {-1} \cup Loops(n)
  PROVE  loop = -1 \/ loop \in 0..(n - Recent - 1)
  BY LoopIsOld

\* Loading appends a keyframe with its index and a loop to an older keyframe, or none.
LEMMA FrameLoaded ==
  ASSUME TypeInv, NEW loop, LoadKeyFrame(loop)
  PROVE  /\ loop = -1 \/ loop \in 0..(global_index - Recent - 1)
         /\ \E frame \in KeyFrame :
              /\ frame.index = global_index /\ frame.loop = loop
              /\ frame.sequence = 0 /\ frame.vio = -1 /\ frame.pose = Identity /\ frame.from = -1
              /\ keyframelist' = Append(keyframelist, frame)
<1>1. global_index \in Nat
  BY DEF TypeInv
<1>2. loop = -1 \/ loop \in 0..(global_index - Recent - 1)
  BY <1>1, LoopType DEF LoadKeyFrame
<1>3. loop \in Nat \cup {-1}
  BY <1>1, <1>2
<1> DEFINE indexed == [NoFrame EXCEPT !.index = global_index]
           frame == [indexed EXCEPT !.loop = loop]
<1>4. /\ NoFrame \in KeyFrame /\ NoFrame.sequence = 0 /\ NoFrame.vio = -1
      /\ NoFrame.pose = Identity /\ NoFrame.from = -1
  BY Poses DEF NoFrame, KeyFrame
<1>5. /\ indexed \in KeyFrame /\ indexed.index = global_index
      /\ indexed.sequence = 0 /\ indexed.vio = -1 /\ indexed.pose = Identity /\ indexed.from = -1
  BY <1>1, <1>4 DEF KeyFrame
<1>6. keyframelist' = Append(keyframelist, frame)
  BY DEF LoadKeyFrame
<1> HIDE DEF indexed
<1>7. /\ frame \in KeyFrame /\ frame.index = global_index /\ frame.loop = loop
      /\ frame.sequence = 0 /\ frame.vio = -1 /\ frame.pose = Identity /\ frame.from = -1
  BY <1>3, <1>5 DEF KeyFrame
<1> HIDE DEF frame
<1> QED
  BY <1>2, <1>6, <1>7

\* No step of the process thread disturbs a type.
LEMMA TypeAdder == TypeInv /\ Adder => TypeInv'
<1> SUFFICES ASSUME TypeInv, Adder
             PROVE  TypeInv'
  OBVIOUS
<1> USE DEF TypeInv, graph, queue, solver
<1>a. Adding => cur.index \in Nat
  OBVIOUS
<1>1. ASSUME NEW loop, LoadKeyFrame(loop)
      PROVE  TypeInv'
  <2>1. loop \in Nat \cup {-1}
    BY <1>1, FrameLoaded
  <2>2. PICK frame \in KeyFrame : keyframelist' = Append(keyframelist, frame)
    BY <1>1, FrameLoaded
  <2>4. keyframelist' \in Seq(KeyFrame)
    BY <2>2, InsertedFrame
  <2>5. earliest_loop_index' \in Nat \cup {-1}
    BY <1>1, <2>1 DEF LoadKeyFrame, Earlier
  <2> QED
    BY <1>1, <2>4, <2>5 DEF LoadKeyFrame
<1>2. ASSUME NEW loop, NewKeyFrame(loop)
      PROVE  TypeInv'
  <2>1. loop \in Nat \cup {-1}
    BY <1>2, LoopType DEF NewKeyFrame
  <2>2. w_vio' \in Int /\ drift' \in Pose /\ sequence_cnt' \in Nat
    BY <1>2, Poses DEF NewKeyFrame
  <2>3. cur' \in KeyFrame /\ cur'.index = global_index
    BY <1>2, <2>1, <2>2, Poses DEF NewKeyFrame, KeyFrame
  <2> QED
    BY <1>2, <2>2, <2>3 DEF NewKeyFrame
<1>3. CASE Loaded
  BY <1>3 DEF Loaded
<1>4. CASE Connect
  <2>1. cur.index \in Nat /\ cur.loop \in Nat \cup {-1}
    BY <1>4, <1>a DEF Connect, KeyFrame
  <2>2. cur' \in KeyFrame /\ cur'.index = cur.index
    <3>1. cur' = [cur EXCEPT !.vio = cur.index] \/ cur' = cur
      BY <1>4 DEF Connect
    <3> QED
      BY <2>1, <3>1 DEF KeyFrame
  <2>3. w_vio' \in Int /\ adder' \in {"shift", "push"}
    BY <1>4, <2>1 DEF Connect
  <2>4. earliest_loop_index' \in Nat \cup {-1}
    BY <1>4, <2>1 DEF Connect, Earlier
  <2>5. answers' \in SUBSET Nat
    BY <1>4, <2>1 DEF Connect
  <2> QED
    BY <1>4, <2>1, <2>2, <2>3, <2>4, <2>5 DEF Connect
<1>5. CASE NoConnection
  <2>1. cur' \in KeyFrame /\ cur'.index = cur.index
    <3>1. cur \in KeyFrame /\ cur' = [cur EXCEPT !.loop = -1]
      BY <1>5 DEF NoConnection
    <3> QED
      BY <3>1 DEF KeyFrame
  <2> QED
    BY <1>5, <2>1 DEF NoConnection
<1>6. CASE PushLoop
  <2>1. optimize_buf' \in Seq(Nat)
    BY <1>6, <1>a, AppendProperties DEF PushLoop, Queued
  <2> QED
    BY <1>6, <2>1 DEF PushLoop
<1>7. CASE InsertKeyFrame
  <2> DEFINE frame == [cur EXCEPT !.pose = drift, !.from = cur.vio]
  <2>1. frame \in KeyFrame /\ NoFrame \in KeyFrame
    <3>1. cur \in KeyFrame /\ drift \in Pose
      OBVIOUS
    <3>2. NoFrame \in KeyFrame
      BY Poses DEF KeyFrame, NoFrame
    <3> QED
      BY <3>1, <3>2 DEF KeyFrame
  <2>2. keyframelist' = Append(keyframelist, frame)
    BY <1>7 DEF InsertKeyFrame
  <2>3. keyframelist' \in Seq(KeyFrame)
    <3> HIDE DEF frame
    <3> QED
      BY <2>1, <2>2, InsertedFrame
  <2> QED
    BY <1>7, <2>1, <2>3 DEF InsertKeyFrame
<1>8. CASE ShiftKeyFrame
  BY <1>8, ShiftedFrames DEF ShiftKeyFrame
<1>9. CASE SequenceShifted
  BY <1>9 DEF SequenceShifted, Onwards
<1> QED
  BY <1>1, <1>2, <1>3, <1>4, <1>5, <1>6, <1>7, <1>8, <1>9 DEF Adder

\* No step of the other threads disturbs a type.
LEMMA TypeOthers == TypeInv /\ IndexInv /\ SolvedInv /\ (Optimizer \/ Spin) => TypeInv'
<1> SUFFICES ASSUME TypeInv, IndexInv, SolvedInv, Optimizer \/ Spin
             PROVE  TypeInv'
  OBVIOUS
<1> USE DEF TypeInv, graph, queue, solver
<1>1. CASE TakeLoop
  <2>1. LastQueued \in Int /\ <<>> \in Seq(Nat)
    <3>1. optimize_buf # <<>> /\ optimize_buf \in Seq(Nat)
      BY <1>1 DEF TakeLoop
    <3>2. Len(optimize_buf) \in 1..Len(optimize_buf)
      BY <3>1, EmptySeq
    <3>3. optimize_buf[Len(optimize_buf)] \in Nat
      BY <3>1, <3>2, ElementOfSeq
    <3> QED
      BY <3>3, EmptySeq DEF LastQueued
  <2> QED
    BY <1>1, <2>1 DEF TakeLoop
<1>2. CASE BuildProblem
  BY <1>2 DEF BuildProblem
<1>3. CASE UpdatePoses
  BY <1>3, UpdatedFrames DEF UpdatePoses
<1>4. CASE CrashInOptimizer
  BY <1>4 DEF CrashInOptimizer
<1>5. CASE UpdatePath
  BY <1>5 DEF UpdatePath
<1>6. CASE NewSequence
  BY <1>6 DEF NewSequence
<1>7. ASSUME NEW i \in answers, UpdateKeyFrameLoop(i)
      PROVE  TypeInv'
  <2>1. drift' \in Pose
    <3>1. \/ drift' = drift
          \/ i \in Listed /\ drift' = [by |-> "relo", of |-> i, vio |-> Frame(i).vio]
      BY <1>7 DEF UpdateKeyFrameLoop
    <3>2. i \in Listed => Frame(i).vio \in Int
      BY FrameFound DEF KeyFrame
    <3>3. drift \in Pose /\ i \in Int
      OBVIOUS
    <3> QED
      BY <3>1, <3>2, <3>3, Poses
  <2> QED
    BY <1>7, <2>1 DEF UpdateKeyFrameLoop
<1> QED
  BY <1>1, <1>2, <1>3, <1>4, <1>5, <1>6, <1>7 DEF Optimizer, Spin

\* The process thread keeps indices and loops in order, and earliest_loop_index with them.
LEMMA StructureAdder == TypeInv /\ StructureInv /\ Adder => StructureInv'
<1> SUFFICES ASSUME TypeInv, StructureInv, Adder
             PROVE  StructureInv'
  OBVIOUS
<1> USE DEF StructureInv, IndexInv, LoadInv, LoopInv, EarliestInv, OldLoop, Remembered
<1>a. /\ sequence_cnt \in Nat /\ global_index \in Nat /\ earliest_loop_index \in Nat \cup {-1}
      /\ cur.loop \in Nat \cup {-1} /\ adder \in {"load", "idle", "connect", "shift", "push", "insert"}
      /\ (Adding => cur.index \in Nat)
  BY DEF TypeInv, KeyFrame
<1>b. /\ Len(keyframelist) \in Nat /\ DOMAIN keyframelist = 1..Len(keyframelist)
      /\ \A k \in 1..Len(keyframelist) : keyframelist[k].loop \in Nat \cup {-1}
  BY ListedFrames DEF KeyFrame
<1>1. ASSUME NEW loop, LoadKeyFrame(loop)
      PROVE  StructureInv'
  <2>1. loop = -1 \/ loop \in 0..(global_index - Recent - 1)
    BY <1>1, <1>a, LoopType DEF LoadKeyFrame
  <2>2. PICK frame \in KeyFrame :
          /\ frame.index = global_index /\ frame.loop = loop
          /\ keyframelist' = Append(keyframelist, frame)
    BY <1>1, FrameLoaded
  <2>4. /\ Len(keyframelist') = Len(keyframelist) + 1
        /\ DOMAIN keyframelist' = 1..(Len(keyframelist) + 1)
        /\ \A k \in 1..Len(keyframelist) : keyframelist'[k] = keyframelist[k]
        /\ keyframelist'[Len(keyframelist) + 1] = frame
    BY <2>2, InsertedFrame
  <2>5. adder = "load" /\ adder' = "load" /\ global_index' = global_index + 1
    BY <1>1 DEF LoadKeyFrame
  <2>6. IndexInv'
    BY <1>a, <1>b, <2>2, <2>4, <2>5
  <2>7. LoadInv'
    BY <1>1 DEF LoadKeyFrame, solver
  <2>8. LoopInv'
    BY <1>a, <1>b, <2>1, <2>2, <2>4, <2>5
  <2>9. /\ loop # -1 => earliest_loop_index' # -1 /\ earliest_loop_index' <= loop
        /\ earliest_loop_index # -1 =>
             earliest_loop_index' # -1 /\ earliest_loop_index' <= earliest_loop_index
        /\ earliest_loop_index' \in Nat \cup {-1}
    BY <1>1, <1>a, <2>1 DEF LoadKeyFrame, Earlier
  <2>10. EarliestInv'
    BY <1>a, <1>b, <2>2, <2>4, <2>5, <2>9
  <2> QED
    BY <2>6, <2>7, <2>8, <2>10
<1>2. ASSUME NEW loop, NewKeyFrame(loop)
      PROVE  StructureInv'
  <2>1. loop = -1 \/ loop \in 0..(global_index - Recent - 1)
    BY <1>2, <1>a, LoopType DEF NewKeyFrame
  <2>2. /\ adder = "idle" /\ adder' = (IF loop = -1 THEN "insert" ELSE "connect")
        /\ cur'.index = global_index /\ cur'.loop = loop
        /\ keyframelist' = keyframelist /\ earliest_loop_index' = earliest_loop_index
        /\ global_index' = global_index + 1
    BY <1>2 DEF NewKeyFrame, queue
  <2> QED
    BY <1>a, <1>b, <2>1, <2>2
<1>3. CASE Loaded
  BY <1>3, <1>a DEF Loaded, graph, queue
<1>4. CASE Connect
  <2>1. /\ adder = "connect" /\ adder' \in {"shift", "push"}
        /\ global_index' = global_index /\ keyframelist' = keyframelist
        /\ cur'.index = cur.index /\ cur'.loop = cur.loop
    <3>1. cur' \in {cur, [cur EXCEPT !.vio = cur.index]} /\ cur \in KeyFrame
      BY <1>4 DEF Connect, TypeInv
    <3>2. cur'.index = cur.index /\ cur'.loop = cur.loop
      BY <3>1 DEF KeyFrame
    <3> QED
      BY <1>4, <3>2 DEF Connect
  <2>3. /\ earliest_loop_index' # -1 /\ earliest_loop_index' <= cur.loop
        /\ earliest_loop_index # -1 => earliest_loop_index' <= earliest_loop_index
        /\ earliest_loop_index' \in Nat
    BY <1>4, <1>a, <2>1 DEF Connect, Earlier
  <2>4. IndexInv' /\ LoadInv'
    BY <1>a, <1>b, <2>1
  <2>5. LoopInv'
    BY <1>a, <1>b, <2>1
  <2>6. EarliestInv'
    BY <1>a, <1>b, <2>1, <2>3
  <2> QED
    BY <2>4, <2>5, <2>6
<1>5. CASE NoConnection
  <2>1. cur \in KeyFrame /\ cur' = [cur EXCEPT !.loop = -1]
    BY <1>5 DEF NoConnection, TypeInv
  <2>2. cur'.index = cur.index /\ cur'.loop = -1
    BY <2>1 DEF KeyFrame
  <2> QED
    BY <1>5, <1>a, <2>2 DEF NoConnection, graph, queue
<1>6. CASE PushLoop
  BY <1>6, <1>a DEF PushLoop, graph
<1>7. CASE InsertKeyFrame
  <2> DEFINE frame == [cur EXCEPT !.pose = drift, !.from = cur.vio]
  <2>1. frame \in KeyFrame /\ frame.index = cur.index /\ frame.loop = cur.loop
    <3>1. cur \in KeyFrame /\ drift \in Pose
      BY DEF TypeInv
    <3> QED
      BY <3>1 DEF KeyFrame
  <2>2. keyframelist' = Append(keyframelist, frame)
    BY <1>7 DEF InsertKeyFrame
  <2> HIDE DEF frame
  <2>3. /\ Len(keyframelist') = Len(keyframelist) + 1
        /\ DOMAIN keyframelist' = 1..(Len(keyframelist) + 1)
        /\ \A k \in 1..Len(keyframelist) : keyframelist'[k] = keyframelist[k]
        /\ keyframelist'[Len(keyframelist) + 1] = frame
    BY <2>1, <2>2, InsertedFrame
  <2>4. /\ adder = "insert" /\ adder' = "idle" /\ global_index' = global_index
        /\ earliest_loop_index' = earliest_loop_index
    BY <1>7 DEF InsertKeyFrame, queue
  <2>5. IndexInv' /\ LoadInv'
    BY <1>a, <1>b, <2>1, <2>3, <2>4
  <2>6. LoopInv'
    BY <1>a, <1>b, <2>1, <2>3, <2>4
  <2>7. EarliestInv'
    BY <1>a, <1>b, <2>1, <2>3, <2>4
  <2> QED
    BY <2>5, <2>6, <2>7
<1>8. CASE ShiftKeyFrame
  <2>1. /\ Len(keyframelist') = Len(keyframelist)
        /\ DOMAIN keyframelist' = 1..Len(keyframelist)
        /\ \A k \in 1..Len(keyframelist) :
             keyframelist'[k].index = keyframelist[k].index /\ keyframelist'[k].loop = keyframelist[k].loop
    BY <1>8, <1>b, ShiftedFrames, LenProperties
  <2>2. UNCHANGED <<adder, cur, global_index, earliest_loop_index>> /\ adder = "shift"
    BY <1>8 DEF ShiftKeyFrame, queue
  <2> QED
    BY <1>a, <1>b, <2>1, <2>2
<1>9. CASE SequenceShifted
  BY <1>9, <1>a DEF SequenceShifted, Onwards, queue
<1> QED
  BY <1>1, <1>2, <1>3, <1>4, <1>5, <1>6, <1>7, <1>8, <1>9 DEF Adder

\* The optimisation and the spin thread leave indices, loops and earliest_loop_index alone.
LEMMA StructureOthers ==
  TypeInv /\ StructureInv /\ SolvedInv /\ (Optimizer \/ Spin) => StructureInv'
<1> SUFFICES ASSUME TypeInv, StructureInv, SolvedInv, Optimizer \/ Spin
             PROVE  StructureInv'
  OBVIOUS
<1> USE DEF StructureInv, IndexInv, LoadInv, LoopInv, EarliestInv, OldLoop, Remembered, graph, queue, solver
<1>1. CASE TakeLoop
  BY <1>1 DEF TakeLoop
<1>2. CASE BuildProblem
  BY <1>2 DEF BuildProblem
<1>3. CASE UpdatePoses
  <2>1. /\ DOMAIN keyframelist = 1..Len(keyframelist)
        /\ DOMAIN keyframelist' = 1..Len(keyframelist) /\ Len(keyframelist') = Len(keyframelist)
        /\ \A k \in 1..Len(keyframelist) :
             keyframelist'[k].index = keyframelist[k].index /\ keyframelist'[k].loop = keyframelist[k].loop
    BY <1>3, UpdatedFrames, ListedFrames, LenProperties
  <2>2. /\ optimizer = "solve" /\ cur' = cur /\ adder' = adder /\ global_index' = global_index
        /\ earliest_loop_index' = earliest_loop_index
    BY <1>3 DEF UpdatePoses
  <2> QED
    BY <2>1, <2>2
<1>4. CASE CrashInOptimizer
  BY <1>4 DEF CrashInOptimizer
<1>5. CASE UpdatePath
  BY <1>5 DEF UpdatePath
<1>6. CASE NewSequence
  BY <1>6 DEF NewSequence
<1>7. ASSUME NEW i \in answers, UpdateKeyFrameLoop(i)
      PROVE  StructureInv'
  BY <1>7 DEF UpdateKeyFrameLoop
<1> QED
  BY <1>1, <1>2, <1>3, <1>4, <1>5, <1>6, <1>7 DEF Optimizer, Spin

-----------------------------------------------------------------------------
(* What has been announced *)

\* A keyframe may be queued for the optimisation once addKeyFrame has only to append it.
Announced(i) == i \in 0..(Len(keyframelist) - 1) \/ (adder = "insert" /\ i = cur.index)

\* What is queued, or taken from the queue, has been announced, and is not before
\* earliest_loop_index.
QueueInv ==
  /\ \A j \in DOMAIN optimize_buf :
       Announced(optimize_buf[j]) /\ earliest_loop_index \in 0..optimize_buf[j]
  /\ optimizer \in {"build", "solve"} => Announced(cur_index) /\ first_looped_index <= cur_index

\* A relocalization may be asked for one step earlier.
AnswersInv ==
  \A i \in answers :
    i \in 0..(Len(keyframelist) - 1) \/ (adder \in {"shift", "push", "insert"} /\ i = cur.index)

InProblem(frame) ==
  frame.loop # -1 /\ frame.index <= cur_index => first_looped_index <= frame.loop

\* The loops of the keyframes up to cur_index were all found before the optimisation took
\* earliest_loop_index.
ProblemInv ==
  optimizer = "build" =>
    /\ \A k \in DOMAIN keyframelist : InProblem(keyframelist[k])
    /\ adder = "insert" => InProblem(cur)

AnnouncedInv == QueueInv /\ AnswersInv /\ ProblemInv

IInv == TypeInv /\ StructureInv /\ AnnouncedInv /\ SolvedInv

\* Nothing is announced when the node starts.
LEMMA AnnouncedInit == Init => AnnouncedInv
<1> SUFFICES ASSUME Init
             PROVE  AnnouncedInv
  OBVIOUS
<1>1. DOMAIN optimize_buf = {} /\ answers = {} /\ optimizer = "sleep"
  BY DEF Init
<1> QED
  BY <1>1 DEF AnnouncedInv, QueueInv, AnswersInv, ProblemInv

\* What the steps read of the state, with its types.
LEMMA AnnouncedTypes ==
  ASSUME TypeInv, StructureInv
  PROVE  /\ Len(keyframelist) \in Nat /\ DOMAIN keyframelist = 1..Len(keyframelist)
         /\ \A k \in 1..Len(keyframelist) : keyframelist[k].index = k - 1
         /\ \A k \in 1..Len(keyframelist) : keyframelist[k].loop \in Nat \cup {-1}
         /\ Len(optimize_buf) \in Nat /\ DOMAIN optimize_buf = 1..Len(optimize_buf)
         /\ \A j \in 1..Len(optimize_buf) : optimize_buf[j] \in Nat
         /\ cur.loop \in Nat \cup {-1} /\ (Adding => cur.index = Len(keyframelist))
         /\ earliest_loop_index \in Nat \cup {-1}
         /\ first_looped_index \in Int /\ cur_index \in Int /\ answers \subseteq Nat
<1>1. optimize_buf \in Seq(Nat)
  BY DEF TypeInv
<1>2. /\ Len(optimize_buf) \in Nat /\ DOMAIN optimize_buf = 1..Len(optimize_buf)
      /\ \A j \in 1..Len(optimize_buf) : optimize_buf[j] \in Nat
  BY <1>1, LenProperties, ElementOfSeq
<1>3. \A k \in 1..Len(keyframelist) : keyframelist[k].loop \in Nat \cup {-1}
  BY ListedFrames DEF KeyFrame
<1>4. cur.loop \in Nat \cup {-1}
  BY DEF TypeInv, KeyFrame
<1> QED
  BY <1>2, <1>3, <1>4, ListedFrames DEF TypeInv, StructureInv, IndexInv

\* The process thread announces a keyframe only when it has its index, and finds no loop
\* for a keyframe it has announced.
LEMMA AnnouncedAdder == IInv /\ Adder => AnnouncedInv'
<1> SUFFICES ASSUME TypeInv, StructureInv, AnnouncedInv, Adder
             PROVE  AnnouncedInv'
  BY DEF IInv
<1> USE DEF AnnouncedInv, QueueInv, AnswersInv, ProblemInv, Announced, InProblem
<1>1. ASSUME NEW loop, LoadKeyFrame(loop)
      PROVE  AnnouncedInv'
  <2>1. optimize_buf' = <<>> /\ answers' = {} /\ optimizer' = "sleep"
    BY <1>1 DEF LoadKeyFrame, StructureInv, LoadInv, solver
  <2> QED
    BY <2>1
<1>2. ASSUME NEW loop, NewKeyFrame(loop)
      PROVE  AnnouncedInv'
  <2>1. /\ adder = "idle" /\ adder' \in {"insert", "connect"} /\ (adder' = "insert" => cur'.loop = -1)
        /\ UNCHANGED <<keyframelist, answers, optimize_buf, earliest_loop_index, optimizer,
                       cur_index, first_looped_index>>
    BY <1>2 DEF NewKeyFrame, queue, solver
  <2> QED
    BY <2>1
<1>3. CASE Loaded
  BY <1>3 DEF Loaded, graph, queue, solver
<1>4. CASE Connect
  <2>1. /\ adder = "connect" /\ adder' \in {"shift", "push"}
        /\ cur'.index = cur.index /\ cur.loop # -1
        /\ answers' \subseteq answers \cup {cur.index} /\ keyframelist' = keyframelist
        /\ UNCHANGED <<optimize_buf, optimizer, cur_index, first_looped_index>>
    <3>1. cur' \in {cur, [cur EXCEPT !.vio = cur.index]} /\ cur \in KeyFrame
      BY <1>4 DEF Connect, TypeInv
    <3>2. cur'.index = cur.index
      BY <3>1 DEF KeyFrame
    <3> QED
      BY <1>4, <3>2 DEF Connect, solver, StructureInv, LoopInv
  <2>3. /\ earliest_loop_index' \in Nat
        /\ earliest_loop_index # -1 => earliest_loop_index' <= earliest_loop_index
    BY <1>4, <2>1, AnnouncedTypes DEF Connect, Earlier
  <2>4. QueueInv'
    BY <2>1, <2>3, AnnouncedTypes
  <2>5. AnswersInv'
    BY <2>1, AnnouncedTypes
  <2>6. ProblemInv'
    BY <2>1, AnnouncedTypes
  <2> QED
    BY <2>4, <2>5, <2>6
<1>5. CASE NoConnection
  <2>1. cur \in KeyFrame /\ cur' = [cur EXCEPT !.loop = -1]
    BY <1>5 DEF NoConnection, TypeInv
  <2>2. cur'.index = cur.index /\ cur'.loop = -1
    BY <2>1 DEF KeyFrame
  <2>3. /\ adder = "connect" /\ adder' = "insert"
        /\ UNCHANGED <<keyframelist, answers, optimize_buf, earliest_loop_index, optimizer,
                       cur_index, first_looped_index>>
    BY <1>5 DEF NoConnection, graph, queue, solver
  <2> QED
    BY <2>2, <2>3, AnnouncedTypes
<1>6. CASE PushLoop
  <2>1. /\ adder = "push" /\ adder' = "insert"
        /\ optimize_buf' = Append(optimize_buf, cur.index)
        /\ UNCHANGED <<cur, keyframelist, answers, earliest_loop_index, optimizer, cur_index,
                       first_looped_index>>
    BY <1>6 DEF PushLoop, Queued, graph, solver
  <2>2. /\ Adding /\ cur.index \in Nat /\ cur.index = Len(keyframelist)
        /\ earliest_loop_index \in 0..cur.index
    BY <2>1, AnnouncedTypes DEF StructureInv, LoopInv, OldLoop, EarliestInv, Remembered
  <2>3. optimize_buf \in Seq(Nat) /\ cur.index \in Nat
    BY <2>2 DEF TypeInv
  <2>4. /\ optimize_buf' \in Seq(Nat)
        /\ Len(optimize_buf') = Len(optimize_buf) + 1
        /\ optimize_buf'[Len(optimize_buf) + 1] = cur.index
        /\ \A j \in 1..Len(optimize_buf) : optimize_buf'[j] = optimize_buf[j]
    BY <2>1, <2>3, AppendProperties
  <2>5. DOMAIN optimize_buf' = 1..(Len(optimize_buf) + 1)
    BY <2>4, LenProperties
  <2>6. \A j \in 1..(Len(optimize_buf) + 1) :
          Announced(optimize_buf[j])' /\ earliest_loop_index' \in 0..optimize_buf'[j]
    <3>1. \A j \in 1..Len(optimize_buf) :
            Announced(optimize_buf[j])' /\ earliest_loop_index' \in 0..optimize_buf'[j]
      BY <2>1, <2>4, AnnouncedTypes
    <3>2. Announced(cur.index)'
          /\ earliest_loop_index' \in 0..optimize_buf'[Len(optimize_buf) + 1]
          /\ optimize_buf'[Len(optimize_buf) + 1] = cur'.index
      BY <2>1, <2>2, <2>4, AnnouncedTypes
    <3> QED
      BY <3>1, <3>2, AnnouncedTypes
  <2>7. QueueInv'
    BY <2>1, <2>5, <2>6, AnnouncedTypes
  <2>8. AnswersInv'
    BY <2>1
  <2>9. ProblemInv'
    BY <2>1, <2>2, AnnouncedTypes
  <2> QED
    BY <2>7, <2>8, <2>9
<1>7. CASE InsertKeyFrame
  <2> DEFINE frame == [cur EXCEPT !.pose = drift, !.from = cur.vio]
  <2>1. frame \in KeyFrame /\ frame.index = cur.index /\ frame.loop = cur.loop
    <3>1. cur \in KeyFrame /\ drift \in Pose
      BY DEF TypeInv
    <3> QED
      BY <3>1 DEF KeyFrame
  <2>2. keyframelist' = Append(keyframelist, frame)
    BY <1>7 DEF InsertKeyFrame
  <2> HIDE DEF frame
  <2>3. /\ Len(keyframelist') = Len(keyframelist) + 1
        /\ DOMAIN keyframelist' = 1..(Len(keyframelist) + 1)
        /\ \A k \in 1..Len(keyframelist) : keyframelist'[k] = keyframelist[k]
        /\ keyframelist'[Len(keyframelist) + 1] = frame
    BY <2>1, <2>2, InsertedFrame
  <2>4. /\ adder = "insert" /\ adder' = "idle"
        /\ UNCHANGED <<answers, optimize_buf, earliest_loop_index, optimizer, cur_index,
                       first_looped_index>>
    BY <1>7 DEF InsertKeyFrame, queue, solver
  <2>5. QueueInv'
    <3>1. \A i : Announced(i) => Announced(i)'
      BY <2>3, <2>4, AnnouncedTypes
    <3> QED
      BY <2>4, <3>1, AnnouncedTypes
  <2>6. AnswersInv'
    BY <2>3, <2>4, AnnouncedTypes
  <2>7. ProblemInv'
    BY <2>1, <2>3, <2>4, AnnouncedTypes
  <2> QED
    BY <2>5, <2>6, <2>7
<1>8. CASE ShiftKeyFrame
  <2>1. /\ Len(keyframelist') = Len(keyframelist)
        /\ DOMAIN keyframelist' = 1..Len(keyframelist)
        /\ \A k \in 1..Len(keyframelist) :
             keyframelist'[k].index = keyframelist[k].index /\ keyframelist'[k].loop = keyframelist[k].loop
    BY <1>8, ListedFrames, ShiftedFrames, LenProperties
  <2>2. UNCHANGED <<adder, cur, answers, optimize_buf, earliest_loop_index, optimizer, cur_index,
                    first_looped_index>>
    BY <1>8 DEF ShiftKeyFrame, queue, solver
  <2>3. adder = "shift"
    BY <1>8 DEF ShiftKeyFrame
  <2> QED
    BY <2>1, <2>2, <2>3, AnnouncedTypes
<1>9. CASE SequenceShifted
  <2>1. /\ adder = "shift" /\ adder' = "push"
        /\ UNCHANGED <<cur, keyframelist, answers, optimize_buf, earliest_loop_index, optimizer,
                       cur_index, first_looped_index>>
    BY <1>9 DEF SequenceShifted, Onwards, queue, solver
  <2> QED
    BY <2>1
<1> QED
  BY <1>1, <1>2, <1>3, <1>4, <1>5, <1>6, <1>7, <1>8, <1>9 DEF Adder

\* The optimisation takes what has been announced, with an index no loop in reach is below.
LEMMA AnnouncedOthers == IInv /\ (Optimizer \/ Spin) => AnnouncedInv'
<1> SUFFICES ASSUME TypeInv, StructureInv, AnnouncedInv, SolvedInv, Optimizer \/ Spin
             PROVE  AnnouncedInv'
  BY DEF IInv
<1> USE DEF AnnouncedInv, QueueInv, AnswersInv, ProblemInv, Announced, InProblem
<1>1. CASE TakeLoop
  <2>1. /\ optimize_buf # <<>> /\ optimize_buf' = <<>>
        /\ cur_index' = optimize_buf[Len(optimize_buf)]
        /\ first_looped_index' = earliest_loop_index
        /\ UNCHANGED <<adder, cur, keyframelist, answers, earliest_loop_index>>
    BY <1>1 DEF TakeLoop, LastQueued, graph
  <2>2. Len(optimize_buf) \in DOMAIN optimize_buf /\ DOMAIN optimize_buf' = {}
    <3>1. optimize_buf \in Seq(Nat)
      BY DEF TypeInv
    <3> QED
      BY <2>1, <3>1, AnnouncedTypes, EmptySeq
  <2>3. QueueInv'
    BY <2>1, <2>2, AnnouncedTypes
  <2>4. AnswersInv'
    BY <2>1
  <2>5. ProblemInv'
    BY <2>1, AnnouncedTypes DEF StructureInv, EarliestInv, Remembered
  <2> QED
    BY <2>3, <2>4, <2>5
<1>2. CASE BuildProblem
  BY <1>2 DEF BuildProblem, graph, queue
<1>3. CASE UpdatePoses
  <2>1. /\ DOMAIN keyframelist' = 1..Len(keyframelist) /\ Len(keyframelist') = Len(keyframelist)
    BY <1>3, UpdatedFrames, ListedFrames, LenProperties DEF StructureInv
  <2>2. /\ optimizer' = "path"
        /\ UNCHANGED <<adder, cur, answers, optimize_buf, earliest_loop_index>>
    BY <1>3 DEF UpdatePoses, queue
  <2> QED
    BY <2>1, <2>2
<1>4. CASE CrashInOptimizer
  BY <1>4 DEF CrashInOptimizer, graph, queue, solver
<1>5. CASE UpdatePath
  BY <1>5 DEF UpdatePath, graph, queue
<1>6. CASE NewSequence
  BY <1>6 DEF NewSequence, graph, queue, solver
<1>7. ASSUME NEW i \in answers, UpdateKeyFrameLoop(i)
      PROVE  AnnouncedInv'
  BY <1>7 DEF UpdateKeyFrameLoop, graph, queue, solver
<1> QED
  BY <1>1, <1>2, <1>3, <1>4, <1>5, <1>6, <1>7 DEF Optimizer, Spin

\* A keyframe that was found stays in the list, and those before it stay in their places.
LEMMA SolvedNext == IInv /\ (Adder \/ Optimizer \/ Spin) => SolvedInv'
<1> SUFFICES ASSUME TypeInv, StructureInv, AnnouncedInv, SolvedInv, Adder \/ Optimizer \/ Spin
             PROVE  SolvedInv'
  BY DEF IInv
<1> USE DEF SolvedInv
<1>a. /\ Len(keyframelist) \in Nat /\ DOMAIN keyframelist = 1..Len(keyframelist)
      /\ \A k \in 1..Len(keyframelist) : keyframelist[k].index = k - 1
      /\ first_looped_index \in Int /\ cur_index \in Int
  BY AnnouncedTypes
<1>1. ASSUME NEW loop, LoadKeyFrame(loop)
      PROVE  SolvedInv'
  <2>1. optimizer' = "sleep"
    BY <1>1 DEF LoadKeyFrame, StructureInv, LoadInv, solver
  <2> QED
    BY <2>1
<1>2. CASE InsertKeyFrame
  <2> DEFINE frame == [cur EXCEPT !.pose = drift, !.from = cur.vio]
  <2>1. frame \in KeyFrame /\ frame.index = Len(keyframelist)
    <3>1. cur \in KeyFrame /\ drift \in Pose /\ Adding
      BY <1>2 DEF TypeInv, InsertKeyFrame
    <3>2. cur.index = Len(keyframelist)
      BY <3>1, AnnouncedTypes
    <3> QED
      BY <3>1, <3>2 DEF KeyFrame
  <2>2. keyframelist' = Append(keyframelist, frame)
    BY <1>2 DEF InsertKeyFrame
  <2> HIDE DEF frame
  <2>3. /\ Len(keyframelist') = Len(keyframelist) + 1
        /\ DOMAIN keyframelist' = 1..(Len(keyframelist) + 1)
        /\ \A k \in 1..Len(keyframelist) : keyframelist'[k] = keyframelist[k]
        /\ keyframelist'[Len(keyframelist) + 1] = frame
    BY <2>1, <2>2, InsertedFrame
  <2>4. UNCHANGED solver
    BY <1>2 DEF InsertKeyFrame
  <2>5. SUFFICES ASSUME optimizer = "solve", found
                 PROVE  /\ cur_index \in 0..(Len(keyframelist') - 1)
                        /\ \A k \in 1..(Len(keyframelist) + 1) :
                             keyframelist'[k].index \in first_looped_index..cur_index =>
                               k \in DOMAIN problem /\ problem[k] \in Int
    BY <2>3, <2>4 DEF solver
  <2>6. cur_index \in 0..(Len(keyframelist) - 1)
    BY <2>5
  <2>7. ASSUME NEW k \in 1..(Len(keyframelist) + 1),
               keyframelist'[k].index \in first_looped_index..cur_index
        PROVE  k \in DOMAIN problem /\ problem[k] \in Int
    <3>1. k \in 1..Len(keyframelist)
      <4>1. keyframelist'[Len(keyframelist) + 1].index = Len(keyframelist)
        BY <2>1, <2>3
      <4>2. Len(keyframelist) \notin first_looped_index..cur_index
        BY <1>a, <2>6
      <4>3. k # Len(keyframelist) + 1
        BY <2>7, <4>1, <4>2
      <4> QED
        BY <1>a, <4>3
    <3> QED
      BY <1>a, <2>3, <2>5, <2>7, <3>1
  <2> QED
    BY <1>a, <2>3, <2>6, <2>7
<1>3. CASE ShiftKeyFrame
  <2>1. /\ Len(keyframelist') = Len(keyframelist)
        /\ DOMAIN keyframelist' = 1..Len(keyframelist)
        /\ \A k \in 1..Len(keyframelist) : keyframelist'[k].index = keyframelist[k].index
    BY <1>3, <1>a, ShiftedFrames, LenProperties
  <2>2. UNCHANGED solver
    BY <1>3 DEF ShiftKeyFrame
  <2> QED
    BY <1>a, <2>1, <2>2 DEF solver
<1>4. ASSUME NEW loop, NewKeyFrame(loop)
      PROVE  SolvedInv'
  BY <1>4 DEF NewKeyFrame, solver
<1>5. CASE Loaded \/ Connect \/ SequenceShifted \/ NoConnection \/ PushLoop
  BY <1>5 DEF Loaded, Connect, SequenceShifted, NoConnection, PushLoop, graph, solver
<1>6. CASE TakeLoop \/ UpdatePoses \/ UpdatePath
  <2>1. optimizer' # "solve"
    BY <1>6 DEF TakeLoop, UpdatePoses, UpdatePath
  <2> QED
    BY <2>1
<1>7. CASE BuildProblem
  <2>1. /\ UNCHANGED <<keyframelist, cur_index, first_looped_index>>
        /\ found' = (cur_index \in Listed) /\ problem' = [k \in Scanned |-> keyframelist[k].vio]
    BY <1>7 DEF BuildProblem, graph
  <2>2. \A k \in 1..Len(keyframelist) : keyframelist[k].vio \in Int
    BY ListedFrames DEF KeyFrame
  <2>3. found' => cur_index \in 0..(Len(keyframelist) - 1)
    <3>1. \A k \in 1..Len(keyframelist) : keyframelist[k].index \in 0..(Len(keyframelist) - 1)
      BY <1>a
    <3> QED
      BY <1>a, <2>1, <3>1 DEF Listed
  <2>4. \A k \in DOMAIN keyframelist :
          keyframelist[k].index \in first_looped_index..cur_index =>
            k \in DOMAIN problem' /\ problem'[k] \in Int
    BY <1>a, <2>1, <2>2 DEF Scanned
  <2> QED
    BY <2>1, <2>3, <2>4
<1>8. CASE CrashInOptimizer \/ NewSequence
  BY <1>8 DEF CrashInOptimizer, NewSequence, graph, solver
<1>9. ASSUME NEW i \in answers, UpdateKeyFrameLoop(i)
      PROVE  SolvedInv'
  BY <1>9 DEF UpdateKeyFrameLoop, graph, solver
<1> QED
  BY <1>1, <1>2, <1>3, <1>4, <1>5, <1>6, <1>7, <1>8, <1>9 DEF Adder, Optimizer, Spin

\* IInv is inductive.
LEMMA IInvNext == IInv /\ [Next]_vars => IInv'
<1> SUFFICES ASSUME IInv, [Next]_vars
             PROVE  IInv'
  OBVIOUS
<1>1. CASE Adder
  BY <1>1, TypeAdder, StructureAdder, AnnouncedAdder, SolvedNext DEF IInv
<1>2. CASE Optimizer \/ Spin
  BY <1>2, TypeOthers, StructureOthers, AnnouncedOthers, SolvedNext DEF IInv, StructureInv
<1>3. CASE UNCHANGED vars
  BY <1>3 DEF vars, IInv, TypeInv, StructureInv, IndexInv, LoadInv, LoopInv, EarliestInv,
              Remembered, AnnouncedInv, QueueInv, AnswersInv, ProblemInv, Announced, InProblem,
              SolvedInv
<1> QED
  BY <1>1, <1>2, <1>3 DEF Next, Finished

\* Every reachable state satisfies the inductive invariant.
LEMMA Invariance == Spec => []IInv
<1>1. Init => IInv
  BY StructureInit, AnnouncedInit DEF IInv
<1> QED
  BY <1>1, IInvNext, PTL DEF Spec

-----------------------------------------------------------------------------
(* Sequences, when none is left empty *)

\* The sequence entered is the node's, or the one before until its first keyframe comes.
SequenceInv ==
  /\ sequence_cnt \in {sequence - 1, sequence}
  /\ \A k \in DOMAIN keyframelist : keyframelist[k].sequence <= sequence_cnt
  /\ Adding => cur.sequence = sequence_cnt /\ cur.vio = w_vio

\* w_vio is the shift of the current sequence's keyframes, but for a walk that makes it so;
\* a sequence has one shift.
VioInv ==
  /\ IF adder = "shift"
       THEN w_vio = cur.index
       ELSE \A k \in DOMAIN keyframelist :
              keyframelist[k].sequence = sequence_cnt => keyframelist[k].vio = w_vio
  /\ \A j, k \in DOMAIN keyframelist :
       (keyframelist[j].sequence = keyframelist[k].sequence /\ keyframelist[k].sequence # sequence_cnt)
         => keyframelist[j].vio = keyframelist[k].vio

\* Unless a shift waits for its optimisation or a relocalization has replaced the drift,
\* what was added after the last optimised keyframe has the present drift.
DriftInv ==
  (/\ optimize_buf = <<>> /\ optimizer \in {"sleep", "path"}
   /\ adder \notin {"shift", "push"} /\ drift.by # "relo") =>
    \A k \in DOMAIN keyframelist :
      (keyframelist[k].index > optimized /\ keyframelist[k].sequence = sequence_cnt)
        => keyframelist[k].pose = drift

ShiftInv == SequenceInv /\ VioInv /\ DriftInv

\* There is no keyframe when the node starts.
LEMMA ShiftInit == Init => ShiftInv
<1> SUFFICES ASSUME Init
             PROVE  ShiftInv
  OBVIOUS
<1>1. DOMAIN keyframelist = {} /\ sequence = 1 /\ sequence_cnt = 0 /\ adder = "load"
  BY DEF Init
<1> QED
  BY <1>1 DEF ShiftInv, SequenceInv, VioInv, DriftInv

\* What the steps read of the state, with its types.
LEMMA ShiftTypes ==
  ASSUME TypeInv
  PROVE  /\ Len(keyframelist) \in Nat /\ DOMAIN keyframelist = 1..Len(keyframelist)
         /\ \A k \in 1..Len(keyframelist) :
              /\ keyframelist[k].index \in Int /\ keyframelist[k].sequence \in Nat
              /\ keyframelist[k].vio \in Int
         /\ sequence \in Nat /\ sequence_cnt \in Nat /\ w_vio \in Int /\ optimized \in Int
         /\ cur.index \in Int /\ cur.vio \in Int /\ cur.sequence \in Nat
<1>1. \A k \in 1..Len(keyframelist) :
        /\ keyframelist[k].index \in Int /\ keyframelist[k].sequence \in Nat
        /\ keyframelist[k].vio \in Int
  BY ListedFrames DEF KeyFrame
<1>2. cur.index \in Int /\ cur.vio \in Int /\ cur.sequence \in Nat
  BY DEF TypeInv, KeyFrame
<1> QED
  BY <1>1, <1>2, ListedFrames DEF TypeInv

\* The process thread gives a keyframe the shift of its sequence and the present drift.
LEMMA ShiftAdder == EmptySequences = FALSE /\ IInv /\ ShiftInv /\ Adder => ShiftInv'
<1> SUFFICES ASSUME EmptySequences = FALSE, TypeInv, StructureInv, ShiftInv, Adder
             PROVE  ShiftInv'
  BY DEF IInv
<1> USE DEF ShiftInv, SequenceInv, VioInv, DriftInv
<1>1. ASSUME NEW loop, LoadKeyFrame(loop)
      PROVE  ShiftInv'
  <2>1. /\ adder = "load" /\ adder' = "load" /\ sequence' = 1 /\ sequence_cnt = 0 /\ sequence_cnt' = 0
        /\ w_vio = -1 /\ w_vio' = -1 /\ drift = Identity /\ drift' = Identity
        /\ optimize_buf = <<>> /\ optimizer = "sleep" /\ optimized' = optimized
    BY <1>1 DEF LoadKeyFrame, StructureInv, LoadInv, solver
  <2>2. PICK frame \in KeyFrame :
          /\ frame.sequence = 0 /\ frame.vio = -1 /\ frame.pose = Identity
          /\ keyframelist' = Append(keyframelist, frame)
    BY <1>1, FrameLoaded
  <2>3. /\ DOMAIN keyframelist' = 1..(Len(keyframelist) + 1)
        /\ \A k \in 1..Len(keyframelist) : keyframelist'[k] = keyframelist[k]
        /\ keyframelist'[Len(keyframelist) + 1] = frame
    BY <2>2, InsertedFrame
  <2>4. \A k \in 1..(Len(keyframelist) + 1) :
          keyframelist'[k].sequence = 0 /\ keyframelist'[k].vio = -1
    <3>1. \A k \in 1..Len(keyframelist) : keyframelist[k].sequence = 0 /\ keyframelist[k].vio = -1
      BY <2>1, ShiftTypes
    <3> QED
      BY <2>2, <2>3, <3>1, ShiftTypes
  <2>5. SequenceInv' /\ VioInv'
    BY <2>1, <2>3, <2>4
  <2>6. Identity.by # "relo"
    BY DEF Identity
  <2>7. DriftInv'
    BY <2>1, <2>2, <2>3, <2>6, ShiftTypes
  <2> QED
    BY <2>5, <2>7
<1>2. ASSUME NEW loop, NewKeyFrame(loop)
      PROVE  ShiftInv'
  <2>1. /\ adder = "idle" /\ adder' \in {"insert", "connect"} /\ cur'.sequence = sequence /\ cur'.vio = w_vio'
        /\ UNCHANGED <<keyframelist, sequence, optimize_buf, optimizer, optimized>>
    BY <1>2 DEF NewKeyFrame, queue, solver
  <2>2. CASE sequence_cnt = sequence
    <3>1. sequence_cnt' = sequence_cnt /\ w_vio' = w_vio /\ drift' = drift
      BY <1>2, <2>2 DEF NewKeyFrame
    <3> QED
      BY <2>1, <2>2, <3>1
  <2>3. CASE sequence_cnt = sequence - 1
    <3>1. sequence_cnt' = sequence
      BY <1>2, <2>3, ShiftTypes DEF NewKeyFrame
    <3>2. \A k \in DOMAIN keyframelist : keyframelist[k].sequence # sequence_cnt'
      BY <2>3, <3>1, ShiftTypes
    <3>3. SequenceInv'
      BY <2>1, <2>3, <3>1, ShiftTypes
    <3> QED
      BY <2>1, <3>2, <3>3
  <2> QED
    BY <2>2, <2>3
<1>3. CASE Loaded
  BY <1>3 DEF Loaded, graph, queue, solver
<1>4. CASE Connect
  <2>1. /\ adder = "connect" /\ adder' \in {"shift", "push"}
        /\ UNCHANGED <<sequence, sequence_cnt, keyframelist>>
    BY <1>4 DEF Connect
  <2>2. CASE w_vio' = cur.index /\ cur' = [cur EXCEPT !.vio = cur.index] /\ adder' = "shift"
    <3>1. cur'.sequence = cur.sequence /\ cur'.vio = cur.index /\ cur'.index = cur.index
      <4>1. cur \in KeyFrame
        BY DEF TypeInv
      <4> QED
        BY <2>2, <4>1 DEF KeyFrame
    <3> QED
      BY <2>1, <2>2, <3>1
  <2>3. CASE UNCHANGED <<w_vio, cur>> /\ adder' = "push"
    BY <2>1, <2>3
  <2> QED
    BY <1>4, <2>2, <2>3 DEF Connect
<1>5. CASE NoConnection
  <2>1. cur'.sequence = cur.sequence /\ cur'.vio = cur.vio
    <3>1. cur \in KeyFrame /\ cur' = [cur EXCEPT !.loop = -1]
      BY <1>5 DEF NoConnection, TypeInv
    <3> QED
      BY <3>1 DEF KeyFrame
  <2>2. /\ adder = "connect" /\ adder' = "insert"
        /\ UNCHANGED <<sequence, keyframelist, sequence_cnt, w_vio, drift, optimize_buf, optimizer,
                       optimized>>
    BY <1>5 DEF NoConnection, graph, queue, solver
  <2> QED
    BY <2>1, <2>2
<1>6. CASE PushLoop
  <2>1. /\ adder = "push" /\ adder' = "insert" /\ optimize_buf' # <<>>
        /\ UNCHANGED <<sequence, cur, keyframelist, sequence_cnt, w_vio>>
    <3>1. optimize_buf \in Seq(Nat) /\ cur.index \in Nat
      BY <1>6 DEF PushLoop, TypeInv
    <3> QED
      BY <1>6, <3>1, AppendProperties DEF PushLoop, Queued, graph
  <2> QED
    BY <2>1
<1>7. CASE InsertKeyFrame
  <2> DEFINE frame == [cur EXCEPT !.pose = drift, !.from = cur.vio]
  <2>1. /\ frame \in KeyFrame /\ frame.sequence = cur.sequence /\ frame.vio = cur.vio
        /\ frame.pose = drift
    <3>1. cur \in KeyFrame /\ drift \in Pose
      BY DEF TypeInv
    <3> QED
      BY <3>1 DEF KeyFrame
  <2>2. keyframelist' = Append(keyframelist, frame)
    BY <1>7 DEF InsertKeyFrame
  <2> HIDE DEF frame
  <2>3. /\ DOMAIN keyframelist' = 1..(Len(keyframelist) + 1)
        /\ \A k \in 1..Len(keyframelist) : keyframelist'[k] = keyframelist[k]
        /\ keyframelist'[Len(keyframelist) + 1] = frame
    BY <2>1, <2>2, InsertedFrame
  <2>4. /\ adder = "insert" /\ adder' = "idle"
        /\ UNCHANGED <<sequence, sequence_cnt, w_vio, drift, optimize_buf, optimizer, optimized>>
    BY <1>7 DEF InsertKeyFrame, queue, solver
  <2>5. frame.sequence = sequence_cnt /\ frame.vio = w_vio
    BY <2>1, <2>4
  <2>6. SequenceInv'
    BY <2>3, <2>4, <2>5, ShiftTypes
  <2>7. VioInv'
    <3>1. \A k \in 1..Len(keyframelist) :
            keyframelist[k].sequence = frame.sequence => keyframelist[k].vio = frame.vio
      BY <2>4, <2>5, ShiftTypes
    <3>2. \A k \in DOMAIN keyframelist' :
            k \in 1..Len(keyframelist) \/ keyframelist'[k] = frame
      BY <2>3, ShiftTypes
    <3>3. ASSUME NEW j \in DOMAIN keyframelist', NEW k \in DOMAIN keyframelist',
                 keyframelist'[j].sequence = keyframelist'[k].sequence,
                 keyframelist'[k].sequence # sequence_cnt'
          PROVE  keyframelist'[j].vio = keyframelist'[k].vio
      <4>1. CASE j \in 1..Len(keyframelist) /\ k \in 1..Len(keyframelist)
        <5>1. /\ keyframelist[j].sequence = keyframelist[k].sequence
              /\ keyframelist[k].sequence # sequence_cnt
              /\ j \in DOMAIN keyframelist /\ k \in DOMAIN keyframelist
          BY <2>3, <2>4, <3>3, <4>1, ShiftTypes
        <5>2. keyframelist[j].vio = keyframelist[k].vio
          BY <5>1
        <5> QED
          BY <2>3, <4>1, <5>2
      <4>2. CASE keyframelist'[j] = frame \/ keyframelist'[k] = frame
        BY <2>3, <2>4, <2>5, <3>2, <3>3, <4>2
      <4> QED
        BY <3>2, <4>1, <4>2
    <3>4. ASSUME NEW k \in DOMAIN keyframelist', keyframelist'[k].sequence = sequence_cnt'
          PROVE  keyframelist'[k].vio = w_vio'
      BY <2>3, <2>4, <2>5, <3>2, <3>4, ShiftTypes
    <3> QED
      BY <2>4, <3>3, <3>4
  <2>8. DriftInv'
    BY <2>1, <2>3, <2>4, ShiftTypes
  <2> QED
    BY <2>6, <2>7, <2>8
<1>8. CASE ShiftKeyFrame
  <2>1. /\ DOMAIN keyframelist' = 1..Len(keyframelist)
        /\ \A k \in 1..Len(keyframelist) :
             /\ keyframelist'[k].sequence = keyframelist[k].sequence
             /\ keyframelist[k].sequence # cur.sequence => keyframelist'[k] = keyframelist[k]
    BY <1>8, ShiftedFrames, LenProperties DEF Walked
  <2>2. adder = "shift" /\ UNCHANGED <<sequence, adder, cur, sequence_cnt, w_vio>>
    BY <1>8 DEF ShiftKeyFrame
  <2>3. SequenceInv' /\ DriftInv'
    BY <2>1, <2>2, ShiftTypes
  <2>4. VioInv'
    <3>1. ASSUME NEW j \in 1..Len(keyframelist), NEW k \in 1..Len(keyframelist),
                 keyframelist'[j].sequence = keyframelist'[k].sequence,
                 keyframelist'[k].sequence # sequence_cnt
          PROVE  keyframelist'[j].vio = keyframelist'[k].vio
      <4>1. /\ keyframelist[j].sequence = keyframelist[k].sequence
            /\ keyframelist[k].sequence # cur.sequence
            /\ j \in DOMAIN keyframelist /\ k \in DOMAIN keyframelist
        BY <2>1, <2>2, <3>1, ShiftTypes
      <4>2. keyframelist[j].vio = keyframelist[k].vio
        BY <2>2, <4>1
      <4> QED
        BY <2>1, <4>1, <4>2
    <3> QED
      BY <2>1, <2>2, <3>1
  <2> QED
    BY <2>3, <2>4
<1>9. CASE SequenceShifted
  <2>1. /\ adder = "shift" /\ adder' = "push" /\ Unshifted = {}
        /\ UNCHANGED <<sequence, cur, keyframelist, sequence_cnt, w_vio>>
    BY <1>9 DEF SequenceShifted, Onwards
  <2>2. \A k \in DOMAIN keyframelist :
          keyframelist[k].sequence = cur.sequence => keyframelist[k].vio = cur.index
    BY <2>1 DEF Unshifted
  <2> QED
    BY <2>1, <2>2
<1> QED
  BY <1>1, <1>2, <1>3, <1>4, <1>5, <1>6, <1>7, <1>8, <1>9 DEF Adder

\* The optimisation leaves one drift behind; a new sequence is entered only with a keyframe.
LEMMA ShiftOthers ==
  EmptySequences = FALSE /\ IInv /\ ShiftInv /\ (Optimizer \/ Spin) => ShiftInv'
<1> SUFFICES ASSUME EmptySequences = FALSE, TypeInv, StructureInv, AnnouncedInv, SolvedInv, ShiftInv,
                    Optimizer \/ Spin
             PROVE  ShiftInv'
  BY DEF IInv
<1> USE DEF ShiftInv, SequenceInv, VioInv, DriftInv
<1>1. CASE TakeLoop
  BY <1>1 DEF TakeLoop, graph
<1>2. CASE BuildProblem
  BY <1>2 DEF BuildProblem, graph
<1>3. CASE UpdatePoses
  <2>1. /\ DOMAIN keyframelist' = 1..Len(keyframelist)
        /\ \A k \in 1..Len(keyframelist) :
             /\ keyframelist'[k].index = keyframelist[k].index
             /\ keyframelist'[k].sequence = keyframelist[k].sequence
             /\ keyframelist'[k].vio = keyframelist[k].vio
             /\ keyframelist[k].index >= first_looped_index /\ keyframelist[k].index > cur_index
                  => keyframelist'[k].pose = drift'
    BY <1>3, UpdatedFrames, LenProperties DEF StructureInv
  <2>2. /\ optimizer = "solve" /\ optimized' = cur_index
        /\ UNCHANGED <<sequence, sequence_cnt, adder, cur, w_vio>>
    BY <1>3 DEF UpdatePoses
  <2>3. first_looped_index <= cur_index /\ first_looped_index \in Int /\ cur_index \in Int
    BY <2>2 DEF AnnouncedInv, QueueInv, TypeInv
  <2>4. SequenceInv'
    BY <2>1, <2>2, ShiftTypes
  <2>5. VioInv'
    <3>1. adder # "shift" =>
            \A k \in 1..Len(keyframelist) :
              keyframelist'[k].sequence = sequence_cnt => keyframelist'[k].vio = w_vio
      BY <2>1, ShiftTypes
    <3>2. ASSUME NEW j \in 1..Len(keyframelist), NEW k \in 1..Len(keyframelist),
                 keyframelist'[j].sequence = keyframelist'[k].sequence,
                 keyframelist'[k].sequence # sequence_cnt
          PROVE  keyframelist'[j].vio = keyframelist'[k].vio
      <4>1. /\ keyframelist[j].sequence = keyframelist[k].sequence
            /\ keyframelist[k].sequence # sequence_cnt
            /\ j \in DOMAIN keyframelist /\ k \in DOMAIN keyframelist
        BY <2>1, <3>2, ShiftTypes
      <4>2. keyframelist[j].vio = keyframelist[k].vio
        BY <4>1
      <4> QED
        BY <2>1, <4>2
    <3> QED
      BY <2>1, <2>2, <3>1, <3>2
  <2>6. DriftInv'
    <3>1. ASSUME NEW k \in 1..Len(keyframelist), keyframelist[k].index > cur_index
          PROVE  keyframelist'[k].pose = drift'
      <4>1. keyframelist[k].index \in Int
        BY ShiftTypes
      <4>2. keyframelist[k].index >= first_looped_index
        BY <2>3, <3>1, <4>1
      <4> QED
        BY <2>1, <3>1, <4>2
    <3> QED
      BY <2>1, <2>2, <3>1
  <2> QED
    BY <2>4, <2>5, <2>6
<1>4. CASE CrashInOptimizer
  BY <1>4 DEF CrashInOptimizer, graph, queue, solver
<1>5. CASE UpdatePath
  BY <1>5 DEF UpdatePath, graph, queue
<1>6. CASE NewSequence
  BY <1>6, ShiftTypes DEF NewSequence, graph, queue, solver
<1>7. ASSUME NEW i \in answers, UpdateKeyFrameLoop(i)
      PROVE  ShiftInv'
  <2>1. drift' = drift \/ drift'.by = "relo"
    BY <1>7 DEF UpdateKeyFrameLoop
  <2>2. UNCHANGED <<sequence, adder, cur, graph, queue, solver>>
    BY <1>7 DEF UpdateKeyFrameLoop
  <2> QED
    BY <2>1, <2>2 DEF graph, queue, solver
<1> QED
  BY <1>1, <1>2, <1>3, <1>4, <1>5, <1>6, <1>7 DEF Optimizer, Spin

\* ShiftInv is inductive relative to IInv.
LEMMA ShiftNext == EmptySequences = FALSE /\ IInv /\ ShiftInv /\ [Next]_vars => ShiftInv'
<1> SUFFICES ASSUME EmptySequences = FALSE, IInv, ShiftInv, [Next]_vars
             PROVE  ShiftInv'
  OBVIOUS
<1>1. CASE Adder \/ Optimizer \/ Spin
  BY <1>1, ShiftAdder, ShiftOthers
<1>2. CASE UNCHANGED vars
  BY <1>2 DEF vars, ShiftInv, SequenceInv, VioInv, DriftInv
<1> QED
  BY <1>1, <1>2 DEF Next, Finished

\* Every reachable state satisfies it when no sequence is left empty.
LEMMA ShiftInvariance == ASSUME EmptySequences = FALSE PROVE Spec => []ShiftInv
<1>1. IInv /\ ShiftInv /\ [Next]_vars => ShiftInv'
  BY ShiftNext
<1> QED
  BY <1>1, ShiftInit, Invariance, PTL DEF Spec

-----------------------------------------------------------------------------
(* What the poses and the drift come from *)

\* A shift is under way, or an optimisation has been or is about to be asked for.
Due == adder \in {"shift", "push"} \/ optimize_buf # <<>>

\* The keyframe's pose comes from an odometry pose it no longer has.
Stale(frame) == frame.from # frame.vio

\* Only the walk leaves an odometry pose half written, in the sequence it shifts.
HalfInv ==
  /\ w_vio # Half /\ cur.vio # Half
  /\ \A k \in DOMAIN keyframelist :
       keyframelist[k].vio = Half => adder = "shift" /\ keyframelist[k].sequence = cur.sequence

\* An optimisation is to come that will give a keyframe another pose, if this one is stale.
ToBeSolved(index) ==
  /\ earliest_loop_index # -1 /\ earliest_loop_index <= index
  /\ Due \/ (optimizer \in {"build", "solve"} /\ first_looped_index <= index)

StaleInv ==
  \A k \in DOMAIN keyframelist :
    Stale(keyframelist[k]) => keyframelist[k].vio = Half \/ ToBeSolved(keyframelist[k].index)

\* earliest_loop_index is at most the one the optimisation works with.
RangeInv ==
  optimizer \in {"build", "solve"} =>
    earliest_loop_index # -1 /\ earliest_loop_index <= first_looped_index

\* Unless another optimisation is due, the problem was built from what the keyframes have.
BuiltInv ==
  optimizer = "solve" /\ found /\ ~ Due =>
    \A k \in DOMAIN keyframelist :
      keyframelist[k].index \in first_looped_index..cur_index => problem[k] = keyframelist[k].vio

\* The same for the drift, which comes from a keyframe of the list.
DriftFrom ==
  drift.by # "none" =>
    /\ drift.of \in 0..(Len(keyframelist) - 1)
    /\ \/ Due
       \/ optimizer \in {"build", "solve"}
       \/ drift.vio = keyframelist[drift.of + 1].vio

FreshInv == HalfInv /\ StaleInv /\ RangeInv /\ BuiltInv /\ DriftFrom

\* There is no pose when the node starts.
LEMMA FreshInit == Init => FreshInv
<1> SUFFICES ASSUME Init
             PROVE  FreshInv
  OBVIOUS
<1>1. DOMAIN keyframelist = {} /\ optimizer = "sleep" /\ w_vio = -1
  BY DEF Init
<1>2. cur.vio = -1 /\ drift.by = "none"
  BY DEF Init, NoFrame, Identity
<1> QED
  BY <1>1, <1>2 DEF FreshInv, HalfInv, StaleInv, RangeInv, BuiltInv, DriftFrom, Half

\* What the steps read of the state, with its types.
LEMMA FreshTypes ==
  ASSUME TypeInv, StructureInv
  PROVE  /\ Len(keyframelist) \in Nat /\ DOMAIN keyframelist = 1..Len(keyframelist)
         /\ \A k \in 1..Len(keyframelist) :
              /\ keyframelist[k].index = k - 1 /\ keyframelist[k].index \in Int
              /\ keyframelist[k].vio \in Int /\ keyframelist[k].from \in Int
         /\ earliest_loop_index \in Nat \cup {-1} /\ first_looped_index \in Int /\ cur_index \in Int
         /\ (Adding => cur.index \in Nat /\ cur.index = Len(keyframelist))
<1>1. \A k \in 1..Len(keyframelist) :
        /\ keyframelist[k].index \in Int
        /\ keyframelist[k].vio \in Int /\ keyframelist[k].from \in Int
  BY ListedFrames DEF KeyFrame
<1> QED
  BY <1>1, AnnouncedTypes DEF TypeInv

\* The process thread leaves a pose stale only while it shifts, and then asks for an
\* optimisation.
LEMMA FreshAdder == IInv /\ FreshInv /\ Adder => FreshInv'
<1> SUFFICES ASSUME TypeInv, StructureInv, AnnouncedInv, SolvedInv, FreshInv, Adder
             PROVE  FreshInv'
  BY DEF IInv
<1> USE DEF FreshInv, HalfInv, StaleInv, RangeInv, BuiltInv, DriftFrom, Due, Stale, ToBeSolved
<1>1. ASSUME NEW loop, LoadKeyFrame(loop)
      PROVE  FreshInv'
  <2>1. /\ adder = "load" /\ adder' = "load" /\ optimize_buf' = <<>> /\ optimize_buf = <<>>
        /\ optimizer = "sleep" /\ optimizer' = "sleep" /\ drift' = Identity
        /\ w_vio' = w_vio /\ cur' = cur
    BY <1>1 DEF LoadKeyFrame, StructureInv, LoadInv, solver
  <2>2. PICK frame \in KeyFrame :
          frame.vio = -1 /\ frame.from = -1 /\ keyframelist' = Append(keyframelist, frame)
    BY <1>1, FrameLoaded
  <2>3. /\ DOMAIN keyframelist' = 1..(Len(keyframelist) + 1)
        /\ \A k \in 1..Len(keyframelist) : keyframelist'[k] = keyframelist[k]
        /\ keyframelist'[Len(keyframelist) + 1] = frame
    BY <2>2, InsertedFrame
  <2>4. \A k \in 1..(Len(keyframelist) + 1) :
          keyframelist'[k].vio # Half /\ keyframelist'[k].from = keyframelist'[k].vio
    <3>1. \A k \in 1..Len(keyframelist) :
            keyframelist[k].vio # Half /\ keyframelist[k].from = keyframelist[k].vio
      BY <2>1, FreshTypes
    <3> QED
      BY <2>2, <2>3, <3>1, FreshTypes DEF Half
  <2>5. Identity.by = "none"
    BY DEF Identity
  <2> QED
    BY <2>1, <2>3, <2>4, <2>5
<1>2. ASSUME NEW loop, NewKeyFrame(loop)
      PROVE  FreshInv'
  <2>1. /\ adder = "idle" /\ adder' \in {"insert", "connect"} /\ cur'.vio = w_vio'
        /\ w_vio' \in {w_vio, -1} /\ drift' \in {drift, Identity}
        /\ UNCHANGED <<keyframelist, earliest_loop_index, optimize_buf, optimizer, cur_index,
                       first_looped_index, found, problem>>
    BY <1>2 DEF NewKeyFrame, queue, solver
  <2>2. Identity.by = "none" /\ Half # -1
    BY DEF Identity, Half
  <2>3. HalfInv'
    BY <2>1, <2>2
  <2>4. StaleInv' /\ RangeInv' /\ BuiltInv'
    BY <2>1
  <2>5. DriftFrom'
    BY <2>1, <2>2
  <2> QED
    BY <2>3, <2>4, <2>5
<1>3. CASE Loaded
  BY <1>3 DEF Loaded, graph, queue, solver
<1>4. CASE Connect
  <2>1. /\ adder = "connect" /\ adder' \in {"shift", "push"}
        /\ UNCHANGED <<keyframelist, drift, optimize_buf, optimizer, cur_index, first_looped_index,
                       found, problem>>
    BY <1>4 DEF Connect, solver
  <2>2. /\ cur.loop # -1 /\ cur.loop \in Nat \cup {-1} /\ cur.index \in Nat /\ cur \in KeyFrame
    BY <2>1 DEF StructureInv, LoopInv, TypeInv, KeyFrame
  <2>3. /\ earliest_loop_index' \in Nat
        /\ earliest_loop_index # -1 => earliest_loop_index' <= earliest_loop_index
    BY <1>4, <2>2, FreshTypes DEF Connect, Earlier
  <2>4. w_vio' # Half /\ cur'.vio # Half
    <3>1. \/ w_vio' = cur.index /\ cur' = [cur EXCEPT !.vio = cur.index]
          \/ w_vio' = w_vio /\ cur' = cur
      BY <1>4 DEF Connect
    <3>2. cur.index # Half
      BY <2>2 DEF Half
    <3> QED
      BY <2>2, <3>1, <3>2 DEF KeyFrame
  <2>5. HalfInv'
    BY <2>1, <2>4
  <2>6. StaleInv' /\ RangeInv'
    BY <2>1, <2>3, FreshTypes
  <2>7. BuiltInv' /\ DriftFrom'
    BY <2>1
  <2> QED
    BY <2>5, <2>6, <2>7
<1>5. CASE NoConnection
  <2>1. cur'.vio = cur.vio
    <3>1. cur \in KeyFrame /\ cur' = [cur EXCEPT !.loop = -1]
      BY <1>5 DEF NoConnection, TypeInv
    <3> QED
      BY <3>1 DEF KeyFrame
  <2>2. /\ adder = "connect" /\ adder' = "insert"
        /\ UNCHANGED <<w_vio, keyframelist, drift, earliest_loop_index, optimize_buf, optimizer,
                       cur_index, first_looped_index, found, problem>>
    BY <1>5 DEF NoConnection, graph, queue, solver
  <2> QED
    BY <2>1, <2>2
<1>6. CASE PushLoop
  <2>1. /\ adder = "push" /\ adder' = "insert" /\ optimize_buf' # <<>>
        /\ UNCHANGED <<cur, w_vio, keyframelist, drift, earliest_loop_index, optimizer,
                       cur_index, first_looped_index, found, problem>>
    <3>1. optimize_buf \in Seq(Nat) /\ cur.index \in Nat
      BY <1>6 DEF PushLoop, TypeInv
    <3> QED
      BY <1>6, <3>1, AppendProperties DEF PushLoop, Queued, graph, solver
  <2> QED
    BY <2>1
<1>7. CASE InsertKeyFrame
  <2> DEFINE frame == [cur EXCEPT !.pose = drift, !.from = cur.vio]
  <2>1. /\ frame \in KeyFrame /\ frame.vio = cur.vio /\ frame.from = cur.vio
        /\ frame.index = Len(keyframelist)
    <3>1. cur \in KeyFrame /\ drift \in Pose /\ cur.index = Len(keyframelist)
      BY <1>7, FreshTypes DEF TypeInv, InsertKeyFrame
    <3> QED
      BY <3>1 DEF KeyFrame
  <2>2. keyframelist' = Append(keyframelist, frame)
    BY <1>7 DEF InsertKeyFrame
  <2> HIDE DEF frame
  <2>3. /\ Len(keyframelist') = Len(keyframelist) + 1
        /\ DOMAIN keyframelist' = 1..(Len(keyframelist) + 1)
        /\ \A k \in 1..Len(keyframelist) : keyframelist'[k] = keyframelist[k]
        /\ keyframelist'[Len(keyframelist) + 1] = frame
    BY <2>1, <2>2, InsertedFrame
  <2>4. /\ adder = "insert" /\ adder' = "idle" /\ cur' = NoFrame
        /\ UNCHANGED <<w_vio, drift, earliest_loop_index, optimize_buf, optimizer,
                       cur_index, first_looped_index, found, problem>>
    BY <1>7 DEF InsertKeyFrame, queue, solver
  <2>5. HalfInv'
    <3>1. NoFrame.vio # Half
      BY DEF NoFrame, Half
    <3> QED
      BY <2>1, <2>3, <2>4, <3>1, FreshTypes
  <2>6. StaleInv'
    BY <2>1, <2>3, <2>4, FreshTypes
  <2>7. RangeInv'
    BY <2>4
  <2>8. BuiltInv'
    <3>1. ASSUME optimizer = "solve", found, ~ Due, NEW k \in 1..(Len(keyframelist) + 1),
                 keyframelist'[k].index \in first_looped_index..cur_index
          PROVE  problem[k] = keyframelist'[k].vio
      <4>1. cur_index \in 0..(Len(keyframelist) - 1)
        BY <3>1 DEF SolvedInv
      <4>2. k \in 1..Len(keyframelist)
        <5>1. keyframelist'[Len(keyframelist) + 1].index = Len(keyframelist)
          BY <2>1, <2>3
        <5>2. Len(keyframelist) \notin first_looped_index..cur_index
          BY <4>1, FreshTypes
        <5>3. k # Len(keyframelist) + 1
          BY <3>1, <5>1, <5>2
        <5> QED
          BY <5>3, FreshTypes
      <4> QED
        BY <2>3, <3>1, <4>2, FreshTypes
    <3> QED
      BY <2>3, <2>4, <3>1
  <2>9. DriftFrom'
    BY <2>3, <2>4, FreshTypes
  <2> QED
    BY <2>5, <2>6, <2>7, <2>8, <2>9
<1>8. CASE ShiftKeyFrame
  <2>1. /\ Len(keyframelist') = Len(keyframelist)
        /\ DOMAIN keyframelist' = 1..Len(keyframelist)
        /\ \A k \in 1..Len(keyframelist) :
             /\ keyframelist'[k].index = keyframelist[k].index
             /\ keyframelist'[k].sequence = keyframelist[k].sequence
             /\ keyframelist'[k] = keyframelist[k] \/ Walked(keyframelist'[k], keyframelist[k])
    BY <1>8, ShiftedFrames, LenProperties
  <2>2. /\ adder = "shift"
        /\ UNCHANGED <<adder, cur, w_vio, drift, earliest_loop_index, optimize_buf, optimizer,
                       cur_index, first_looped_index, found, problem>>
    BY <1>8 DEF ShiftKeyFrame, queue, solver
  <2>3. HalfInv'
    BY <2>1, <2>2, FreshTypes DEF Walked
  <2>4. StaleInv'
    <3>1. ASSUME NEW k \in 1..Len(keyframelist), keyframelist'[k].from # keyframelist'[k].vio
          PROVE  \/ keyframelist'[k].vio = Half
                 \/ earliest_loop_index # -1 /\ earliest_loop_index <= keyframelist'[k].index
      <4>1. CASE keyframelist'[k] = keyframelist[k]
        BY <3>1, <4>1, FreshTypes
      <4>2. CASE Walked(keyframelist'[k], keyframelist[k])
        BY <3>1, <4>2 DEF Walked
      <4> QED
        BY <2>1, <4>1, <4>2
    <3> QED
      BY <2>1, <2>2, <3>1
  <2>5. RangeInv' /\ BuiltInv'
    BY <2>2
  <2>6. DriftFrom'
    BY <2>1, <2>2
  <2> QED
    BY <2>3, <2>4, <2>5, <2>6
<1>9. CASE SequenceShifted
  <2>1. /\ adder = "shift" /\ adder' = "push" /\ Unshifted = {}
        /\ UNCHANGED <<cur, w_vio, keyframelist, drift, earliest_loop_index, optimize_buf, optimizer,
                       cur_index, first_looped_index, found, problem>>
    BY <1>9 DEF SequenceShifted, Onwards, queue, solver
  <2>2. cur.index # Half
    BY <2>1, FreshTypes DEF Half
  <2>3. \A k \in DOMAIN keyframelist : keyframelist[k].vio # Half
    BY <2>1, <2>2 DEF Unshifted
  <2> QED
    BY <2>1, <2>3
<1> QED
  BY <1>1, <1>2, <1>3, <1>4, <1>5, <1>6, <1>7, <1>8, <1>9 DEF Adder

\* An optimisation renews what is stale, or leaves it to the one that is due.
LEMMA FreshOthers == IInv /\ FreshInv /\ (Optimizer \/ Spin) => FreshInv'
<1> SUFFICES ASSUME TypeInv, StructureInv, AnnouncedInv, SolvedInv, FreshInv, Optimizer \/ Spin
             PROVE  FreshInv'
  BY DEF IInv
<1> USE DEF FreshInv, HalfInv, StaleInv, RangeInv, BuiltInv, DriftFrom, Due, Stale, ToBeSolved
<1>1. CASE TakeLoop
  <2>1. /\ optimize_buf # <<>> /\ optimizer' = "build" /\ first_looped_index' = earliest_loop_index
        /\ UNCHANGED <<adder, cur, w_vio, keyframelist, drift, earliest_loop_index>>
    BY <1>1 DEF TakeLoop, graph
  <2>2. earliest_loop_index \in Nat
    <3>1. optimize_buf \in Seq(Nat)
      BY DEF TypeInv
    <3>2. Len(optimize_buf) \in DOMAIN optimize_buf
      BY <2>1, <3>1, AnnouncedTypes, EmptySeq
    <3>3. earliest_loop_index \in 0..optimize_buf[Len(optimize_buf)]
      BY <3>2 DEF AnnouncedInv, QueueInv
    <3> QED
      BY <3>3
  <2> QED
    BY <2>1, <2>2, FreshTypes
<1>2. CASE BuildProblem
  <2>1. /\ optimizer = "build" /\ optimizer' = "solve"
        /\ problem' = [k \in Scanned |-> keyframelist[k].vio]
        /\ UNCHANGED <<adder, cur, w_vio, keyframelist, drift, earliest_loop_index, optimize_buf,
                       cur_index, first_looped_index>>
    BY <1>2 DEF BuildProblem, graph, queue
  <2>2. BuiltInv'
    BY <2>1 DEF Scanned
  <2> QED
    BY <2>1, <2>2
<1>3. CASE UpdatePoses
  <2>1. /\ optimizer = "solve" /\ found /\ optimizer' = "path"
        /\ UNCHANGED <<adder, cur, w_vio, earliest_loop_index, optimize_buf>>
    BY <1>3 DEF UpdatePoses, queue
  <2>2. /\ drift'.of = cur_index /\ drift'.vio = keyframelist[cur_index + 1].vio
        /\ cur_index \in 0..(Len(keyframelist) - 1)
        /\ Len(keyframelist') = Len(keyframelist)
        /\ DOMAIN keyframelist' = 1..Len(keyframelist)
    BY <1>3, UpdatedFrames, LenProperties DEF StructureInv
  <2>3. \A k \in 1..Len(keyframelist) :
          /\ keyframelist'[k].index = keyframelist[k].index
          /\ keyframelist'[k].sequence = keyframelist[k].sequence
          /\ keyframelist'[k].vio = keyframelist[k].vio
          /\ keyframelist[k].index < first_looped_index => keyframelist'[k] = keyframelist[k]
          /\ keyframelist[k].index \in first_looped_index..cur_index
               => keyframelist'[k].from = problem[k]
          /\ keyframelist[k].index >= first_looped_index /\ keyframelist[k].index > cur_index
               => keyframelist'[k].from = keyframelist[k].vio
    BY <1>3, UpdatedFrames DEF StructureInv
  <2>4. HalfInv'
    <3>1. ASSUME NEW k \in 1..Len(keyframelist), keyframelist'[k].vio = Half
          PROVE  adder = "shift" /\ keyframelist'[k].sequence = cur.sequence
      <4>1. keyframelist[k].vio = Half /\ k \in DOMAIN keyframelist
        BY <2>3, <3>1, FreshTypes
      <4> QED
        BY <2>3, <4>1
    <3> QED
      BY <2>1, <2>2, <3>1
  <2>5. StaleInv'
    <3>1. ASSUME NEW k \in 1..Len(keyframelist), keyframelist'[k].from # keyframelist'[k].vio,
                 keyframelist[k].vio # Half
          PROVE  Due /\ earliest_loop_index # -1 /\ earliest_loop_index <= keyframelist[k].index
      <4> DEFINE index == keyframelist[k].index
      <4>1. index \in Int /\ first_looped_index \in Int /\ cur_index \in Int
            /\ earliest_loop_index \in Int
        BY FreshTypes
      <4>2. CASE index < first_looped_index
        <5>1. Stale(keyframelist[k])
          BY <2>3, <3>1, <4>2
        <5>2. ToBeSolved(index)
          BY <3>1, <5>1, FreshTypes
        <5>3. Due /\ earliest_loop_index # -1 /\ earliest_loop_index <= index
          BY <4>1, <4>2, <5>2
        <5> QED
          BY <5>3
      <4>3. CASE index \in first_looped_index..cur_index
        <5>1. problem[k] # keyframelist[k].vio
          BY <2>3, <3>1, <4>3
        <5>2. Due
          BY <2>1, <4>3, <5>1, FreshTypes
        <5>3. earliest_loop_index # -1 /\ earliest_loop_index <= index
          BY <2>1, <4>1, <4>3
        <5> QED
          BY <5>2, <5>3
      <4>4. CASE index >= first_looped_index /\ index > cur_index
        BY <2>3, <3>1, <4>4
      <4> QED
        BY <4>1, <4>2, <4>3, <4>4
    <3> QED
      BY <2>1, <2>2, <2>3, <3>1
  <2>6. RangeInv' /\ BuiltInv'
    BY <2>1
  <2>7. DriftFrom'
    <3>1. cur_index + 1 \in 1..Len(keyframelist)
      BY <2>2, FreshTypes
    <3> QED
      BY <2>2, <2>3, <3>1
  <2> QED
    BY <2>4, <2>5, <2>6, <2>7
<1>4. CASE CrashInOptimizer
  BY <1>4 DEF CrashInOptimizer, graph, queue, solver
<1>5. CASE UpdatePath
  BY <1>5 DEF UpdatePath, graph, queue
<1>6. CASE NewSequence
  BY <1>6 DEF NewSequence, graph, queue, solver
<1>7. ASSUME NEW i \in answers, UpdateKeyFrameLoop(i)
      PROVE  FreshInv'
  <2>1. UNCHANGED <<adder, cur, w_vio, keyframelist, earliest_loop_index, optimize_buf, optimizer,
                    cur_index, first_looped_index, found, problem>>
    BY <1>7 DEF UpdateKeyFrameLoop, graph, queue, solver
  <2>2. \/ drift' = drift
        \/ i \in Listed /\ drift' = [by |-> "relo", of |-> i, vio |-> Frame(i).vio]
    BY <1>7 DEF UpdateKeyFrameLoop
  <2>3. CASE drift' = drift
    BY <2>1, <2>3
  <2>4. CASE i \in Listed /\ drift' = [by |-> "relo", of |-> i, vio |-> Frame(i).vio]
    <3>1. i \in 0..(Len(keyframelist) - 1)
      BY <2>4, FreshTypes DEF Listed
    <3>2. Frame(i) = keyframelist[i + 1]
      BY <3>1, FrameAt DEF StructureInv
    <3>3. DriftFrom'
      BY <2>1, <2>4, <3>1, <3>2
    <3> QED
      BY <2>1, <3>3
  <2> QED
    BY <2>2, <2>3, <2>4
<1> QED
  BY <1>1, <1>2, <1>3, <1>4, <1>5, <1>6, <1>7 DEF Optimizer, Spin

\* Every reachable state satisfies it.
LEMMA FreshInvariance == Spec => []FreshInv
<1>1. IInv /\ FreshInv /\ [Next]_vars => FreshInv'
  <2> SUFFICES ASSUME IInv, FreshInv, [Next]_vars
               PROVE  FreshInv'
    OBVIOUS
  <2>1. CASE Adder \/ Optimizer \/ Spin
    BY <2>1, FreshAdder, FreshOthers
  <2>2. CASE UNCHANGED vars
    BY <2>2 DEF vars, FreshInv, HalfInv, StaleInv, RangeInv, BuiltInv, DriftFrom, Due, Stale,
                ToBeSolved
  <2> QED
    BY <2>1, <2>2 DEF Next, Finished
<1> QED
  BY <1>1, FreshInit, Invariance, PTL DEF Spec

-----------------------------------------------------------------------------
(* The paths, when no sequence is left empty *)

Below(S, k) == {j \in S : j < k}

\* The number of smaller elements grows with the element.
LEMMA MoreBelow ==
  ASSUME NEW S, S \subseteq Nat, IsFiniteSet(S), NEW x \in S, NEW y \in S, x < y
  PROVE  /\ Cardinality(Below(S, x)) \in Nat /\ Cardinality(Below(S, y)) \in Nat
         /\ Cardinality(Below(S, x)) < Cardinality(Below(S, y))
<1> DEFINE A == Below(S, x)
           B == Below(S, y)
<1>1. A \in SUBSET S /\ B \in SUBSET S
  BY DEF Below
<1>2. IsFiniteSet(A) /\ IsFiniteSet(B)
  BY <1>1, FS_Subset
<1>3. Cardinality(A) \in Nat /\ Cardinality(B) \in Nat
  BY <1>2, FS_CardinalityType
<1>4. ASSUME NEW z \in A
      PROVE  z \in B
  <2>1. z \in Nat /\ x \in Nat /\ y \in Nat /\ z < x /\ z \in S
    BY DEF Below
  <2>2. z < y
    BY <2>1
  <2> QED
    BY <2>1, <2>2 DEF Below
<1>5. x \in B /\ x \notin A
  BY DEF Below
<1>6. A \in SUBSET B /\ A # B
  <2> HIDE DEF A, B
  <2> QED
    BY <1>4, <1>5
<1>7. Cardinality(A) <= Cardinality(B) /\ (Cardinality(B) = Cardinality(A) => B = A)
  BY <1>2, <1>6, FS_Subset
<1> HIDE DEF A, B
<1>8. Cardinality(A) < Cardinality(B)
  BY <1>3, <1>6, <1>7
<1> QED
  BY <1>3, <1>8 DEF A, B

\* Fewer elements come before one of a finite set than the set has.
LEMMA FewerBelow ==
  ASSUME NEW S, S \subseteq Nat, IsFiniteSet(S), NEW x \in S
  PROVE  /\ Cardinality(S) \in Nat /\ Cardinality(Below(S, x)) \in Nat
         /\ Cardinality(Below(S, x)) < Cardinality(S)
<1> DEFINE A == Below(S, x)
<1>1. A \in SUBSET S /\ x \notin A
  BY DEF Below
<1> HIDE DEF A
<1>2. IsFiniteSet(A) /\ Cardinality(A) <= Cardinality(S) /\ (Cardinality(S) = Cardinality(A) => S = A)
  BY <1>1, FS_Subset
<1>3. Cardinality(A) \in Nat /\ Cardinality(S) \in Nat
  BY <1>2, FS_CardinalityType
<1>4. Cardinality(A) # Cardinality(S)
  BY <1>1, <1>2
<1> QED
  BY <1>2, <1>3, <1>4 DEF A

\* Nth finds its element.
LEMMA NthElement ==
  ASSUME NEW S, S \subseteq Nat, IsFiniteSet(S), NEW n \in 1..Cardinality(S)
  PROVE  Nth(S, n) \in S /\ Cardinality(Below(S, Nth(S, n))) = n - 1
<1> DEFINE c == Cardinality(S)
           rank == [x \in S |-> Cardinality(Below(S, x)) + 1]
<1>1. c \in Nat
  BY FS_CardinalityType
<1>2. rank \in Injection(S, 1..c)
  <2>1. \A x \in S : Cardinality(Below(S, x)) + 1 \in 1..c
    <3>1. ASSUME NEW x \in S
          PROVE  Cardinality(Below(S, x)) + 1 \in 1..c
      <4>1. Cardinality(Below(S, x)) \in Nat /\ Cardinality(Below(S, x)) < c
        BY FewerBelow
      <4> HIDE DEF c
      <4> QED
        BY <1>1, <4>1
    <3> QED
      BY <3>1
  <2>2. ASSUME NEW x \in S, NEW y \in S, rank[x] = rank[y]
        PROVE  x = y
    <3>1. Cardinality(Below(S, x)) \in Nat /\ Cardinality(Below(S, y)) \in Nat
      BY FewerBelow
    <3>2. Cardinality(Below(S, x)) = Cardinality(Below(S, y))
      BY <2>2, <3>1
    <3>3. ASSUME x < y
          PROVE  FALSE
      <4>1. Cardinality(Below(S, x)) < Cardinality(Below(S, y))
        BY <3>3, MoreBelow
      <4> QED
        BY <3>1, <3>2, <4>1
    <3>4. ASSUME y < x
          PROVE  FALSE
      <4>1. Cardinality(Below(S, y)) < Cardinality(Below(S, x))
        BY <3>4, MoreBelow
      <4> QED
        BY <3>1, <3>2, <4>1
    <3>5. x \in Nat /\ y \in Nat
      OBVIOUS
    <3> QED
      BY <3>3, <3>4, <3>5
  <2>3. rank \in [S -> 1..c]
    BY <2>1
  <2> HIDE DEF rank
  <2> QED
    BY <2>2, <2>3 DEF Injection, IsInjective
<1>3. rank \in Surjection(S, 1..c)
  <2>1. IsFiniteSet(1..c) /\ Cardinality(1..c) = c
    BY <1>1, FS_Interval
  <2> HIDE DEF rank
  <2> QED
    BY <1>2, <2>1, FS_Injection
<1>4. PICK x \in S : rank[x] = n
  <2> HIDE DEF rank
  <2> QED
    BY <1>3 DEF Surjection
<1>5. Cardinality(Below(S, x)) = n - 1
  <2>1. Cardinality(Below(S, x)) \in Nat /\ Cardinality(Below(S, x)) + 1 = n
    BY <1>4, FewerBelow
  <2> QED
    BY <2>1
<1> DEFINE P(k) == k \in S /\ Cardinality(Below(S, k)) = n - 1
<1>6. Nth(S, n) = CHOOSE k : P(k)
  BY DEF Nth, Below
<1>7. P(CHOOSE k : P(k))
  <2>1. P(x)
    BY <1>5
  <2> HIDE DEF P
  <2> QED
    BY <2>1
<1> QED
  BY <1>6, <1>7

\* T is S with m in addition, behind the elements S has.
GrownBy(S, T, m) ==
  /\ Cardinality(S) \in Nat /\ Cardinality(T) = Cardinality(S) + 1
  /\ \A n \in 1..Cardinality(S) : Nth(S, n) \in S /\ Nth(T, n) = Nth(S, n)
  /\ Nth(T, Cardinality(S) + 1) = m

\* A set that gets a greatest element keeps its elements at their places.
LEMMA NthOfGrown ==
  ASSUME NEW m \in Nat, NEW S, S \subseteq 1..m
  PROVE  GrownBy(S, S \cup {m + 1}, m + 1)
<1> DEFINE T == S \cup {m + 1}
           c == Cardinality(S)
<1>1. IsFiniteSet(S)
  <2>1. IsFiniteSet(1..m) /\ S \in SUBSET (1..m)
    BY FS_Interval
  <2> QED
    BY <2>1, FS_Subset
<1>2. c \in Nat
  BY <1>1, FS_CardinalityType
<1>3. m + 1 \notin S /\ S \subseteq Nat /\ T \subseteq Nat
  <2>1. m + 1 \notin 1..m /\ 1..m \subseteq Nat /\ m + 1 \in Nat
    OBVIOUS
  <2> QED
    BY <2>1
<1>4. IsFiniteSet(T) /\ Cardinality(T) = c + 1
  BY <1>1, <1>3, FS_AddElement
<1>5. ASSUME NEW k \in S
      PROVE  Below(T, k) = Below(S, k) /\ Cardinality(Below(S, k)) \in Nat /\ Cardinality(Below(S, k)) < c
  <2>1. k \in 1..m /\ ~ (m + 1 < k)
    <3>1. k \in 1..m
      OBVIOUS
    <3> QED
      BY <3>1
  <2>2. Below(T, k) = Below(S, k)
    BY <2>1 DEF Below
  <2> QED
    BY <1>1, <1>3, <2>2, FewerBelow
<1>6. Below(T, m + 1) = S
  <2>1. \A k \in 1..m : k < m + 1
    OBVIOUS
  <2>2. ~ (m + 1 < m + 1)
    OBVIOUS
  <2> QED
    BY <2>1, <2>2 DEF Below
<1> HIDE DEF T, c
<1>7. ASSUME NEW n \in 1..c
      PROVE  Nth(S, n) \in S /\ Nth(T, n) = Nth(S, n)
  <2>1. Nth(S, n) \in S
    BY <1>1, <1>3, NthElement DEF c
  <2>2. n \in 1..(c + 1)
    BY <1>2
  <2>3. Nth(T, n) \in T /\ Cardinality(Below(T, Nth(T, n))) = n - 1
    BY <1>3, <1>4, <2>2, NthElement
  <2>4. Cardinality(Below(S, Nth(S, n))) = n - 1
    BY <1>1, <1>3, NthElement DEF c
  <2>5. Nth(T, n) \in S
    <3>1. n - 1 # c
      BY <1>2
    <3> QED
      BY <1>6, <2>3, <3>1 DEF T, c
  <2>6. Cardinality(Below(S, Nth(T, n))) = n - 1
    BY <1>5, <2>3, <2>5
  <2> DEFINE x == Nth(S, n)
             y == Nth(T, n)
  <2>7. /\ x \in S /\ y \in S /\ x \in Nat /\ y \in Nat
        /\ Cardinality(Below(S, x)) = n - 1 /\ Cardinality(Below(S, y)) = n - 1
    BY <1>3, <2>1, <2>4, <2>5, <2>6
  <2> HIDE DEF x, y
  <2>8. ~ (x < y) /\ ~ (y < x)
    <3>1. ASSUME x < y
          PROVE  FALSE
      <4>1. Cardinality(Below(S, x)) < Cardinality(Below(S, y))
        BY <1>1, <1>3, <2>7, <3>1, MoreBelow
      <4>2. n - 1 \in Nat
        OBVIOUS
      <4> QED
        BY <2>7, <4>1, <4>2
    <3>2. ASSUME y < x
          PROVE  FALSE
      <4>1. Cardinality(Below(S, y)) < Cardinality(Below(S, x))
        BY <1>1, <1>3, <2>7, <3>2, MoreBelow
      <4>2. n - 1 \in Nat
        OBVIOUS
      <4> QED
        BY <2>7, <4>1, <4>2
    <3> QED
      BY <3>1, <3>2
  <2>9. x = y
    BY <2>7, <2>8
  <2> QED
    BY <2>1, <2>9 DEF x, y
<1>8. Nth(T, c + 1) = m + 1
  <2>1. c + 1 \in 1..(c + 1) /\ c + 1 - 1 = c
    BY <1>2
  <2>2. Nth(T, c + 1) \in T /\ Cardinality(Below(T, Nth(T, c + 1))) = c
    <3> DEFINE n == c + 1
    <3>1. n \in 1..n /\ n - 1 = c /\ Cardinality(T) = n
      <4>1. Cardinality(T) = n
        BY <1>4
      <4>2. n \in 1..n /\ n - 1 = c
        BY <1>2
      <4> QED
        BY <4>1, <4>2
    <3> HIDE DEF n
    <3>2. Nth(T, n) \in T /\ Cardinality(Below(T, Nth(T, n))) = n - 1
      BY <1>3, <1>4, <3>1, NthElement
    <3> QED
      BY <3>1, <3>2 DEF n
  <2>3. ASSUME Nth(T, c + 1) \in S
        PROVE  FALSE
    <3>1. Cardinality(Below(T, Nth(T, c + 1))) < c
      BY <1>5, <2>3
    <3> QED
      BY <1>2, <2>2, <3>1
  <2> QED
    BY <2>2, <2>3 DEF T
<1> QED
  BY <1>2, <1>4, <1>7, <1>8 DEF T, c, GrownBy

\* What Shown is made of.
LEMMA ShownFrames ==
  ASSUME TypeInv, NEW s
  PROVE  /\ Positions(s) \subseteq 1..Len(keyframelist) /\ Positions(s) \subseteq Nat
         /\ IsFiniteSet(Positions(s)) /\ Cardinality(Positions(s)) \in Nat
         /\ \A n \in 1..Cardinality(Positions(s)) : Nth(Positions(s), n) \in Positions(s)
         /\ Shown(s) \in Seq(Int) /\ Len(Shown(s)) = Cardinality(Positions(s))
<1> DEFINE S == Positions(s)
           c == Cardinality(S)
<1>1. S \subseteq 1..Len(keyframelist) /\ Len(keyframelist) \in Nat
  BY ListedFrames DEF Positions
<1>2. S \subseteq Nat
  BY <1>1
<1>3. IsFiniteSet(S) /\ c \in Nat
  <2>1. IsFiniteSet(1..Len(keyframelist)) /\ S \in SUBSET (1..Len(keyframelist))
    BY <1>1, FS_Interval
  <2>2. IsFiniteSet(S)
    BY <2>1, FS_Subset
  <2> QED
    BY <2>2, FS_CardinalityType
<1>4. \A n \in 1..c : Nth(S, n) \in S
  BY <1>2, <1>3, NthElement
<1> HIDE DEF S, c
<1>5. \A n \in 1..c : keyframelist[Nth(S, n)].index \in Int
  <2>1. ASSUME NEW k \in 1..Len(keyframelist)
        PROVE  keyframelist[k].index \in Int
    BY ListedFrames DEF KeyFrame
  <2> QED
    BY <1>1, <1>4, <2>1
<1>6. Shown(s) = [n \in 1..c |-> keyframelist[Nth(S, n)].index]
  BY DEF Shown, S, c
<1>7. Shown(s) \in [1..c -> Int]
  BY <1>5, <1>6
<1>8. Shown(s) \in Seq(Int) /\ Len(Shown(s)) = c
  BY <1>3, <1>7, FunctionIsSequence
<1> QED
  BY <1>1, <1>2, <1>3, <1>4, <1>8 DEF S, c

\* The paths depend on the keyframes' indices and sequences only.
LEMMA ShownKept ==
  ASSUME TypeInv, keyframelist' \in Seq(KeyFrame), Len(keyframelist') = Len(keyframelist),
         \A k \in 1..Len(keyframelist) : /\ keyframelist'[k].index = keyframelist[k].index
                                         /\ keyframelist'[k].sequence = keyframelist[k].sequence,
         NEW s
  PROVE  Shown(s)' = Shown(s)
<1> DEFINE S == Positions(s)
           c == Cardinality(S)
<1>1. DOMAIN keyframelist' = 1..Len(keyframelist) /\ DOMAIN keyframelist = 1..Len(keyframelist)
  BY ListedFrames
<1>2. Positions(s)' = S
  BY <1>1 DEF Positions
<1>3. S \subseteq 1..Len(keyframelist) /\ \A n \in 1..c : Nth(S, n) \in S
  BY ShownFrames
<1> HIDE DEF S
<1>4. Shown(s)' = [n \in 1..c |-> keyframelist'[Nth(S, n)].index]
  BY <1>2 DEF Shown
<1>5. Shown(s) = [n \in 1..c |-> keyframelist[Nth(S, n)].index]
  BY DEF Shown, S
<1> HIDE DEF c
<1>6. \A n \in 1..c : keyframelist'[Nth(S, n)].index = keyframelist[Nth(S, n)].index
  BY <1>3
<1> QED
  BY <1>4, <1>5, <1>6

\* A keyframe appended to the list is appended to its sequence's path.
LEMMA ShownGrown ==
  ASSUME TypeInv, NEW frame \in KeyFrame, keyframelist' = Append(keyframelist, frame), NEW s
  PROVE  Shown(s)' = IF frame.sequence = s THEN Append(Shown(s), frame.index) ELSE Shown(s)
<1> DEFINE S == Positions(s)
           c == Cardinality(S)
           m == Len(keyframelist)
<1>1. /\ m \in Nat /\ DOMAIN keyframelist = 1..m /\ DOMAIN keyframelist' = 1..(m + 1)
      /\ \A k \in 1..m : keyframelist'[k] = keyframelist[k]
      /\ keyframelist'[m + 1] = frame
  BY InsertedFrame
<1>2. /\ S \subseteq 1..m /\ \A n \in 1..c : Nth(S, n) \in S
      /\ Shown(s) \in Seq(Int) /\ Len(Shown(s)) = c /\ c \in Nat
  BY ShownFrames
<1> HIDE DEF m
<1>3. 1..(m + 1) = 1..m \cup {m + 1} /\ m + 1 \notin 1..m
  BY <1>1
<1>4. Shown(s) = [n \in 1..c |-> keyframelist[Nth(S, n)].index]
  BY DEF Shown
<1>5. CASE frame.sequence = s
  <2> DEFINE T == S \cup {m + 1}
             v == frame.index
  <2>1. Positions(s)' = T
    BY <1>1, <1>3, <1>5 DEF Positions
  <2> HIDE DEF S
  <2>2. /\ Cardinality(T) = c + 1
        /\ \A n \in 1..c : Nth(T, n) = Nth(S, n)
        /\ Nth(T, c + 1) = m + 1
    <3>1. m \in Nat /\ S \subseteq 1..m
      BY <1>1, <1>2
    <3>2. GrownBy(S, S \cup {m + 1}, m + 1)
      BY <3>1, NthOfGrown
    <3>3. GrownBy(S, T, m + 1)
      BY <3>2
    <3> HIDE DEF T
    <3> QED
      BY <3>3 DEF GrownBy
  <2> HIDE DEF T
  <2>3. Shown(s)' = [n \in 1..Cardinality(T) |-> keyframelist'[Nth(T, n)].index]
    BY <2>1 DEF Shown
  <2>4. v \in Int
    BY DEF KeyFrame
  <2> HIDE DEF c, v
  <2>5. Shown(s)' = [n \in 1..(c + 1) |-> keyframelist'[Nth(T, n)].index]
    BY <2>2, <2>3
  <2>6. \A n \in 1..c : Shown(s)'[n] = Shown(s)[n]
    <3>1. ASSUME NEW n \in 1..c
          PROVE  Shown(s)'[n] = Shown(s)[n]
      <4>1. n \in 1..(c + 1)
        BY <1>2
      <4>2. Shown(s)'[n] = keyframelist'[Nth(S, n)].index
        BY <2>2, <2>5, <4>1
      <4>3. Nth(S, n) \in 1..m
        BY <1>2
      <4> QED
        BY <1>1, <1>4, <4>2, <4>3
    <3> QED
      BY <3>1
  <2>7. Shown(s)'[c + 1] = v
    <3>1. c + 1 \in 1..(c + 1)
      BY <1>2
    <3> QED
      BY <1>1, <2>2, <2>5, <3>1 DEF v
  <2> DEFINE old == Shown(s)
             new == Shown(s)'
  <2>8. /\ DOMAIN new = 1..(c + 1) /\ new = [n \in 1..(c + 1) |-> new[n]]
        /\ \A n \in 1..c : new[n] = old[n]
        /\ new[c + 1] = v /\ old \in Seq(Int) /\ Len(old) = c /\ c \in Nat /\ v \in Int
    BY <1>2, <2>4, <2>5, <2>6, <2>7
  <2> HIDE DEF old, new
  <2>9. /\ Append(old, v) \in Seq(Int) /\ Len(Append(old, v)) = c + 1
        /\ \A n \in 1..c : Append(old, v)[n] = old[n]
        /\ Append(old, v)[c + 1] = v
    BY <2>8, AppendProperties
  <2>10. \A n \in 1..(c + 1) : n \in 1..c \/ n = c + 1
    BY <2>8
  <2>11. \A n \in 1..(c + 1) : new[n] = Append(old, v)[n]
    BY <2>8, <2>9, <2>10
  <2>12. new \in Seq(Int) /\ Len(new) = c + 1
    <3>1. \A n \in 1..(c + 1) : new[n] \in Int
      <4>1. \A n \in 1..c : old[n] \in Int
        BY <2>8
      <4> QED
        BY <2>8, <2>10, <4>1
    <3>2. new \in [1..(c + 1) -> Int] /\ c + 1 \in Nat
      BY <2>8, <3>1
    <3> QED
      BY <3>2, FunctionIsSequence
  <2>13. new = Append(old, v)
    BY <2>9, <2>11, <2>12, SeqEqual
  <2> QED
    BY <1>5, <2>13 DEF old, new, v
<1>6. CASE frame.sequence # s
  <2>1. Positions(s)' = S
    BY <1>1, <1>3, <1>6 DEF Positions
  <2> HIDE DEF S
  <2>2. Shown(s)' = [n \in 1..c |-> keyframelist'[Nth(S, n)].index]
    BY <2>1 DEF Shown
  <2> HIDE DEF c
  <2>3. \A n \in 1..c : keyframelist'[Nth(S, n)] = keyframelist[Nth(S, n)]
    BY <1>1, <1>2
  <2>4. Shown(s)' = Shown(s)
    BY <1>4, <2>2, <2>3
  <2> QED
    BY <1>6, <2>4
<1> QED
  BY <1>5, <1>6

\* updatePath finds every sequence it does not empty empty.
PathInv == DOMAIN path = 0..MaxSequences /\ PathsMatch

\* There is no path when the node starts.
LEMMA PathInit == Init => PathInv
<1> SUFFICES ASSUME Init
             PROVE  PathInv
  OBVIOUS
<1>1. DOMAIN keyframelist = {} /\ path = [s \in 0..MaxSequences |-> <<>>]
  BY DEF Init
<1>2. ASSUME NEW s \in 0..MaxSequences
      PROVE  path[s] = Shown(s)
  <2>1. Positions(s) = {} /\ Cardinality({}) = 0
    BY <1>1, FS_EmptySet DEF Positions
  <2>2. Shown(s) = [n \in 1..0 |-> keyframelist[Nth({}, n)].index]
    BY <2>1 DEF Shown
  <2>3. Shown(s) \in Seq(Int) /\ Len(Shown(s)) = 0
    BY <2>1, StructureInit, ShownFrames
  <2>4. Shown(s) = <<>>
    BY <2>3, EmptySeq
  <2> QED
    BY <1>1, <2>4
<1> QED
  BY <1>1, <1>2 DEF PathInv, PathsMatch

\* A keyframe goes to the end of the list and of one path.
LEMMA PathAppended ==
  ASSUME TypeInv, PathInv, NEW frame \in KeyFrame, keyframelist' = Append(keyframelist, frame),
         path' = [path EXCEPT ![frame.sequence] = Append(@, frame.index)]
  PROVE  PathInv'
<1>1. DOMAIN path = 0..MaxSequences /\ \A s \in 0..MaxSequences : path[s] = Shown(s)
  BY DEF PathInv, PathsMatch
<1>2. DOMAIN path' = 0..MaxSequences
  BY <1>1
<1>3. ASSUME NEW s \in 0..MaxSequences
      PROVE  path'[s] = Shown(s)'
  <2>1. path'[s] = IF s = frame.sequence THEN Append(path[s], frame.index) ELSE path[s]
    BY <1>1
  <2> QED
    BY <1>1, <2>1, ShownGrown
<1> QED
  BY <1>2, <1>3 DEF PathInv, PathsMatch

\* The list may get other poses.
LEMMA PathUnchanged ==
  ASSUME TypeInv, PathInv, path' = path,
         keyframelist' \in Seq(KeyFrame), Len(keyframelist') = Len(keyframelist),
         \A k \in 1..Len(keyframelist) : /\ keyframelist'[k].index = keyframelist[k].index
                                         /\ keyframelist'[k].sequence = keyframelist[k].sequence
  PROVE  PathInv'
<1>1. ASSUME NEW s \in 0..MaxSequences
      PROVE  path'[s] = Shown(s)'
  BY ShownKept DEF PathInv, PathsMatch
<1> QED
  BY <1>1 DEF PathInv, PathsMatch

\* The same when the list is left alone.
LEMMA PathSame ==
  ASSUME PathInv, keyframelist' = keyframelist, path' = path
  PROVE  PathInv'
<1>1. ASSUME NEW s
      PROVE  Shown(s)' = Shown(s)
  <2>1. Positions(s)' = Positions(s)
    BY DEF Positions
  <2> QED
    BY <2>1 DEF Shown
<1> QED
  BY <1>1 DEF PathInv, PathsMatch

\* The process thread appends to the list what it appends to the path.
LEMMA PathAdder == IInv /\ ShiftInv /\ PathInv /\ Adder => PathInv'
<1> SUFFICES ASSUME TypeInv, StructureInv, ShiftInv, PathInv, Adder
             PROVE  PathInv'
  BY DEF IInv
<1>1. ASSUME NEW loop, LoadKeyFrame(loop)
      PROVE  PathInv'
  <2>1. PICK frame \in KeyFrame :
          /\ frame.sequence = 0 /\ frame.index = global_index
          /\ keyframelist' = Append(keyframelist, frame)
    BY <1>1, FrameLoaded
  <2>2. path' = [path EXCEPT ![frame.sequence] = Append(@, frame.index)]
    BY <1>1, <2>1 DEF LoadKeyFrame
  <2> QED
    BY <2>1, <2>2, PathAppended
<1>2. ASSUME NEW loop, NewKeyFrame(loop)
      PROVE  PathInv'
  BY <1>2, PathSame DEF NewKeyFrame
<1>3. CASE Loaded \/ Connect \/ SequenceShifted \/ NoConnection \/ PushLoop
  BY <1>3, PathSame DEF Loaded, Connect, SequenceShifted, NoConnection, PushLoop, graph
<1>4. CASE ShiftKeyFrame
  <2>1. path' = path
    BY <1>4 DEF ShiftKeyFrame
  <2> QED
    BY <1>4, <2>1, ShiftedFrames, PathUnchanged
<1>5. CASE InsertKeyFrame
  <2> DEFINE frame == [cur EXCEPT !.pose = drift, !.from = cur.vio]
  <2>1. cur \in KeyFrame /\ drift \in Pose /\ cur.sequence = sequence_cnt
    BY <1>5 DEF TypeInv, ShiftInv, SequenceInv, Adding, InsertKeyFrame
  <2>2. frame \in KeyFrame /\ frame.sequence = sequence_cnt /\ frame.index = cur.index
    BY <2>1 DEF KeyFrame
  <2>3. keyframelist' = Append(keyframelist, frame)
        /\ path' = [path EXCEPT ![sequence_cnt] = Append(@, cur.index)]
    BY <1>5 DEF InsertKeyFrame
  <2> HIDE DEF frame
  <2>4. path' = [path EXCEPT ![frame.sequence] = Append(@, frame.index)]
    BY <2>2, <2>3
  <2> QED
    BY <2>2, <2>3, <2>4, PathAppended
<1> QED
  BY <1>1, <1>2, <1>3, <1>4, <1>5 DEF Adder

\* updatePath builds the paths anew from the list.
LEMMA PathRebuilt ==
  ASSUME TypeInv, SequenceInv, PathInv, UpdatePath
  PROVE  PathInv'
<1>1. keyframelist' = keyframelist /\ path' = [s \in DOMAIN path |-> PathCleared(s) \o Shown(s)]
  BY DEF UpdatePath, graph
<1>2. DOMAIN path = 0..MaxSequences /\ \A s \in 0..MaxSequences : path[s] = Shown(s)
  BY DEF PathInv, PathsMatch
<1>3. ASSUME NEW s \in 0..MaxSequences
      PROVE  path'[s] = Shown(s)
  <2>1. Shown(s) \in Seq(Int) /\ path'[s] = PathCleared(s) \o Shown(s)
    BY <1>1, <1>2, ShownFrames
  <2>2. CASE s <= sequence_cnt
    <3>1. PathCleared(s) = <<>>
      BY <2>2 DEF PathCleared
    <3> QED
      BY <2>1, <3>1, ConcatEmptySeq
  <2>3. CASE ~ (s <= sequence_cnt)
    <3>1. PathCleared(s) = Shown(s)
      BY <1>2, <2>3 DEF PathCleared
    <3>2. Positions(s) = {}
      BY <2>3 DEF SequenceInv, Positions
    <3>3. Len(Shown(s)) = 0
      BY <3>2, ShownFrames, FS_EmptySet
    <3>4. Shown(s) = <<>>
      BY <2>1, <3>3, EmptySeq
    <3> QED
      BY <2>1, <3>1, <3>4, ConcatEmptySeq
  <2> QED
    BY <2>2, <2>3
<1>4. ASSUME NEW s
      PROVE  Shown(s)' = Shown(s)
  BY <1>1 DEF Shown, Positions
<1> QED
  BY <1>1, <1>2, <1>3, <1>4 DEF PathInv, PathsMatch

\* The other threads leave the paths alone but for updatePath.
LEMMA PathOthers == IInv /\ ShiftInv /\ PathInv /\ (Optimizer \/ Spin) => PathInv'
<1> SUFFICES ASSUME TypeInv, StructureInv, SolvedInv, ShiftInv, PathInv, Optimizer \/ Spin
             PROVE  PathInv'
  BY DEF IInv
<1>1. CASE TakeLoop \/ BuildProblem \/ CrashInOptimizer \/ NewSequence
  BY <1>1, PathSame DEF TakeLoop, BuildProblem, CrashInOptimizer, NewSequence, graph
<1>2. ASSUME NEW i \in answers, UpdateKeyFrameLoop(i)
      PROVE  PathInv'
  BY <1>2, PathSame DEF UpdateKeyFrameLoop, graph
<1>3. CASE UpdatePoses
  <2>1. path' = path
    BY <1>3 DEF UpdatePoses
  <2> QED
    BY <1>3, <2>1, UpdatedFrames, PathUnchanged DEF StructureInv
<1>4. CASE UpdatePath
  BY <1>4, PathRebuilt DEF ShiftInv
<1> QED
  BY <1>1, <1>2, <1>3, <1>4 DEF Optimizer, Spin

\* Every reachable state satisfies it when no sequence is left empty.
LEMMA PathInvariance == ASSUME EmptySequences = FALSE PROVE Spec => []PathInv
<1>1. IInv /\ ShiftInv /\ PathInv /\ [Next]_vars => PathInv'
  <2> SUFFICES ASSUME IInv, ShiftInv, PathInv, [Next]_vars
               PROVE  PathInv'
    OBVIOUS
  <2>1. CASE Adder \/ Optimizer \/ Spin
    BY <2>1, PathAdder, PathOthers
  <2>2. CASE UNCHANGED vars
    BY <2>2, PathSame DEF vars
  <2> QED
    BY <2>1, <2>2 DEF Next, Finished
<1> QED
  BY <1>1, PathInit, Invariance, ShiftInvariance, PTL DEF Spec

-----------------------------------------------------------------------------
(* The theorems *)

\* In every reachable state the assertion of optimize4DoF holds for the problem about to be
\* built, and every loop is older than the recent keyframes.
THEOREM NoLoopOutsideProblem == Spec => []LoopsInProblem
<1>1. IInv => LoopsInProblem
  <2> SUFFICES ASSUME TypeInv, StructureInv, AnnouncedInv
               PROVE  LoopsInProblem
    BY DEF IInv
  <2>2. \A k \in DOMAIN keyframelist : OldLoop(keyframelist[k])
    BY DEF StructureInv, LoopInv
  <2>3. ASSUME NEW k \in DOMAIN keyframelist, keyframelist[k].loop # -1
        PROVE  keyframelist[k].loop < keyframelist[k].index - Recent
    BY <2>2, <2>3, AnnouncedTypes DEF OldLoop
  <2>4. ASSUME optimizer = "build", NEW k \in Scanned, keyframelist[k].loop # -1
        PROVE  \E j \in Scanned : j < k /\ keyframelist[j].index = keyframelist[k].loop
    <3> DEFINE loop == keyframelist[k].loop
    <3>1. k \in DOMAIN keyframelist /\ keyframelist[k].index \in first_looped_index..cur_index
      BY <2>4 DEF Scanned
    <3>2. loop \in Nat /\ loop < k - 1 /\ first_looped_index <= loop
      BY SMTT(30), <2>2, <2>4, <3>1, AnnouncedTypes DEF OldLoop, AnnouncedInv, ProblemInv, InProblem
    <3>3. loop + 1 \in DOMAIN keyframelist /\ keyframelist[loop + 1].index = loop
      <4>1. PICK n \in Nat : n = Len(keyframelist)
        BY AnnouncedTypes
      <4>2. DOMAIN keyframelist = 1..n /\ \A i \in 1..n : keyframelist[i].index = i - 1
        BY <4>1, AnnouncedTypes
      <4>3. loop + 1 \in 1..n
        BY <3>1, <3>2, <4>2
      <4> QED
        BY <3>2, <4>2, <4>3
    <3>4. loop + 1 \in Scanned
      BY <3>1, <3>2, <3>3, AnnouncedTypes DEF Scanned
    <3> QED
      BY <3>1, <3>2, <3>3, <3>4, AnnouncedTypes
  <2> QED
    BY <2>3, <2>4 DEF LoopsInProblem
<1> QED
  BY <1>1, Invariance, PTL

\* Whatever the other two threads look for in the list is there, or is the keyframe the
\* process thread is about to append.
THEOREM AnnouncedIsListed == Spec => []MissingOnlyWhileInserting
<1>1. IInv => MissingOnlyWhileInserting
  <2> SUFFICES ASSUME TypeInv, StructureInv, AnnouncedInv
               PROVE  MissingOnlyWhileInserting
    BY DEF IInv
  <2>2. \A i \in 0..(Len(keyframelist) - 1) : i \in Listed
    <3> SUFFICES ASSUME NEW i \in 0..(Len(keyframelist) - 1)
                 PROVE  i \in Listed
      OBVIOUS
    <3>1. i + 1 \in DOMAIN keyframelist /\ keyframelist[i + 1].index = i
      BY AnnouncedTypes
    <3> QED
      BY <3>1 DEF Listed
  <2>3. ASSUME NEW i \in answers
        PROVE  i \in Listed \/ (adder \in {"shift", "push", "insert"} /\ cur.index = i)
    BY <2>2 DEF AnnouncedInv, AnswersInv
  <2>4. optimizer = "build" =>
          cur_index \in Listed \/ (adder \in {"shift", "push", "insert"} /\ cur.index = cur_index)
    BY <2>2 DEF AnnouncedInv, QueueInv, Announced
  <2> QED
    BY <2>3, <2>4 DEF MissingOnlyWhileInserting
<1> QED
  BY <1>1, Invariance, PTL

\* When no sequence is left before it has a keyframe, the odometry poses of a sequence are in
\* one frame, whenever in the sequence its first loop into another one was found, and however
\* the optimisation and the relocalizations came between the steps of the shift: no pose and
\* no drift computed from a half-shifted sequence outlasts the optimisations that are due.
THEOREM OneFramePerSequence == ASSUME EmptySequences = FALSE PROVE Spec => []SequenceInOneFrame
<1>1. ShiftInv /\ IInv /\ FreshInv => SequenceInOneFrame
  <2> SUFFICES ASSUME ShiftInv, TypeInv, StructureInv, FreshInv
               PROVE  SequenceInOneFrame
    BY DEF IInv
  <2>1. ASSUME adder # "shift", NEW j \in DOMAIN keyframelist, NEW k \in DOMAIN keyframelist,
               keyframelist[j].sequence = keyframelist[k].sequence
        PROVE  keyframelist[j].vio = keyframelist[k].vio
    BY <2>1 DEF ShiftInv, VioInv
  <2>2. ASSUME Settled
        PROVE  /\ \A k \in DOMAIN keyframelist : keyframelist[k].from = keyframelist[k].vio
               /\ drift.by # "none" => drift.vio = Frame(drift.of).vio
    <3>1. ~ Due /\ adder # "shift" /\ optimizer \notin {"build", "solve"}
      BY <2>2 DEF Settled, Due
    <3>2. \A k \in DOMAIN keyframelist : keyframelist[k].from = keyframelist[k].vio
      BY <3>1 DEF FreshInv, HalfInv, StaleInv, Stale, ToBeSolved
    <3>3. drift.by # "none" => drift.vio = Frame(drift.of).vio
      BY <3>1, FrameAt DEF FreshInv, DriftFrom, StructureInv
    <3> QED
      BY <3>2, <3>3
  <2> QED
    BY <2>1, <2>2 DEF SequenceInOneFrame
<1> QED
  BY <1>1, ShiftInvariance, Invariance, FreshInvariance, PTL

\* Under the same condition the keyframes added before, during and after an optimisation
\* have the drift it left.
THEOREM OneDriftPerSequence == ASSUME EmptySequences = FALSE PROVE Spec => []PosesFollowDrift
<1>1. ShiftInv => PosesFollowDrift
  BY DEF ShiftInv, DriftInv, PosesFollowDrift
<1> QED
  BY <1>1, ShiftInvariance, PTL

\* The paths shown are the keyframes of each sequence, each one once and in the list's
\* order, whether addKeyFrame has appended to them or updatePath has built them anew.
THEOREM PathsShowTheList == ASSUME EmptySequences = FALSE PROVE Spec => []PathsMatch
<1>1. PathInv => PathsMatch
  BY DEF PathInv
<1> QED
  BY <1>1, PathInvariance, PTL
=============================================================================
