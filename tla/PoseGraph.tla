----------------------------- MODULE PoseGraph -----------------------------
(***************************************************************************)
(* The pose graph: pose_graph/src/pose_graph.cpp with the bookkeeping of   *)
(* keyframe.cpp and the sequence counter of pose_graph_node.cpp.           *)
(*                                                                         *)
(* Three threads work on it.  The node's process thread adds keyframes,    *)
(* detects loops and queues them; the optimisation thread takes the queue  *)
(* and re-estimates the poses; the spin thread answers relocalizations and *)
(* starts new sequences.  m_keyframelist protects the list only in part.   *)
(*                                                                         *)
(* Poses are left out.  A pose is remembered by what it was computed with  *)
(* (the drift that was applied to the keyframe's odometry, or the          *)
(* optimisation that set it) and by the odometry pose it was computed      *)
(* from; an odometry pose by the keyframe whose loop its sequence was      *)
(* shifted with.                                                           *)
(***************************************************************************)
EXTENDS Integers, SequencesExt

CONSTANTS
  Recent,         \* newest keyframes that are no loop candidates (50 in the code)
  MaxResults,     \* matches a database query returns (4 in the code)
  FastRelocalization,
  EmptySequences, \* whether a sequence may be left before it has a keyframe
  MaxLoaded,      \* bound: keyframes of the previous pose graph
  MaxFrames,      \* bound: keyframes in all
  MaxSequences    \* bound: sequences

ASSUME QueryAssumption == Recent \in Nat \ {0} /\ MaxResults \in Nat \ {0}
ASSUME FlagsAssumption == FastRelocalization \in BOOLEAN /\ EmptySequences \in BOOLEAN
ASSUME LimitAssumption == /\ MaxLoaded \in Nat /\ MaxFrames \in Nat
                          /\ MaxSequences \in Nat \ {0}

VARIABLES
  sequence,             \* the node's current sequence; 0 is the loaded pose graph
  adder,                \* where the process thread is
  cur,                  \* the keyframe it is adding
  keyframelist,         \* [index, sequence, loop, vio, pose, from] of each keyframe
  global_index, sequence_cnt,
  sequence_loop,        \* for each sequence known, whether it has been shifted
  w_vio,                \* w_r_vio, w_t_vio: the keyframe whose loop they come from, or -1
  drift,                \* r_drift, t_drift: what and which odometry pose they come from
  earliest_loop_index, optimize_buf,
  optimizer,            \* where the optimisation thread is
  cur_index, first_looped_index,
  found,                \* cur_kf is not NULL
  problem,              \* the odometry poses the problem was built from, by place in the list
  path,                 \* path[s] and base_path (s = 0): the keyframes shown
  answers,              \* keyframes whose relocalization the estimator has yet to answer
  crashed,              \* a null pointer was dereferenced
  optimized             \* history: the newest keyframe an optimisation ran for, or -1

graph  == <<keyframelist, global_index, sequence_cnt, sequence_loop, w_vio>>
queue  == <<earliest_loop_index, optimize_buf>>
solver == <<optimizer, cur_index, first_looped_index, found, problem, optimized>>
vars == <<sequence, adder, cur, keyframelist, global_index, sequence_cnt, sequence_loop, w_vio,
          drift, earliest_loop_index, optimize_buf, optimizer, cur_index, first_looped_index,
          found, problem, path, answers, crashed, optimized>>

Identity == [by |-> "none", of |-> -1, vio |-> -1]
NoFrame  == [index |-> -1, sequence |-> 0, loop |-> -1, vio |-> -1, pose |-> Identity, from |-> -1]

\* An odometry pose of which updateVioPose has written a part.
Half == -2

Init ==
  /\ sequence = 1
  /\ adder = "load"
  /\ cur = NoFrame
  /\ keyframelist = <<>>
  /\ global_index = 0 /\ sequence_cnt = 0
  /\ sequence_loop = [s \in {0} |-> FALSE]
  /\ w_vio = -1
  /\ drift = Identity
  /\ earliest_loop_index = -1 /\ optimize_buf = <<>>
  /\ optimizer = "sleep" /\ cur_index = -1 /\ first_looped_index = -1
  /\ found = FALSE /\ problem = <<>>
  /\ path = [s \in 0..MaxSequences |-> <<>>]
  /\ answers = {}
  /\ crashed = FALSE
  /\ optimized = -1

-----------------------------------------------------------------------------
(* detectLoop *)

\* Scores of a match: not a candidate, above 0.015, above 0.05.
Scores == {"low", "fair", "good"}
Rank == [low |-> 0, fair |-> 1, good |-> 2]

\* Keyframes a query for keyframe n may return: those before the recent ones, all of
\* them when max_id happens to be -1, and always the one just before n.
Matches(n) ==
  {i \in 0..(n - 1) : i < n - Recent \/ n - Recent = -1 \/ i = n - 1}

\* Query results: different keyframes, best score first.
Results(n) ==
  UNION {{r \in [1..k -> [id : Matches(n), score : Scores]] :
            \A i, j \in 1..k : i < j => /\ r[i].id # r[j].id
                                        /\ Rank[r[i].score] >= Rank[r[j].score]} :
         k \in 0..MaxResults}

Minimum(S) == CHOOSE x \in S : \A y \in S : x <= y

\* The best match is good and another one fair.
HasLoop(ret) ==
  /\ ret # <<>> /\ ret[1].score = "good"
  /\ \E i \in DOMAIN ret : i > 1 /\ ret[i].score # "low"

\* detectLoop: the oldest fair match; the best match counts whatever its age.
DetectLoop(ret, n) ==
  IF HasLoop(ret) /\ n > Recent
    THEN Minimum({ret[1].id} \cup {ret[i].id : i \in {j \in DOMAIN ret : ret[j].score # "low"}})
    ELSE -1

Loops(n) == {DetectLoop(ret, n) : ret \in Results(n)}

-----------------------------------------------------------------------------
(* The process thread *)

Listed == {keyframelist[k].index : k \in DOMAIN keyframelist}
Frame(i) == keyframelist[CHOOSE k \in DOMAIN keyframelist : keyframelist[k].index = i]

\* Mutant: the newest loop is remembered.
EarlierNewest(loop) == loop

\* earliest_loop_index after a loop to keyframe loop has been found or loaded.
Earlier(loop) ==
  IF earliest_loop_index = -1 \/ loop < earliest_loop_index THEN loop ELSE earliest_loop_index

\* loadPoseGraph and loadKeyFrame, before the node runs: the loops of the file were found
\* by detectLoop.
LoadKeyFrame(loop) ==
  /\ adder = "load"
  /\ global_index < MaxLoaded
  /\ loop \in {-1} \cup Loops(global_index)
  /\ earliest_loop_index' = IF loop = -1 THEN earliest_loop_index ELSE Earlier(loop)
  /\ keyframelist' = Append(keyframelist, [NoFrame EXCEPT !.index = global_index, !.loop = loop])
  /\ path' = [path EXCEPT ![0] = Append(@, global_index)]
  /\ global_index' = global_index + 1
  /\ UNCHANGED <<sequence, adder, cur, sequence_cnt, sequence_loop, w_vio, drift, optimize_buf,
                 solver, answers, crashed>>

\* The node starts its threads.
Loaded ==
  /\ adder = "load"
  /\ adder' = "idle"
  /\ UNCHANGED <<sequence, cur, graph, drift, queue, solver, path, answers, crashed>>

\* sequence_loop with an entry for one more sequence.
NextSequence ==
  [s \in 0..(sequence_cnt + 1) |-> s \in DOMAIN sequence_loop /\ sequence_loop[s]]

\* process and the start of addKeyFrame: a keyframe of the current sequence.  A new
\* sequence is entered, one at a time, with drift and shift reset.  The keyframe's
\* odometry is shifted, it gets its index and is entered into the database.
NewKeyFrame(loop) ==
  /\ adder = "idle"
  /\ global_index < MaxFrames
  /\ loop \in {-1} \cup Loops(global_index)
  /\ LET entered == sequence_cnt # sequence
     IN /\ sequence_cnt' = IF entered THEN sequence_cnt + 1 ELSE sequence_cnt
        /\ sequence_loop' = IF entered THEN NextSequence ELSE sequence_loop
        /\ w_vio' = IF entered THEN -1 ELSE w_vio
        /\ drift' = IF entered THEN Identity ELSE drift
  /\ cur' = [index |-> global_index, sequence |-> sequence, loop |-> loop, vio |-> w_vio',
             pose |-> Identity, from |-> w_vio']
  /\ global_index' = global_index + 1
  /\ adder' = IF loop = -1 THEN "insert" ELSE "connect"
  /\ UNCHANGED <<sequence, keyframelist, queue, solver, path, answers, crashed>>

\* What reading sequence_loop[cur.sequence] can yield: anything, past its end.
SequenceLooped ==
  IF cur.sequence \in DOMAIN sequence_loop THEN {sequence_loop[cur.sequence]} ELSE BOOLEAN

\* addKeyFrame once findConnection has confirmed the loop and published the match: the
\* first loop into another sequence shifts the whole sequence, first its newest keyframe.
Connect ==
  /\ adder = "connect"
  /\ earliest_loop_index' = Earlier(cur.loop)
  /\ answers' = IF FastRelocalization THEN answers \cup {cur.index} ELSE answers
  /\ \E looped \in SequenceLooped :
       IF Frame(cur.loop).sequence # cur.sequence /\ ~looped
         THEN /\ w_vio' = cur.index
              /\ cur' = [cur EXCEPT !.vio = cur.index]
              /\ adder' = "shift"
         ELSE UNCHANGED <<w_vio, cur>> /\ adder' = "push"
  /\ UNCHANGED <<sequence, keyframelist, global_index, sequence_cnt, sequence_loop, drift,
                 optimize_buf, solver, path, crashed>>

\* The keyframes of the list that the walk has yet to shift.
Unshifted ==
  {k \in DOMAIN keyframelist : keyframelist[k].sequence = cur.sequence /\ keyframelist[k].vio # cur.index}

\* updateVioPose writes the odometry pose piece by piece, then makes it the pose.
Shifted(frame) ==
  IF frame.vio # Half
    THEN [frame EXCEPT !.vio = Half]
    ELSE [frame EXCEPT !.vio = cur.index, !.pose = Identity, !.from = cur.index]

\* The walk over the list shifts the next keyframe of cur's sequence into the frame of the
\* old keyframe.  No lock is held: the optimisation and the relocalizations go on.
ShiftKeyFrame ==
  /\ adder = "shift"
  /\ \E k \in Unshifted :
       /\ \A j \in Unshifted : k <= j
       /\ keyframelist' = [keyframelist EXCEPT ![k] = Shifted(keyframelist[k])]
  /\ UNCHANGED <<sequence, adder, cur, global_index, sequence_cnt, sequence_loop, w_vio, drift,
                 queue, solver, path, answers, crashed>>

\* Mutant: only a loop that shifts nothing is queued.
NotQueued == "insert"

\* After the shift, too, the keyframe is queued for an optimisation.
Onwards == "push"

\* The walk has come to the end of the list.
SequenceShifted ==
  /\ adder = "shift" /\ Unshifted = {}
  /\ sequence_loop' = [s \in DOMAIN sequence_loop |-> sequence_loop[s] \/ s = cur.sequence]
  /\ adder' = Onwards
  /\ UNCHANGED <<sequence, cur, keyframelist, global_index, sequence_cnt, w_vio, drift, queue,
                 solver, path, answers, crashed>>

\* findConnection finds too few inliers: the keyframe has no loop.
NoConnection ==
  /\ adder = "connect"
  /\ cur' = [cur EXCEPT !.loop = -1]
  /\ adder' = "insert"
  /\ UNCHANGED <<sequence, graph, drift, queue, solver, path, answers, crashed>>

\* Mutant: the index of the next keyframe is queued.
QueuedNext == global_index

\* What addKeyFrame queues.
Queued == cur.index

\* addKeyFrame under m_optimize_buf.
PushLoop ==
  /\ adder = "push"
  /\ optimize_buf' = Append(optimize_buf, Queued)
  /\ adder' = "insert"
  /\ UNCHANGED <<sequence, cur, graph, drift, earliest_loop_index, solver, path, answers, crashed>>

\* addKeyFrame under m_keyframelist: the keyframe's pose is its odometry with the present
\* drift.
InsertKeyFrame ==
  /\ adder = "insert"
  /\ keyframelist' = Append(keyframelist, [cur EXCEPT !.pose = drift, !.from = cur.vio])
  /\ path' = [path EXCEPT ![sequence_cnt] = Append(@, cur.index)]
  /\ cur' = NoFrame
  /\ adder' = "idle"
  /\ UNCHANGED <<sequence, global_index, sequence_cnt, sequence_loop, w_vio, drift, queue, solver,
                 answers, crashed>>

-----------------------------------------------------------------------------
(* The spin and the command thread *)

\* new_sequence: the image stream is discontinuous, or a key is pressed.
NewSequence ==
  /\ adder # "load"
  /\ sequence < MaxSequences
  /\ EmptySequences \/ sequence_cnt = sequence
  /\ sequence' = sequence + 1
  /\ UNCHANGED <<adder, cur, graph, drift, queue, solver, path, answers, crashed>>

\* updateKeyFrameLoop, without m_keyframelist: the estimator's answer re-estimates the
\* loop, and unless it is out of bounds the drift, from the keyframe's odometry pose.  The
\* keyframe must be in the list.
UpdateKeyFrameLoop(i) ==
  /\ i \in answers
  /\ answers' = answers \ {i}
  /\ crashed' = (i \notin Listed)
  /\ drift' \in {drift} \cup (IF i \in Listed THEN {[by |-> "relo", of |-> i, vio |-> Frame(i).vio]}
                             ELSE {})
  /\ UNCHANGED <<sequence, adder, cur, graph, queue, solver, path>>

-----------------------------------------------------------------------------
(* The optimisation thread *)

\* Mutant: the first of the queued keyframes counts.
FirstQueued == Head(optimize_buf)

\* The keyframe the emptied queue leaves in cur_index.
LastQueued == optimize_buf[Len(optimize_buf)]

\* optimize4DoF under m_optimize_buf: only the last of the queued keyframes counts.
TakeLoop ==
  /\ optimizer = "sleep" /\ optimize_buf # <<>>
  /\ cur_index' = LastQueued
  /\ first_looped_index' = earliest_loop_index
  /\ optimize_buf' = <<>>
  /\ optimizer' = "build"
  /\ UNCHANGED <<sequence, adder, cur, graph, drift, earliest_loop_index, found, problem, path,
                 answers, crashed, optimized>>

\* The keyframes the optimisation looks at when it builds its problem.
Scanned == {k \in DOMAIN keyframelist : keyframelist[k].index \in first_looped_index..cur_index}

\* The problem is built under m_keyframelist from the odometry poses, whatever a shift under
\* way has left in them.
BuildProblem ==
  /\ optimizer = "build"
  /\ found' = (cur_index \in Listed)
  /\ problem' = [k \in Scanned |-> keyframelist[k].vio]
  /\ optimizer' = "solve"
  /\ UNCHANGED <<sequence, adder, cur, graph, drift, queue, cur_index, first_looped_index, path,
                 answers, crashed, optimized>>

\* Mutant: the keyframes added during the solution keep their poses.
LaterKept(frame, by) == frame.pose

\* The new drift is applied to the keyframes that came after cur_index.
LaterPose(frame, by) == by

\* After ceres::Solve, under m_keyframelist: poses from first_looped_index to cur_index are
\* those of the solution, drift is renewed from cur_kf's new pose and its odometry pose, and
\* applied to the odometry poses of the later ones.
UpdatePoses ==
  /\ optimizer = "solve" /\ found
  /\ drift' = [by |-> "graph", of |-> cur_index, vio |-> Frame(cur_index).vio]
  /\ keyframelist' =
       [k \in DOMAIN keyframelist |->
          LET frame == keyframelist[k]
          IN CASE frame.index < first_looped_index -> frame
               [] frame.index \in first_looped_index..cur_index ->
                    [frame EXCEPT !.pose = [by |-> "solution", of |-> cur_index, vio |-> -1],
                                  !.from = problem[k]]
               [] OTHER -> [frame EXCEPT !.pose = LaterPose(frame, drift'), !.from = frame.vio]]
  /\ problem' = <<>>
  /\ optimized' = cur_index
  /\ optimizer' = "path"
  /\ UNCHANGED <<sequence, adder, cur, global_index, sequence_cnt, sequence_loop, w_vio, queue,
                 cur_index, first_looped_index, found, path, answers, crashed>>

\* cur_kf was not in the list when the problem was built: it is NULL.
CrashInOptimizer ==
  /\ optimizer = "solve" /\ ~found
  /\ crashed' = TRUE
  /\ UNCHANGED <<sequence, adder, cur, graph, drift, queue, solver, path, answers>>

\* Mutant: the paths are not emptied first.
PathKept(s) == path[s]

\* updatePath empties base_path and the paths of the sequences entered so far.
PathCleared(s) == IF s <= sequence_cnt THEN <<>> ELSE path[s]

\* Where sequence s's keyframes are in the list, and its n-th one: n - 1 come before it.
Positions(s) == {k \in DOMAIN keyframelist : keyframelist[k].sequence = s}
Nth(S, n) == CHOOSE k \in S : Cardinality({j \in S : j < k}) = n - 1

\* The keyframes of sequence s as the walk over the list meets them.
Shown(s) ==
  [n \in 1..Cardinality(Positions(s)) |-> keyframelist[Nth(Positions(s), n)].index]

\* updatePath under m_keyframelist: the paths are built anew.
UpdatePath ==
  /\ optimizer = "path"
  /\ path' = [s \in DOMAIN path |-> PathCleared(s) \o Shown(s)]
  /\ optimizer' = "sleep"
  /\ UNCHANGED <<sequence, adder, cur, graph, drift, queue, cur_index, first_looped_index, found,
                 problem, answers, crashed, optimized>>

-----------------------------------------------------------------------------
Adder ==
  \/ \E i \in -1..MaxFrames : LoadKeyFrame(i) \/ NewKeyFrame(i)
  \/ Loaded \/ Connect \/ ShiftKeyFrame \/ SequenceShifted \/ NoConnection
  \/ PushLoop \/ InsertKeyFrame

Optimizer == TakeLoop \/ BuildProblem \/ UpdatePoses \/ CrashInOptimizer \/ UpdatePath

Spin == NewSequence \/ \E i \in answers : UpdateKeyFrameLoop(i)

\* The process has died, or every keyframe of the bound is in and optimised.
Finished ==
  /\ crashed \/ (adder = "idle" /\ global_index = MaxFrames /\ optimizer = "sleep" /\ optimize_buf = <<>>)
  /\ UNCHANGED vars

Next == (~crashed /\ (Adder \/ Optimizer \/ Spin)) \/ Finished

Spec == Init /\ [][Next]_vars

\* optimize4DoF loops for ever, asleep two seconds between passes: the scheduler runs it.
FairSpec == Spec /\ WF_vars(~crashed /\ Optimizer)

-----------------------------------------------------------------------------
(* Properties *)

Frames == 0..(MaxFrames - 1)

\* The assertion of optimize4DoF (pose_graph.cpp:501): no keyframe it looks at has a loop
\* to one before first_looped_index, although earliest_loop_index is written without a
\* lock; and the keyframe at the other end is in the list, before it, for its local_index
\* to have been assigned.  That keyframe is older than the recent ones, although every
\* query also returns the newest keyframe and the best match is taken without looking at
\* its age.
LoopsInProblem ==
  /\ optimizer = "build" =>
       \A k \in Scanned : keyframelist[k].loop # -1 =>
         \E j \in Scanned : j < k /\ keyframelist[j].index = keyframelist[k].loop
  /\ \A k \in DOMAIN keyframelist : keyframelist[k].loop # -1 =>
       keyframelist[k].loop < keyframelist[k].index - Recent

\* The keyframe to optimise for and the keyframes being relocalized are in the list, where
\* the other threads look for them, unless addKeyFrame, which announces a keyframe to both
\* before it appends it, has not got there yet.
MissingOnlyWhileInserting ==
  \A i \in answers \cup (IF optimizer = "build" THEN {cur_index} ELSE {}) :
    i \in Listed \/ (adder \in {"shift", "push", "insert"} /\ cur.index = i)

\* No shift is under way, and no optimisation is due.
Settled == adder \notin {"shift", "push"} /\ optimize_buf = <<>> /\ optimizer \in {"sleep", "path"}

\* "shift vio pose of whole sequence to the world frame" (pose_graph.cpp:110-123, without a
\* lock): the odometry poses of a sequence are in one frame once the walk is over.  Until then
\* the optimisation builds its problem from a sequence that is half in one frame and half in
\* another, writes the poses it found from it and renews the drift.  None of this lasts: when
\* no optimisation is due, every pose, and the drift, comes from an odometry pose that the
\* keyframe still has.
SequenceInOneFrame ==
  /\ adder # "shift" =>
       \A j, k \in DOMAIN keyframelist :
         keyframelist[j].sequence = keyframelist[k].sequence => keyframelist[j].vio = keyframelist[k].vio
  /\ Settled => /\ \A k \in DOMAIN keyframelist : keyframelist[k].from = keyframelist[k].vio
                /\ drift.by # "none" => drift.vio = Frame(drift.of).vio

\* When nothing is being added and no optimisation is due, each keyframe of the current
\* sequence newer than the last optimised one has its pose from the present drift: the
\* ones added before, during and after the optimisation fit together.  (A relocalization
\* replaces the drift and moves no pose.)
PosesFollowDrift ==
  (adder = "idle" /\ optimize_buf = <<>> /\ optimizer \in {"sleep", "path"} /\ ~crashed
   /\ drift.by # "relo") =>
    \A k \in DOMAIN keyframelist :
      (keyframelist[k].index > optimized /\ keyframelist[k].sequence = sequence_cnt)
        => keyframelist[k].pose = drift

\* The paths shown are the keyframes of each sequence, each one once and in order,
\* whether addKeyFrame has appended to a path or updatePath has built it anew.
PathsMatch == \A s \in 0..MaxSequences : path[s] = Shown(s)

\* Every keyframe with a loop is optimised for, or for a later one with a loop, even if
\* many are queued while the optimisation sleeps or solves.
LoopsOptimized ==
  \A i \in Frames : i \in ToSet(optimize_buf) ~> (optimized >= i \/ crashed)

\* sequence_loop is read and written at the keyframe's own sequence.  Up to five
\* sequences are supported ("only support 5 sequences", pose_graph_node.cpp:76).
SequenceLoopInRange ==
  (adder = "connect" /\ sequence <= 5 /\ Frame(cur.loop).sequence # cur.sequence)
    => cur.sequence \in DOMAIN sequence_loop
=============================================================================
