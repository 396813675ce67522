----------------------------- MODULE MCOuterNodes -----------------------------
(* The programs around the estimator, each on its own small instance: a        *)
(* behaviour picks one and the variables of the others keep their first value. *)
EXTENDS Integers, Sequences

CONSTANTS
  MaxImages, MaxStamp, Unstable, Ranges, Clouds, Views,
  SKIP, MaxRows, MaxMessages, MaxSessions,
  MaxOdometry, MinOdometry, Earlier

\* The base is set by a message at least (50 in benchmark_publisher_node.cpp:14).
ASSUME SkipAssumption == SKIP \in Nat \ {0} /\ MaxRows \in Nat
\* A camera sees a corner of the cube nearest.
ASSUME ViewsAssumption == \A view \in Views : view \in Seq(0..7) /\ view # <<>>

VARIABLES
  part,      \* the program of this behaviour
  images, poseSent, imgTopic, poseTopic, pose_init, img_buf, img_cnt, look_ground,
  height, taken, dropped, thrown, running,
  loaded, benchmark, idx, init, base, path, session, stamp, followed, messages,
  runPc, status, resultFile, exit, raised, call, listed, process, nodes, signal, heard,
  monitor, output, alive

Ar == INSTANCE ArDemo
Bench == INSTANCE BenchmarkPublisher
Run == INSTANCE DatasetRunner

arVars == <<images, poseSent, imgTopic, poseTopic, pose_init, img_buf, img_cnt, look_ground,
            height, taken, dropped, thrown, running>>
benchVars == <<loaded, benchmark, idx, init, base, path, session, stamp, followed, messages>>
runVars == <<runPc, status, resultFile, exit, raised, call, listed, process, nodes, signal,
             heard, monitor, output, alive>>
allVars == <<part, arVars, benchVars, runVars>>

\* A cloud with a ground, one with too few points on it, one with none in range.
SmallClouds == {<<1, 1, 2>>, <<0>>, <<2, 2, 2, -1, -1>>, <<1, 3, 3, 3>>}
\* The nearest corner of three views.
SmallViews == {<<0>>, <<5>>, <<7>>}

Init == /\ part \in {"ar_demo", "benchmark", "runner"}
        /\ Ar!ArInit /\ Bench!BenchInit /\ Run!RunInit

ArStep == part = "ar_demo" /\ Ar!ArNext /\ UNCHANGED <<part, benchVars, runVars>>
BenchStep == part = "benchmark" /\ Bench!BenchNext /\ UNCHANGED <<part, arVars, runVars>>
RunStep == part = "runner" /\ Run!RunNext /\ UNCHANGED <<part, arVars, benchVars>>

Next == ArStep \/ BenchStep \/ RunStep
\* The fairness of FairRunSpec, for the behaviours of the runner.
Scheduled(A) == part = "runner" /\ A /\ UNCHANGED <<part, arVars, benchVars>>
Spec == Init /\ [][Next]_allVars
        /\ WF_allVars(Scheduled(Run!Runner)) /\ SF_allVars(Scheduled(Run!WaitTimesOut))
        /\ WF_allVars(Scheduled(Run!Killed))
-----------------------------------------------------------------------------
\* The properties of the three modules, each stated and explained in its own.

\* An image is drawn with its own pose, but for two exceptions (ar_demo_node.cpp).
DrawnWithItsPose == Ar!DrawnWithItsPose
\* The row published is the one of the odometry's time (benchmark_publisher_node.cpp).
RowOfItsTime == Bench!RowOfItsTime
\* PASS stands for what happened while the bag was played (dataset_e2e.py).
PassIsEvidence == Run!PassIsEvidence
\* The runner ends if its commands return, its processes cleaned up (dataset_e2e.py).
RunnerEnds == part = "runner" => Run!RunnerEnds
=============================================================================
