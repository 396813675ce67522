---------------------------- MODULE DatasetRunner ----------------------------
(* dataset_e2e.py with the processes it starts: the launch with tracker and  *)
(* estimator, the monitor and the bag player. It waits and polls while they  *)
(* run and may die, counts on what the monitor has written, and cleans up    *)
(* whatever happened. Time is abstracted: a deadline may pass whenever the   *)
(* code looks at it, and passes in the end. Two commands it calls have no    *)
(* deadline, dsm-client and ros2 node list: they may never return.           *)
EXTENDS Integers, Sequences, FiniteSets, SequencesExt

CONSTANTS
  MaxOdometry,     \* bound: odometry messages the monitor receives
  MinOdometry,     \* minimum_odometry_messages (10, and the manifest may ask for more)
  Earlier          \* status of the result an earlier run has left, or "none"

VARIABLES
  runPc,        \* the statement run() is at
  status,       \* result["status"]
  resultFile,   \* dataset-e2e-result.json: run it is of and its status
  exit,         \* what run returns, 2 when an exception leaves it
  raised,       \* history: the step of finally that raised it, or "none"
  call,         \* the command without a deadline: "none", "asked", "answered"
  listed,       \* the nodes in its answer
  process,      \* launch, monitor, playback: "none", "running", "stopping", "ended"
  nodes,        \* the two nodes that are running
  signal,       \* the step of cleanup_process for the process it is at
  heard,        \* history: what the monitor's callbacks received, images first
  monitor,      \* its counters
  output,       \* monitor.json, what result() gave when the monitor ended
  alive         \* history: both nodes ran from when they were ready to the end of the bag

runVars == <<runPc, status, resultFile, exit, raised, call, listed, process, nodes, signal,
             heard, monitor, output, alive>>

Processes == {"launch", "monitor", "playback"}
Nodes == {"feature_tracker", "vins_estimator"}
NoOutput == [camera |-> -1]
NoneHeard == [camera |-> FALSE, imu |-> FALSE, odometry |-> <<>>]
NothingCounted == [camera |-> 0, imu |-> 0, odometry |-> 0, monotonic |-> TRUE, finite |-> TRUE, previous |-> 0]

RunInit ==
  /\ runPc = "prepare"
  /\ status = "FAIL"
  /\ resultFile = [of |-> "earlier", status |-> Earlier]
  /\ exit = -1
  /\ raised = "none"
  /\ call = "none"
  /\ listed = {}
  /\ process = [p \in Processes |-> "none"]
  /\ nodes = {}
  /\ signal = "poll"
  /\ heard = NoneHeard
  /\ monitor = NothingCounted
  /\ output = NoOutput
  /\ alive = FALSE

Running(p) == process[p] = "running"
\* poll() is not None: only an ended process has a return code.
Ended(p) == process[p] = "ended"
Trying == {"prepare", "manifest", "launch", "wait", "ready", "monitor", "play", "nodes", "final",
           "stopMonitor", "accept", "return"}
runnerVars == <<runPc, status, resultFile, exit, raised, call, listed, signal>>

-----------------------------------------------------------------------------
(* The processes. *)

\* Images, IMU samples and odometry reach the monitor while the bag is played;
\* some may be lost. An odometry message has a stamp and is finite or not.
Received ==
  /\ Running("monitor") /\ Running("playback")
  /\ \/ /\ heard' = [heard EXCEPT !.camera = TRUE]
        /\ monitor' = [monitor EXCEPT !.camera = 1]
     \/ /\ heard' = [heard EXCEPT !.imu = TRUE]
        /\ monitor' = [monitor EXCEPT !.imu = 1]
     \/ /\ nodes = Nodes
        /\ Len(heard.odometry) < MaxOdometry
        /\ \E stamp \in 1..2, finite \in BOOLEAN :
             /\ heard' = [heard EXCEPT !.odometry = Append(@, [stamp |-> stamp, finite |-> finite])]
             /\ monitor' = [monitor EXCEPT !.odometry = @ + 1,
                              !.monotonic = @ /\ ~(stamp < monitor.previous),
                              !.previous = stamp,
                              !.finite = @ /\ finite]
  /\ heard' # heard
  /\ UNCHANGED <<runnerVars, process, nodes, output, alive>>

\* The nodes start after the launch.
NodeReady(n) ==
  /\ Running("launch") /\ runPc \in {"wait", "ready"} /\ n \notin nodes
  /\ nodes' = nodes \cup {n}
  /\ UNCHANGED <<runnerVars, process, heard, monitor, output, alive>>

\* A node that dies does not end the launch.
NodeDies(n) ==
  /\ n \in nodes
  /\ nodes' = nodes \ {n}
  /\ alive' = (alive /\ Ended("playback"))
  /\ UNCHANGED <<runnerVars, process, heard, monitor, output>>

\* A process ends. The monitor writes its result unless it is killed; the launch
\* takes its nodes with it.
Ends(p) ==
  /\ process' = [process EXCEPT ![p] = "ended"]
  /\ nodes' = IF p = "launch" THEN {} ELSE nodes
  /\ alive' = (alive /\ (p = "launch" => Ended("playback")))
  /\ \/ output' = IF p = "monitor" THEN monitor ELSE output
     \/ p = "monitor" /\ output' = output
  /\ UNCHANGED <<runnerVars, heard, monitor>>
ProcessEnds(p) == Running(p) /\ Ends(p)

\* A launch that is killed by another than the runner leaves its nodes behind.
LaunchKilled ==
  /\ Running("launch")
  /\ process' = [process EXCEPT !["launch"] = "ended"]
  /\ UNCHANGED <<runnerVars, nodes, heard, monitor, output, alive>>

\* A command that was called ends; a node list shows the nodes that run then.
CallReturns ==
  /\ call = "asked"
  /\ call' = "answered"
  /\ listed' = nodes
  /\ UNCHANGED <<runPc, status, resultFile, exit, raised, signal, process, nodes, heard, monitor,
                 output, alive>>

-----------------------------------------------------------------------------
(* The runner. *)

Goto(pc) == runPc' = pc /\ signal' = "poll"
\* What the statements of try leave alone.
worldVars == <<resultFile, raised, nodes, heard, monitor, output>>
NoCall == call' = "none" /\ listed' = {}
\* E2EFailure, the other exceptions and KeyboardInterrupt go on with finally; the
\* status is what it was. A command that is waited for is killed.
Failed ==
  /\ exit' = 1
  /\ NoCall
  /\ Goto("cleanPlayback")
  /\ UNCHANGED <<status, process>>
Passed(pc) == Goto(pc) /\ NoCall /\ UNCHANGED <<status, exit, process>>
Started(p, pc) ==
  /\ process' = [process EXCEPT ![p] = "running"]
  /\ Goto(pc)
  /\ NoCall
  /\ UNCHANGED <<status, exit>>
\* subprocess.run without a timeout.
Called(pc) == Goto(pc) /\ call' = "asked" /\ UNCHANGED <<listed, status, exit, process>>
Answered == call = "answered"

\* prepared_manifest: dsm-client is called for the manifest, or it is read, or made
\* for a bag.
Prepare ==
  /\ runPc = "prepare"
  /\ Called("manifest") \/ Passed("launch") \/ Failed
  /\ UNCHANGED <<worldVars, alive>>
TakeManifest ==
  /\ runPc = "manifest"
  /\ Answered
  /\ Passed("launch") \/ Failed
  /\ UNCHANGED <<worldVars, alive>>

\* The manifest is validated, ros2 bag info accepts the artifact and its topics are
\* there with their types: an outcome. Then the launch is started.
StartLaunch ==
  /\ runPc = "launch"
  /\ Started("launch", "wait") \/ Failed
  /\ UNCHANGED <<worldVars, alive>>

\* wait_for_nodes: the nodes are listed again and again, until both are there, the
\* launch has ended or time is up.
WaitForNodes ==
  /\ runPc = "wait"
  /\ IF Ended("launch") THEN Failed ELSE Called("ready")
  /\ UNCHANGED <<worldVars, alive>>
NodesReady ==
  /\ runPc = "ready"
  /\ Answered
  /\ \/ listed = Nodes /\ Started("monitor", "monitor") /\ alive' = (nodes = Nodes)
     \/ Passed("wait") /\ alive' = alive
  /\ UNCHANGED worldVars
WaitTimesOut ==
  /\ runPc = "wait"
  /\ Failed
  /\ UNCHANGED <<worldVars, alive>>

\* A second later the monitor must not have ended; then the bag is played.
StartPlayback ==
  /\ runPc = "monitor"
  /\ IF Ended("monitor") THEN Failed ELSE Started("playback", "play")
  /\ UNCHANGED <<worldVars, alive>>

\* The loop and the tests after it: the time is up, the launch or the monitor has
\* ended before the player, the player has failed, the launch has ended by then.
Playback ==
  /\ runPc = "play"
  /\ \/ Ended("playback") /\ ~Ended("launch") /\ Passed("nodes")
     \/ Failed
  /\ UNCHANGED <<worldVars, alive>>

BothNodes(ns) == ns = Nodes
\* Mutant: one node is enough.
AnyNode(ns) == ns # {}
\* The nodes that must be listed when the bag is complete. A list that shows the
\* running nodes is assumed; the command may fail too.
Required(ns) == BothNodes(ns)
ListNodes ==
  /\ runPc = "nodes"
  /\ Called("final")
  /\ UNCHANGED <<worldVars, alive>>
FinalNodes ==
  /\ runPc = "final"
  /\ Answered
  /\ \/ Required(listed) /\ Passed("stopMonitor")
     \/ Failed
  /\ UNCHANGED <<worldVars, alive>>

\* The acceptance of the monitor's counts.
Accepts(m) ==
  /\ m.camera >= 1 /\ m.imu >= 1
  /\ m.odometry >= MinOdometry
  /\ m.monotonic
  /\ m.finite
Accept ==
  /\ runPc = "accept"
  /\ IF output = NoOutput \/ ~Accepts(output)
       THEN Failed
       ELSE /\ status' = "PASS"
            /\ Goto("return")
            /\ UNCHANGED <<exit, process, call, listed>>
  /\ UNCHANGED <<worldVars, alive>>

Return ==
  /\ runPc = "return"
  /\ exit' = 0
  /\ Goto("cleanPlayback")
  /\ UNCHANGED <<worldVars, status, call, listed, process, alive>>

\* KeyboardInterrupt inside try.
Interrupted ==
  /\ runPc \in Trying
  /\ Failed
  /\ UNCHANGED <<worldVars, alive>>

-----------------------------------------------------------------------------
(* cleanup_process, for the monitor before the acceptance and for all three in *)
(* finally.                                                                    *)

Cleaning == [stopMonitor |-> "monitor", cleanPlayback |-> "playback",
             cleanMonitor |-> "monitor", cleanLaunch |-> "launch"]
\* Mutant: the launch is not cleaned up.
LaunchLeft == [stopMonitor |-> "accept", cleanPlayback |-> "cleanMonitor",
               cleanMonitor |-> "write", cleanLaunch |-> "write"]
AfterCleaning == [stopMonitor |-> "accept", cleanPlayback |-> "cleanMonitor",
                  cleanMonitor |-> "cleanLaunch", cleanLaunch |-> "write"]
InCleanup == runPc \in DOMAIN Cleaning
At == Cleaning[runPc]
NextSignal == [poll |-> "SIGINT", SIGINT |-> "SIGTERM", SIGTERM |-> "SIGKILL"]

Cleaned ==
  /\ InCleanup
  /\ process[At] \in {"none", "ended"}
  /\ Goto(AfterCleaning[runPc])
  /\ UNCHANGED <<worldVars, status, exit, call, listed, process, alive>>

\* The next signal when the process still runs: at first, or after the grace.
Signal ==
  /\ InCleanup
  /\ Running(At)
  /\ signal \in DOMAIN NextSignal
  /\ signal' = NextSignal[signal]
  /\ UNCHANGED <<worldVars, runPc, status, exit, call, listed, process, alive>>

\* A killed process ends, its group with it.
Killed ==
  /\ InCleanup
  /\ signal = "SIGKILL"
  /\ ProcessEnds(At)

\* The wait after SIGKILL runs out of time: inside try one more failure.
StopTimesOut ==
  /\ runPc = "stopMonitor"
  /\ Running("monitor") /\ signal = "SIGKILL"
  /\ Failed
  /\ UNCHANGED <<worldVars, alive>>

\* In finally such an exception, or a second interrupt, leaves run with nothing
\* of what follows done.
FinallyRaises ==
  /\ runPc \in {"cleanPlayback", "cleanMonitor", "cleanLaunch", "write"}
  /\ exit' = 2
  /\ raised' = runPc
  /\ Goto("ended")
  /\ UNCHANGED <<status, call, process, resultFile, listed, nodes, heard, monitor, output, alive>>

\* atomic_json replaces the file of an earlier run.
WriteResult ==
  /\ runPc = "write"
  /\ resultFile' = [of |-> "this", status |-> status]
  /\ Goto("ended")
  /\ UNCHANGED <<status, exit, raised, call, listed, process, nodes, heard, monitor, output, alive>>

Runner ==
  \/ Prepare \/ TakeManifest \/ StartLaunch \/ WaitForNodes \/ NodesReady \/ StartPlayback
  \/ Playback \/ ListNodes \/ FinalNodes \/ Accept \/ Return \/ Cleaned \/ Signal \/ WriteResult
RunNext ==
  \/ Runner \/ WaitTimesOut \/ Interrupted \/ Killed \/ StopTimesOut \/ FinallyRaises
  \/ CallReturns \/ Received \/ LaunchKilled
  \/ \E n \in Nodes : NodeReady(n) \/ NodeDies(n)
  \/ \E p \in Processes : ProcessEnds(p)

RunSpec == RunInit /\ [][RunNext]_runVars
\* The runner goes on with what does not wait for a command, the deadline of
\* wait_for_nodes passes however often it has been found not to have, and the kernel
\* ends a process that is killed. Nothing makes a command return.
FairRunSpec == RunSpec /\ WF_runVars(Runner) /\ SF_runVars(WaitTimesOut) /\ WF_runVars(Killed)
-----------------------------------------------------------------------------
\* docs/DATASET_E2E.md:51-58: what PASS stands for, in terms of what happened.
Evidence ==
  /\ heard.camera /\ heard.imu
  /\ Len(heard.odometry) >= MinOdometry
  /\ \A i, j \in DOMAIN heard.odometry : i < j => heard.odometry[i].stamp <= heard.odometry[j].stamp
  /\ \A i \in DOMAIN heard.odometry : heard.odometry[i].finite
  /\ alive

\* The result file of a run says PASS only when images and samples were received,
\* enough odometry, none of it going back or not finite, and both nodes lived from
\* the start of the bag to its end, whichever process died, was killed or was late
\* and whenever the run was interrupted; and run returns 0 only with that file
\* (dataset_e2e.py:374-480, dataset_e2e_monitor.py:53-81).
PassIsEvidence ==
  /\ resultFile = [of |-> "this", status |-> "PASS"] => Evidence
  /\ runPc = "ended" /\ exit = 0 => resultFile = [of |-> "this", status |-> "PASS"]

\* The processes whose cleanup a step of finally that raises leaves undone.
LeftBy == [none |-> {}, cleanPlayback |-> Processes, cleanMonitor |-> {"monitor", "launch"},
           cleanLaunch |-> {"launch"}, write |-> {}]
CallsReturn == call = "asked" ~> call # "asked"

\* The runner ends if the commands it waits for without a deadline do, and when a step of
\* its finally raises, the processes before that step are cleaned up all the same: of
\* those it started only that step's own and the later ones may run on
\* (docs/DATASET_E2E.md:65, dataset_e2e.py:154, 218-242, 272, 462-480).
RunnerEnds ==
  CallsReturn => <>(/\ runPc = "ended"
                    /\ \A p \in Processes \ LeftBy[raised] : process[p] \in {"none", "ended"})
=============================================================================
