------------------------- MODULE MeasurementFusion -------------------------
(***************************************************************************)
(* What the buffers and the process thread of the vins_estimator node      *)
(* promise the estimator, with neither buffers nor threads: IMU samples    *)
(* arrive in time order, and images are fused in stamp order, each once a  *)
(* sample beyond it has arrived and with exactly the samples up to it      *)
(* integrated.                                                             *)
(***************************************************************************)
EXTENDS Integers

CONSTANTS Stamps, TD

VARIABLES samples,  \* the samples that have arrived
          fusion    \* the last image fused, its time, and the samples integrated by then

NoFusion == [img |-> 0, at |-> 0, used |-> {}]

Init == samples = {} /\ fusion = NoFusion

\* A sample newer than every other arrives.
Arrive(t) ==
  /\ \A s \in samples : s < t
  /\ samples' = samples \cup {t}
  /\ UNCHANGED fusion

\* Image i is fused: it is newer than the last one, lies strictly after some sample and
\* before another, and every sample up to it has been integrated, no later one.
Fuse(i) ==
  /\ i > fusion.img
  /\ \E s \in samples : s < i + TD
  /\ \E s \in samples : s > i + TD
  /\ fusion' = [img |-> i, at |-> i + TD, used |-> {s \in samples : s <= i + TD}]
  /\ UNCHANGED samples

Next == \E t \in Stamps : Arrive(t) \/ Fuse(t)

Spec == Init /\ [][Next]_<<samples, fusion>>
=============================================================================
