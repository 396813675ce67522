---------------------------- MODULE TrackStream ----------------------------
(***************************************************************************)
(* What the feature tracker promises the estimator about the stream of     *)
(* feature messages: between two restarts their stamps do not go back, and *)
(* a feature that one message leaves out is never in a later one.          *)
(***************************************************************************)
EXTENDS Integers

CONSTANTS Stamps, Ids

VARIABLES latest,  \* stamp of the last message since the last restart, 0 for none
          shown,   \* the features in the last message
          ever     \* the features in any message

Init == latest = 0 /\ shown = {} /\ ever = {}

\* A message is published: of the features seen before, it may go on with those of the
\* last message only.
Show(t, ids) ==
  /\ t >= latest
  /\ ids \cap ever \subseteq shown
  /\ latest' = t
  /\ shown' = ids
  /\ ever' = ever \cup ids

\* The image stream is discontinuous: a restart is announced.
Restart == latest' = 0 /\ UNCHANGED <<shown, ever>>

Next == Restart \/ \E t \in Stamps, ids \in SUBSET Ids : Show(t, ids)

Spec == Init /\ [][Next]_<<latest, shown, ever>>
=============================================================================
