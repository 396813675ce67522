------------------------- MODULE MCFeatureTracker -------------------------
(* Small instances of FeatureTracker for TLC: the .cfg file gives the values. *)
EXTENDS FeatureTracker

CONSTANTS ImagesWithPoints, StampsWithPoints

\* Frequency control needs long streams and does not look at the points: a stream in
\* which a corner has been found is cut short, one of a featureless scene is not.
Explored == \/ tracks = 0
            \/ images <= ImagesWithPoints /\ last_image_time <= StampsWithPoints
=============================================================================
