------------------------- MODULE MCSlidingWindow -------------------------
(* Small instances of SlidingWindow for TLC. *)
EXTENDS SlidingWindow, TLC

CONSTANTS f1, f2
TwoIds == {f1, f2}
\* Feature ids are only compared.
IdSymmetry == Permutations(Ids)
=============================================================================
