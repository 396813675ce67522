--------------------------- MODULE MCRelocalization ---------------------------
(* A small instance of Relocalization for TLC.                                *)
EXTENDS Relocalization
=============================================================================
