-------------------------- MODULE MCRolloutReaders --------------------------
(* TLC instance of RolloutReaders: four records, two faults, a transcript  *)
(* and a page of two turns, and a rebuild that sees the last two or three  *)
(* records only.                                                           *)
EXTENDS RolloutReaders
=============================================================================
