---------------------------- MODULE MCSessionLaunch ----------------------------
(* TLC instance of SessionLaunch: threads and launch ids are model values, *)
(* and threads are alike.                                                  *)
EXTENDS SessionLaunch, TLC

Alike == Permutations(Threads)
=============================================================================
