-------------------------- MODULE MCTuiInteraction --------------------------
(* TLC instance of TuiInteraction: an approval and a model menu, whose      *)
(* detector comes first; two answers, which are alike; four commands.       *)
EXTENDS TuiInteraction, TLC
CONSTANTS approval, model, a1, a2, menu, fast, exit, status
LookOrder == <<model, approval>>
Alike == Permutations(Answers)
=============================================================================
