--------------------------- MODULE MCInteractions ---------------------------
(* TLC instances of Interactions: the requests and commands of one session *)
(* are model values of the cfg.                                            *)
EXTENDS Interactions
=============================================================================
