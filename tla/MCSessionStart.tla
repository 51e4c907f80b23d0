---------------------------- MODULE MCSessionStart ----------------------------
(* TLC instance of SessionStart: the cfg bounds panes and versions.        *)
EXTENDS SessionStart
=============================================================================
