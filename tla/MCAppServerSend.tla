--------------------------- MODULE MCAppServerSend ---------------------------
(* TLC instances of AppServerSend: the browser messages of one session are *)
(* model values of the cfg.                                                *)
EXTENDS AppServerSend
=============================================================================
