-------------------------- MODULE MCCaptureStream ---------------------------
(* TLC instance of CaptureStream: an answer of three deltas (one while a   *)
(* browser watches), a journal of two events or one delta and one other,   *)
(* one fault and one restart.                                              *)
EXTENDS CaptureStream
=============================================================================
