------------------------ MODULE MCSessionSupervisor ------------------------
(* TLC instances of SessionSupervisor.  The bound on effort allows one      *)
(* session and three faults, or two sessions and one fault; closes and the  *)
(* first restore of the Owner cost nothing.                                 *)
EXTENDS SessionSupervisor, TLC
=============================================================================
