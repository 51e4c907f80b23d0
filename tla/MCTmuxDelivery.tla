--------------------------- MODULE MCTmuxDelivery ---------------------------
(* TLC instances of TmuxDelivery: a message, the same id with another      *)
(* text, a command that launches Codex, and the first text once more.      *)
EXTENDS TmuxDelivery

CONSTANTS id1, id2, hello, other, launch

MCMessages == {[id |-> id1, text |-> hello], [id |-> id1, text |-> other],
               [id |-> id2, text |-> launch], [id |-> id2, text |-> hello]}
=============================================================================
