--------------------------- MODULE ReliableDelivery ---------------------------
(***************************************************************************)
(* What the Owner promises of a message, whichever way it reaches Codex:   *)
(* it is taken at most once, however often its browser retries it and      *)
(* however often connections break and the Owner restarts, and the browser *)
(* is told "accepted" only after it was taken.                             *)
(*                                                                         *)
(* The promise stops at excused messages: in a terminal, those that have   *)
(* another's text, those a person handled while they were on their way and *)
(* those whose delivery to a pane without Codex was interrupted.  Such a   *)
(* pane gives no evidence either: its messages are taken at most once and  *)
(* accepted unseen.                                                        *)
(***************************************************************************)
EXTENDS Naturals

CONSTANT Messages

VARIABLES
    taken,      \* message -> how often it was taken
    told,       \* messages some browser was told were accepted
    excused,    \* messages no promise is made for
    unseen      \* messages accepted as sent, in a pane without Codex

vars == <<taken, told, excused, unseen>>

Init ==
    /\ taken = [m \in Messages |-> 0]
    /\ told = {}
    /\ excused \in SUBSET Messages
    /\ unseen = {}

(* One submission takes every message the composer holds. *)
Take ==
    /\ taken' \in [Messages -> Nat]
    /\ \A m \in Messages \ excused : taken'[m] = taken[m] \/ (taken[m] = 0 /\ taken'[m] = 1)
    /\ \A m \in Messages : taken[m] <= taken'[m]
    /\ UNCHANGED <<told, excused, unseen>>

Tell(m) ==
    /\ taken[m] > 0 \/ m \in excused \cup unseen'
    /\ unseen' \in {unseen, unseen \cup {m}}
    /\ told' = told \cup {m}
    /\ UNCHANGED <<taken, excused>>

Excuse ==
    /\ excused' \in SUBSET Messages
    /\ excused \subseteq excused'
    /\ UNCHANGED <<taken, told, unseen>>

Next == Take \/ Excuse \/ \E m \in Messages : Tell(m)

Spec == Init /\ [][Next]_vars

-----------------------------------------------------------------------------
TypeOK ==
    /\ taken \in [Messages -> Nat]
    /\ told \subseteq Messages
    /\ excused \subseteq Messages
    /\ unseen \subseteq Messages

(* No retry makes Codex take a message again. *)
TakenAtMostOnce == \A m \in Messages \ excused : taken[m] <= 1

(* "accepted" is never said of a message that was not taken. *)
ToldWasTaken == \A m \in told \ (excused \cup unseen) : taken[m] > 0
=============================================================================
