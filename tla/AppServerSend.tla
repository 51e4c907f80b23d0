---------------------------- MODULE AppServerSend ----------------------------
(***************************************************************************)
(* One Codex App Server session seen by its senders: a browser's draft,    *)
(* the Owner's send tasks behind the session's send lock, the request on   *)
(* its way to the worker, the turn Codex runs, the notifications and       *)
(* resume snapshots that tell the session actor about it, and everything   *)
(* that breaks between them: a lost reply, a lost connection, a request    *)
(* that times out and a restart of the Owner.                              *)
(*                                                                         *)
(* How a worker is replaced is SessionSupervisor; here an attempt to       *)
(* recover is two steps, a new connection and the hydration of the actor   *)
(* from it, which may fail.                                                *)
(***************************************************************************)
EXTENDS Naturals, Sequences

CONSTANTS
    Messages,   \* browser messages; each is its clientMessageId
    MaxTaken    \* bound: an excused message is sent again until Codex took it so often

ASSUME MaxTakenAssumption == MaxTaken \in Nat

VARIABLES
    draft,      \* browser: message -> kept, sending (the reply is awaited), cleared
    task,       \* Owner send_tasks: message -> none, queued (at the lock), sent (in its RPC)
    order,      \* the send lock: its holder, then its waiters
    receipts,   \* Owner send_receipts
    items,      \* user messages the actor knows by clientId
    active,     \* the actor's active_turn_id, 0 for None
    present,    \* whether the session has an actor
    link,       \* connection to the worker: up, killing (restart requested), lost,
                \* joining (thread/resume is awaited), stale (thread/resume failed)
    degraded,   \* worker_state is degraded: sends pass though the actor is not hydrated
    wire,       \* requests Codex has not handled yet
    answer,     \* Codex's answer to the send that waits for one
    notices,    \* notifications not applied yet
    snapshot,   \* the thread Codex returned from thread/resume, while joining
    turn,       \* the turn Codex runs, 0 for none
    turns,      \* turns Codex ever started
    taken,      \* message -> how often Codex took it into the conversation
    told,       \* messages a browser holds a final receipt for
    tried,      \* history: messages ever handed to a worker
    blind,      \* history: repeated sends whose look for the id was at an actor out of touch
    excused     \* history: messages the promise does not hold for

browser == <<draft, told>>
sends == <<task, order, receipts>>
actor == <<items, active, present>>
connection == <<link, degraded, snapshot>>
pipes == <<wire, answer, notices>>
codex == <<turn, turns, taken>>
history == <<tried, blind, excused>>
vars == <<browser, sends, actor, connection, pipes, codex, history>>

NoThread == [items |-> {}, turn |-> 0]

Init ==
    /\ draft = [m \in Messages |-> "kept"]
    /\ told = {}
    /\ task = [m \in Messages |-> "none"]
    /\ order = <<>>
    /\ receipts = {}
    /\ items = {}
    /\ active = 0
    /\ present = TRUE
    /\ link = "up"
    /\ degraded = FALSE
    /\ snapshot = NoThread
    /\ wire = {}
    /\ answer = "none"
    /\ notices = <<>>
    /\ turn = 0
    /\ turns = 0
    /\ taken = [m \in Messages |-> 0]
    /\ tried = {}
    /\ blind = {}
    /\ excused = {}

-----------------------------------------------------------------------------
(* The browser and _send, which answers what it knows of the id.           *)

DraftOf(m, state) == draft' = [draft EXCEPT ![m] = state]

TellAccepted(m) == DraftOf(m, "cleared") /\ told' = told \cup {m}

(* Mutant: only the receipts are asked, never the conversation.            *)
DeliveredByReceipt(m) == m \in receipts

(* A send the Owner already knows to be delivered is answered as a         *)
(* duplicate, from its receipt or from the conversation.                   *)
Delivered(m) == m \in receipts \cup items

AnswersDuplicate(m) ==
    /\ Delivered(m)
    /\ TellAccepted(m)
    /\ receipts' = receipts \cup {m}
    /\ UNCHANGED <<task, order, history>>

(* While its task runs the answer is the receipt "submitting", which is    *)
(* accepted as well: the browser clears the draft.                         *)
AnswersSubmitting(m) ==
    /\ ~Delivered(m) /\ task[m] # "none"
    /\ DraftOf(m, "cleared")
    /\ UNCHANGED <<told, task, order, receipts, history>>

StartsTask(m) ==
    /\ ~Delivered(m) /\ task[m] = "none"
    /\ DraftOf(m, "sending")
    /\ task' = [task EXCEPT ![m] = "queued"]
    /\ order' = Append(order, m)
    /\ blind' = IF m \in tried /\ link # "up" THEN blind \cup {m} ELSE blind \ {m}
    /\ UNCHANGED <<told, receipts, tried, excused>>

Submit(m) ==
    /\ draft[m] = "kept"
    /\ present
    /\ m \in excused => taken[m] < MaxTaken
    /\ AnswersDuplicate(m) \/ AnswersSubmitting(m) \/ StartsTask(m)
    /\ UNCHANGED <<actor, connection, pipes, codex>>

(* SEND_ACK_WAIT_SECONDS end before the task does.                         *)
AckWaitEnds(m) ==
    /\ draft[m] = "sending"
    /\ DraftOf(m, "cleared")
    /\ UNCHANGED <<told, sends, actor, connection, pipes, codex, history>>

(* The reply does not reach the browser: an ambiguous failure, the draft   *)
(* stays and the same id is sent again.                                    *)
ReplyLost(m) ==
    /\ draft[m] = "sending"
    /\ DraftOf(m, "kept")
    /\ UNCHANGED <<told, sends, actor, connection, pipes, codex, history>>

-----------------------------------------------------------------------------
(* _perform_send holds the session's lock around its RPC.                  *)

(* Mutant: every send of the session goes ahead.                           *)
HoldsAnyway(m) == m \in {order[i] : i \in DOMAIN order}

Holds(m) == order # <<>> /\ Head(order) = m

Request(m, t, waits) == [msg |-> m, turn |-> t, waited |-> waits]

(* Nobody waits for these requests any more, and Codex may still handle    *)
(* them.                                                                   *)
Abandoned(requests) == {[r EXCEPT !.waited = FALSE] : r \in requests}

Accepting == link = "up" \/ (link \in {"joining", "stale"} /\ degraded)

(* turn/steer with the active turn as its precondition, else turn/start.   *)
(* _send looked for the id before the task got here: a message handed over *)
(* again on a look at an actor that was out of touch is excused.           *)
Dispatch(m) ==
    /\ Holds(m) /\ task[m] = "queued"
    /\ Accepting
    /\ task' = [task EXCEPT ![m] = "sent"]
    /\ wire' = wire \cup {Request(m, active, TRUE)}
    /\ tried' = tried \cup {m}
    /\ excused' = excused \cup ({m} \cap blind)
    /\ blind' = blind \ {m}
    /\ UNCHANGED <<browser, order, receipts, actor, connection, answer, notices, codex>>

(* Mutant: a finished task stays in send_tasks.                            *)
ReleaseKeepsTask(m) ==
    /\ task' = [task EXCEPT ![m] = "done"]
    /\ order' = Tail(order)
    /\ answer' = "none"

Release(m) ==
    /\ task' = [task EXCEPT ![m] = "none"]
    /\ order' = Tail(order)
    /\ answer' = "none"

(* Mutant: an exception leaves the lock behind.                            *)
FailHoldingLock(m) ==
    /\ task' = [task EXCEPT ![m] = "none"]
    /\ answer' = "none"
    /\ DraftOf(m, IF draft[m] = "sending" THEN "kept" ELSE draft[m])
    /\ UNCHANGED <<told, order, receipts>>

(* The reply carries the error and the draft stays; a browser that was     *)
(* answered already does not hear of it.                                   *)
Fail(m) ==
    /\ Release(m)
    /\ DraftOf(m, IF draft[m] = "sending" THEN "kept" ELSE draft[m])
    /\ UNCHANGED <<told, receipts>>

(* The supervisor has no client for a session that is reconnecting.        *)
Refused(m) ==
    /\ Holds(m) /\ task[m] = "queued"
    /\ ~Accepting
    /\ Fail(m)
    /\ UNCHANGED <<actor, connection, wire, notices, codex, history>>

Succeeds(m) ==
    /\ Holds(m) /\ task[m] = "sent" /\ answer = "taken"
    /\ Release(m)
    /\ receipts' = receipts \cup {m}
    /\ IF draft[m] = "sending" THEN TellAccepted(m) ELSE UNCHANGED browser
    /\ UNCHANGED <<actor, connection, wire, notices, codex, history>>

Rejected(m) ==
    /\ Holds(m) /\ task[m] = "sent" /\ answer = "rejected"
    /\ Fail(m)
    /\ UNCHANGED <<actor, connection, wire, notices, codex, history>>

(* No answer within the deadline: the supervisor restarts the worker,      *)
(* except that a recovery which is under way goes on.  It may hydrate the  *)
(* actor from a thread that is older than the request Codex still has:     *)
(* such a message is excused.                                              *)
TimesOut(m) ==
    /\ Holds(m) /\ task[m] = "sent" /\ answer = "none"
    /\ Fail(m)
    /\ wire' = Abandoned(wire)
    /\ link' = IF link = "up" THEN "killing" ELSE link
    /\ degraded' = FALSE
    /\ excused' = IF link = "up" THEN excused ELSE excused \cup {m}
    /\ UNCHANGED <<actor, snapshot, notices, codex, tried, blind>>

-----------------------------------------------------------------------------
(* Codex, as far as the Owner relies on it (external).                     *)

Subscribed == link # "lost"

Publish(events) == notices' = IF Subscribed THEN notices \o events ELSE notices

Started(t) == [kind |-> "turn/started", turn |-> t]
Said(m) == [kind |-> "item/completed", msg |-> m]
Ended(t) == [kind |-> "turn/completed", turn |-> t]

CodexTakes(r) ==
    /\ r \in wire
    /\ r.turn \in {0, turn}
    /\ wire' = wire \ {r}
    /\ taken' = [taken EXCEPT ![r.msg] = @ + 1]
    /\ IF turn = 0
       THEN /\ turns' = turns + 1
            /\ turn' = turns'
            /\ Publish(<<Started(turn'), Said(r.msg)>>)
       ELSE Publish(<<Said(r.msg)>>) /\ UNCHANGED <<turn, turns>>
    /\ answer' = IF r.waited THEN "taken" ELSE answer
    /\ UNCHANGED <<browser, sends, actor, connection, history>>

CodexRejects(r) ==
    /\ r \in wire
    /\ r.turn \notin {0, turn}
    /\ wire' = wire \ {r}
    /\ answer' = IF r.waited THEN "rejected" ELSE answer
    /\ UNCHANGED <<browser, sends, actor, connection, notices, codex, history>>

TurnEnds ==
    /\ turn # 0
    /\ turn' = 0
    /\ Publish(<<Ended(turn)>>)
    /\ UNCHANGED <<browser, sends, actor, connection, wire, answer, turns, taken, history>>

-----------------------------------------------------------------------------
(* The actor learns from notifications and from thread/resume.  The answer *)
(* to thread/resume wakes its caller through two futures, notifications    *)
(* have a task of their own: one that follows the answer may be applied    *)
(* before it.                                                              *)

Notice ==
    /\ notices # <<>>
    /\ LET n == Head(notices)
       IN  CASE n.kind = "turn/started" -> active' = n.turn /\ UNCHANGED items
             [] n.kind = "item/completed" -> items' = items \cup {n.msg} /\ UNCHANGED active
             [] n.kind = "turn/completed" ->
                    /\ active' = IF active = n.turn THEN 0 ELSE active
                    /\ UNCHANGED items
    /\ notices' = Tail(notices)
    /\ present' = TRUE
    /\ UNCHANGED <<browser, sends, connection, wire, answer, codex, history>>

(* _fail_pending fails the send that waits; queued notifications are       *)
(* cancelled with the connection.  The next attempt to recover closes what *)
(* the last one opened.                                                    *)
ConnectionLost ==
    /\ link \in {"up", "joining", "stale"}
    /\ link' = "lost"
    /\ degraded' = FALSE
    /\ wire' = Abandoned(wire)
    /\ notices' = <<>>
    /\ IF \E m \in Messages : Holds(m) /\ task[m] = "sent"
       THEN Fail(Head(order))
       ELSE UNCHANGED <<browser, sends, answer>>
    /\ snapshot' = NoThread
    /\ UNCHANGED <<actor, codex, history>>

(* A new connection and Codex's answer to thread/resume on it.  What was   *)
(* sent on the old one is handled or lost by then; a worker that was       *)
(* restarted, or died, runs no turn.  The session is degraded if earlier   *)
(* attempts failed: the first of _restore_record, three of _recover.       *)
Reconnects ==
    /\ link \in {"lost", "killing"}
    /\ turn' \in (IF link = "lost" THEN {turn, 0} ELSE {0})
    /\ link' = "joining"
    /\ degraded' \in BOOLEAN
    /\ snapshot' = [items |-> {m \in Messages : taken[m] > 0}, turn |-> turn']
    /\ wire' = {}
    /\ notices' = <<>>
    /\ UNCHANGED <<browser, sends, actor, answer, turns, taken, history>>

(* The attempt fails after it connected and leaves the session degraded:   *)
(* its client stays until the next attempt, and sends use it.  A failure   *)
(* that leaves the session "reconnecting" shows to nobody.                 *)
ResumeFails ==
    /\ link = "joining"
    /\ link' = "stale"
    /\ degraded' = TRUE
    /\ snapshot' = NoThread
    /\ UNCHANGED <<browser, sends, actor, pipes, codex, history>>

Hydrates ==
    /\ link = "joining"
    /\ items' = items \cup snapshot.items
    /\ active' = snapshot.turn
    /\ present' = TRUE
    /\ link' = "up"
    /\ degraded' = FALSE
    /\ snapshot' = NoThread
    /\ UNCHANGED <<browser, sends, pipes, codex, history>>

(* Sends and receipts live in memory; the worker is a unit of its own and  *)
(* runs on.                                                                *)
OwnerRestarts ==
    /\ draft' = [m \in Messages |-> IF draft[m] = "sending" THEN "kept" ELSE draft[m]]
    /\ task' = [m \in Messages |-> "none"]
    /\ order' = <<>>
    /\ receipts' = {}
    /\ items' = {}
    /\ active' = 0
    /\ present' = FALSE
    /\ link' = "lost"
    /\ degraded' = FALSE
    /\ wire' = Abandoned(wire)
    /\ answer' = "none"
    /\ notices' = <<>>
    /\ snapshot' = NoThread
    /\ blind' = {}
    /\ UNCHANGED <<told, codex, tried, excused>>

-----------------------------------------------------------------------------
Send(m) ==
    \/ Dispatch(m) \/ Refused(m) \/ Succeeds(m) \/ Rejected(m) \/ TimesOut(m)
Browser(m) == Submit(m) \/ AckWaitEnds(m) \/ ReplyLost(m)
Codex == TurnEnds \/ \E r \in wire : CodexTakes(r) \/ CodexRejects(r)

Next ==
    \/ \E m \in Messages : Browser(m) \/ Send(m)
    \/ Codex
    \/ Notice \/ Reconnects \/ ResumeFails \/ Hydrates
    \/ ConnectionLost \/ OwnerRestarts

Spec == Init /\ [][Next]_vars

(* The event loop runs the tasks it holds and every request has a          *)
(* deadline; Codex need not answer anything, and no recovery succeed.      *)
Fairness == \A m \in Messages : WF_vars(Send(m))

FairSpec == Spec /\ Fairness

-----------------------------------------------------------------------------
Requests == [msg : Messages, turn : Nat, waited : BOOLEAN]
Notifications ==
    [kind : {"turn/started", "turn/completed"}, turn : Nat]
        \cup [kind : {"item/completed"}, msg : Messages]

BrowserTypes ==
    /\ draft \in [Messages -> {"kept", "sending", "cleared"}]
    /\ told \subseteq Messages
SendTypes ==
    /\ task \in [Messages -> {"none", "queued", "sent"}]
    /\ order \in Seq(Messages)
    /\ receipts \subseteq Messages
ActorTypes ==
    /\ items \subseteq Messages
    /\ active \in Nat
    /\ present \in BOOLEAN
ConnectionTypes ==
    /\ link \in {"up", "killing", "lost", "joining", "stale"}
    /\ degraded \in BOOLEAN
    /\ snapshot \in [items : SUBSET Messages, turn : Nat]
PipeTypes ==
    /\ wire \subseteq Requests
    /\ answer \in {"none", "taken", "rejected"}
    /\ notices \in Seq(Notifications)
CodexTypes ==
    /\ turn \in Nat
    /\ turns \in Nat
    /\ taken \in [Messages -> Nat]
HistoryTypes == tried \cup blind \cup excused \subseteq Messages

TypeOK ==
    /\ BrowserTypes /\ SendTypes /\ ActorTypes
    /\ ConnectionTypes /\ PipeTypes /\ CodexTypes /\ HistoryTypes

(* The lock holds exactly the sends that run, each once, and only its      *)
(* holder is in its RPC, with one request that is waited for:              *)
(* _perform_send never lets two requests of a session choose between start *)
(* and steer at once.                                                      *)
LockOrder ==
    /\ \A i, j \in DOMAIN order : order[i] = order[j] => i = j
    /\ \A m \in Messages : task[m] # "none" <=> \E i \in DOMAIN order : order[i] = m
    /\ \A m \in Messages : task[m] = "sent" => Holds(m)
RequestOwner ==
    /\ \A r \in wire : r.waited => task[r.msg] = "sent" /\ answer = "none"
    /\ \A q, r \in wire : q.waited /\ r.waited => q = r
    /\ answer # "none" => \E m \in Messages : task[m] = "sent"
OneSendAtATime == LockOrder /\ RequestOwner

Promise == INSTANCE ReliableDelivery WITH unseen <- {}

(* Whatever is lost, times out or restarts, and however often the id is    *)
(* sent again, Codex takes a message at most once and a final receipt      *)
(* follows it.  Two things excuse a message, in a session that has a       *)
(* connection and is not hydrated from it: it is handed over again on a    *)
(* look made then, or its request times out then.                          *)
KeepsPromise == Promise!Spec

(* A send ends even when Codex never answers, so its successors at the     *)
(* lock get their turn.                                                    *)
EverySendEnds == \A m \in Messages : task[m] # "none" ~> task[m] = "none"

(* Codex never gets one message twice.                                     *)
NoSecondUserMessage == \A m \in Messages : taken[m] <= 1
=============================================================================
