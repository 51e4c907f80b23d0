------------------------- MODULE AppServerSendProofs -------------------------
(***************************************************************************)
(* For any set of messages, sends are serialised by the lock, and the send *)
(* path implements ReliableDelivery for every message but those that       *)
(* AppServerSend excuses.                                                  *)
(***************************************************************************)
EXTENDS AppServerSend, SequenceTheorems, TLAPS

-----------------------------------------------------------------------------
(* Every variable keeps its type.  The conjuncts of TypeOK follow the      *)
(* groups of variables, so a group an action leaves alone needs no word.   *)

(* A group of variables that does not change keeps its types. *)
LEMMA GroupsUnchanged ==
    /\ BrowserTypes /\ UNCHANGED browser => BrowserTypes'
    /\ SendTypes /\ UNCHANGED sends => SendTypes'
    /\ ActorTypes /\ UNCHANGED actor => ActorTypes'
    /\ ConnectionTypes /\ UNCHANGED connection => ConnectionTypes'
    /\ PipeTypes /\ UNCHANGED pipes => PipeTypes'
    /\ CodexTypes /\ UNCHANGED codex => CodexTypes'
    /\ HistoryTypes /\ UNCHANGED history => HistoryTypes'
<1>1. BrowserTypes /\ UNCHANGED browser => BrowserTypes'
  BY DEF BrowserTypes, browser
<1>2. SendTypes /\ UNCHANGED sends => SendTypes'
  BY DEF SendTypes, sends
<1>3. ActorTypes /\ UNCHANGED actor => ActorTypes'
  BY DEF ActorTypes, actor
<1>4. ConnectionTypes /\ UNCHANGED connection => ConnectionTypes'
  BY DEF ConnectionTypes, connection
<1>5. PipeTypes /\ UNCHANGED pipes => PipeTypes'
  BY DEF PipeTypes, pipes
<1>6. CodexTypes /\ UNCHANGED codex => CodexTypes'
  BY DEF CodexTypes, codex
<1>7. HistoryTypes /\ UNCHANGED history => HistoryTypes'
  BY DEF HistoryTypes, history
<1>8. QED BY <1>1, <1>2, <1>3, <1>4, <1>5, <1>6, <1>7

(* What the browser is told of a message is a receipt it knows. *)
LEMMA BrowserTypesStep ==
    ASSUME BrowserTypes, NEW m \in Messages, NEW state \in {"kept", "sending", "cleared"},
           DraftOf(m, state), told' = told \/ told' = told \cup {m}
    PROVE  BrowserTypes'
BY DEF BrowserTypes, DraftOf

(* A finished send leaves tasks, lock order and receipts well typed. *)
LEMMA ReleaseTypes ==
    ASSUME SendTypes, NEW m \in Messages, Holds(m), Release(m),
           receipts' = receipts \/ receipts' = receipts \cup {m}
    PROVE  SendTypes' /\ answer' \in {"none", "taken", "rejected"}
<1>1. task' \in [Messages -> {"none", "queued", "sent"}]
  BY DEF SendTypes, Release
<1>2. order' \in Seq(Messages)
  BY DEF SendTypes, Release, Holds
<1>3. QED BY <1>1, <1>2 DEF SendTypes, Release

(* A failed send also leaves the browser well typed. *)
LEMMA FailTypes ==
    ASSUME BrowserTypes, SendTypes, NEW m \in Messages, Holds(m), Fail(m)
    PROVE  BrowserTypes' /\ SendTypes' /\ answer' \in {"none", "taken", "rejected"}
<1>1. SendTypes' /\ answer' \in {"none", "taken", "rejected"}
  BY ReleaseTypes DEF Fail
<1>2. BrowserTypes'
  BY DEF Fail, BrowserTypes, DraftOf
<1>3. QED BY <1>1, <1>2

(* An abandoned request is still a request. *)
LEMMA AbandonedTypes == wire \subseteq Requests => Abandoned(wire) \subseteq Requests
BY DEF Abandoned, Requests

(* Codex appends notifications to its stream. *)
LEMMA PublishTypes ==
    ASSUME PipeTypes, NEW events \in Seq(Notifications), Publish(events)
    PROVE  notices' \in Seq(Notifications)
BY ConcatProperties DEF PipeTypes, Publish

(* Every step keeps the types. *)
LEMMA TypeStep == TypeOK /\ [Next]_vars => TypeOK'
<1> SUFFICES ASSUME TypeOK, [Next]_vars PROVE TypeOK'
  OBVIOUS
<1> USE GroupsUnchanged DEF TypeOK
<1>1. ASSUME NEW m \in Messages, Submit(m) PROVE TypeOK'
  <2>1. ActorTypes' /\ ConnectionTypes' /\ PipeTypes' /\ CodexTypes'
    BY <1>1 DEF Submit
  <2>2. CASE AnswersDuplicate(m)
    <3>1. SendTypes' /\ HistoryTypes'
      BY <2>2 DEF AnswersDuplicate, SendTypes
    <3>2. QED BY <2>1, <2>2, <3>1, BrowserTypesStep DEF AnswersDuplicate, TellAccepted
  <2>3. CASE AnswersSubmitting(m)
    <3>1. SendTypes' /\ HistoryTypes'
      BY <2>3 DEF AnswersSubmitting, SendTypes
    <3>2. QED BY <2>1, <2>3, <3>1, BrowserTypesStep DEF AnswersSubmitting
  <2>4. CASE StartsTask(m)
    <3>1. SendTypes'
      BY <2>4 DEF StartsTask, SendTypes
    <3>2. HistoryTypes'
      BY <2>4 DEF StartsTask, HistoryTypes
    <3>3. QED BY <2>1, <2>4, <3>1, <3>2, BrowserTypesStep DEF StartsTask
  <2>5. QED BY <1>1, <2>2, <2>3, <2>4 DEF Submit
<1>2. ASSUME NEW m \in Messages, AckWaitEnds(m) \/ ReplyLost(m) PROVE TypeOK'
  BY <1>2, BrowserTypesStep DEF AckWaitEnds, ReplyLost
<1>3. ASSUME NEW m \in Messages, Dispatch(m) PROVE TypeOK'
  <2>1. SendTypes'
    BY <1>3 DEF Dispatch, SendTypes
  <2>2. Request(m, active, TRUE) \in Requests
    BY DEF ActorTypes, Request, Requests
  <2>3. PipeTypes'
    BY <1>3, <2>2 DEF Dispatch, PipeTypes
  <2>4. HistoryTypes'
    BY <1>3 DEF Dispatch, HistoryTypes
  <2>5. QED BY <1>3, <2>1, <2>3, <2>4 DEF Dispatch
<1>4. ASSUME NEW m \in Messages, Refused(m) \/ Rejected(m) PROVE TypeOK'
  BY <1>4, FailTypes DEF Refused, Rejected, PipeTypes
<1>5. ASSUME NEW m \in Messages, Succeeds(m) PROVE TypeOK'
  <2>1. SendTypes' /\ PipeTypes'
    BY <1>5, ReleaseTypes DEF Succeeds, PipeTypes
  <2>2. BrowserTypes'
    BY <1>5, BrowserTypesStep DEF Succeeds, TellAccepted
  <2>3. QED BY <1>5, <2>1, <2>2 DEF Succeeds
<1>6. ASSUME NEW m \in Messages, TimesOut(m) PROVE TypeOK'
  <2>1. BrowserTypes' /\ SendTypes' /\ PipeTypes'
    BY <1>6, FailTypes, AbandonedTypes DEF TimesOut, PipeTypes
  <2>2. ConnectionTypes'
    BY <1>6 DEF TimesOut, ConnectionTypes
  <2>3. HistoryTypes'
    BY <1>6 DEF TimesOut, HistoryTypes
  <2>4. QED BY <1>6, <2>1, <2>2, <2>3 DEF TimesOut
<1>7. ASSUME NEW r \in wire, CodexTakes(r) PROVE TypeOK'
  <2>1. r \in Requests
    BY DEF PipeTypes
  <2>2. CodexTypes'
    BY <1>7, <2>1 DEF CodexTakes, CodexTypes, Requests
  <2>3. Started(turn') \in Notifications /\ Said(r.msg) \in Notifications
    BY <2>1, <2>2 DEF CodexTypes, Started, Said, Notifications, Requests
  <2>4. notices' \in Seq(Notifications)
    <3>1. /\ <<Started(turn'), Said(r.msg)>> \in Seq(Notifications)
          /\ <<Said(r.msg)>> \in Seq(Notifications)
      BY <2>3
    <3>2. QED BY <1>7, <3>1, PublishTypes DEF CodexTakes
  <2>5. PipeTypes'
    BY <1>7, <2>4 DEF CodexTakes, PipeTypes
  <2>6. QED BY <1>7, <2>2, <2>5 DEF CodexTakes
<1>8. ASSUME NEW r \in wire, CodexRejects(r) PROVE TypeOK'
  BY <1>8 DEF CodexRejects, PipeTypes
<1>9. CASE TurnEnds
  <2>1. CodexTypes'
    BY <1>9 DEF TurnEnds, CodexTypes
  <2>2. Ended(turn) \in Notifications
    BY DEF CodexTypes, Ended, Notifications
  <2>3. PipeTypes'
    <3>1. <<Ended(turn)>> \in Seq(Notifications)
      BY <2>2
    <3>2. notices' \in Seq(Notifications)
      BY <1>9, <3>1, PublishTypes DEF TurnEnds
    <3>3. QED BY <1>9, <3>2 DEF TurnEnds, PipeTypes
  <2>4. QED BY <1>9, <2>1, <2>3 DEF TurnEnds
<1>10. CASE Notice
  <2> DEFINE n == Head(notices)
  <2>1. n \in Notifications /\ notices' \in Seq(Notifications)
    BY <1>10 DEF Notice, PipeTypes
  <2>2. ActorTypes'
    <3>1. CASE n.kind = "turn/started"
      BY <1>10, <2>1, <3>1 DEF Notice, ActorTypes, Notifications
    <3>2. CASE n.kind = "item/completed"
      BY <1>10, <2>1, <3>2 DEF Notice, ActorTypes, Notifications
    <3>3. CASE n.kind = "turn/completed"
      <4>1. active' \in {0, active} /\ UNCHANGED items /\ present'
        BY <1>10, <3>3 DEF Notice
      <4>2. QED BY <4>1 DEF ActorTypes
    <3>4. QED BY <2>1, <3>1, <3>2, <3>3 DEF Notifications
  <2>3. QED BY <1>10, <2>1, <2>2 DEF Notice, PipeTypes
<1>11. CASE ConnectionLost
  <2>1. ConnectionTypes'
    BY <1>11 DEF ConnectionLost, ConnectionTypes, NoThread
  <2>2. BrowserTypes' /\ SendTypes' /\ answer' \in {"none", "taken", "rejected"}
    <3>1. CASE \E m \in Messages : Holds(m) /\ task[m] = "sent"
      BY <1>11, <3>1, FailTypes DEF ConnectionLost, Holds
    <3>2. CASE ~ \E m \in Messages : Holds(m) /\ task[m] = "sent"
      BY <1>11, <3>2 DEF ConnectionLost, PipeTypes
    <3>3. QED BY <3>1, <3>2
  <2>3. PipeTypes'
    BY <1>11, <2>2, AbandonedTypes DEF ConnectionLost, PipeTypes
  <2>4. QED BY <1>11, <2>1, <2>2, <2>3 DEF ConnectionLost
<1>12. CASE Reconnects
  <2>1. CodexTypes'
    BY <1>12 DEF Reconnects, CodexTypes
  <2>2. ConnectionTypes'
    BY <1>12, <2>1 DEF Reconnects, ConnectionTypes, CodexTypes
  <2>3. PipeTypes'
    BY <1>12 DEF Reconnects, PipeTypes
  <2>4. QED BY <1>12, <2>1, <2>2, <2>3 DEF Reconnects
<1>13. CASE Hydrates \/ ResumeFails
  <2>1. ConnectionTypes'
    <3>1. /\ link' \in {"up", "stale"} /\ degraded' \in BOOLEAN
          /\ snapshot' = [items |-> {}, turn |-> 0]
      BY <1>13 DEF Hydrates, ResumeFails, NoThread
    <3>2. QED BY <3>1 DEF ConnectionTypes
  <2>2. ActorTypes'
    BY <1>13 DEF Hydrates, ResumeFails, ActorTypes, ConnectionTypes
  <2>3. QED BY <1>13, <2>1, <2>2 DEF Hydrates, ResumeFails
<1>14. CASE OwnerRestarts
  <2>1. BrowserTypes' /\ SendTypes'
    BY <1>14 DEF OwnerRestarts, BrowserTypes, SendTypes
  <2>2. ActorTypes' /\ ConnectionTypes' /\ HistoryTypes'
    BY <1>14 DEF OwnerRestarts, ActorTypes, ConnectionTypes, HistoryTypes, NoThread
  <2>3. PipeTypes'
    BY <1>14, AbandonedTypes DEF OwnerRestarts, PipeTypes
  <2>4. QED BY <1>14, <2>1, <2>2, <2>3 DEF OwnerRestarts
<1>15. CASE UNCHANGED vars
  BY <1>15 DEF vars
<1>16. QED
  BY <1>1, <1>2, <1>3, <1>4, <1>5, <1>6, <1>7, <1>8, <1>9, <1>10, <1>11, <1>12, <1>13, <1>14, <1>15
     DEF Next, Browser, Send, Codex

(* The program starts well typed. *)
LEMMA InitTypes == Init => TypeOK
<1> SUFFICES ASSUME Init PROVE TypeOK
  OBVIOUS
<1>1. BrowserTypes /\ SendTypes
  BY DEF Init, BrowserTypes, SendTypes
<1>2. ActorTypes /\ CodexTypes /\ HistoryTypes
  BY DEF Init, ActorTypes, CodexTypes, HistoryTypes
<1>3. ConnectionTypes
  BY DEF Init, ConnectionTypes, NoThread
<1>4. PipeTypes
  BY DEF Init, PipeTypes
<1>5. QED BY <1>1, <1>2, <1>3, <1>4 DEF TypeOK

(* Every variable keeps its type. *)
THEOREM TypeCorrect == Spec => []TypeOK
BY InitTypes, TypeStep, PTL DEF Spec

-----------------------------------------------------------------------------
(* The send lock.                                                          *)

(* Tasks other than the head of the lock wait. *)
LEMMA WaitersOnly ==
    ASSUME OneSendAtATime, TypeOK, NEW m \in Messages, Holds(m),
           task[m] # "sent" \/ answer # "none"
    PROVE  \A r \in wire : ~r.waited
<1> SUFFICES ASSUME NEW r \in wire, r.waited PROVE FALSE
  OBVIOUS
<1>1. r.msg \in Messages
  BY DEF TypeOK, PipeTypes, Requests
<1>2. task[r.msg] = "sent" /\ answer = "none"
  BY DEF OneSendAtATime, RequestOwner
<1>3. r.msg = m
  BY <1>1, <1>2 DEF OneSendAtATime, LockOrder, Holds
<1>4. QED BY <1>2, <1>3

(* A finished send leaves the lock to the next in order. *)
LEMMA ReleaseKeepsOrder ==
    ASSUME LockOrder, SendTypes, NEW m \in Messages, Holds(m), Release(m)
    PROVE  LockOrder'
<1>1. /\ order \in Seq(Messages) /\ order # <<>> /\ order[1] = m
      /\ task \in [Messages -> {"none", "queued", "sent"}]
  BY DEF SendTypes, Holds
<1>2. /\ order' \in Seq(Messages) /\ Len(order') = Len(order) - 1 /\ Len(order) \in Nat
      /\ \A i \in 1..Len(order') : order'[i] = order[i + 1]
  BY <1>1 DEF Release
<1>3. DOMAIN order = 1..Len(order) /\ DOMAIN order' = 1..Len(order') /\ Len(order) > 0
  BY <1>1, <1>2
<1>4. task'[m] = "none" /\ \A x \in Messages \ {m} : task'[x] = task[x]
  BY <1>1 DEF Release
<1>5. \A i, j \in DOMAIN order' : order'[i] = order'[j] => i = j
  <2> SUFFICES ASSUME NEW i \in DOMAIN order', NEW j \in DOMAIN order', order'[i] = order'[j]
               PROVE  i = j
    OBVIOUS
  <2>1. i + 1 \in DOMAIN order /\ j + 1 \in DOMAIN order /\ order[i + 1] = order[j + 1]
    BY <1>2, <1>3
  <2>2. i + 1 = j + 1
    BY <2>1 DEF LockOrder
  <2>3. QED BY <2>2, <1>2, <1>3
<1>6. ASSUME NEW x \in Messages
      PROVE  task'[x] # "none" <=> \E i \in DOMAIN order' : order'[i] = x
  <2>1. CASE x = m
    <3> SUFFICES ASSUME NEW i \in DOMAIN order', order'[i] = m PROVE FALSE
      BY <1>4, <2>1
    <3>1. i + 1 \in DOMAIN order /\ order[i + 1] = order[1] /\ 1 \in DOMAIN order
      BY <1>1, <1>2, <1>3
    <3>2. i + 1 = 1
      BY <3>1 DEF LockOrder
    <3>3. QED BY <3>2, <1>2, <1>3
  <2>2. CASE x # m
    <3>1. ASSUME NEW i \in DOMAIN order', order'[i] = x PROVE task'[x] # "none"
      <4>1. i + 1 \in DOMAIN order /\ order[i + 1] = x
        BY <3>1, <1>2, <1>3
      <4>2. QED BY <4>1, <2>2, <1>4 DEF LockOrder
    <3>2. ASSUME task'[x] # "none" PROVE \E i \in DOMAIN order' : order'[i] = x
      <4>1. PICK i \in DOMAIN order : order[i] = x
        BY <3>2, <2>2, <1>4 DEF LockOrder
      <4>2. i # 1
        BY <4>1, <2>2, <1>1
      <4>3. i - 1 \in DOMAIN order' /\ order'[i - 1] = x
        BY <4>1, <4>2, <1>2, <1>3
      <4>4. QED BY <4>3
    <3>3. QED BY <3>1, <3>2
  <2>3. QED BY <2>1, <2>2
<1>7. \A x \in Messages : task'[x] = "sent" => Holds(x)'
  BY <1>1, <1>4 DEF LockOrder, Holds
<1>8. QED BY <1>5, <1>6, <1>7 DEF LockOrder

(* A new send joins the lock at the end. *)
LEMMA AppendKeepsOrder ==
    ASSUME LockOrder, SendTypes, NEW m \in Messages, task[m] = "none",
           task' = [task EXCEPT ![m] = "queued"], order' = Append(order, m)
    PROVE  LockOrder'
<1>1. /\ order \in Seq(Messages) /\ Len(order) \in Nat /\ DOMAIN order = 1..Len(order)
      /\ task \in [Messages -> {"none", "queued", "sent"}]
  BY DEF SendTypes
<1>2. /\ order' \in Seq(Messages) /\ Len(order') = Len(order) + 1
      /\ DOMAIN order' = 1..(Len(order) + 1)
      /\ order'[Len(order) + 1] = m
      /\ \A i \in 1..Len(order) : order'[i] = order[i]
  BY <1>1
<1>3. \A i \in DOMAIN order : order[i] # m
  BY DEF LockOrder
<1>4. task'[m] = "queued" /\ \A x \in Messages \ {m} : task'[x] = task[x]
  BY <1>1
<1>5. \A i, j \in DOMAIN order' : order'[i] = order'[j] => i = j
  <2> SUFFICES ASSUME NEW i \in DOMAIN order', NEW j \in DOMAIN order', order'[i] = order'[j]
               PROVE  i = j
    OBVIOUS
  <2>1. CASE i \in DOMAIN order /\ j \in DOMAIN order
    BY <2>1, <1>1, <1>2 DEF LockOrder
  <2>2. CASE i \notin DOMAIN order \/ j \notin DOMAIN order
    BY <2>2, <1>1, <1>2, <1>3
  <2>3. QED BY <2>1, <2>2
<1>6. ASSUME NEW x \in Messages
      PROVE  task'[x] # "none" <=> \E i \in DOMAIN order' : order'[i] = x
  <2>1. CASE x = m
    BY <2>1, <1>1, <1>2, <1>4
  <2>2. CASE x # m
    <3>1. task'[x] = task[x]
      BY <2>2, <1>4
    <3>2. (\E i \in DOMAIN order' : order'[i] = x) <=> (\E i \in DOMAIN order : order[i] = x)
      BY <2>2, <1>1, <1>2
    <3>3. QED BY <3>1, <3>2 DEF LockOrder
  <2>3. QED BY <2>1, <2>2
<1>7. ASSUME NEW x \in Messages, task'[x] = "sent" PROVE Holds(x)'
  <2>1. Holds(x)
    BY <1>7, <1>4 DEF LockOrder
  <2>2. order'[1] = x /\ order' # <<>>
    BY <2>1, <1>1, <1>2 DEF Holds
  <2>3. QED BY <2>2, <1>2 DEF Holds
<1>8. QED BY <1>5, <1>6, <1>7 DEF LockOrder

(* A step that leaves tasks, order and requests alone keeps the lock. *)
LEMMA LockUnchanged ==
    /\ LockOrder /\ UNCHANGED <<task, order>> => LockOrder'
    /\ RequestOwner /\ UNCHANGED <<task, wire, answer>> => RequestOwner'
BY DEF LockOrder, RequestOwner, Holds

(* No request is waited for when none was, or all were abandoned. *)
LEMMA NobodyWaits ==
    ASSUME \A r \in wire' : ~r.waited, answer' = "none"
    PROVE  RequestOwner'
BY DEF RequestOwner

(* Nobody waits for an abandoned request. *)
LEMMA AbandonedWaitsForNone ==
    ASSUME wire \subseteq Requests
    PROVE  \A r \in Abandoned(wire) : ~r.waited
BY DEF Abandoned, Requests

(* Every step keeps the lock in order. *)
LEMMA LockStep == TypeOK /\ OneSendAtATime /\ [Next]_vars => OneSendAtATime'
<1> SUFFICES ASSUME TypeOK, OneSendAtATime, [Next]_vars PROVE OneSendAtATime'
  OBVIOUS
<1> USE LockUnchanged
<1>0. /\ BrowserTypes /\ SendTypes /\ PipeTypes /\ LockOrder /\ RequestOwner
      /\ wire \subseteq Requests /\ task \in [Messages -> {"none", "queued", "sent"}]
  BY DEF TypeOK, OneSendAtATime, PipeTypes, SendTypes
<1>1. ASSUME NEW m \in Messages, Submit(m) PROVE OneSendAtATime'
  <2>1. CASE AnswersDuplicate(m) \/ AnswersSubmitting(m)
    BY <1>0, <1>1, <2>1 DEF Submit, AnswersDuplicate, AnswersSubmitting, OneSendAtATime, pipes
  <2>2. CASE StartsTask(m)
    <3>1. LockOrder'
      BY <1>0, <2>2, AppendKeepsOrder DEF StartsTask
    <3>2. RequestOwner'
      BY <1>0, <1>1, <2>2 DEF Submit, StartsTask, RequestOwner, pipes, Requests
    <3>3. QED BY <3>1, <3>2 DEF OneSendAtATime
  <2>3. QED BY <1>1, <2>1, <2>2 DEF Submit
<1>2. ASSUME NEW m \in Messages, AckWaitEnds(m) \/ ReplyLost(m) PROVE OneSendAtATime'
  BY <1>0, <1>2 DEF AckWaitEnds, ReplyLost, sends, pipes, OneSendAtATime
<1>3. ASSUME NEW m \in Messages, Dispatch(m) PROVE OneSendAtATime'
  <2>1. LockOrder'
    BY <1>0, <1>3 DEF Dispatch, LockOrder, Holds
  <2>2. \A r \in wire : ~r.waited
    BY <1>3, WaitersOnly DEF Dispatch
  <2>3. answer = "none"
    BY <1>0, <1>3 DEF Dispatch, LockOrder, RequestOwner, Holds
  <2>4. task'[m] = "sent" /\ UNCHANGED answer /\ wire' = wire \cup {Request(m, active, TRUE)}
    BY <1>0, <1>3 DEF Dispatch
  <2>5. Request(m, active, TRUE).msg = m
    BY DEF Request
  <2>6. RequestOwner'
    BY <2>2, <2>3, <2>4, <2>5 DEF RequestOwner
  <2>7. QED BY <2>1, <2>6 DEF OneSendAtATime
<1>4. ASSUME NEW m \in Messages, Refused(m) \/ Rejected(m) \/ Succeeds(m) PROVE OneSendAtATime'
  <2>1. Holds(m) /\ Release(m) /\ (task[m] # "sent" \/ answer # "none") /\ wire' = wire /\ answer' = "none"
    BY <1>4 DEF Release, Refused, Rejected, Succeeds, Fail
  <2>2. QED BY <1>0, <2>1, ReleaseKeepsOrder, WaitersOnly, NobodyWaits DEF OneSendAtATime
<1>5. ASSUME NEW m \in Messages, TimesOut(m) PROVE OneSendAtATime'
  <2>1. Holds(m) /\ Release(m) /\ wire' = Abandoned(wire) /\ answer' = "none"
    BY <1>5 DEF TimesOut, Fail, Release
  <2>2. QED BY <1>0, <2>1, ReleaseKeepsOrder, AbandonedWaitsForNone, NobodyWaits DEF OneSendAtATime
<1>6. ASSUME NEW r \in wire, CodexTakes(r) \/ CodexRejects(r) PROVE OneSendAtATime'
  <2>1. /\ LockOrder' /\ wire' = wire \ {r} /\ UNCHANGED task
        /\ r.waited \/ answer' = answer
        /\ r.msg \in Messages
    BY <1>0, <1>6 DEF CodexTakes, CodexRejects, sends, Requests
  <2>2. RequestOwner'
    BY <1>0, <2>1 DEF RequestOwner
  <2>3. QED BY <2>1, <2>2 DEF OneSendAtATime
<1>7. CASE TurnEnds \/ Notice \/ ResumeFails \/ Hydrates \/ UNCHANGED vars
  BY <1>0, <1>7 DEF TurnEnds, Notice, ResumeFails, Hydrates, vars, sends, pipes, OneSendAtATime
<1>8. CASE ConnectionLost
  <2>1. LockOrder'
    <3>1. CASE \E m \in Messages : Holds(m) /\ task[m] = "sent"
      <4>1. PICK m \in Messages : Holds(m) /\ task[m] = "sent"
        BY <3>1
      <4>2. Release(m)
        BY <1>8, <3>1, <4>1 DEF ConnectionLost, Fail, Holds
      <4>3. QED BY <1>0, <4>1, <4>2, ReleaseKeepsOrder
    <3>2. CASE ~ \E m \in Messages : Holds(m) /\ task[m] = "sent"
      BY <1>0, <1>8, <3>2 DEF ConnectionLost, sends
    <3>3. QED BY <3>1, <3>2
  <2>2. answer' = "none"
    BY <1>0, <1>8 DEF ConnectionLost, Fail, Release, LockOrder, RequestOwner
  <2>3. RequestOwner'
    BY <1>0, <1>8, <2>2, AbandonedWaitsForNone, NobodyWaits DEF ConnectionLost
  <2>4. QED BY <2>1, <2>3 DEF OneSendAtATime
<1>9. CASE Reconnects
  BY <1>0, <1>9 DEF Reconnects, sends, RequestOwner, OneSendAtATime
<1>10. CASE OwnerRestarts
  <2>1. LockOrder'
    BY <1>10 DEF OwnerRestarts, LockOrder
  <2>2. RequestOwner'
    BY <1>0, <1>10, AbandonedWaitsForNone, NobodyWaits DEF OwnerRestarts
  <2>3. QED BY <2>1, <2>2 DEF OneSendAtATime
<1>11. QED
  BY <1>1, <1>2, <1>3, <1>4, <1>5, <1>6, <1>7, <1>8, <1>9, <1>10 DEF Next, Browser, Send, Codex

(* Sends are serialised whatever the recovery does. *)
THEOREM SendsAreSerialised == Spec => []OneSendAtATime
<1>1. Init => OneSendAtATime
  BY DEF Init, OneSendAtATime, LockOrder, RequestOwner
<1>2. QED BY <1>1, TypeCorrect, LockStep, PTL DEF Spec

-----------------------------------------------------------------------------
(* What else is true while sends, recoveries and restarts interleave, of   *)
(* the messages that are not excused.                                      *)
Kept == Messages \ excused

(* Codex has one request of such a message before it, and has not taken    *)
(* the message then.                                                       *)
RequestIsFresh ==
    /\ \A q, r \in wire : q.msg = r.msg /\ q.msg \in Kept => q = r
    /\ \A r \in wire : r.msg \in Kept => taken[r.msg] = 0

(* Requests that nobody waits for are gone once a session is connected     *)
(* again.                                                                  *)
LinkTellsRequests ==
    /\ link \in {"up", "joining", "stale"} => \A r \in wire : r.msg \in Kept => r.waited
    /\ \A m \in Messages : task[m] = "sent" => link \in {"up", "joining", "stale"}

(* Whatever the Owner believes delivered was taken, excused or not.        *)
BeliefIsTrue ==
    /\ \A m \in receipts \cup items \cup told \cup snapshot.items : taken[m] > 0
    /\ \A i \in DOMAIN notices : notices[i].kind = "item/completed" => taken[notices[i].msg] > 0
    /\ answer # "none" => order # <<>> /\ task[Head(order)] = "sent"
    /\ answer = "taken" => taken[Head(order)] > 0

(* A message that was taken is known, or its answer is on its way; while   *)
(* the session joins, the thread to hydrate from may be what knows it.     *)
IsKnown(m) ==
    \/ m \in receipts \cup items
    \/ answer = "taken" /\ Holds(m)
    \/ link = "joining" /\ m \in snapshot.items

KnowsTaken ==
    \A m \in Kept : taken[m] > 0 /\ link \in {"up", "joining"} => IsKnown(m)

(* What was never handed over is nowhere, nor is a message whose send      *)
(* waits after a look at an actor in touch.                                *)
Nowhere(m) == taken[m] = 0 /\ \A r \in wire : r.msg # m

UntriedIsNowhere == \A m \in Messages \ tried : Nowhere(m)

LookedIsNowhere == \A m \in Kept \ blind : task[m] = "queued" => Nowhere(m)

Knowledge ==
    /\ RequestIsFresh /\ LinkTellsRequests /\ BeliefIsTrue
    /\ KnowsTaken /\ UntriedIsNowhere /\ LookedIsNowhere

Believed == TypeOK /\ OneSendAtATime /\ Knowledge

(* The types the steps below use, from the invariant. *)
LEMMA Unpacked ==
    Believed =>
      /\ task \in [Messages -> {"none", "queued", "sent"}]
      /\ taken \in [Messages -> Nat]
      /\ order \in Seq(Messages)
      /\ wire \subseteq Requests
      /\ notices \in Seq(Notifications)
      /\ receipts \cup items \cup told \subseteq Messages
      /\ snapshot \in [items : SUBSET Messages, turn : Nat]
      /\ tried \cup blind \cup excused \subseteq Messages
      /\ LockOrder /\ RequestOwner
      /\ RequestIsFresh /\ LinkTellsRequests /\ BeliefIsTrue
      /\ KnowsTaken /\ UntriedIsNowhere /\ LookedIsNowhere
BY DEF Believed, TypeOK, BrowserTypes, SendTypes, ActorTypes, ConnectionTypes, PipeTypes, CodexTypes,
       HistoryTypes, OneSendAtATime, Knowledge

(* A step of nothing the Owner believes from. *)
LEMMA BeliefUnchanged ==
    ASSUME Knowledge,
           UNCHANGED <<told, task, order, receipts, items, link, snapshot, wire, answer, notices, taken,
                       tried, blind, excused>>
    PROVE  Knowledge'
BY DEF Knowledge, RequestIsFresh, LinkTellsRequests, BeliefIsTrue, KnowsTaken, IsKnown, Holds, Kept,
       UntriedIsNowhere, LookedIsNowhere, Nowhere

(* A request is for a message. *)
LEMMA RequestHasMessage ==
    ASSUME Believed, NEW r \in wire
    PROVE  r.msg \in Messages
BY Unpacked DEF Requests

(* A submission starts a send or only answers the browser. *)
LEMMA SubmitKeepsKnowledge ==
    ASSUME Believed, NEW m \in Messages, Submit(m)
    PROVE  Knowledge'
<1> USE Unpacked
<1>1. CASE AnswersSubmitting(m)
  BY <1>1, BeliefUnchanged DEF Submit, AnswersSubmitting, actor, connection, pipes, codex, history, Believed
<1>2. CASE AnswersDuplicate(m)
  <2>1. /\ UNCHANGED <<task, order, items, link, snapshot, wire, answer, notices, taken, tried, blind, excused>>
        /\ receipts' = receipts \cup {m} /\ told' = told \cup {m}
        /\ taken[m] > 0
    BY <1>2 DEF Submit, AnswersDuplicate, TellAccepted, Delivered, BeliefIsTrue,
                actor, connection, pipes, codex, history
  <2>2. RequestIsFresh' /\ LinkTellsRequests' /\ UntriedIsNowhere' /\ LookedIsNowhere'
    BY <2>1 DEF RequestIsFresh, LinkTellsRequests, UntriedIsNowhere, LookedIsNowhere, Nowhere, Kept
  <2>3. BeliefIsTrue'
    BY <2>1 DEF BeliefIsTrue
  <2>4. KnowsTaken'
    BY <2>1 DEF KnowsTaken, IsKnown, Holds, Kept
  <2>5. QED BY <2>2, <2>3, <2>4 DEF Knowledge
<1>3. CASE StartsTask(m)
  <2>1. /\ UNCHANGED <<told, receipts, items, link, snapshot, wire, answer, notices, taken, tried, excused>>
        /\ task[m] = "none" /\ m \notin receipts \cup items
        /\ task'[m] = "queued" /\ \A x \in Messages \ {m} : task'[x] = task[x]
        /\ order' = Append(order, m)
    BY <1>3 DEF Submit, StartsTask, Delivered, actor, connection, pipes, codex
  <2>2. order # <<>> => order' # <<>> /\ Head(order') = Head(order)
    <3>1. order \in Seq(Messages) /\ order' = Append(order, m)
      BY <2>1
    <3> HIDE Unpacked
    <3>2. QED BY <3>1
  <2>3. order # <<>> => Head(order) \in Messages /\ task[Head(order)] # "none"
    <3> SUFFICES ASSUME order # <<>> PROVE Head(order) \in Messages /\ task[Head(order)] # "none"
      OBVIOUS
    <3>1. 1 \in DOMAIN order /\ Head(order) = order[1] /\ order[1] \in Messages
      OBVIOUS
    <3>2. QED BY <3>1 DEF LockOrder
  <2>4. RequestIsFresh' /\ LinkTellsRequests' /\ UntriedIsNowhere'
    BY <2>1 DEF RequestIsFresh, LinkTellsRequests, UntriedIsNowhere, Nowhere, Kept
  <2>5. BeliefIsTrue'
    BY <2>1, <2>2, <2>3 DEF BeliefIsTrue
  <2>6. KnowsTaken'
    BY <2>1, <2>2 DEF KnowsTaken, IsKnown, Holds, Kept
  <2>7. ASSUME m \in Kept, m \notin blind' PROVE Nowhere(m)
    <3>1. CASE m \notin tried
      BY <3>1 DEF UntriedIsNowhere
    <3>2. CASE m \in tried
      <4>1. link = "up"
        BY <1>3, <2>7, <3>2 DEF StartsTask
      <4>2. taken[m] = 0
        <5>1. ~IsKnown(m)
          BY <2>1, <2>3, <4>1 DEF IsKnown, Holds, BeliefIsTrue
        <5>2. QED BY <2>7, <4>1, <5>1 DEF KnowsTaken
      <4>3. ASSUME NEW r \in wire, r.msg = m PROVE FALSE
        <5>1. r.waited
          BY <2>7, <4>1, <4>3 DEF LinkTellsRequests
        <5>2. QED BY <2>1, <4>3, <5>1 DEF RequestOwner
      <4>4. QED BY <4>2, <4>3 DEF Nowhere
    <3>3. QED BY <3>1, <3>2
  <2>8. \A x \in Messages \ {m} : x \in blind' <=> x \in blind
    BY <1>3 DEF StartsTask
  <2>9. LookedIsNowhere'
    <3> SUFFICES ASSUME NEW x \in Kept', x \notin blind', task'[x] = "queued" PROVE Nowhere(x)'
      BY DEF LookedIsNowhere
    <3>1. x \in Kept
      BY <2>1 DEF Kept
    <3>2. Nowhere(x)
      BY <2>1, <2>7, <2>8, <3>1 DEF LookedIsNowhere, Kept
    <3>3. QED BY <2>1, <3>2 DEF Nowhere
  <2>10. QED BY <2>4, <2>5, <2>6, <2>9 DEF Knowledge
<1>4. QED BY <1>1, <1>2, <1>3 DEF Submit

(* A dispatched request is of a message that is nowhere yet, or excused. *)
LEMMA DispatchKeepsKnowledge ==
    ASSUME Believed, NEW m \in Messages, Dispatch(m)
    PROVE  Knowledge'
<1> USE Unpacked
<1> DEFINE q == Request(m, active, TRUE)
<1>1. /\ UNCHANGED <<told, order, receipts, items, link, snapshot, answer, notices, taken>>
      /\ Holds(m) /\ task[m] = "queued" /\ link \in {"up", "joining", "stale"}
      /\ task'[m] = "sent" /\ \A x \in Messages \ {m} : task'[x] = task[x]
      /\ wire' = wire \cup {q} /\ q.msg = m /\ q.waited
      /\ tried' = tried \cup {m} /\ blind' = blind \ {m} /\ excused' = excused \cup ({m} \cap blind)
  BY DEF Dispatch, Accepting, Request, browser, actor, connection, codex
<1>2. answer = "none"
  BY <1>1 DEF BeliefIsTrue, Holds
<1>3. Kept' \subseteq Kept /\ (m \in Kept' => m \notin blind)
  BY <1>1 DEF Kept
<1>4. m \in Kept' => Nowhere(m)
  BY <1>1, <1>3 DEF LookedIsNowhere
<1> HIDE DEF q
<1>5. RequestIsFresh'
  <2>1. ASSUME NEW p \in wire', NEW r \in wire', p.msg = r.msg, p.msg \in Kept' PROVE p = r
    BY <1>1, <1>3, <1>4, <2>1 DEF RequestIsFresh, Nowhere
  <2>2. ASSUME NEW r \in wire', r.msg \in Kept' PROVE taken'[r.msg] = 0
    BY <1>1, <1>3, <1>4, <2>2 DEF RequestIsFresh, Nowhere
  <2>3. QED BY <2>1, <2>2 DEF RequestIsFresh
<1>6. LinkTellsRequests'
  BY <1>1, <1>3 DEF LinkTellsRequests
<1>7. BeliefIsTrue'
  BY <1>1, <1>2 DEF BeliefIsTrue
<1>8. KnowsTaken'
  BY <1>1, <1>2, <1>3 DEF KnowsTaken, IsKnown
<1>9. UntriedIsNowhere'
  BY <1>1 DEF UntriedIsNowhere, Nowhere
<1>10. LookedIsNowhere'
  <2> SUFFICES ASSUME NEW x \in Kept', x \notin blind', task'[x] = "queued" PROVE Nowhere(x)'
    BY DEF LookedIsNowhere
  <2>1. x # m /\ x \in Kept /\ x \in Messages /\ task[x] = "queued" /\ x \notin blind
    BY <1>1, <1>3 DEF Kept
  <2>2. Nowhere(x)
    BY <2>1 DEF LookedIsNowhere
  <2>3. QED BY <1>1, <2>1, <2>2 DEF Nowhere
<1>11. QED BY <1>5, <1>6, <1>7, <1>8, <1>9, <1>10 DEF Knowledge

(* Release as far as knowledge is concerned. *)
LEMMA ReleaseFacts ==
    ASSUME Believed, NEW m \in Messages, Holds(m), Release(m)
    PROVE  /\ task'[m] = "none" /\ \A x \in Messages \ {m} : task'[x] = task[x]
           /\ answer' = "none"
BY Unpacked DEF Release

(* A failure believes nothing new. *)
LEMMA FailKeepsKnowledge ==
    ASSUME Believed, NEW m \in Messages, Refused(m) \/ Rejected(m)
    PROVE  Knowledge'
<1> USE Unpacked
<1>1. /\ UNCHANGED <<told, receipts, items, link, snapshot, wire, notices, taken, tried, blind, excused>>
      /\ Holds(m) /\ Release(m) /\ answer # "taken"
  BY DEF Refused, Rejected, Fail, BeliefIsTrue, Holds, actor, connection, codex, history
<1>2. /\ task'[m] = "none" /\ \A x \in Messages \ {m} : task'[x] = task[x]
      /\ answer' = "none"
  BY <1>1, ReleaseFacts
<1>3. RequestIsFresh' /\ LinkTellsRequests' /\ UntriedIsNowhere' /\ LookedIsNowhere'
  BY <1>1, <1>2 DEF RequestIsFresh, LinkTellsRequests, UntriedIsNowhere, LookedIsNowhere, Nowhere, Kept
<1>4. BeliefIsTrue'
  BY <1>1, <1>2 DEF BeliefIsTrue
<1>5. KnowsTaken'
  BY <1>1, <1>2 DEF KnowsTaken, IsKnown, Kept
<1>6. QED BY <1>3, <1>4, <1>5 DEF Knowledge

(* An answer to the awaited request says its message was taken. *)
LEMMA SuccessKeepsKnowledge ==
    ASSUME Believed, NEW m \in Messages, Succeeds(m)
    PROVE  Knowledge'
<1> USE Unpacked
<1>1. /\ UNCHANGED <<items, link, snapshot, wire, notices, taken, tried, blind, excused>>
      /\ Holds(m) /\ Release(m) /\ answer = "taken"
      /\ receipts' = receipts \cup {m} /\ told' \subseteq told \cup {m}
  BY DEF Succeeds, TellAccepted, browser, actor, connection, codex, history
<1>2. /\ task'[m] = "none" /\ \A x \in Messages \ {m} : task'[x] = task[x]
      /\ answer' = "none"
  BY <1>1, ReleaseFacts
<1>3. taken[m] > 0
  BY <1>1 DEF BeliefIsTrue, Holds
<1>4. RequestIsFresh' /\ LinkTellsRequests' /\ UntriedIsNowhere' /\ LookedIsNowhere'
  BY <1>1, <1>2 DEF RequestIsFresh, LinkTellsRequests, UntriedIsNowhere, LookedIsNowhere, Nowhere, Kept
<1>5. BeliefIsTrue'
  BY <1>1, <1>2, <1>3 DEF BeliefIsTrue
<1>6. KnowsTaken'
  BY <1>1, <1>2 DEF KnowsTaken, IsKnown, Holds, Kept
<1>7. QED BY <1>4, <1>5, <1>6 DEF Knowledge

(* Abandoning requests changes neither their number nor their messages. *)
LEMMA AbandonedIsFresh ==
    ASSUME Believed, wire' = Abandoned(wire), UNCHANGED taken, excused \subseteq excused'
    PROVE  /\ RequestIsFresh'
           /\ \A r \in wire' : \E q \in wire : r.msg = q.msg
<1> USE Unpacked
<1>1. \A r \in wire' : \E q \in wire : r = [q EXCEPT !.waited = FALSE] /\ r.msg = q.msg
  BY DEF Abandoned, Requests
<1>2. Kept' \subseteq Kept
  BY DEF Kept
<1>3. ASSUME NEW p \in wire', NEW r \in wire', p.msg = r.msg, p.msg \in Kept' PROVE p = r
  <2>1. PICK a \in wire : p = [a EXCEPT !.waited = FALSE] /\ p.msg = a.msg
    BY <1>1
  <2>2. PICK b \in wire : r = [b EXCEPT !.waited = FALSE] /\ r.msg = b.msg
    BY <1>1
  <2>3. a = b
    BY <1>2, <1>3, <2>1, <2>2 DEF RequestIsFresh
  <2>4. QED BY <2>1, <2>2, <2>3
<1>4. \A r \in wire' : r.msg \in Kept' => taken'[r.msg] = 0
  BY <1>1, <1>2 DEF RequestIsFresh
<1>5. QED BY <1>1, <1>3, <1>4 DEF RequestIsFresh

(* What is nowhere stays so while requests are abandoned. *)
LEMMA AbandonedIsNowhere ==
    ASSUME Believed, wire' = Abandoned(wire), UNCHANGED taken, excused \subseteq excused'
    PROVE  \A m \in Messages : Nowhere(m) => Nowhere(m)'
BY AbandonedIsFresh DEF Nowhere

(* A timeout restarts the worker, or its message is excused. *)
LEMMA TimeoutKeepsKnowledge ==
    ASSUME Believed, NEW m \in Messages, TimesOut(m)
    PROVE  Knowledge'
<1> USE Unpacked
<1>1. /\ UNCHANGED <<told, receipts, items, snapshot, notices, taken, tried, blind>>
      /\ Holds(m) /\ Release(m) /\ task[m] = "sent"
      /\ wire' = Abandoned(wire)
      /\ link' = IF link = "up" THEN "killing" ELSE link
      /\ excused' = IF link = "up" THEN excused ELSE excused \cup {m}
  BY DEF TimesOut, Fail, actor, codex
<1>2. /\ task'[m] = "none" /\ \A x \in Messages \ {m} : task'[x] = task[x]
      /\ answer' = "none"
  BY <1>1, ReleaseFacts
<1>3. answer = "none"
  BY DEF TimesOut
<1>4. \A x \in Messages : task'[x] # "sent"
  BY <1>1, <1>2 DEF LockOrder, Holds
<1>5. excused \subseteq excused' /\ Kept' \subseteq Kept /\ (link' # "killing" => m \notin Kept')
  BY <1>1 DEF Kept
<1>6. RequestIsFresh' /\ \A r \in wire' : \E q \in wire : r.msg = q.msg
  BY <1>1, <1>5, AbandonedIsFresh
<1>7. \A x \in Messages : Nowhere(x) => Nowhere(x)'
  BY <1>1, <1>5, AbandonedIsNowhere
<1>8. ASSUME link' \in {"up", "joining", "stale"}, NEW r \in wire', r.msg \in Kept' PROVE FALSE
  <2>1. link' = link /\ link \in {"joining", "stale"} /\ r.msg # m
    BY <1>1, <1>5, <1>8
  <2>2. PICK q \in wire : r.msg = q.msg
    BY <1>6
  <2>3. q.waited
    BY <1>5, <1>8, <2>1, <2>2 DEF LinkTellsRequests
  <2>4. task[q.msg] = "sent" /\ q.msg \in Messages
    BY <2>3, RequestHasMessage DEF RequestOwner
  <2>5. q.msg = m
    BY <1>1, <2>4 DEF LockOrder, Holds
  <2>6. QED BY <2>1, <2>2, <2>5
<1>9. LinkTellsRequests'
  BY <1>4, <1>8 DEF LinkTellsRequests
<1>10. BeliefIsTrue'
  BY <1>1, <1>2 DEF BeliefIsTrue
<1>11. KnowsTaken'
  BY <1>1, <1>3, <1>5 DEF KnowsTaken, IsKnown
<1>12. UntriedIsNowhere'
  BY <1>1, <1>7 DEF UntriedIsNowhere
<1>13. LookedIsNowhere'
  BY <1>1, <1>2, <1>5, <1>7 DEF LookedIsNowhere, Kept
<1>14. QED BY <1>6, <1>9, <1>10, <1>11, <1>12, <1>13 DEF Knowledge

(* The end of a turn takes no message. *)
LEMMA TurnEndKeepsKnowledge ==
    ASSUME Believed, TurnEnds
    PROVE  Knowledge'
<1> USE Unpacked
<1>1. /\ UNCHANGED <<told, task, order, receipts, items, link, snapshot, wire, answer, taken, tried, blind, excused>>
      /\ notices' = notices \/ notices' = Append(notices, Ended(turn))
  BY DEF TurnEnds, Publish, browser, sends, actor, connection, history
<1>2. RequestIsFresh' /\ LinkTellsRequests' /\ KnowsTaken' /\ UntriedIsNowhere' /\ LookedIsNowhere'
  BY <1>1 DEF RequestIsFresh, LinkTellsRequests, KnowsTaken, IsKnown, Holds, Kept,
              UntriedIsNowhere, LookedIsNowhere, Nowhere
<1>3. Ended(turn).kind # "item/completed"
  BY DEF Ended
<1>4. \A i \in DOMAIN notices' :
          notices'[i] = Ended(turn) \/ (i \in DOMAIN notices /\ notices'[i] = notices[i])
  <2>1. CASE notices' = notices
    BY <2>1
  <2>2. CASE notices' = Append(notices, Ended(turn))
    BY <2>2
  <2>3. QED BY <1>1, <2>1, <2>2
<1>5. BeliefIsTrue'
  BY <1>1, <1>3, <1>4 DEF BeliefIsTrue
<1>6. QED BY <1>2, <1>5 DEF Knowledge

(* A user message reported by Codex was taken. *)
LEMMA NoticeKeepsKnowledge ==
    ASSUME Believed, Notice
    PROVE  Knowledge'
<1> USE Unpacked
<1> DEFINE n == Head(notices)
<1>1. /\ UNCHANGED <<told, task, order, receipts, link, snapshot, wire, answer, taken, tried, blind, excused>>
      /\ notices # <<>> /\ notices' = Tail(notices)
  BY DEF Notice, browser, sends, connection, codex, history
<1>2. n \in Notifications /\ n = notices[1] /\ 1 \in DOMAIN notices
  BY <1>1
<1>3. items' = items \/ (n.kind = "item/completed" /\ items' = items \cup {n.msg})
  <2>1. n.kind \in {"turn/started", "turn/completed", "item/completed"}
    BY <1>2 DEF Notifications
  <2>2. QED BY <2>1 DEF Notice
<1>4. \A i \in DOMAIN notices' : i + 1 \in DOMAIN notices /\ notices'[i] = notices[i + 1]
  BY <1>1
<1>5. \A m \in items' : taken[m] > 0
  BY <1>2, <1>3 DEF BeliefIsTrue
<1>6. BeliefIsTrue'
  BY <1>1, <1>4, <1>5 DEF BeliefIsTrue
<1>7. RequestIsFresh' /\ LinkTellsRequests' /\ UntriedIsNowhere' /\ LookedIsNowhere'
  BY <1>1 DEF RequestIsFresh, LinkTellsRequests, Kept, UntriedIsNowhere, LookedIsNowhere, Nowhere
<1>8. KnowsTaken'
  <2>1. items \subseteq items'
    BY <1>3
  <2>2. QED BY <1>1, <2>1 DEF KnowsTaken, IsKnown, Holds, Kept
<1>9. QED BY <1>6, <1>7, <1>8 DEF Knowledge

(* Codex takes the message of a request; one that is not excused it did    *)
(* not take before.                                                        *)
LEMMA TakeKeepsKnowledge ==
    ASSUME Believed, NEW r \in wire, CodexTakes(r)
    PROVE  Knowledge'
<1> USE Unpacked
<1> DEFINE m == r.msg
<1>1. /\ UNCHANGED <<told, task, order, receipts, items, link, snapshot, tried, blind, excused>>
      /\ wire' = wire \ {r} /\ taken' = [taken EXCEPT ![m] = @ + 1]
      /\ answer' = IF r.waited THEN "taken" ELSE answer
      /\ \/ notices' = notices
         \/ notices' = notices \o <<Said(m)>>
         \/ notices' = notices \o <<Started(turn'), Said(m)>>
  BY DEF CodexTakes, Publish, browser, sends, actor, connection, history
<1>2. m \in Messages /\ taken[m] \in Nat
  BY RequestHasMessage
<1>3. /\ taken' \in [Messages -> Nat] /\ taken'[m] > 0
      /\ \A x \in Messages \ {m} : taken'[x] = taken[x]
      /\ \A x \in Messages : taken[x] > 0 => taken'[x] > 0
  BY <1>1, <1>2
<1>4. r.waited => Holds(m) /\ task[m] = "sent" /\ answer = "none"
  BY <1>2 DEF LockOrder, RequestOwner
<1>5. Kept' = Kept
  BY <1>1 DEF Kept
<1>6. \A q \in wire' : q \in wire /\ q.msg \in Messages /\ (q.msg \in Kept => q.msg # m)
  BY <1>1, RequestHasMessage DEF RequestIsFresh
<1>7. RequestIsFresh'
  BY <1>3, <1>5, <1>6 DEF RequestIsFresh
<1>8. LinkTellsRequests'
  BY <1>1, <1>5, <1>6 DEF LinkTellsRequests
<1>9. BeliefIsTrue'
  <2>1. \A x \in receipts' \cup items' \cup told' \cup snapshot'.items : taken'[x] > 0
    BY <1>1, <1>3 DEF BeliefIsTrue
  <2>2. \A i \in DOMAIN notices' :
            \/ notices'[i] \in {Said(m), Started(turn')}
            \/ i \in DOMAIN notices /\ notices'[i] = notices[i]
    <3>1. CASE notices' = notices
      BY <3>1
    <3>2. CASE notices' = notices \o <<Said(m)>>
      BY <3>2
    <3>3. CASE notices' = notices \o <<Started(turn'), Said(m)>>
      BY <3>3
    <3>4. QED BY <1>1, <3>1, <3>2, <3>3
  <2>3. Said(m).msg = m /\ Started(turn').kind # "item/completed"
    BY DEF Said, Started
  <2>4. \A i \in DOMAIN notices : notices[i].kind = "item/completed" => notices[i].msg \in Messages
    BY DEF Notifications
  <2>5. ASSUME NEW i \in DOMAIN notices', notices'[i].kind = "item/completed"
        PROVE  taken'[notices'[i].msg] > 0
    BY <1>3, <2>2, <2>3, <2>4, <2>5 DEF BeliefIsTrue
  <2>6. answer' # "none" => order' # <<>> /\ task'[Head(order')] = "sent"
    BY <1>1, <1>4 DEF BeliefIsTrue, Holds
  <2>7. answer' = "taken" => taken'[Head(order')] > 0
    <3>1. order # <<>> => Head(order) \in Messages
      OBVIOUS
    <3>2. CASE r.waited
      BY <3>2, <1>1, <1>3, <1>4 DEF Holds
    <3>3. CASE ~r.waited
      BY <3>1, <3>3, <1>1, <1>3 DEF BeliefIsTrue
    <3>4. QED BY <3>2, <3>3
  <2>8. QED BY <2>1, <2>5, <2>6, <2>7 DEF BeliefIsTrue
<1>10. KnowsTaken'
  <2> SUFFICES ASSUME NEW x \in Kept', taken'[x] > 0, link' \in {"up", "joining"}
               PROVE  IsKnown(x)'
    BY DEF KnowsTaken
  <2>1. CASE x = m
    <3>1. r.waited
      BY <1>1, <1>5, <2>1 DEF LinkTellsRequests
    <3>2. QED BY <1>1, <1>4, <2>1, <3>1 DEF IsKnown, Holds
  <2>2. CASE x # m
    <3>1. IsKnown(x)
      BY <1>1, <1>3, <1>5, <2>2 DEF KnowsTaken, Kept
    <3>2. answer = "taken" => answer' = "taken"
      BY <1>1
    <3>3. QED BY <1>1, <3>1, <3>2 DEF IsKnown, Holds
  <2>3. QED BY <2>1, <2>2
<1>11. \A x \in Messages : x # m /\ Nowhere(x) => Nowhere(x)'
  BY <1>1, <1>3 DEF Nowhere
<1>12. ~Nowhere(m)
  BY DEF Nowhere
<1>13. UntriedIsNowhere'
  BY <1>1, <1>11, <1>12 DEF UntriedIsNowhere
<1>14. LookedIsNowhere'
  BY <1>1, <1>5, <1>11, <1>12 DEF LookedIsNowhere, Kept
<1>15. QED BY <1>7, <1>8, <1>9, <1>10, <1>13, <1>14 DEF Knowledge

(* A rejected request was not taken. *)
LEMMA RejectKeepsKnowledge ==
    ASSUME Believed, NEW r \in wire, CodexRejects(r)
    PROVE  Knowledge'
<1> USE Unpacked
<1>1. /\ UNCHANGED <<told, task, order, receipts, items, link, snapshot, notices, taken, tried, blind, excused>>
      /\ wire' = wire \ {r} /\ answer' = IF r.waited THEN "rejected" ELSE answer
  BY DEF CodexRejects, browser, sends, actor, connection, codex, history
<1>2. r.msg \in Messages
  BY RequestHasMessage
<1>3. r.waited => Holds(r.msg) /\ task[r.msg] = "sent" /\ answer = "none"
  BY <1>2 DEF LockOrder, RequestOwner
<1>4. RequestIsFresh' /\ LinkTellsRequests' /\ UntriedIsNowhere' /\ LookedIsNowhere'
  BY <1>1 DEF RequestIsFresh, LinkTellsRequests, UntriedIsNowhere, LookedIsNowhere, Nowhere, Kept
<1>5. BeliefIsTrue'
  BY <1>1, <1>3 DEF BeliefIsTrue, Holds
<1>6. KnowsTaken'
  BY <1>1, <1>3 DEF KnowsTaken, IsKnown, Holds, Kept
<1>7. QED BY <1>4, <1>5, <1>6 DEF Knowledge

(* A lost connection abandons its request. *)
LEMMA LossKeepsKnowledge ==
    ASSUME Believed, ConnectionLost
    PROVE  Knowledge'
<1> USE Unpacked
<1>1. /\ UNCHANGED <<told, receipts, items, taken, tried, blind, excused>>
      /\ link' = "lost" /\ wire' = Abandoned(wire) /\ notices' = <<>> /\ snapshot'.items = {}
  BY DEF ConnectionLost, Fail, browser, sends, actor, codex, history, NoThread
<1>2. /\ answer' = "none" /\ \A x \in Messages : task'[x] # "sent"
      /\ \A x \in Messages : task'[x] = "queued" => task[x] = "queued"
  <2>1. CASE \E m \in Messages : Holds(m) /\ task[m] = "sent"
    <3>1. PICK m \in Messages : Holds(m) /\ task[m] = "sent"
      BY <2>1
    <3>2. Release(m)
      BY <2>1, <3>1 DEF ConnectionLost, Fail, Holds
    <3>3. /\ task'[m] = "none" /\ \A x \in Messages \ {m} : task'[x] = task[x]
          /\ answer' = "none"
      BY <3>1, <3>2, ReleaseFacts
    <3>4. \A x \in Messages \ {m} : task[x] # "sent"
      BY <3>1 DEF LockOrder, Holds
    <3>5. QED BY <3>3, <3>4
  <2>2. CASE ~ \E m \in Messages : Holds(m) /\ task[m] = "sent"
    BY <2>2 DEF ConnectionLost, sends, LockOrder, RequestOwner
  <2>3. QED BY <2>1, <2>2
<1>3. RequestIsFresh' /\ \A x \in Messages : Nowhere(x) => Nowhere(x)'
  BY <1>1, AbandonedIsFresh, AbandonedIsNowhere
<1>4. LinkTellsRequests' /\ BeliefIsTrue' /\ KnowsTaken'
  BY <1>1, <1>2 DEF LinkTellsRequests, BeliefIsTrue, KnowsTaken
<1>5. UntriedIsNowhere' /\ LookedIsNowhere'
  BY <1>1, <1>2, <1>3 DEF UntriedIsNowhere, LookedIsNowhere, Kept
<1>6. QED BY <1>3, <1>4, <1>5 DEF Knowledge

(* The snapshot of a new connection holds what was taken. *)
LEMMA ReconnectKeepsKnowledge ==
    ASSUME Believed, Reconnects
    PROVE  Knowledge'
<1> USE Unpacked
<1>1. /\ UNCHANGED <<told, task, order, receipts, items, answer, taken, tried, blind, excused>>
      /\ link \notin {"up", "joining", "stale"} /\ link' = "joining" /\ wire' = {} /\ notices' = <<>>
      /\ snapshot'.items = {m \in Messages : taken[m] > 0}
  BY DEF Reconnects, browser, sends, actor, history
<1>2. RequestIsFresh' /\ LinkTellsRequests' /\ UntriedIsNowhere' /\ LookedIsNowhere'
  BY <1>1 DEF RequestIsFresh, LinkTellsRequests, UntriedIsNowhere, LookedIsNowhere, Nowhere, Kept
<1>3. BeliefIsTrue'
  BY <1>1 DEF BeliefIsTrue
<1>4. KnowsTaken'
  BY <1>1 DEF KnowsTaken, IsKnown, Kept
<1>5. QED BY <1>2, <1>3, <1>4 DEF Knowledge

(* Without a hydration the Owner knows what it knew. *)
LEMMA FailedResumeKeepsKnowledge ==
    ASSUME Believed, ResumeFails
    PROVE  Knowledge'
<1> USE Unpacked
<1>1. /\ UNCHANGED <<told, task, order, receipts, items, wire, answer, notices, taken, tried, blind, excused>>
      /\ link = "joining" /\ link' = "stale" /\ snapshot'.items = {}
  BY DEF ResumeFails, NoThread, browser, sends, actor, pipes, codex, history
<1>2. RequestIsFresh' /\ LinkTellsRequests' /\ UntriedIsNowhere' /\ LookedIsNowhere'
  BY <1>1 DEF RequestIsFresh, LinkTellsRequests, UntriedIsNowhere, LookedIsNowhere, Nowhere, Kept
<1>3. BeliefIsTrue' /\ KnowsTaken'
  BY <1>1 DEF BeliefIsTrue, KnowsTaken
<1>4. QED BY <1>2, <1>3 DEF Knowledge

(* Hydration hands on what the snapshot knew. *)
LEMMA HydrationKeepsKnowledge ==
    ASSUME Believed, Hydrates
    PROVE  Knowledge'
<1> USE Unpacked
<1>1. /\ UNCHANGED <<told, task, order, receipts, wire, answer, notices, taken, tried, blind, excused>>
      /\ link = "joining" /\ link' = "up" /\ snapshot'.items = {}
      /\ items' = items \cup snapshot.items
  BY DEF Hydrates, NoThread, browser, sends, pipes, codex, history
<1>2. RequestIsFresh' /\ LinkTellsRequests' /\ UntriedIsNowhere' /\ LookedIsNowhere'
  BY <1>1 DEF RequestIsFresh, LinkTellsRequests, UntriedIsNowhere, LookedIsNowhere, Nowhere, Kept
<1>3. BeliefIsTrue'
  BY <1>1 DEF BeliefIsTrue
<1>4. KnowsTaken'
  BY <1>1 DEF KnowsTaken, IsKnown, Holds, Kept
<1>5. QED BY <1>2, <1>3, <1>4 DEF Knowledge

(* A restarted Owner believes nothing. *)
LEMMA RestartKeepsKnowledge ==
    ASSUME Believed, OwnerRestarts
    PROVE  Knowledge'
<1> USE Unpacked
<1>1. /\ UNCHANGED <<told, taken, tried, excused>>
      /\ receipts' = {} /\ items' = {} /\ answer' = "none" /\ notices' = <<>> /\ snapshot'.items = {}
      /\ task' = [m \in Messages |-> "none"]
      /\ link' = "lost" /\ wire' = Abandoned(wire)
  BY DEF OwnerRestarts, NoThread, codex
<1>2. RequestIsFresh' /\ \A x \in Messages : Nowhere(x) => Nowhere(x)'
  BY <1>1, AbandonedIsFresh, AbandonedIsNowhere
<1>3. LinkTellsRequests' /\ BeliefIsTrue' /\ KnowsTaken'
  BY <1>1 DEF LinkTellsRequests, BeliefIsTrue, KnowsTaken
<1>4. UntriedIsNowhere' /\ LookedIsNowhere'
  BY <1>1, <1>2 DEF UntriedIsNowhere, LookedIsNowhere, Kept
<1>5. QED BY <1>2, <1>3, <1>4 DEF Knowledge

(* Every step keeps what the Owner knows true. *)
LEMMA KnowledgeStep == Believed /\ [Next]_vars => Knowledge'
<1> SUFFICES ASSUME Believed, [Next]_vars PROVE Knowledge'
  OBVIOUS
<1>1. ASSUME NEW m \in Messages, Browser(m) PROVE Knowledge'
  <2>1. CASE AckWaitEnds(m) \/ ReplyLost(m)
    BY <2>1, BeliefUnchanged DEF AckWaitEnds, ReplyLost, Believed, sends, actor, connection, pipes, codex, history
  <2>2. QED BY <1>1, <2>1, SubmitKeepsKnowledge DEF Browser
<1>2. ASSUME NEW m \in Messages, Send(m) PROVE Knowledge'
  BY <1>2, DispatchKeepsKnowledge, FailKeepsKnowledge, SuccessKeepsKnowledge, TimeoutKeepsKnowledge DEF Send
<1>3. CASE Codex
  BY <1>3, TakeKeepsKnowledge, RejectKeepsKnowledge, TurnEndKeepsKnowledge DEF Codex
<1>4. CASE UNCHANGED vars
  BY <1>4, BeliefUnchanged DEF vars, browser, sends, actor, connection, pipes, codex, history, Believed
<1>5. QED
  BY <1>1, <1>2, <1>3, <1>4, NoticeKeepsKnowledge, ReconnectKeepsKnowledge, FailedResumeKeepsKnowledge,
     HydrationKeepsKnowledge, LossKeepsKnowledge, RestartKeepsKnowledge DEF Next

(* The inductive invariant holds. *)
LEMMA AlwaysBelieved == Spec => []Believed
<1>1. Init => Believed
  <2> SUFFICES ASSUME Init PROVE Believed
    OBVIOUS
  <2>1. TypeOK /\ OneSendAtATime
    <3>1. TypeOK
      BY InitTypes
    <3>2. OneSendAtATime
      BY DEF Init, OneSendAtATime, LockOrder, RequestOwner
    <3>3. QED BY <3>1, <3>2
  <2>2. RequestIsFresh /\ LinkTellsRequests /\ BeliefIsTrue
    BY DEF Init, RequestIsFresh, LinkTellsRequests, BeliefIsTrue, NoThread
  <2>3. KnowsTaken /\ UntriedIsNowhere /\ LookedIsNowhere
    BY DEF Init, KnowsTaken, UntriedIsNowhere, LookedIsNowhere, Nowhere, Kept
  <2>4. QED BY <2>1, <2>2, <2>3 DEF Believed, Knowledge
<1>2. Believed /\ [Next]_vars => Believed'
  BY TypeStep, LockStep, KnowledgeStep DEF Believed
<1>3. QED BY <1>1, <1>2, PTL DEF Spec

-----------------------------------------------------------------------------
(* The refinement: Codex's step is Take, the two answers that mean         *)
(* "delivered" are Tell, a send on a stale look and a timeout while the    *)
(* session joins may be Excuse, and no other step shows.                   *)

(* Codex taking a request's message is the promise's Take. *)
LEMMA TakeRefines ==
    ASSUME Believed, NEW r \in wire, CodexTakes(r)
    PROVE  Promise!Take
<1> USE Unpacked
<1>1. taken' = [taken EXCEPT ![r.msg] = @ + 1] /\ told' = told /\ excused' = excused
  BY DEF CodexTakes, browser, history
<1>2. r.msg \in Messages /\ (r.msg \notin excused => taken[r.msg] = 0)
  BY RequestHasMessage DEF RequestIsFresh, Kept
<1>3. /\ taken' \in [Messages -> Nat] /\ taken'[r.msg] = taken[r.msg] + 1
      /\ \A m \in Messages \ {r.msg} : taken'[m] = taken[m]
  BY <1>1, <1>2
<1>4. \A m \in Messages : taken[m] <= taken'[m]
  <2> TAKE m \in Messages
  <2>1. taken[m] \in Nat
    OBVIOUS
  <2>2. CASE m = r.msg
    BY <2>1, <2>2, <1>3
  <2>3. CASE m # r.msg
    BY <2>1, <2>3, <1>3
  <2>4. QED BY <2>2, <2>3
<1>5. \A m \in Messages \ excused : taken'[m] = taken[m] \/ (taken[m] = 0 /\ taken'[m] = 1)
  BY <1>2, <1>3
<1>6. QED BY <1>1, <1>3, <1>4, <1>5 DEF Promise!Take

(* A receipt that says delivered is the promise's Tell. *)
LEMMA TellRefines ==
    ASSUME NEW m \in Messages, taken[m] > 0, told' = told \cup {m}, UNCHANGED <<taken, excused>>
    PROVE  Promise!Tell(m)
BY DEF Promise!Tell

(* A message that is excused from now on is the promise's Excuse. *)
LEMMA ExcuseRefines ==
    ASSUME Believed, NEW more \in SUBSET Messages, excused' = excused \cup more, UNCHANGED <<taken, told>>
    PROVE  Promise!Excuse
BY Unpacked DEF Promise!Excuse

(* Every step is one of the three or a stutter of the promise. *)
LEMMA StepRefines ==
    Believed /\ [Next]_vars => [Promise!Next]_(Promise!vars)
<1> SUFFICES ASSUME Believed, [Next]_vars PROVE [Promise!Next]_(Promise!vars)
  OBVIOUS
<1> USE Unpacked
<1>1. ASSUME UNCHANGED <<taken, told, excused>> PROVE UNCHANGED Promise!vars
  BY <1>1 DEF Promise!vars
<1>2. ASSUME NEW m \in Messages, Submit(m) PROVE [Promise!Next]_(Promise!vars)
  <2>1. CASE AnswersDuplicate(m)
    <3>1. taken[m] > 0 /\ told' = told \cup {m} /\ UNCHANGED <<taken, excused>>
      BY <1>2, <2>1 DEF Submit, AnswersDuplicate, TellAccepted, Delivered, BeliefIsTrue, codex, history
    <3>2. QED BY <3>1, TellRefines DEF Promise!Next
  <2>2. CASE AnswersSubmitting(m) \/ StartsTask(m)
    BY <1>1, <1>2, <2>2 DEF Submit, AnswersSubmitting, StartsTask, codex, history
  <2>3. QED BY <1>2, <2>1, <2>2 DEF Submit
<1>3. ASSUME NEW m \in Messages, Succeeds(m) PROVE [Promise!Next]_(Promise!vars)
  <2>1. CASE draft[m] = "sending"
    <3>1. taken[m] > 0 /\ told' = told \cup {m} /\ UNCHANGED <<taken, excused>>
      BY <1>3, <2>1 DEF Succeeds, TellAccepted, BeliefIsTrue, Holds, codex, history
    <3>2. QED BY <3>1, TellRefines DEF Promise!Next
  <2>2. CASE draft[m] # "sending"
    BY <1>1, <1>3, <2>2 DEF Succeeds, browser, codex, history
  <2>3. QED BY <2>1, <2>2
<1>4. ASSUME NEW r \in wire, CodexTakes(r) PROVE [Promise!Next]_(Promise!vars)
  BY <1>4, TakeRefines DEF Promise!Next
<1>5. ASSUME NEW m \in Messages, Dispatch(m) PROVE [Promise!Next]_(Promise!vars)
  <2>1. excused' = excused \cup ({m} \cap blind) /\ UNCHANGED <<taken, told>>
    BY <1>5 DEF Dispatch, browser, codex
  <2>2. {m} \cap blind \in SUBSET Messages
    OBVIOUS
  <2>3. QED BY <2>1, <2>2, ExcuseRefines DEF Promise!Next
<1>6. ASSUME NEW m \in Messages, TimesOut(m) PROVE [Promise!Next]_(Promise!vars)
  <2>1. UNCHANGED <<taken, told>>
    BY <1>6 DEF TimesOut, Fail, codex
  <2>2. PICK more \in SUBSET Messages : excused' = excused \cup more
    <3>1. CASE link = "up"
      <4>1. {} \in SUBSET Messages /\ excused' = excused \cup {}
        BY <1>6, <3>1 DEF TimesOut
      <4>2. QED BY <4>1
    <3>2. CASE link # "up"
      <4>1. {m} \in SUBSET Messages /\ excused' = excused \cup {m}
        BY <1>6, <3>2 DEF TimesOut
      <4>2. QED BY <4>1
    <3>3. QED BY <3>1, <3>2
  <2>3. QED BY <2>1, <2>2, ExcuseRefines DEF Promise!Next
<1>7. ASSUME NEW m \in Messages, AckWaitEnds(m) \/ ReplyLost(m) \/ Refused(m) \/ Rejected(m)
      PROVE  [Promise!Next]_(Promise!vars)
  BY <1>1, <1>7 DEF AckWaitEnds, ReplyLost, Refused, Rejected, Fail, browser, codex, history
<1>8. ASSUME NEW r \in wire, CodexRejects(r) PROVE [Promise!Next]_(Promise!vars)
  BY <1>1, <1>8 DEF CodexRejects, browser, codex, history
<1>9. CASE TurnEnds \/ Notice \/ Reconnects \/ ResumeFails \/ Hydrates \/ OwnerRestarts \/ UNCHANGED vars
  <2>1. UNCHANGED <<taken, told, excused>>
    BY <1>9 DEF TurnEnds, Notice, Reconnects, ResumeFails, Hydrates, OwnerRestarts, vars, browser, codex, history
  <2>2. QED BY <1>1, <2>1
<1>10. CASE ConnectionLost
  BY <1>1, <1>10 DEF ConnectionLost, Fail, browser, codex, history
<1>11. QED
  BY <1>2, <1>3, <1>4, <1>5, <1>6, <1>7, <1>8, <1>9, <1>10 DEF Next, Browser, Send, Codex

(* The send path implements ReliableDelivery: a message is taken at most   *)
(* once and no final receipt precedes it, whatever breaks, unless it was   *)
(* sent again on a look at an actor out of touch or timed out while the    *)
(* session joined.                                                         *)
THEOREM SendsKeepThePromise == Spec => KeepsPromise
<1>1. Init => Promise!Init
  BY DEF Init, Promise!Init
<1>2. QED BY <1>1, AlwaysBelieved, StepRefines, PTL DEF Spec, KeepsPromise, Promise!Spec

(* So no message that is not excused becomes two user messages. *)
THEOREM KeptNeverTwice == Spec => [](\A m \in Kept : taken[m] <= 1)
<1> DEFINE Once == \A m \in Kept : taken[m] <= 1
<1>1. Init => Once
  <2> SUFFICES ASSUME Init, NEW m \in Kept PROVE taken[m] <= 1
    OBVIOUS
  <2>1. taken[m] = 0
    BY DEF Init, Kept
  <2>2. QED BY <2>1
<1>2. Believed /\ Once /\ [Next]_vars => Once'
  <2> SUFFICES ASSUME Believed, Once, [Promise!Next]_(Promise!vars), NEW m \in Kept'
               PROVE  taken'[m] <= 1
    BY StepRefines
  <2>1. CASE Promise!Take
    <3>1. m \in Kept /\ m \in Messages \ excused /\ taken[m] <= 1
      BY <2>1 DEF Promise!Take, Kept
    <3>2. taken'[m] = taken[m] \/ (taken[m] = 0 /\ taken'[m] = 1)
      BY <2>1, <3>1 DEF Promise!Take
    <3>3. QED BY <3>1, <3>2
  <2>2. CASE Promise!Excuse \/ UNCHANGED Promise!vars \/ \E x \in Messages : Promise!Tell(x)
    <3>1. UNCHANGED taken /\ excused \subseteq excused'
      BY <2>2 DEF Promise!Excuse, Promise!vars, Promise!Tell
    <3>2. QED BY <3>1 DEF Kept
  <2>3. QED BY <2>1, <2>2 DEF Promise!Next
<1>3. QED BY <1>1, <1>2, AlwaysBelieved, PTL DEF Spec
=============================================================================
