---------------------------- MODULE Interactions ----------------------------
(***************************************************************************)
(* One Codex App Server session and the people who answer it: the requests *)
(* Codex makes (approvals, questions), the slash commands a browser        *)
(* starts, the pickers some of them open, the one sheet the session shows, *)
(* and the sheets other tabs still hold.                                   *)
(*                                                                         *)
(* An interaction is named by what it is for: a request, or the command    *)
(* that opened the picker.  Ids are random in the code and never reused.   *)
(*                                                                         *)
(* Every answer of a browser carries a new client request id, so the       *)
(* receipts of answers change nothing here.  Commands are the durable ones *)
(* (/usage and a bare /goal leave no row), and a command's id and text     *)
(* belong together.                                                        *)
(***************************************************************************)
EXTENDS Naturals

CONSTANTS
    Requests,       \* requests Codex may make
    Uncancellable,  \* the requests among them without a declining decision (permissions)
    Direct,         \* commands that change a setting at once: /fast, /rename, /compact
    Pickers,        \* commands that open a picker: /model, /permissions
    MaxAnswers,     \* bound on the answers to one picker that are in flight
    None

Commands == Direct \cup Pickers
Sheets == Requests \cup Pickers

ASSUME NamesAssumption ==
    /\ Uncancellable \subseteq Requests
    /\ Direct \cap Pickers = {}
    /\ Requests \cap Pickers = {}
    /\ None \notin Sheets
ASSUME AnswersAssumption == MaxAnswers \in Nat \ {0}

VARIABLES
    request,    \* Codex's request: unasked, waiting for a person, decided, ended
    decision,   \* what was decided: none, yes, no
    sheet,      \* the sheet whose button decided it
    heard,      \* what Codex was answered: none, yes, no
    slot,       \* the broker's pending_by_session
    shown,      \* the actor's interaction: what a reload shows
    seen,       \* sheets that some tab may still have open
    picker,     \* the command service's pending
    command,    \* the begin of a command: idle, asking (in its RPCs)
    answers,    \* answers to a picker that are in their RPC
    rows,       \* the command timeline on disk: none, running, waiting, completed, failed
    receipts,   \* the runtime's command_receipts
    ran,        \* how often Codex ran a direct command; 2 is "more than once"
    settled,    \* pickers whose choice Codex carried out, or which were cancelled
    link        \* connection to the worker: up, down

broker == <<request, decision, sheet, heard, slot>>
commands == <<picker, command, answers, receipts>>
records == <<rows, ran, settled>>
vars == <<broker, shown, seen, commands, records, link>>

Init ==
    /\ request = [r \in Requests |-> "unasked"]
    /\ decision = [r \in Requests |-> "none"]
    /\ sheet = [r \in Requests |-> None]
    /\ heard = [r \in Requests |-> "none"]
    /\ slot = None
    /\ shown = None
    /\ seen = {}
    /\ picker = None
    /\ command = [c \in Commands |-> "idle"]
    /\ answers = [p \in Pickers |-> 0]
    /\ rows = [c \in Commands |-> "none"]
    /\ receipts = {}
    /\ ran = [c \in Direct |-> 0]
    /\ settled = {}
    /\ link = "up"

-----------------------------------------------------------------------------
(* The sheet of the session.                                               *)

Show(i) == shown' = i /\ seen' = seen \cup {i}

(* Only the sheet that is shown is taken away.                             *)
Hide(i) == shown' = IF shown = i THEN None ELSE shown

-----------------------------------------------------------------------------
(* Codex asks, a person answers, the request's task replies.               *)

(* Mutant: the broker does not look for a request of its own.              *)
AlwaysFree == TRUE

SlotFree == slot = None

Declined(r) ==
    /\ shown # None \/ ~SlotFree
    /\ request' = [request EXCEPT ![r] = "ended"]
    /\ heard' = [heard EXCEPT ![r] = "no"]
    /\ UNCHANGED <<slot, shown, seen>>

Opened(r) ==
    /\ shown = None /\ SlotFree
    /\ request' = [request EXCEPT ![r] = "waiting"]
    /\ slot' = r
    /\ Show(r)
    /\ UNCHANGED heard

Asks(r) ==
    /\ link = "up" /\ request[r] = "unasked"
    /\ Declined(r) \/ Opened(r)
    /\ UNCHANGED <<decision, sheet, commands, records, link>>

(* Mutant: an answer is taken while the first one is on its way to Codex.  *)
NotEnded(r) == request[r] \in {"waiting", "decided"}

Undecided(r) == request[r] = "waiting"

Decide(r, what, i) ==
    /\ Undecided(r)
    /\ request' = [request EXCEPT ![r] = "decided"]
    /\ decision' = [decision EXCEPT ![r] = what]
    /\ sheet' = [sheet EXCEPT ![r] = i]

(* Mutant: the pending request of the session is answered.                 *)
PendingOfSession(i) == slot

(* The request an option belongs to is found by the sheet's id.            *)
RequestOf(i) == i

Choose(i, what) ==
    /\ i \in seen \cap Requests
    /\ RequestOf(i) \in Requests
    /\ Decide(RequestOf(i), what, i)
    /\ UNCHANGED <<heard, slot, shown, seen, commands, records, link>>

(* A Cancel that is not for the open picker goes to whatever request the   *)
(* session has: its own id is not compared.                                *)
CancelRequest(i) ==
    /\ i \in seen /\ picker # i
    /\ slot \in Requests \ Uncancellable
    /\ Decide(slot, "no", i)
    /\ UNCHANGED <<heard, slot, shown, seen, commands, records, link>>

(* Mutant: the finally of the request forgets on_close.                    *)
LeavesSlot(r) == slot' = None /\ UNCHANGED shown

Leaves(r) == slot' = None /\ Hide(r)

(* The request's task wakes up, frees the slot and replies; on a           *)
(* connection that is gone the reply is dropped.                           *)
RequestEnds(r) ==
    /\ request[r] = "decided"
    /\ request' = [request EXCEPT ![r] = "ended"]
    /\ heard' = [heard EXCEPT ![r] = IF link = "up" THEN decision[r] ELSE @]
    /\ Leaves(r)
    /\ UNCHANGED <<decision, sheet, seen, commands, records, link>>

-----------------------------------------------------------------------------
(* A browser starts a command, and starts it again with the same id as     *)
(* long as it has no answer.                                               *)

(* Mutant: only this process's receipts are asked, never the timeline.     *)
KnownByReceipt(c) == c \in receipts \/ command[c] # "idle"

(* The receipt, or the row of an earlier try, answers the retry.           *)
Known(c) == c \in receipts \/ rows[c] # "none"

Row(c, status) == rows' = [rows EXCEPT ![c] = status]

Begin(c) ==
    /\ ~Known(c)
    /\ shown = None
    /\ IF picker = None
       THEN command' = [command EXCEPT ![c] = "asking"] /\ Row(c, "running")
       ELSE UNCHANGED command /\ Row(c, "failed")
    /\ UNCHANGED <<broker, shown, seen, picker, answers, receipts, ran, settled, link>>

Asked(c) == command[c] = "asking" /\ command' = [command EXCEPT ![c] = "idle"]

More(n) == IF n = 0 THEN 1 ELSE 2

Runs(c) == ran' = [ran EXCEPT ![c] = More(@)]

(* An RPC that failed, or broke, may have been carried out.                *)
MayHaveRun(c) == UNCHANGED ran \/ (c \in Direct /\ Runs(c))

Completes(c) ==
    /\ c \in Direct /\ link = "up"
    /\ Asked(c)
    /\ Runs(c)
    /\ Row(c, "completed")
    /\ receipts' = receipts \cup {c}
    /\ UNCHANGED <<broker, shown, seen, picker, answers, settled, link>>

(* _opened looks neither at the picker nor at the sheet it replaces.       *)
OpensPicker(c) ==
    /\ c \in Pickers /\ link = "up"
    /\ Asked(c)
    /\ picker' = c
    /\ Show(c)
    /\ Row(c, "waiting")
    /\ receipts' = receipts \cup {c}
    /\ UNCHANGED <<broker, answers, ran, settled, link>>

(* Mutant: the exception passes without the row being closed.              *)
FailsSilently(c) ==
    /\ Asked(c)
    /\ MayHaveRun(c)
    /\ UNCHANGED <<broker, shown, seen, picker, answers, rows, receipts, settled, link>>

(* Refused, timed out, or cut off with the connection.                     *)
Fails(c) ==
    /\ Asked(c)
    /\ MayHaveRun(c)
    /\ Row(c, "failed")
    /\ UNCHANGED <<broker, shown, seen, picker, answers, receipts, settled, link>>

(* The pages of a list may take longer than the caller's 20 s: the         *)
(* cancelled coroutine leaves its row as it is.  A single RPC has 15 s,    *)
(* short of overload retries, which are left out.                          *)
CallerGivesUp(c) ==
    /\ c \in Pickers
    /\ Asked(c)
    /\ UNCHANGED <<broker, shown, seen, picker, answers, records, receipts, link>>

-----------------------------------------------------------------------------
(* A picker is answered: the choice is an RPC, and only then it closes.    *)

(* _close takes away whatever picker is open by then.                      *)
ClosePicker(p) == picker' = None /\ Hide(p)

Pick(p) ==
    /\ p \in seen /\ picker = p
    /\ link = "up"
    /\ answers[p] < MaxAnswers
    /\ answers' = [answers EXCEPT ![p] = @ + 1]
    /\ UNCHANGED <<broker, shown, seen, picker, command, receipts, records, link>>

Settle(p) == settled' = settled \cup {p}

MayHaveSettled(p) == Settle(p) \/ UNCHANGED settled

Answered(p) == answers[p] > 0 /\ answers' = [answers EXCEPT ![p] = @ - 1]

PickDone(p) ==
    /\ link = "up"
    /\ Answered(p)
    /\ ClosePicker(p)
    /\ Settle(p)
    /\ Row(p, "completed")
    /\ UNCHANGED <<broker, seen, command, receipts, ran, link>>

(* Mutant: the row is completed before the choice is known to have worked. *)
FailedPickCompletesRow(p) ==
    /\ Answered(p)
    /\ MayHaveSettled(p)
    /\ Row(p, "completed")
    /\ UNCHANGED <<broker, shown, seen, picker, command, receipts, ran, link>>

PickFails(p) ==
    /\ Answered(p)
    /\ MayHaveSettled(p)
    /\ UNCHANGED <<broker, shown, seen, picker, command, receipts, rows, ran, link>>

CancelPicker(p) ==
    /\ p \in seen /\ picker = p
    /\ ClosePicker(p)
    /\ Row(p, "completed")
    /\ Settle(p)
    /\ UNCHANGED <<broker, seen, command, answers, receipts, ran, link>>

-----------------------------------------------------------------------------
(* Connections and processes.                                              *)

ConnectionLost ==
    /\ link = "up"
    /\ link' = "down"
    /\ UNCHANGED <<broker, shown, seen, commands, records>>

Open(r) == request[r] \in {"waiting", "decided"}

(* The tasks of open requests are cancelled.                               *)
DropRequests ==
    /\ request' = [r \in Requests |-> IF Open(r) THEN "ended" ELSE request[r]]
    /\ slot' = None
    /\ UNCHANGED <<decision, sheet, heard>>

(* The old client is closed once the new one has shaken hands; the RPCs of *)
(* the old one have failed long before.                                    *)
Reconnects ==
    /\ link = "down"
    /\ \A c \in Commands : command[c] = "idle"
    /\ \A p \in Pickers : answers[p] = 0
    /\ link' = "up"
    /\ DropRequests
    /\ shown' = IF shown \in Requests THEN None ELSE shown
    /\ UNCHANGED <<seen, commands, records>>

(* Everything but the timeline's file is gone; loading it closes the rows  *)
(* that were open, and the worker lost its client.                         *)
OwnerRestarts ==
    /\ link' = "down"
    /\ DropRequests
    /\ shown' = None
    /\ picker' = None
    /\ command' = [c \in Commands |-> "idle"]
    /\ answers' = [p \in Pickers |-> 0]
    /\ receipts' = {}
    /\ rows' = [c \in Commands |-> IF rows[c] \in {"running", "waiting"} THEN "failed" ELSE rows[c]]
    /\ \E done \in SUBSET {c \in Direct : command[c] = "asking"} :
           ran' = [c \in Direct |-> IF c \in done THEN More(ran[c]) ELSE ran[c]]
    /\ \E done \in SUBSET {p \in Pickers : answers[p] > 0} : settled' = settled \cup done
    /\ UNCHANGED seen

-----------------------------------------------------------------------------
Person ==
    \/ \E i \in Sheets : (\E what \in {"yes", "no"} : Choose(i, what)) \/ CancelRequest(i)
    \/ \E p \in Pickers : Pick(p) \/ CancelPicker(p)
    \/ \E c \in Commands : Begin(c)

CommandEnds(c) == Completes(c) \/ OpensPicker(c) \/ Fails(c) \/ CallerGivesUp(c)
PickEnds(p) == PickDone(p) \/ PickFails(p)

Next ==
    \/ Person
    \/ \E r \in Requests : Asks(r) \/ RequestEnds(r)
    \/ \E c \in Commands : CommandEnds(c)
    \/ \E p \in Pickers : PickEnds(p)
    \/ ConnectionLost \/ Reconnects \/ OwnerRestarts

Spec == Init /\ [][Next]_vars

(* The loop runs the tasks it holds and RPCs have deadlines; nobody has to *)
(* ask, to answer or to break anything, and recovery need not succeed.     *)
Fairness ==
    /\ \A r \in Requests : WF_vars(RequestEnds(r))
    /\ \A c \in Commands : WF_vars(CommandEnds(c))
    /\ \A p \in Pickers : WF_vars(PickEnds(p))

FairSpec == Spec /\ Fairness

-----------------------------------------------------------------------------
TypeOK ==
    /\ request \in [Requests -> {"unasked", "waiting", "decided", "ended"}]
    /\ decision \in [Requests -> {"none", "yes", "no"}]
    /\ sheet \in [Requests -> Sheets \cup {None}]
    /\ heard \in [Requests -> {"none", "yes", "no"}]
    /\ slot \in Requests \cup {None}
    /\ shown \in Sheets \cup {None}
    /\ seen \subseteq Sheets
    /\ picker \in Pickers \cup {None}
    /\ command \in [Commands -> {"idle", "asking"}]
    /\ answers \in [Pickers -> 0..MaxAnswers]
    /\ rows \in [Commands -> {"none", "running", "waiting", "completed", "failed"}]
    /\ receipts \subseteq Commands
    /\ ran \in [Direct -> 0..2]
    /\ settled \subseteq Pickers
    /\ link \in {"up", "down"}

(* A session has at most one open request, and it holds the slot: what     *)
(* replaced its sheet does not let a second one in, which nobody could     *)
(* tell from the first.                                                    *)
OneRequestWaits == \A r \in Requests : Open(r) <=> slot = r

(* The session never shows the sheet of a request that is over, whichever  *)
(* way it ended, and an open picker is what it shows.                      *)
SheetsAreLive ==
    /\ shown \in Requests => slot = shown
    /\ picker # None => shown = picker

(* Codex goes ahead only if a person said so on the sheet of that request. *)
ApprovedOnItsSheet == \A r \in Requests : heard[r] = "yes" => sheet[r] = r

(* The first answer counts: what a request was decided stays, though a     *)
(* second tab answers before Codex has heard it.                           *)
FirstAnswerCounts ==
    [][\A r \in Requests : decision[r] # "none" => decision'[r] = decision[r]]_vars

(* A durable command is carried out at most once per id, over lost         *)
(* replies, retries, lost connections and restarts.                        *)
RunsOnce == \A c \in Direct : ran[c] <= 1

(* The timeline claims nothing that did not happen.                        *)
RowsAreTrue ==
    \A c \in Commands : rows[c] = "completed" => IF c \in Direct THEN ran[c] > 0 ELSE c \in settled

(* The row of a direct command does not stay "running".                    *)
EveryRowSettles == \A c \in Direct : rows[c] = "running" ~> rows[c] # "running"
=============================================================================
