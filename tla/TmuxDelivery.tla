----------------------------- MODULE TmuxDelivery -----------------------------
(***************************************************************************)
(* The delivery of browser messages to one tmux pane (DeliveryService.send *)
(* and DeliveryStore): paste, confirm, press a submit key, look for        *)
(* evidence, and keep a "pasted" or "accepted" record per message id so    *)
(* that a retry of the id neither pastes again nor is left unanswered.     *)
(*                                                                         *)
(* The session lock lets one request at a time drive the pane; it is       *)
(* `handler`, and an action is one call to tmux or one look at the screen  *)
(* or the rollout.  Between them the terminal handles its input in order,  *)
(* a person may type in it, and the Owner may crash.                       *)
(*                                                                         *)
(* Not modelled: records expire after 48 hours, a record that cannot be    *)
(* written to disk is silently kept in memory only, and a session whose    *)
(* rollout cannot be found gives no "recorded" evidence.                   *)
(***************************************************************************)
EXTENDS Integers, Sequences, FiniteSets, SequencesExt

CONSTANTS
    Messages,       \* records [id, text]: what browsers may send to this pane
    ShellTexts,     \* texts that launch an agent or prepare the shell
    None,           \* no record, no request
    Human,          \* what a person typed
    MaxKeys,        \* submit keys per request (send_key_max_attempts)
    MaxSends,       \* bound: requests
    MaxCrashes,     \* bound: Owner crashes and failed tmux calls
    MaxHuman,       \* bound: what a person does in the terminal
    TuiMayLag       \* FALSE: the terminal handles a paste before the Owner
                    \*   gives up on its confirmation or restarts

Ids == {m.id : m \in Messages}
Texts == {m.text : m \in Messages}

ASSUME BoundsAreNatural == MaxKeys \in Nat \ {0} /\ {MaxSends, MaxCrashes, MaxHuman} \subseteq Nat
Piece == Messages \cup {Human}
Input == [kind : {"text", "Enter", "Tab"}, piece : Piece]
Record == [status : {"pasted", "accepted"}, text : Texts, offset : Nat, queued : Nat]
Handler == [msg : Messages, codex : BOOLEAN, offset : Nat, queued : Nat,
            pc : {"type", "enter", "record", "paste", "confirm", "key", "wait", "recover", "search"},
            seen : Seq(Piece), tries : 0..MaxKeys, key : {"Enter", "Tab"}]

ASSUME NamesAreApart == None \notin Messages \cup Record \cup Handler /\ Human \notin Messages \cup Texts
ASSUME LagIsSwitch == TuiMayLag \in BOOLEAN

VARIABLES
    memory,         \* id -> delivery record in memory
    disk,           \* id -> delivery record on disk
    handler,        \* the request that holds the session lock
    codex,          \* Codex runs in the pane; a shell otherwise
    busy,           \* Codex works on a turn: its composer shows the queue glyph
    pty,            \* terminal input not handled yet
    composer,       \* what the composer (or the command line) holds
    queue,          \* queued follow-ups, each the content of a composer
    starting,       \* submissions that are not in the rollout yet
    rollout,        \* what the rollout recorded: exact texts, Human for others
    taken, told, excused, unseen,   \* history, see ReliableDelivery
    used            \* budgets spent

vars == <<memory, disk, handler, codex, busy, pty, composer, queue, starting,
          rollout, taken, told, excused, unseen, used>>
terminal == <<codex, busy, pty, composer, queue, starting, rollout, taken>>
records == <<memory, disk, told, unseen>>

Pasted(text, offset, queued) ==
    [status |-> "pasted", text |-> text, offset |-> offset, queued |-> queued]
Accepted(text) == [status |-> "accepted", text |-> text, offset |-> 0, queued |-> 0]

Holds(content, text) == \E i \in DOMAIN content : content[i] # Human /\ content[i].text = text
QueuedCount(text) == Cardinality({i \in DOMAIN queue : Holds(queue[i], text)})
PastePending == \E i \in DOMAIN pty : pty[i].kind = "text"
Settled == TuiMayLag \/ ~PastePending

Spend(kind) == used' = [used EXCEPT ![kind] = @ + 1]
Type(input) == pty' = Append(pty, input)
Text(m) == [kind |-> "text", piece |-> m]
Key(name) == [kind |-> name, piece |-> Human]

-----------------------------------------------------------------------------
Init ==
    /\ memory = [i \in Ids |-> None]
    /\ disk = [i \in Ids |-> None]
    /\ handler = None
    /\ codex \in BOOLEAN
    /\ busy \in {FALSE, codex}
    /\ pty = <<>> /\ composer = <<>>
    /\ queue = <<>> /\ starting = <<>> /\ rollout = <<>>
    /\ taken = [m \in Messages |-> 0]
    /\ told = {}
    /\ excused = {}
    /\ unseen = {}
    /\ used = [sends |-> 0, crashes |-> 0, human |-> 0]

-----------------------------------------------------------------------------
(* The records. *)

Existing(id) == IF memory[id] # None THEN memory[id] ELSE disk[id]

(* Mutant of Remember: the record is not written to disk. *)
RememberInMemory(id, record) ==
    /\ memory' = [memory EXCEPT ![id] = record]
    /\ UNCHANGED disk

(* remember_pasted, remember_accepted, and the refresh of a known record. *)
Remember(id, record) ==
    /\ memory' = [memory EXCEPT ![id] = record]
    /\ disk' = [disk EXCEPT ![id] = record]

(* The receipt is kept, and the browser is told. *)
Accept(m) ==
    /\ Remember(m.id, Accepted(m.text))
    /\ told' = told \cup {m}
    /\ handler' = None

(* A pane without Codex shows no evidence: the message is accepted as sent. *)
AcceptUnseen(m) == Accept(m) /\ unseen' = unseen \cup {m}
AcceptSeen(m) == Accept(m) /\ UNCHANGED unseen

(* An error answer: the browser keeps its draft. *)
Fail == handler' = None /\ UNCHANGED records

-----------------------------------------------------------------------------
(* send(): what is decided at once under the locks. *)

Arrives(m) ==
    /\ handler = None
    /\ Settled
    /\ used.sends < MaxSends
    /\ Spend("sends")
    /\ UNCHANGED <<terminal, excused>>

(* The id of another message: refused. *)
RefusesReusedId(m) ==
    /\ Arrives(m)
    /\ Existing(m.id) # None /\ Existing(m.id).text # m.text
    /\ memory' = [memory EXCEPT ![m.id] = Existing(m.id)]
    /\ UNCHANGED <<handler, disk, told, unseen>>

Known(m) == Existing(m.id) # None /\ Existing(m.id).text = m.text

AnswersDuplicate(m) ==
    /\ Arrives(m)
    /\ Known(m) /\ Existing(m.id).status = "accepted"
    /\ AcceptSeen(m)

Fresh(m) == Existing(m.id) = None
Unconfirmed(m) == Known(m) /\ Existing(m.id).status = "pasted"
ShellPrep(m) == m.text \in ShellTexts /\ ~codex

NewHandler(m, pc, offset, queued) ==
    [msg |-> m, pc |-> pc, codex |-> codex, offset |-> offset, queued |-> queued,
     seen |-> <<>>, tries |-> 0, key |-> "Enter"]

StartsShell(m) ==
    /\ Arrives(m)
    /\ Fresh(m) \/ Unconfirmed(m)
    /\ ShellPrep(m)
    /\ handler' = NewHandler(m, "type", 0, 0)
    /\ UNCHANGED records

(* Someone's draft is in the composer: refused. *)
RefusesDraft(m) ==
    /\ Arrives(m)
    /\ Fresh(m) /\ ~ShellPrep(m)
    /\ codex /\ composer # <<>>
    /\ UNCHANGED <<handler, records>>

(* Mutant of StartsPaste: the composer is not looked at. *)
StartsPasteOverDraft(m) ==
    /\ Arrives(m)
    /\ Fresh(m) /\ ~ShellPrep(m)
    /\ handler' = NewHandler(m, "paste", Len(rollout), 0)
    /\ UNCHANGED records

StartsPaste(m) ==
    /\ Arrives(m)
    /\ Fresh(m) /\ ~ShellPrep(m)
    /\ codex => composer = <<>>
    /\ handler' = NewHandler(m, "paste", Len(rollout), 0)
    /\ UNCHANGED records

(* A retry after the paste was confirmed. *)
Continues(m) ==
    /\ Arrives(m)
    /\ Unconfirmed(m) /\ ~ShellPrep(m)
    /\ LET known == Existing(m.id)
       IN  /\ handler' = NewHandler(m, IF codex THEN "recover" ELSE "key",
                                    known.offset, known.queued)
           /\ memory' = [memory EXCEPT ![m.id] = known]
    /\ UNCHANGED <<disk, told, unseen>>

-----------------------------------------------------------------------------
At(pc) == handler # None /\ handler.pc = pc
Goto(pc) == handler' = [handler EXCEPT !.pc = pc]

(* A shell line: typed, entered and recorded, with no checkpoint before. *)
ShellTypes ==
    /\ At("type")
    /\ Type(Text(handler.msg))
    /\ Goto("enter")
    /\ UNCHANGED <<codex, busy, composer, queue, starting, rollout, taken, records, excused, used>>

ShellEnters ==
    /\ At("enter")
    /\ Type(Key("Enter"))
    /\ Goto("record")
    /\ UNCHANGED <<codex, busy, composer, queue, starting, rollout, taken, records, excused, used>>

ShellAccepts ==
    /\ At("record")
    /\ AcceptUnseen(handler.msg)
    /\ UNCHANGED <<terminal, excused, used>>

(* load-buffer and paste-buffer, after a look at the screen. *)
Pastes ==
    /\ At("paste")
    /\ Type(Text(handler.msg))
    /\ handler' = [handler EXCEPT !.pc = "confirm", !.seen = composer,
                       !.queued = IF handler.codex THEN QueuedCount(handler.msg.text) ELSE 0]
    /\ UNCHANGED <<codex, busy, composer, queue, starting, rollout, taken, records, excused, used>>

(* wait_for_paste_tail: more of the text or a moved cursor.  Only now is   *)
(* there a record of the paste.                                            *)
Confirms ==
    /\ At("confirm")
    /\ composer # handler.seen /\ composer # <<>>
    /\ Remember(handler.msg.id, Pasted(handler.msg.text, handler.offset, handler.queued))
    /\ Goto("key")
    /\ UNCHANGED <<terminal, told, unseen, excused, used>>

ConfirmTimesOut ==
    /\ At("confirm")
    /\ Settled
    /\ Fail
    /\ excused' = IF handler.codex THEN excused ELSE excused \cup {handler.msg}
    /\ UNCHANGED <<terminal, used>>

(* A retry looks whether its text is still there. *)
RecoverLooks ==
    /\ At("recover")
    /\ Goto(IF Holds(composer, handler.msg.text) THEN "key" ELSE "search")
    /\ UNCHANGED <<terminal, records, excused, used>>

Recorded ==
    \E i \in (handler.offset + 1)..Len(rollout) : rollout[i] = handler.msg.text
Queued == QueuedCount(handler.msg.text) > handler.queued

RecoverFinds ==
    /\ At("search")
    /\ Recorded \/ Queued
    /\ AcceptSeen(handler.msg)
    /\ UNCHANGED <<terminal, excused, used>>

(* Still ambiguous: nothing is sent. *)
RecoverGivesUp ==
    /\ At("search")
    /\ ~Recorded /\ ~Queued
    /\ Fail
    /\ UNCHANGED <<terminal, excused, used>>

(* Queue while Codex works, submit otherwise; C-m to a shell. *)
PressesKey ==
    /\ At("key")
    /\ LET key == IF handler.codex /\ busy THEN "Tab" ELSE "Enter"
       IN  /\ Type(Key(key))
           /\ handler' = [handler EXCEPT !.pc = IF handler.codex THEN "wait" ELSE "record",
                              !.key = key, !.tries = @ + 1]
    /\ UNCHANGED <<codex, busy, composer, queue, starting, rollout, taken, records, excused, used>>

(* wait_for_codex_submission. *)
Submitted == handler.key # "Tab" /\ ~Holds(composer, handler.msg.text)

FindsEvidence ==
    /\ At("wait")
    /\ Recorded \/ Queued \/ Submitted
    /\ AcceptSeen(handler.msg)
    /\ UNCHANGED <<terminal, excused, used>>

FindsNoEvidence ==
    /\ At("wait")
    /\ ~Recorded /\ ~Queued /\ ~Submitted
    /\ IF handler.tries < MaxKeys
       THEN Goto("key") /\ UNCHANGED records
       ELSE Fail
    /\ UNCHANGED <<terminal, excused, used>>

(* A send to a pane without Codex that is cut off before its record. *)
Interrupted ==
    IF handler # None /\ ~handler.codex /\ handler.pc \in {"enter", "record", "confirm"}
    THEN {handler.msg} ELSE {}

(* A tmux call fails. *)
TmuxFails ==
    /\ used.crashes < MaxCrashes /\ Spend("crashes")
    /\ handler # None /\ handler.pc \in {"type", "enter", "paste", "key"}
    /\ Fail
    /\ excused' = excused \cup Interrupted
    /\ UNCHANGED terminal

OwnerRestarts ==
    /\ used.crashes < MaxCrashes /\ Spend("crashes")
    /\ memory' = [i \in Ids |-> None]
    /\ handler' = None
    /\ excused' = excused \cup Interrupted
    /\ UNCHANGED <<terminal, disk, told, unseen>>

-----------------------------------------------------------------------------
(* The terminal, its user and Codex. *)

Occurrences(content, m) == Cardinality({i \in DOMAIN content : content[i] = m})

TuiText ==
    /\ pty # <<>> /\ Head(pty).kind = "text"
    /\ pty' = Tail(pty)
    /\ composer' = Append(composer, Head(pty).piece)
    /\ UNCHANGED <<records, handler, codex, busy, queue, starting, rollout, taken, excused, used>>

TuiKey == pty # <<>> /\ Head(pty).kind # "text" /\ pty' = Tail(pty)

(* A key that comes too early, or finds nothing to submit, is lost. *)
TuiIgnoresKey ==
    /\ TuiKey
    /\ codex \/ composer = <<>>
    /\ UNCHANGED <<records, handler, codex, busy, composer, queue, starting, rollout,
                   taken, excused, used>>

Takes ==
    /\ TuiKey
    /\ composer # <<>>
    /\ composer' = <<>>
    /\ taken' = [m \in Messages |-> taken[m] + Occurrences(composer, m)]
    /\ UNCHANGED <<records, handler, rollout, excused, used>>

CodexTakes ==
    /\ codex
    /\ Takes
    /\ IF Head(pty).kind = "Tab" /\ busy
       THEN /\ queue' = Append(queue, composer)
            /\ UNCHANGED <<starting, busy>>
       ELSE /\ starting' = Append(starting, composer)
            /\ busy' = TRUE
            /\ UNCHANGED queue
    /\ UNCHANGED codex

(* A shell runs the line; a launch command may bring up Codex. *)
ShellTakes ==
    /\ ~codex
    /\ Takes
    /\ \/ UNCHANGED codex
       \/ (\E text \in ShellTexts : Holds(composer, text)) /\ codex' = TRUE
    /\ UNCHANGED <<busy, queue, starting>>

CodexRecords ==
    /\ starting # <<>>
    /\ starting' = Tail(starting)
    /\ LET content == Head(starting)
       IN  rollout' = Append(rollout, IF Len(content) = 1 /\ content[1] # Human
                                      THEN content[1].text ELSE Human)
    /\ UNCHANGED <<records, handler, codex, busy, pty, composer, queue, taken, excused, used>>

(* The turn ends, and the next queued follow-up starts one. *)
CodexTurnEnds ==
    /\ busy
    /\ IF queue = <<>>
       THEN busy' = FALSE /\ UNCHANGED <<queue, starting>>
       ELSE /\ queue' = Tail(queue)
            /\ starting' = Append(starting, Head(queue))
            /\ UNCHANGED busy
    /\ UNCHANGED <<records, handler, codex, pty, composer, rollout, taken, excused, used>>

(* What is in the terminal or on its way when a person touches it. *)
Touched ==
    {m \in Messages : \/ \E i \in DOMAIN composer : composer[i] = m
                      \/ \E i \in DOMAIN pty : pty[i].piece = m
                      \/ handler # None /\ handler.msg = m}

PersonActs ==
    /\ used.human < MaxHuman /\ Spend("human")
    /\ excused' = excused \cup Touched
    /\ UNCHANGED <<records, handler, codex, busy, queue, starting, rollout, taken>>

PersonTypes == PersonActs /\ composer' = Append(composer, Human) /\ UNCHANGED pty
PersonClears == PersonActs /\ composer # <<>> /\ composer' = <<>> /\ UNCHANGED pty
PersonEnters == PersonActs /\ Type(Key("Enter")) /\ UNCHANGED composer

-----------------------------------------------------------------------------
Request(m) ==
    \/ RefusesReusedId(m) \/ AnswersDuplicate(m) \/ StartsShell(m)
    \/ RefusesDraft(m) \/ StartsPaste(m) \/ Continues(m)
Owner ==
    \/ ShellTypes \/ ShellEnters \/ ShellAccepts
    \/ Pastes \/ Confirms \/ ConfirmTimesOut
    \/ RecoverLooks \/ RecoverFinds \/ RecoverGivesUp
    \/ PressesKey \/ FindsEvidence \/ FindsNoEvidence
    \/ TmuxFails \/ OwnerRestarts
Terminal ==
    \/ TuiText \/ TuiIgnoresKey \/ CodexTakes \/ ShellTakes \/ CodexRecords \/ CodexTurnEnds
    \/ PersonTypes \/ PersonClears \/ PersonEnters

Next == (\E m \in Messages : Request(m)) \/ Owner \/ Terminal

Spec == Init /\ [][Next]_vars

-----------------------------------------------------------------------------
TypeOK ==
    /\ memory \in [Ids -> Record \cup {None}]
    /\ disk \in [Ids -> Record \cup {None}]
    /\ handler \in Handler \cup {None}
    /\ codex \in BOOLEAN /\ busy \in BOOLEAN
    /\ pty \in Seq(Input)
    /\ composer \in Seq(Piece)
    /\ queue \in Seq(Seq(Piece)) /\ starting \in Seq(Seq(Piece))
    /\ rollout \in Seq(Texts \cup {Human})
    /\ taken \in [Messages -> Nat]
    /\ told \subseteq Messages /\ excused \subseteq Messages /\ unseen \subseteq Messages

(* Whatever crashed since, a message a browser was told is accepted has an *)
(* accepted record on disk, so that the same id is answered as a duplicate *)
(* and the id of another text is refused.                                  *)
AcceptedIsRemembered ==
    \A m \in told : disk[m.id] # None /\ disk[m.id].status = "accepted" /\ disk[m.id].text = m.text

(* Evidence is looked for by text: one of two messages with the same text  *)
(* may pass for the other.                                                 *)
Alike == {m \in Messages : \E n \in Messages \ {m} : n.text = m.text}

Promise == INSTANCE ReliableDelivery WITH excused <- excused \cup Alike

(* The delivery protocol keeps the promise of ReliableDelivery: at most    *)
(* one submission per message over retries, timeouts and restarts, and     *)
(* "accepted" only after it, of each message that has a text of its own.   *)
KeepsPromise == Promise!Spec
=============================================================================
