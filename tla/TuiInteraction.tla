--------------------------- MODULE TuiInteraction ---------------------------
(***************************************************************************)
(* The menus and slash commands of a Codex terminal session, answered from *)
(* a browser by keys: what the Owner reads off the screen, the ids it      *)
(* gives to what it reads, and the keys it presses.                        *)
(*                                                                         *)
(* One session.  An answer or a command is a request with an id of the     *)
(* client; the session's delivery lock lets one run at a time (handler).   *)
(* The screen is read without that lock by every poll of the browsers      *)
(* (poll), and people and Codex act on the terminal at any time.           *)
(***************************************************************************)
EXTENDS Naturals, Sequences

CONSTANTS
    Priority,    \* the looks of menus, in the order of their detectors
    NumOptions,  \* options of a menu
    Actions,     \* of previous, next, choose and cancel, those browsers use
    Answers,     \* requests that answer a menu
    Commands,    \* requests that run a slash command
    Durable,     \* those with a row in the timeline
    Opens,       \* those that open a menu
    Exits,       \* those that end Codex
    DuringTask,  \* those the catalog allows while Codex works
    Drifted,     \* the installed Codex is not the one the catalog was tested with
    Quotable,    \* what the conversation above the menus may quote
    None,
    MaxMenus,    \* bound on the menus Codex ever opens
    MaxRequests, \* bound on the requests that press keys, retries included
    MaxFaults    \* bound on acts at the terminal, late polls and restarts together

ASSUME CommandsAssumption ==
    /\ Opens \subseteq Commands /\ Exits \subseteq Commands \ Opens
    /\ Durable \subseteq Commands /\ DuringTask \subseteq Commands
ASSUME ActionsAssumption == Actions \subseteq {"previous", "next", "choose", "cancel"}
ASSUME RequestsAreApart ==
    /\ Answers \cap Commands = {}
    /\ {None, "person"} \cap (Answers \cup Commands) = {}
ASSUME TuiBoundsAssumption == NumOptions \in Nat \ {0} /\ {MaxMenus, MaxRequests, MaxFaults} \subseteq Nat

MenuLooks == {Priority[i] : i \in 1..Len(Priority)}
Options == 1..NumOptions
Whats == [do : {"pick"}, opt : Options] \cup [do : Actions, opt : {0}]
Person == "person"

(* What is kept: what was read off the screen and its generation, what a   *)
(* browser shows of it, and an answer to that.                             *)
Readings == MenuLooks \cup Quotable \cup {None}
Fps == [as : Readings, live : MenuLooks \cup {None}, sel : 0..NumOptions]
Reads == [gen : Nat, fp : Fps]
Sheets == [id : Reads, menu : Nat]
Asked == [sheet : Sheets, what : Whats]

ASSUME NothingIsAsked == None \notin Asked

VARIABLES
    quoted,     \* a menu that the conversation quotes, above what is live
    codex,      \* Codex runs in the pane
    busy,       \* a turn runs
    screen,     \* the menu that is up: [menu, look, sel]; menu 0 is the composer
    composer,   \* whose texts the composer holds
    pty,        \* keys the terminal has not handled: [key, by]
    known,      \* session_states: [gen, fp]
    poll,       \* a poll between capture and _state_for_detection
    tab,        \* the interaction a browser shows, maybe an old one: [id, menu]
    ask,        \* an answer: [sheet, what]
    handler,    \* the request under the session lock
    receipts,   \* requests with a receipt
    rows,       \* the timeline: the status of a command
    link,       \* the timeline: its interactionId
    ran,        \* history: how often a command ran
    touched,    \* history: answers someone else's keys or Codex came in between
    mixed,      \* history: answers with an id of one look and a selection of another
    unseen,     \* history: the menu that is up came up looking like what was last seen
    restarted,  \* history: the Owner was restarted
    menus, requests, faults

terminal == <<quoted, codex, busy, screen, composer, pty>>
store == <<receipts, rows, link>>
history == <<ran, touched, mixed, unseen, restarted>>
counts == <<menus, requests, faults>>
tuiVars == <<terminal, known, poll, tab, ask, handler, store, history, counts>>

-----------------------------------------------------------------------------
(* Reading the screen.  Detectors are tried in order; each looks for the   *)
(* last line with its title and takes everything from there to the live    *)
(* confirm cue as its options.  So a quoted title above a live menu hides  *)
(* the live one if its detector comes first.                               *)

Rank(look) == CHOOSE i \in 1..Len(Priority) : Priority[i] = look
NoMenu == [menu |-> 0, look |-> None, sel |-> 0]
NoFp == [as |-> None, live |-> None, sel |-> 0]

TitleOf(look) == IF quoted # None /\ Rank(quoted) < Rank(look) THEN quoted ELSE look

Detected == IF screen.menu = 0 THEN NoFp ELSE [as |-> TitleOf(screen.look), live |-> screen.look, sel |-> screen.sel]

(* The place of a live option, and of the selection, in the list read.     *)
Place(fp, o) == IF fp.as = fp.live THEN o ELSE NumOptions + o
Selected(fp) == IF fp.as = fp.live THEN fp.sel ELSE 1

NothingRead == [gen |-> 0, fp |-> [NoFp EXCEPT !.sel = 1]]  \* nothing read yet
Seen(fp) == IF known.fp = fp THEN known ELSE [gen |-> known.gen + 1, fp |-> fp]

(* Mutant: an id is made of the session and the look alone.                *)
LookId(k) == [k EXCEPT !.gen = 1]

Id(k) == k

Pending(k) == k.fp.live # None

(* A browser hears of what was read, or goes on with what it shows.        *)
Shows(k, n) == tab' \in {tab} \cup (IF Pending(k) THEN {[id |-> Id(k), menu |-> n]} ELSE {})

NoRequest == [req |-> None, step |-> "idle", id |-> NothingRead, keys |-> <<>>, row |-> None]

TuiInit ==
    /\ quoted \in Quotable
    /\ codex = TRUE /\ busy \in BOOLEAN
    /\ screen = NoMenu /\ composer = {} /\ pty = <<>>
    /\ known = NothingRead /\ poll = None
    /\ tab = None
    /\ ask = [a \in Answers |-> None]
    /\ handler = NoRequest
    /\ receipts = {}
    /\ rows = [c \in Commands |-> "none"]
    /\ link = [c \in Commands |-> NothingRead]
    /\ touched = {} /\ mixed = {} /\ unseen = FALSE /\ restarted = FALSE
    /\ ran = [c \in Commands |-> 0]
    /\ menus = 0 /\ requests = 0 /\ faults = 0

(* A poll of a browser; one that is late captures now and is read later.   *)
Polls ==
    /\ known' = Seen(Detected)
    /\ Shows(known', screen.menu)
    /\ UNCHANGED <<terminal, poll, ask, handler, store, history, counts>>

Faulty == faults < MaxFaults /\ faults' = faults + 1

PollIsLate ==
    /\ Faulty
    /\ poll = None
    /\ poll' = [fp |-> Detected, menu |-> screen.menu]
    /\ UNCHANGED <<terminal, known, tab, ask, handler, store, history, menus, requests>>

PollEnds ==
    /\ poll # None
    /\ poll' = None
    /\ known' = Seen(poll.fp)
    /\ Shows(known', poll.menu)
    /\ UNCHANGED <<terminal, ask, handler, store, history, counts>>

-----------------------------------------------------------------------------
(* respond.                                                                *)

Free(r) == handler.step = "idle" /\ r \notin receipts /\ requests < MaxRequests

Current(k, sheet) == Id(k) = sheet.id

(* A browser answers a sheet, or sends the same answer again.              *)
Respond(a) ==
    /\ Free(a)
    /\ \E q \in IF ask[a] = None /\ tab # None THEN [sheet : {tab}, what : Whats] ELSE {ask[a]} \ {None} :
        /\ known' = Seen(Detected)
        /\ IF Pending(known') /\ Current(known', q.sheet)
           THEN /\ handler' = [NoRequest EXCEPT !.req = a, !.step = "look", !.id = q.sheet.id]
                /\ ask' = [ask EXCEPT ![a] = q]
                /\ requests' = requests + 1
                /\ touched' = IF pty = <<>> THEN touched ELSE touched \cup {a}
           ELSE UNCHANGED <<ask, handler, touched, requests>>
    /\ UNCHANGED <<terminal, poll, tab, store, ran, mixed, unseen, restarted, menus, faults>>

Repeat(key, n) == [i \in 1..n |-> key]

KeysFor(what, id, detected) ==
    CASE what.do = "previous" -> <<"Up">>
      [] what.do = "next" -> <<"Down">>
      [] what.do = "choose" -> <<"Enter">>
      [] what.do = "cancel" -> <<"Escape">>
      [] OTHER -> LET target == Place(id.fp, what.opt)
                      selected == Selected(detected)
                  IN Append(IF target >= selected THEN Repeat("Down", target - selected)
                            ELSE Repeat("Up", selected - target), "Enter")

RowOf(id) ==
    LET linked == {c \in Commands : link[c] = id}
    IN IF linked = {} THEN None ELSE CHOOSE c \in linked : TRUE

(* The selection is read from session_states, which a poll may have        *)
(* replaced since the id was compared.                                     *)
ReadsDetected(a) ==
    /\ handler.req = a /\ handler.step = "look"
    /\ IF Pending(known)
       THEN /\ handler' = [handler EXCEPT !.step = "keys", !.row = RowOf(handler.id),
                                          !.keys = KeysFor(ask[a].what, handler.id, known.fp)]
            /\ mixed' = IF known.fp = handler.id.fp THEN mixed ELSE mixed \cup {a}
       ELSE handler' = NoRequest /\ UNCHANGED mixed
    /\ UNCHANGED <<terminal, known, poll, tab, ask, store, ran, touched, unseen, restarted, counts>>

Presses(a) ==
    /\ handler.req = a /\ handler.step = "keys"
    /\ pty' = Append(pty, [key |-> Head(handler.keys), by |-> a])
    /\ handler' = [handler EXCEPT !.keys = Tail(@), !.step = IF Len(handler.keys) = 1 THEN "wait" ELSE "keys"]
    /\ UNCHANGED <<quoted, codex, busy, screen, composer, known, poll, tab, ask, store, history, counts>>

Settles(row, k) ==
    /\ rows' = IF row = None THEN rows ELSE [rows EXCEPT ![row] = IF Pending(k) THEN "waiting" ELSE "completed"]
    /\ link' = IF row = None THEN link ELSE [link EXCEPT ![row] = IF Pending(k) THEN Id(k) ELSE NothingRead]

(* Whatever changed counts as the answer's effect.                         *)
SeesChange(a) ==
    /\ handler.req = a /\ handler.step = "wait"
    /\ known' = Seen(Detected)
    /\ Id(known') # handler.id \/ (pty = <<>> /\ ask[a].what.do \in {"previous", "next"})
    /\ Shows(known', screen.menu)
    /\ Settles(handler.row, known')
    /\ receipts' = receipts \cup {a}
    /\ handler' = NoRequest
    /\ UNCHANGED <<terminal, poll, ask, history, counts>>

(* 504: no receipt, so the same answer may press its keys again.           *)
SeesNoChange(a) ==
    /\ handler.req = a /\ handler.step = "wait" /\ pty = <<>>
    /\ ask[a].what.do \notin {"previous", "next"}
    /\ known' = Seen(Detected)
    /\ Id(known') = handler.id
    /\ handler' = NoRequest
    /\ UNCHANGED <<terminal, poll, tab, ask, store, history, counts>>

-----------------------------------------------------------------------------
(* begin_command.                                                          *)

(* Of a catalog for another version the commands count, but not that they  *)
(* may run while Codex works.                                              *)
AllowedWhileBusy(c) == ~Drifted /\ c \in DuringTask

AtPrompt == screen.menu = 0 /\ ~busy
ReadyFor(c) == AtPrompt \/ (AllowedWhileBusy(c) /\ busy)
HasDraft == composer # {}
Contains(c) == screen.menu = 0 /\ c \in composer

(* Mutant: only the receipts in memory tell that a command was begun.      *)
NoReceipt(c) == TRUE

NotBegun(c) == c \in Durable => rows[c] = "none"

Begin(c) ==
    /\ Free(c) /\ codex
    /\ known' = Seen(Detected)
    /\ IF ~Pending(known') /\ ReadyFor(c) /\ ~HasDraft /\ NotBegun(c)
       THEN /\ handler' = [NoRequest EXCEPT !.req = c, !.step = "type"]
            /\ requests' = requests + 1
            /\ rows' = IF c \in Durable THEN [rows EXCEPT ![c] = "running"] ELSE rows
       ELSE UNCHANGED <<handler, rows, requests>>
    /\ UNCHANGED <<terminal, poll, tab, ask, receipts, link, history, menus, faults>>

Types(c) ==
    /\ handler.req = c /\ handler.step = "type"
    /\ pty' = Append(pty, [key |-> "text", by |-> c])
    /\ handler' = [handler EXCEPT !.step = "place"]
    /\ UNCHANGED <<quoted, codex, busy, screen, composer, known, poll, tab, ask, store, history, counts>>

SeesCommand(c) ==
    /\ handler.req = c /\ handler.step = "place" /\ Contains(c)
    /\ handler' = [handler EXCEPT !.step = "enter"]
    /\ UNCHANGED <<terminal, known, poll, tab, ask, store, history, counts>>

Fails(c) ==
    /\ rows' = IF c \in Durable THEN [rows EXCEPT ![c] = "failed"] ELSE rows
    /\ handler' = NoRequest
    /\ UNCHANGED <<terminal, poll, tab, ask, receipts, link, history, counts>>

NotPlaced(c) ==
    /\ handler.req = c /\ handler.step = "place" /\ pty = <<>> /\ ~Contains(c)
    /\ Fails(c)
    /\ UNCHANGED known

PressesEnter(c) ==
    /\ handler.req = c /\ handler.step = "enter"
    /\ pty' = Append(pty, [key |-> "Enter", by |-> c])
    /\ handler' = [handler EXCEPT !.step = "after"]
    /\ UNCHANGED <<quoted, codex, busy, screen, composer, known, poll, tab, ask, store, history, counts>>

Completes(c) ==
    /\ handler.req = c /\ handler.step = "after"
    /\ known' = IF codex THEN Seen(Detected) ELSE known
    /\ ~codex \/ Pending(known') \/ ~Contains(c)
    /\ IF codex THEN Shows(known', screen.menu) ELSE UNCHANGED tab
    /\ IF c \in Durable
       THEN IF codex THEN Settles(c, known') ELSE Settles(c, [known EXCEPT !.fp = NoFp])
       ELSE UNCHANGED <<rows, link>>
    /\ receipts' = receipts \cup {c}
    /\ handler' = NoRequest
    /\ UNCHANGED <<terminal, poll, ask, history, counts>>

Ambiguous(c) ==
    /\ handler.req = c /\ handler.step = "after" /\ pty = <<>>
    /\ codex /\ Contains(c)
    /\ known' = Seen(Detected)
    /\ Fails(c)

-----------------------------------------------------------------------------
(* Codex and the people at the terminal.                                   *)

Opened(look) == [menu |-> menus + 1, look |-> look, sel |-> 1]

(* A menu comes up; unseen notes that what was last read, or is being      *)
(* read, looked the same.                                                  *)
Opening(look) ==
    /\ menus < MaxMenus
    /\ menus' = menus + 1
    /\ screen' = Opened(look)
    /\ unseen' = (known.fp.live = look \/ (poll # None /\ poll.fp.live = look))

NothingOpens == UNCHANGED <<menus, unseen>>

(* Everyone whose keys are under way, when something else happens.         *)
UnderWay == (({handler.req} \cup {pty[i].by : i \in 1..Len(pty)}) \cap Answers)

MenuKey(k) ==
    CASE k.key = "Down" -> screen' = [screen EXCEPT !.sel = (@ % NumOptions) + 1] /\ NothingOpens
      [] k.key = "Up" -> screen' = [screen EXCEPT !.sel = IF @ = 1 THEN NumOptions ELSE @ - 1] /\ NothingOpens
      [] k.key = "Escape" -> screen' = NoMenu /\ NothingOpens
      [] k.key = "Enter" -> (screen' = NoMenu /\ NothingOpens) \/ \E look \in MenuLooks : Opening(look)
      [] OTHER -> UNCHANGED screen /\ NothingOpens

HandlesInMenu ==
    /\ codex /\ pty # <<>> /\ screen.menu # 0
    /\ MenuKey(Head(pty))
    /\ pty' = Tail(pty)
    /\ UNCHANGED <<quoted, codex, busy, composer, known, poll, tab, ask, handler, store, ran, touched, mixed, restarted, requests, faults>>

(* A command on its own runs; with a person's words it is a message.       *)
Submits ==
    IF \E c \in Commands : composer = {c}
    THEN LET c == CHOOSE x \in Commands : composer = {x} IN
         /\ ran' = [ran EXCEPT ![c] = @ + 1]
         /\ codex' = (c \notin Exits)
         /\ UNCHANGED busy
         /\ IF c \in Opens THEN \E look \in MenuLooks : Opening(look) ELSE NothingOpens /\ UNCHANGED screen
    ELSE /\ busy' = (busy \/ composer # {})
         /\ NothingOpens /\ UNCHANGED <<ran, codex, screen>>

ComposerKey(k) ==
    CASE k.key = "text" -> composer' = composer \cup {k.by} /\ NothingOpens /\ UNCHANGED <<busy, codex, ran, screen>>
      [] k.key = "Enter" -> composer' = {} /\ Submits
      [] k.key = "Escape" -> busy' = FALSE /\ NothingOpens /\ UNCHANGED <<composer, codex, ran, screen>>
      [] OTHER -> NothingOpens /\ UNCHANGED <<composer, busy, codex, ran, screen>>

HandlesInComposer ==
    /\ codex /\ pty # <<>> /\ screen.menu = 0
    /\ ComposerKey(Head(pty))
    /\ pty' = Tail(pty)
    /\ UNCHANGED <<quoted, known, poll, tab, ask, handler, store, touched, mixed, restarted, requests, faults>>

ShellHandles ==
    /\ ~codex /\ pty # <<>>
    /\ pty' = Tail(pty)
    /\ UNCHANGED <<quoted, codex, busy, screen, composer, known, poll, tab, ask, handler, store, history, counts>>

CodexAsks(look) ==
    /\ codex /\ busy /\ screen.menu = 0
    /\ Opening(look)
    /\ touched' = touched \cup UnderWay
    /\ UNCHANGED <<quoted, codex, busy, composer, pty, known, poll, tab, ask, handler, store, ran, mixed, restarted, requests, faults>>

TurnEnds ==
    /\ codex /\ busy /\ screen.menu = 0
    /\ busy' = FALSE
    /\ UNCHANGED <<quoted, codex, screen, composer, pty, known, poll, tab, ask, handler, store, history, counts>>

(* Someone at the terminal.                                                *)
PersonActs(key) ==
    /\ Faulty
    /\ pty' = Append(pty, [key |-> key, by |-> Person])
    /\ touched' = touched \cup UnderWay
    /\ UNCHANGED <<quoted, codex, busy, screen, composer, known, poll, tab, ask, handler, store, ran, mixed, unseen, restarted, menus, requests>>

(* Generations start again; the timeline closes what it finds open.        *)
OwnerStartsAgain ==
    /\ Faulty /\ restarted' = TRUE
    /\ known' = NothingRead /\ poll' = None /\ handler' = NoRequest /\ receipts' = {}
    /\ rows' = [c \in Commands |-> IF rows[c] \in {"running", "waiting"} THEN "failed" ELSE rows[c]]
    /\ link' = [c \in Commands |-> NothingRead]
    /\ UNCHANGED <<terminal, tab, ask, ran, touched, mixed, unseen, menus, requests>>

TuiNext ==
    \/ Polls \/ PollIsLate \/ PollEnds
    \/ \E a \in Answers : Respond(a) \/ ReadsDetected(a) \/ Presses(a) \/ SeesChange(a) \/ SeesNoChange(a)
    \/ \E c \in Commands : \/ Begin(c) \/ Types(c) \/ SeesCommand(c) \/ NotPlaced(c)
                           \/ PressesEnter(c) \/ Completes(c) \/ Ambiguous(c)
    \/ HandlesInMenu \/ HandlesInComposer \/ ShellHandles \/ TurnEnds
    \/ \E look \in MenuLooks : CodexAsks(look)
    \/ \E key \in {"Down", "Enter", "text"} : PersonActs(key)
    \/ OwnerStartsAgain

TuiSpec == TuiInit /\ [][TuiNext]_tuiVars

-----------------------------------------------------------------------------
Wanted(q) == IF q.what.do = "choose" THEN q.sheet.id.fp.sel ELSE q.what.opt

(* An answer's Enter chooses the option that was clicked, and in the menu  *)
(* it was clicked on: ids, generations and the selection together keep     *)
(* respond from pressing a stale click's keys.  Excepted are answers that  *)
(* someone came in between of or whose selection came from another look    *)
(* than their id, a live menu read under a quoted title, and menus that    *)
(* look like the clicked one and came up unread or after a restart.        *)
ChoosesWhatWasClicked ==
    [][(screen.menu # 0 /\ pty # <<>> /\ pty' = Tail(pty)) =>
         \A a \in Answers : LET q == ask[a] IN
            (/\ Head(pty) = [key |-> "Enter", by |-> a] /\ a \notin touched \cup mixed
             /\ q.sheet.id.fp.as = q.sheet.id.fp.live) =>
                /\ screen.sel = Wanted(q)
                /\ screen.menu = q.sheet.menu \/ unseen \/ restarted]_tuiVars

(* A command with a row runs at most once under its request id, whatever   *)
(* times out, fails or restarts between its text, its Enter and its row.   *)
CommandsRunOnce == \A c \in Durable : ran[c] <= 1
=============================================================================
