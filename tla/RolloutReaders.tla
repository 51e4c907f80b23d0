--------------------------- MODULE RolloutReaders ---------------------------
(***************************************************************************)
(* The Owner's readers of a Codex rollout: a JSONL file that Codex appends *)
(* to while the Owner follows it.                                          *)
(*                                                                         *)
(* Three readers keep an incremental state per path, each in a cache of    *)
(* its own and under a lock per path, so they never meet and a behaviour   *)
(* has one of them (`reader`): the tail (recent messages and the goal),    *)
(* the index of the whole conversation (history pages) and the activity    *)
(* index (tool items by turn).  The fourth, "web", serves the same pages   *)
(* from the conversation of an App Server actor and keeps nothing.         *)
(*                                                                         *)
(* A look is two steps, stat and read, and the file may change between     *)
(* them.  A record is two units long, and a torn one (not yet ended by its *)
(* newline) is one unit.  A record is its kind, its number, the call it    *)
(* answers and the turn its payload names (0 for none): texts are never    *)
(* looked into.  A turn has the number of the record that starts it.       *)
(***************************************************************************)
EXTENDS Integers, Sequences, FiniteSets, SequencesExt

CONSTANTS
    PageTurns,      \* turns of a transcript (12)
    CharBudget,     \* messages that fill the transcript's character budget
    TailScan,       \* units a rebuild scans back from the end (16 MiB)
    MaxCatchup,     \* units a catch-up reads at most (8 MiB)
    PageLimit,      \* turns of a history page
    PageBudget,     \* messages that fill a history page (2 MiB)
    MaxWritten,     \* bound: records Codex writes
    MaxFaults       \* bound: replacements, cuts, evictions and failed reads

ASSUME LimitsArePositive ==
    /\ {PageTurns, CharBudget, TailScan, PageLimit, PageBudget} \subseteq Nat \ {0}
    /\ {MaxCatchup, MaxWritten, MaxFaults} \subseteq Nat

VARIABLES
    reader,         \* the reader of this behaviour
    path,           \* the file: inode, complete records, a torn record at the end
    written,        \* records written so far; numbers them
    cache,          \* the reader's state of the path, or NoCache
    look,           \* the look under way, or NoLook
    held,           \* the browser's pages of this conversation
    faults,
    still,        \* history: the last look ended with no change since it began
    blurred,        \* history: what a cut of this inode has made indistinct
    spoiled         \* history: a failed read has left records in the index

rolloutVars == <<reader, path, written, cache, look, held, faults, still, blurred, spoiled>>

KindsOf == [tail |-> {"user", "assistant", "goal", "call", "output"},
            index |-> {"user", "assistant", "other"},
            activity |-> {"start", "end", "user", "call", "output", "patch"},
            web |-> {"user", "assistant"}]
Kinds == UNION {KindsOf[r] : r \in DOMAIN KindsOf}
Record == [kind : Kinds, n : Nat, of : Nat, turn : Nat]
NoCache == [id |-> -1, offset |-> 0, gen |-> -1, from |-> 1, data |-> <<>>]
NoLook == [step |-> "none", quiet |-> TRUE]
NoCursor == [rev |-> <<>>, before |-> -1]
NoPages == [rev |-> <<>>, total |-> 0, turns |-> <<>>, older |-> NoCursor]

Latest == [cursor |-> NoCursor, around |-> -1]

Least(a, b) == IF a < b THEN a ELSE b
Most(a, b) == IF a > b THEN a ELSE b
Size(p) == 2 * Len(p.lines) + (IF p.torn THEN 1 ELSE 0)

(* The j-th smallest number of a set, and its numbers in order. *)
Ranked(S, j) == {i \in S : Cardinality({m \in S : m <= i}) = j}
InOrder(S) == [j \in 1..Cardinality(S) |-> CHOOSE i \in Ranked(S, j) : TRUE]

RolloutInit ==
    /\ reader \in DOMAIN KindsOf
    /\ path = [id |-> 0, gen |-> 0, lines |-> <<>>, torn |-> FALSE, cut |-> FALSE]
    /\ written = 0 /\ faults = 0
    /\ cache = NoCache /\ look = NoLook /\ held = NoPages
    /\ still = FALSE /\ blurred = {} /\ spoiled = FALSE

-----------------------------------------------------------------------------
(* The file.  A generation ends when what was written is taken back.       *)
Changes ==
    /\ still' = FALSE
    /\ look' = [look EXCEPT !.quiet = FALSE]

(* Codex appends: first half a record, or a whole one, or the other half. *)
WritesPart ==
    /\ ~path.torn /\ written < MaxWritten /\ reader # "web"
    /\ path' = [path EXCEPT !.torn = TRUE]
    /\ Changes
    /\ UNCHANGED <<reader, written, cache, held, faults, blurred, spoiled>>

OpenCalls == {r \in {path.lines[i] : i \in DOMAIN path.lines} :
                 /\ r.kind = "call"
                 /\ \A i \in DOMAIN path.lines : path.lines[i].of # r.n}

(* A cut that is written over before the reader has looked leaves no trace *)
(* ("content": same inode, size not below the offset); a cut that no state *)
(* remembers leaves none in the revision of the pages ("revision").        *)
Escaped(p) ==
    IF p.id = cache.id /\ cache.gen # p.gen /\ Size(p) >= cache.offset
    THEN {"content"} ELSE {}

(* The turn a record may name: its own for a start, any that has started   *)
(* or none for the others that the activity index asks for one.            *)
TurnsNamed(kind) ==
    CASE kind = "start" -> {written + 1}
      [] reader = "activity" /\ kind \in {"end", "user", "call", "patch"} ->
             {0} \cup {path.lines[i].turn : i \in {j \in DOMAIN path.lines : path.lines[j].kind = "start"}}
      [] OTHER -> {0}

WritesRecord(kind) ==
    /\ written < MaxWritten
    /\ written' = written + 1
    /\ \E of \in IF kind = "output" THEN {r.n : r \in OpenCalls} ELSE {0}, turn \in TurnsNamed(kind) :
           path' = [path EXCEPT !.torn = FALSE,
                                !.lines = Append(@, [kind |-> kind, n |-> written + 1, of |-> of, turn |-> turn])]
    /\ blurred' = blurred \cup Escaped(path')
    /\ Changes
    /\ UNCHANGED <<reader, cache, held, faults, spoiled>>

Fault == faults < MaxFaults /\ faults' = faults + 1

(* Another file takes the name. *)
Replaces ==
    /\ Fault /\ reader # "web"
    /\ path' = [id |-> path.id + 1, gen |-> path.gen + 1, lines |-> <<>>, torn |-> FALSE, cut |-> FALSE]
    /\ blurred' = {}
    /\ Changes
    /\ UNCHANGED <<reader, written, cache, held, spoiled>>

(* The file is cut back in place. *)
Cuts(k) ==
    /\ Fault /\ reader # "web"
    /\ k < Len(path.lines)
    /\ path' = [path EXCEPT !.gen = @ + 1, !.lines = SubSeq(@, 1, k), !.torn = FALSE,
                           !.cut = TRUE]
    /\ blurred' = blurred \cup Escaped(path')
                        \cup (IF cache.id # path.id THEN {"revision"} ELSE {})
    /\ Changes
    /\ UNCHANGED <<reader, written, cache, held, spoiled>>

(* Sixteen other paths, or a new Owner process, push the state out. *)
Evicts ==
    /\ Fault /\ cache.id # -1 /\ look.step = "none"
    /\ cache' = NoCache
    /\ still' = FALSE
    /\ spoiled' = (spoiled /\ held # NoPages)
    /\ blurred' = blurred \cup (IF path.cut THEN {"revision"} ELSE {})
    /\ UNCHANGED <<reader, path, written, look, held>>

-----------------------------------------------------------------------------
(* What the read of a look sees: the complete records below both the size  *)
(* of the stat and the size the file has now.                              *)
Available == Least(look.size, Size(path)) \div 2
ReadUpTo == (cache.offset + 1) \div 2
Rebuilds == cache.id # look.id \/ look.size < cache.offset

(* The generation of a state that goes on from `gen`: -1 when it is mixed. *)
GenFrom(gen) == IF gen = path.gen THEN gen ELSE -1
GenNow == IF look.id = path.id THEN path.gen ELSE -1

Looks(ask) ==
    /\ look.step = "none"
    /\ look' = [step |-> "read", quiet |-> TRUE, id |-> path.id, size |-> Size(path), ask |-> ask]
    /\ UNCHANGED <<reader, path, written, cache, held, faults, still, blurred, spoiled>>

Done ==
    /\ look' = NoLook
    /\ still' = look.quiet

-----------------------------------------------------------------------------
(* The tail: codex_rollout_state. *)
IsMessage(r) == r.kind \in {"user", "assistant"}

(* A list of messages from its k-th turn on; the first turn may lack its question. *)
TurnStarts(messages) == {i \in DOMAIN messages : i = 1 \/ messages[i].kind = "user"}

(* The last turns that fit: at most PageTurns, and the budget counts from  *)
(* the second one on.                                                      *)
Bounded(messages) ==
    LET n == Len(messages)
        TurnsFrom(i) == Cardinality({j \in TurnStarts(messages) : j >= i})
        fits == {i \in TurnStarts(messages) :
                    /\ TurnsFrom(i) <= PageTurns
                    /\ TurnsFrom(i) = 1 \/ n - i + 1 <= CharBudget}
    IN  IF n = 0 THEN <<>>
        ELSE SubSeq(messages, CHOOSE i \in fits : \A j \in fits : i <= j, n)

(* One record of a catch-up, oldest first. *)
Follow(s, r) ==
    LET cleared == IF r.kind = "user" /\ s.goal = "complete" THEN "none" ELSE s.goal
    IN  [messages |-> IF IsMessage(r) THEN Append(s.messages, r) ELSE s.messages,
         goal |-> CASE r.kind = "goal" -> "active"
                    [] r.kind = "output" /\ r.of \in s.calls -> "complete"
                    [] OTHER -> cleared,
         calls |-> CASE r.kind = "call" -> s.calls \cup {r.n}
                     [] r.kind = "output" -> s.calls \ {r.of}
                     [] OTHER -> s.calls]

CatchUp ==
    LET state[i \in ReadUpTo..Available] ==
            IF i = ReadUpTo THEN cache.data ELSE Follow(state[i - 1], path.lines[i])
    IN  state[Available]

(* One record of a rebuild, newest first.  It stops at a question once the *)
(* budget is full and the goal and the usage (of an answer) are known.     *)
Scan(s, r) ==
    LET newer == s.newer \/ r.kind = "user"
        Unless(goal) == IF newer /\ goal = "complete" THEN "none" ELSE goal
        answered == r.kind = "call" /\ r.n \in s.outputs
        known == s.goal # "unknown"
        messages == IF IsMessage(r) THEN <<r>> \o s.messages ELSE s.messages
        goal == CASE known -> s.goal
                  [] ~known /\ r.kind = "goal" -> Unless("active")
                  [] ~known /\ answered -> Unless("complete")
                  [] OTHER -> "unknown"
        usage == s.usage \/ r.kind = "assistant"
        turns == s.turns + (IF r.kind = "user" THEN 1 ELSE 0)
    IN  IF s.stop THEN s
        ELSE [messages |-> messages, goal |-> goal, newer |-> newer, usage |-> usage,
              turns |-> turns,
              outputs |-> IF known THEN s.outputs
                          ELSE IF answered THEN s.outputs \ {r.n}
                          ELSE IF r.kind = "output" THEN s.outputs \cup {r.of}
                          ELSE s.outputs,
              calls |-> IF ~known /\ r.kind = "call" /\ ~answered
                        THEN s.calls \cup {r.n} ELSE s.calls,
              stop |-> /\ r.kind = "user" /\ usage /\ goal # "unknown"
                       /\ turns >= PageTurns \/ Len(messages) >= CharBudget]

(* The first record a rebuild may reach: one that begins above the floor. *)
Floor(lines) ==
    LET floor == Most(0, 2 * Len(lines) - TailScan)
    IN  IF floor = 0 THEN 1 ELSE floor \div 2 + 2

EmptyTail == [messages |-> <<>>, goal |-> "unknown", calls |-> {}]

Unscanned == [messages |-> <<>>, goal |-> "unknown", newer |-> FALSE, usage |-> FALSE,
              turns |-> 0, outputs |-> {}, calls |-> {}, stop |-> FALSE]

Rebuilt ==
    LET first == Floor(path.lines)
        last == Len(path.lines)
        state[i \in first..(last + 1)] ==
            IF i = last + 1 THEN Unscanned ELSE Scan(state[i + 1], path.lines[i])
        s == state[first]
    IN  [id |-> look.id, offset |-> 2 * Len(path.lines), gen |-> GenNow, from |-> first,
         data |-> [messages |-> Bounded(s.messages), goal |-> s.goal, calls |-> s.calls]]

(* Mutant: a torn record counts as read, and its whole is never parsed. *)
CaughtUpPastTear ==
    [cache EXCEPT !.offset = look.size,
                  !.gen = GenFrom(@),
                  !.data = [CatchUp EXCEPT !.messages = Bounded(@)]]

CaughtUp ==
    IF Available <= ReadUpTo THEN cache
    ELSE [cache EXCEPT !.offset = 2 * Available,
                       !.gen = GenFrom(@),
                       !.data = [CatchUp EXCEPT !.messages = Bounded(@)]]

TailReads ==
    /\ reader = "tail" /\ look.step = "read"
    /\ cache' = IF Rebuilds \/ look.size - cache.offset > MaxCatchup THEN Rebuilt ELSE CaughtUp
    /\ Done
    /\ UNCHANGED <<reader, path, written, held, faults, blurred, spoiled>>

(* The file cannot be opened or read: a rebuild stores an empty state, a   *)
(* catch-up keeps what it has.                                             *)
TailFails ==
    /\ reader = "tail" /\ look.step = "read"
    /\ Fault
    /\ cache' = IF Rebuilds \/ look.size - cache.offset > MaxCatchup
                THEN [id |-> look.id, offset |-> 0, gen |-> GenNow, from |-> 1, data |-> EmptyTail]
                ELSE cache
    /\ look' = NoLook /\ still' = FALSE
    /\ UNCHANGED <<reader, path, written, held, blurred, spoiled>>

-----------------------------------------------------------------------------
(* The index of the conversation: codex_history_state.  A turn is the      *)
(* positions of its records, and begins with a question.                   *)
Add(turns, i) ==
    LET r == path.lines[i]
    IN  CASE r.kind = "user" -> Append(turns, <<i>>)
          [] r.kind = "assistant" /\ turns # <<>> ->
                 [turns EXCEPT ![Len(turns)] = Append(@, i)]
          [] OTHER -> turns

(* Mutant: a reset index keeps the name of the inode alone. *)
UnsaltedIndex ==
    [id |-> look.id, offset |-> 0, gen |-> GenNow, from |-> 1,
     data |-> [rev |-> <<look.id, 0>>, turns |-> <<>>]]

(* The revision is the inode; a state that is reset salts it with the      *)
(* times and the size of the file.                                         *)
FreshIndex ==
    [id |-> look.id, offset |-> 0, gen |-> GenNow, from |-> 1,
     data |-> [rev |-> <<look.id, IF cache.id = -1 THEN 0 ELSE path.gen>>, turns |-> <<>>]]

IndexBase == IF Rebuilds THEN FreshIndex ELSE cache

(* The positions a look of the index reads from s on, and s with the first *)
(* of them added.                                                          *)
Positions(s) == (s.offset \div 2 + 1)..Available
WithTurns(s, last) ==
    LET first == s.offset \div 2
        turns[i \in first..last] == IF i = first THEN s.data.turns ELSE Add(turns[i - 1], i)
    IN  [s EXCEPT !.data.turns = turns[last]]

Indexed(s) ==
    IF Positions(s) = {} THEN s
    ELSE [WithTurns(s, Available) EXCEPT !.offset = 2 * Available,
                                         !.gen = IF s.offset = 0 THEN GenNow ELSE GenFrom(@)]

(* The copy the page is made of, once the lock is given back. *)
Paging(s, quiet) ==
    [step |-> "page", quiet |-> quiet, ask |-> look.ask, gen |-> s.gen,
     offset |-> s.offset, rev |-> s.data.rev, turns |-> s.data.turns]

IndexReads ==
    /\ reader = "index" /\ look.step = "read"
    /\ cache' = Indexed(IndexBase)
    /\ look' = Paging(cache', look.quiet)
    /\ still' = look.quiet
    /\ spoiled' = (spoiled /\ ~(Rebuilds /\ cache.id # -1))
    /\ UNCHANGED <<reader, path, written, held, faults, blurred>>

(* The read fails after some records: they stay in the turns, and the      *)
(* offset stays before them.                                               *)
IndexFails(last) ==
    /\ reader = "index" /\ look.step = "read"
    /\ Fault
    /\ last \in Positions(IndexBase)
    /\ cache' = [WithTurns(IndexBase, last) EXCEPT !.gen = IF IndexBase.offset = 0 THEN GenNow ELSE GenFrom(@)]
    /\ look' = Paging(cache', look.quiet)
    /\ still' = FALSE
    /\ spoiled' = TRUE
    /\ UNCHANGED <<reader, path, written, held, blurred>>

-----------------------------------------------------------------------------
(* A page of the history, and the browser that asks for it.                *)

(* The window of turns asked for: from start (excluded) to end. *)
Window(ask, total) ==
    LET around == Most(0, ask.around - PageLimit \div 2)
        end == CASE ask.around >= 0 -> Least(total, around + PageLimit)
                 [] ask.around < 0 /\ ask.cursor = NoCursor -> total
                 [] OTHER -> Least(total, ask.cursor.before)
    IN  [start |-> Most(0, end - PageLimit), end |-> end]

(* A window is cut to the budget: from the old end, or from the end that   *)
(* is farther from the turn asked for.                                     *)
Weight(turns, w) == FoldLeft(LAMBDA sum, t : sum + Len(t), 0, SubSeq(turns, w.start + 1, w.end))
Drop(turns, w, ask) ==
    IF \/ ask.around < 0
       \/ ask.around - w.start >= w.end - 1 - ask.around
    THEN [w EXCEPT !.start = @ + 1]
    ELSE [w EXCEPT !.end = @ - 1]

Trim(turns, ask) ==
    LET trimmed[k \in 0..PageLimit] ==
            LET w == IF k = 0 THEN Window(ask, Len(turns)) ELSE trimmed[k - 1]
            IN  IF w.end - w.start > 1 /\ Weight(turns, w) > PageBudget
                THEN Drop(turns, w, ask) ELSE w
    IN  trimmed[PageLimit]

Page(ask, rev, turns) ==
    LET w == Trim(turns, ask)
    IN  [rev |-> rev, total |-> Len(turns), start |-> w.start, end |-> w.end,
         turns |-> [i \in (w.start + 1)..w.end |-> turns[i]],
         older |-> IF w.start > 0 THEN [rev |-> rev, before |-> w.start] ELSE NoCursor]

Expired(ask, rev) == ask.cursor # NoCursor /\ ask.cursor.rev # rev
OutOfRange(ask, turns) == ask.around >= Len(turns)

(* mergePage: another revision starts the pages over; the cursor for older *)
(* turns is that of the page that begins where the loaded turns begin.     *)
Merge(page) ==
    LET old == IF held.rev \in {<<>>, page.rev} THEN held ELSE NoPages
        turns == [i \in DOMAIN old.turns \cup DOMAIN page.turns |->
                     IF i \in DOMAIN page.turns THEN page.turns[i] ELSE old.turns[i]]
        first == \A i \in DOMAIN turns : page.start < i
    IN  [rev |-> page.rev, total |-> page.total, turns |-> turns,
         older |-> IF first THEN page.older ELSE old.older]

Wants(ask) ==
    \/ ask = Latest
    \/ ask.around = -1 /\ ask.cursor = held.older /\ held.older # NoCursor
    \/ /\ ask.cursor = NoCursor
       /\ ask.around \in 0..(held.total - 1) /\ ask.around + 1 \notin DOMAIN held.turns

AsksPage(ask) == Wants(ask) /\ Looks(ask)

Asking == {Latest, [cursor |-> held.older, around |-> -1]}
              \cup [cursor : {NoCursor}, around : 0..(held.total - 1)]

(* What the browser does with the answer: 409 starts its pages over. *)
Answers(ask, rev, turns) ==
    held' = IF Expired(ask, rev) THEN NoPages
            ELSE IF OutOfRange(ask, turns) THEN held
            ELSE Merge(Page(ask, rev, turns))

(* The records of a turn as the file has them now: what is no message is   *)
(* passed over.                                                            *)
TextOf(turn) ==
    LET there == InOrder({j \in DOMAIN turn : turn[j] <= Len(path.lines) /\ IsMessage(path.lines[turn[j]])})
    IN  [j \in DOMAIN there |-> path.lines[turn[there[j]]].n]

Serves ==
    /\ look.step = "page"
    /\ Answers(look.ask, look.rev, [i \in DOMAIN look.turns |-> TextOf(look.turns[i])])
    /\ look' = NoLook
    /\ UNCHANGED <<reader, path, written, cache, faults, still, blurred, spoiled>>

(* The same for a session of the App Server: the turns are those of the    *)
(* actor, and any change of them is another revision.                      *)
WebTurns ==
    LET starts == InOrder(TurnStarts(path.lines))
        to(k) == IF k = Len(starts) THEN Len(path.lines) ELSE starts[k + 1] - 1
    IN  [k \in DOMAIN starts |->
            [j \in 1..(to(k) - starts[k] + 1) |-> path.lines[starts[k] + j - 1].n]]

WebServes(ask) ==
    /\ reader = "web"
    /\ Wants(ask)
    /\ Answers(ask, WebTurns, WebTurns)
    /\ UNCHANGED <<reader, path, written, cache, look, faults, still, blurred, spoiled>>

-----------------------------------------------------------------------------
(* The activity index: _update_index.  A tool record belongs to the turn   *)
(* it names or else to the one that is active, an output to the turn of    *)
(* its call, and both to the last question of that turn.                   *)
NoActivity == [turn |-> 0, records |-> <<>>, calls |-> {}, questions |-> {}]
QuestionOf(s, turn) ==
    IF \E q \in s.questions : q.turn = turn
    THEN (CHOOSE q \in s.questions : q.turn = turn).n ELSE 0

(* The end of another turn does not clear the active one. *)
ActiveAfter(turn, r) ==
    CASE r.kind = "start" -> r.turn
      [] r.kind = "end" /\ r.turn \in {0, turn} -> 0
      [] OTHER -> turn

(* The turn of a record, when another is active. *)
NamedOr(active, r) == IF r.turn # 0 THEN r.turn ELSE active

Follows(s, r) ==
    LET active == ActiveAfter(s.turn, r)
        turn == NamedOr(active, r)
        calls == {c \in s.calls : c.call = r.of}
        Item(t, q) == [turn |-> t, n |-> r.n, question |-> q]
        question == QuestionOf(s, turn)
        items == CASE r.kind \in {"call", "patch"} /\ turn # 0 -> <<Item(turn, question)>>
                   [] r.kind = "output" /\ calls # {} ->
                          LET c == CHOOSE c \in calls : TRUE
                          IN  <<Item(c.turn, IF c.question # 0 THEN c.question
                                             ELSE QuestionOf(s, c.turn))>>
                   [] OTHER -> <<>>
    IN  [turn |-> active,
         records |-> s.records \o items,
         calls |-> IF r.kind = "call" /\ turn # 0
                   THEN s.calls \cup {[call |-> r.n, turn |-> turn, question |-> question]}
                   ELSE s.calls,
         questions |-> IF r.kind = "user" /\ turn # 0
                       THEN {q \in s.questions : q.turn # turn} \cup {[turn |-> turn, n |-> r.n]}
                       ELSE s.questions]

(* Mutant: the active turn is not carried over to the next look. *)
ActivityBaseForgetsTurn ==
    IF Rebuilds THEN [id |-> look.id, offset |-> 0, gen |-> GenNow, from |-> 1, data |-> NoActivity]
    ELSE [cache EXCEPT !.data.turn = 0]

ActivityBase ==
    IF Rebuilds THEN [id |-> look.id, offset |-> 0, gen |-> GenNow, from |-> 1, data |-> NoActivity]
    ELSE cache

(* The data of s once the records up to the last are read into it. *)
WithActivity(s, last) ==
    LET first == s.offset \div 2
        data[i \in first..last] ==
            IF i = first THEN s.data ELSE Follows(data[i - 1], path.lines[i])
    IN  data[last]

ActivityReads ==
    /\ reader = "activity" /\ look.step = "read"
    /\ cache' = LET s == ActivityBase
                IN  IF Positions(s) = {} THEN s
                    ELSE [s EXCEPT !.offset = 2 * Available,
                                   !.gen = IF s.offset = 0 THEN GenNow ELSE GenFrom(@),
                                   !.data = WithActivity(s, Available)]
    /\ Done
    /\ spoiled' = (spoiled /\ ~Rebuilds)
    /\ UNCHANGED <<reader, path, written, held, faults, blurred>>

(* The read fails after some records.  A state that was cached has them    *)
(* already, but neither the offset nor the active turn; a new one is lost. *)
ActivityFails(last) ==
    /\ reader = "activity" /\ look.step = "read"
    /\ Fault
    /\ last \in Positions(ActivityBase)
    /\ cache' = IF Rebuilds THEN cache
                ELSE [cache EXCEPT !.gen = GenFrom(@),
                                   !.data = [WithActivity(cache, last) EXCEPT !.turn = cache.data.turn]]
    /\ look' = NoLook /\ still' = FALSE
    /\ spoiled' = (spoiled \/ ~Rebuilds)
    /\ UNCHANGED <<reader, path, written, held, blurred>>

-----------------------------------------------------------------------------
RolloutNext ==
    \/ WritesPart
    \/ \E kind \in KindsOf[reader] : WritesRecord(kind)
    \/ Replaces
    \/ \E k \in 0..(MaxWritten - 1) : Cuts(k)
    \/ Evicts
    \/ reader \in {"tail", "activity"} /\ Looks(Latest)
    \/ TailReads
    \/ TailFails
    \/ ActivityReads
    \/ \E last \in 1..MaxWritten : ActivityFails(last)
    \/ \E ask \in Asking : reader = "index" /\ AsksPage(ask)
    \/ IndexReads
    \/ \E last \in 1..MaxWritten : IndexFails(last)
    \/ Serves
    \/ \E ask \in Asking : WebServes(ask)

RolloutSpec == RolloutInit /\ [][RolloutNext]_rolloutVars

-----------------------------------------------------------------------------
(* What a reading of the whole file from its start would say. *)
Newest(S) == Max(S \cup {0})

MessagesOf(lines, first, last) ==
    LET at == InOrder({i \in first..last : IsMessage(lines[i])})
    IN  [j \in DOMAIN at |-> lines[at[j]]]

TrueGoal(lines, first, last) ==
    LET Of(i) == IF lines[i].kind = "goal" THEN "active" ELSE "complete"
        said == {i \in first..last :
                    \/ lines[i].kind = "goal"
                    \/ /\ lines[i].kind = "output"
                       /\ \E j \in first..(i - 1) : lines[j].kind = "call" /\ lines[j].n = lines[i].of}
        i == Newest(said)
    IN  IF i = 0 THEN "unknown"
        ELSE IF Of(i) = "complete" /\ \E j \in (i + 1)..last : lines[j].kind = "user"
             THEN "none" ELSE Of(i)

(* A question or another word on the goal between a call and its output:   *)
(* a rebuild takes the goal as of the call, or takes the other word.       *)
Straddled(lines, last) ==
    \E i, j, k \in 1..last :
        /\ i < j /\ j < k
        /\ lines[i].kind = "call" /\ lines[k].of = lines[i].n
        /\ lines[j].kind \in {"user", "goal"}

(* The turns among the first records: the positions of their messages. *)
Questions(lines, last) == {i \in 1..last : lines[i].kind = "user"}
TurnsOf(lines, last) ==
    [k \in 1..Cardinality(Questions(lines, last)) |->
        InOrder({i \in 1..last : IsMessage(lines[i]) /\ Cardinality(Questions(lines, i)) = k})]

TrueTurns == TurnsOf(path.lines, Len(path.lines))

(* The turn that goes on after a record: the newest that has begun, unless *)
(* an end after it names it or names none.                                 *)
TurnAt(lines, i) ==
    LET start == Newest({j \in 1..i : lines[j].kind = "start"})
        ended == \E j \in (start + 1)..i : lines[j].kind = "end" /\ lines[j].turn \in {0, lines[start].turn}
    IN  IF start = 0 \/ ended THEN 0 ELSE lines[start].turn

(* The turn of a record: the one it names, or the one that goes on. *)
OwnTurn(lines, i) == IF lines[i].turn # 0 THEN lines[i].turn ELSE TurnAt(lines, i)

(* The last question of a turn among the first records. *)
QuestionAt(lines, i, turn) ==
    LET j == Newest({j \in 1..i : lines[j].kind = "user" /\ OwnTurn(lines, j) = turn})
    IN  IF j = 0 THEN 0 ELSE lines[j].n

(* Where the turn of a record is found: at its call for an output. *)
BaseOf(lines, i) ==
    IF lines[i].kind = "output"
    THEN CHOOSE j \in 1..i : lines[j].kind = "call" /\ lines[j].n = lines[i].of
    ELSE i

(* The records of tools among the first records, each with its turn. *)
ItemOf(lines, i) ==
    LET base == BaseOf(lines, i)
        turn == OwnTurn(lines, base)
        question == QuestionAt(lines, base, turn)
    IN  [turn |-> turn, n |-> lines[i].n,
         question |-> IF question # 0 THEN question ELSE QuestionAt(lines, i, turn)]

ActivityOf(lines, last) ==
    LET mine == InOrder({i \in 1..last : /\ lines[i].kind \in {"call", "output", "patch"}
                                         /\ OwnTurn(lines, BaseOf(lines, i)) # 0})
    IN  [k \in DOMAIN mine |-> ItemOf(lines, mine[k])]

Whole == /\ cache.gen = path.gen
         /\ cache.offset = 2 * Len(path.lines)

(* Following a rollout comes to what reading it would: after a look during *)
(* which the file was still, the transcript has the messages and the goal  *)
(* the whole file has, over torn records, replacements, cuts, evictions    *)
(* and failed reads.  (Not over a cut that was written over unseen; and    *)
(* the goal of a call whose output came after a question, see Straddled.)  *)
TailIsRight ==
    reader = "tail" /\ still /\ blurred = {} =>
        LET last == Len(path.lines)
        IN  /\ Whole
            /\ cache.data.messages = Bounded(MessagesOf(path.lines, cache.from, last))
            /\ Straddled(path.lines, last) \/ cache.data.goal = TrueGoal(path.lines, cache.from, last)

(* The same of the two indexes: every turn has its records once and in     *)
(* order, and every tool record its turn and its question.  (Not after a   *)
(* read that failed half way: its records are indexed twice.)              *)
IndexesAreRight ==
    still /\ "content" \notin blurred /\ ~spoiled =>
        CASE reader = "index" -> Whole /\ cache.data.turns = TrueTurns
          [] reader = "activity" -> Whole /\ cache.data.records = ActivityOf(path.lines, Len(path.lines))
          [] OTHER -> TRUE

(* What the browser holds of a conversation is one conversation: whichever *)
(* pages it has asked for and whatever became of the file in between,      *)
(* every turn it has after an answer is that turn of the file, up to where *)
(* the file had grown; what it asks for next joins on; and the turn it     *)
(* jumped to is there.  (Not when the file changes hands between the index *)
(* and the page, nor after the failures named above.)                      *)
OneConversation ==
    LET turns == IF reader = "web" THEN WebTurns ELSE [k \in DOMAIN TrueTurns |-> TextOf(TrueTurns[k])]
        first == CHOOSE i \in DOMAIN held'.turns : \A j \in DOMAIN held'.turns : i <= j
    IN  held'.turns # <<>> =>
            /\ \A i \in DOMAIN held'.turns : i <= Len(turns) /\ IsPrefix(held'.turns[i], turns[i])
            /\ held'.older # NoCursor => held'.older.before = first - 1

HistoryIsOneConversation ==
    [][held' # held /\ blurred = {} /\ ~spoiled /\ (reader = "index" => look.gen = path.gen)
           => /\ OneConversation
              /\ reader = "index" /\ look.ask.around >= 0 => look.ask.around + 1 \in DOMAIN held'.turns]_rolloutVars
=============================================================================
