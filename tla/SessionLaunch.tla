---------------------------- MODULE SessionLaunch ----------------------------
(***************************************************************************)
(* How an Owner opens Codex sessions: in tmux (the terminal backend) or as *)
(* a record of the App Server registry (the web backend), both under short *)
(* names of one namespace and both over the same Codex threads.            *)
(*                                                                         *)
(* Starts, resumes and web closes hold RUNTIME_LOCK; op is its holder.     *)
(* Closing a terminal and the idle cleanup do not take it, people work in  *)
(* the panes beside it, tmux calls may time out, and the Owner may die,    *)
(* which tmux survives.                                                    *)
(*                                                                         *)
(* A pane's login shell is taken to reach the update preflight at once,    *)
(* threads are never loaded in the App Server control plane, and nobody    *)
(* runs Codex in a pane by hand.                                           *)
(***************************************************************************)
EXTENDS Naturals, FiniteSets

CONSTANTS
    Threads,    \* Codex threads
    Launches,   \* launch ids of browsers
    Limits,     \* the running limits a start may be given
    MaxName,    \* bound on the short names
    None

ASSUME BoundsAssumption ==
    /\ Limits \subseteq Nat \ {0}
    /\ MaxName \in Nat \ {0}

Names == 1..MaxName     \* faryo1, faryo2, ...

VARIABLES
    tmux,       \* the tmux session of a name, or None
    web,        \* the registry's record of a name, or None
    op,         \* the start or resume that holds RUNTIME_LOCK, or None
    late,       \* a web start whose caller gave up and whose cancellation has not landed
    victim,     \* the session a close or a cleanup has looked at and will kill, or None
    known       \* threads Codex has stored

vars == <<tmux, web, op, late, victim, known>>

Sessions ==
    [hand : BOOLEAN,                        \* made by a person
     whole : BOOLEAN,                       \* its start was not cut short
     managed : BOOLEAN,                     \* @faryo_managed
     launch : Launches \cup {None},         \* @faryo_launch_id
     recorded : Threads \cup {None},        \* @faryo_agent_session_id
     prog : {"preflight", "codex", "shell"}, \* what the pane runs
     aim : Threads \cup {None},             \* the thread its command line resumes
     thread : Threads \cup {None},          \* the thread Codex writes
     open : BOOLEAN,                        \* the thread's rollout is an open file
     behind : Threads \cup {None}]          \* a thread it wrote before, whose file is still open

Records == [thread : Threads, launch : Launches \cup {None}, late : BOOLEAN]

Steps == {"create", "manage", "label", "record", "rpc"}

Operations == [step : Steps, name : Names, thread : Threads \cup {None}, launch : Launches \cup {None},
     limit : Limits \cup {0}]

ASSUME NoneAssumption ==
    None \notin Threads \cup Launches \cup Names \cup Sessions \cup Records \cup Operations

TypeOK ==
    /\ tmux \in [Names -> Sessions \cup {None}]
    /\ web \in [Names -> Records \cup {None}]
    /\ op \in Operations \cup {None}
    /\ late \in Operations \cup {None}
    /\ victim \in Names \cup {None}
    /\ known \subseteq Threads

Init ==
    /\ tmux = [n \in Names |-> None]
    /\ web = [n \in Names |-> None]
    /\ op = None
    /\ late = None
    /\ victim = None
    /\ known \in SUBSET Threads

-----------------------------------------------------------------------------
(* What the Owner sees.                                                    *)

Terminals == {n \in Names : tmux[n] # None}
WebNames == {n \in Names : web[n] # None}

(* The preflight's command line looks like Codex; a shell does not.        *)
Visible(n) == tmux[n].prog \in {"preflight", "codex"}
Agents == {n \in Terminals : Visible(n)}

(* An open rollout wins over the id recorded when one was last seen.       *)
ActiveThread(n) == IF tmux[n].open THEN tmux[n].thread ELSE tmux[n].recorded

ActiveIn(t) == {n \in Agents : ActiveThread(n) = t}
Superseded(t) == {n \in Agents : tmux[n].behind = t}
WebOf(t) == {n \in WebNames : web[n].thread = t}

(* The writer lock of a thread: a client of Codex holds it while it has    *)
(* the thread loaded.                                                      *)
Held(t) ==
    \/ \E n \in Terminals : tmux[n].prog = "codex" /\ t \in {tmux[n].thread, tmux[n].behind}
    \/ WebOf(t) # {}

(* Mutant: a backend reserves only its own names.                          *)
OwnNames(terminals, records) == terminals

Reserved(terminals, records) == terminals \cup records

NextName(used) == CHOOSE n \in Names \ used : \A m \in Names \ used : n <= m

-----------------------------------------------------------------------------
(* A terminal session is started under the lock: new-session, and then its *)
(* options one by one.  Each of these tmux calls may time out, which ends  *)
(* the start where it is.                                                  *)

LaunchedAs(l) == {n \in Terminals : tmux[n].managed /\ tmux[n].launch = l}

(* Managed sessions whose agent is gone; a start kills those that have     *)
(* been idle for a minute before it counts the agents.                     *)
IdleShells == {n \in Terminals : tmux[n].managed /\ ~Visible(n)}

(* Mutant: agents that are still in their preflight are not counted.       *)
RoomForReady(limit) == Cardinality({n \in Agents : tmux[n].prog = "codex"}) < limit

Room(limit) == Cardinality(Agents) < limit

Starts(t, l) ==
    \E gone \in SUBSET IdleShells, limit \in Limits :
        LET used == Reserved(Terminals \ gone, WebNames) IN
        /\ used # Names
        /\ tmux' = [n \in Names |-> IF n \in gone THEN None ELSE tmux[n]]
        /\ op' = IF Room(limit)
                  THEN [step |-> "create", name |-> NextName(used), thread |-> t, launch |-> l, limit |-> limit]
                  ELSE None

(* Mutant: only a session whose Codex is up answers for a launch id.       *)
NoCodexFor(l) == \A n \in LaunchedAs(l) : tmux[n].prog # "codex"

NotLaunched(l) == LaunchedAs(l) = {}

NewTerminal(l) ==
    /\ op = None /\ NotLaunched(l)
    /\ Starts(None, l)
    /\ UNCHANGED <<web, late, victim, known>>

(* Mutant: only sessions whose Codex is up count as active.                *)
SeenWriting(t) == {n \in Agents : tmux[n].open /\ tmux[n].thread = t}

ActiveForTerminal(t) == ActiveIn(t)

ResumeTerminal(t) ==
    /\ op = None /\ t \in known
    /\ WebOf(t) = {} /\ ~Held(t) /\ ActiveForTerminal(t) = {}
    /\ Starts(t, None)
    /\ UNCHANGED <<web, late, victim, known>>

NewSession ==
    [hand |-> FALSE, whole |-> FALSE, managed |-> FALSE, launch |-> None, recorded |-> None,
     prog |-> "preflight", aim |-> op.thread, thread |-> None, open |-> FALSE, behind |-> None]

GoesOn(step) == op' \in {[op EXCEPT !.step = step], None}

NewTmuxSession ==
    /\ op # None /\ op.step = "create"
    /\ IF tmux[op.name] # None
       THEN op' = None /\ UNCHANGED tmux
       ELSE tmux' = [tmux EXCEPT ![op.name] = NewSession] /\ GoesOn("manage")
    /\ UNCHANGED <<web, late, victim, known>>

(* Options go to whatever session has the name by then.                    *)
Label(step, then, labelled) ==
    /\ op # None /\ op.step = step
    /\ tmux' = IF tmux[op.name] = None THEN tmux ELSE [tmux EXCEPT ![op.name] = labelled]
    /\ op' \in (IF then = "done" THEN {None} ELSE {None, [op EXCEPT !.step = then]})
    /\ UNCHANGED <<web, late, victim, known>>

MarkManaged == Label("manage", "label", [tmux[op.name] EXCEPT !.managed = TRUE])

LabelLaunch == Label("label", "record", [tmux[op.name] EXCEPT !.launch = IF op.launch # None THEN op.launch ELSE @])

RecordThread == Label("record", "done", [tmux[op.name] EXCEPT !.whole = TRUE, !.recorded = IF op.thread # None THEN op.thread ELSE @])

-----------------------------------------------------------------------------
(* A web session is started under the lock too: its name is chosen before  *)
(* Codex is asked, and is not looked at again when the record is added.    *)

Asks(t, l) ==
    LET used == Reserved(WebNames, Terminals) IN
    /\ op = None /\ late = None /\ used # Names
    /\ op' = [step |-> "rpc", name |-> NextName(used), thread |-> t, launch |-> l, limit |-> 0]
    /\ UNCHANGED <<tmux, web, late, victim, known>>

NewWeb(l) == (\A n \in WebNames : web[n].launch # l) /\ Asks(None, l)

FreeOfTerminals(t) == ActiveIn(t) = {} /\ Superseded(t) = {}

ResumeWeb(t) ==
    /\ t \in known /\ FreeOfTerminals(t) /\ ~Held(t)
    /\ Asks(t, None)

(* thread/start makes a thread; thread/resume needs the writer lock.       *)
Answer(o) == IF o.thread = None THEN Threads \ known ELSE {t \in {o.thread} : ~Held(t)}

Adds(o, isLate) ==
    \E t \in Answer(o) :
        /\ web[o.name] = None
        /\ web' = [web EXCEPT ![o.name] = [thread |-> t, launch |-> o.launch, late |-> isLate]]
        /\ known' = known \cup {t}

WebStarts ==
    /\ op # None /\ op.step = "rpc"
    /\ Adds(op, FALSE)
    /\ op' = None
    /\ UNCHANGED <<tmux, late, victim>>

WebFails ==
    /\ op # None /\ op.step = "rpc"
    /\ op' = None
    /\ UNCHANGED <<tmux, web, late, victim, known>>

(* After 20 s the caller cancels the coroutine and gives the lock back;    *)
(* an answer the event loop has already queued is still carried out.       *)
WebTimesOut ==
    /\ op # None /\ op.step = "rpc"
    /\ op' = None /\ late' = op
    /\ UNCHANGED <<tmux, web, victim, known>>

LateAnswer ==
    /\ late # None
    /\ Adds(late, TRUE)
    /\ late' = None
    /\ UNCHANGED <<tmux, op, victim>>

CancelLands ==
    /\ late # None /\ late' = None
    /\ UNCHANGED <<tmux, web, op, victim, known>>

CloseWeb(n) ==
    /\ op = None /\ web[n] # None
    /\ web' = [web EXCEPT ![n] = None]
    /\ UNCHANGED <<tmux, op, late, victim, known>>

-----------------------------------------------------------------------------
(* Closing a terminal and the idle cleanup do not take the lock: they look *)
(* at a session and then kill whatever has its name.                       *)

ClosesTerminal(n) ==
    /\ victim = None /\ tmux[n] # None /\ tmux[n].managed
    /\ victim' = n
    /\ UNCHANGED <<tmux, web, op, late, known>>

KillSession ==
    /\ victim # None
    /\ tmux' = [tmux EXCEPT ![victim] = None]
    /\ victim' = None
    /\ UNCHANGED <<web, op, late, known>>

-----------------------------------------------------------------------------
(* Panes and people.                                                       *)

Pane(n, session) ==
    /\ tmux' = [tmux EXCEPT ![n] = session]
    /\ UNCHANGED <<web, op, late, victim>>

(* Codex opens the thread it was told to resume, or gives up because       *)
(* another client has it.                                                  *)
CodexStarts(n) ==
    /\ tmux[n] # None /\ tmux[n].prog = "preflight"
    /\ Pane(n, IF tmux[n].aim # None /\ Held(tmux[n].aim)
               THEN [tmux[n] EXCEPT !.prog = "shell", !.aim = None]
               ELSE [tmux[n] EXCEPT !.prog = "codex", !.aim = None, !.thread = tmux[n].aim])
    /\ UNCHANGED known

(* The first message of a conversation, which /new may have begun, makes   *)
(* its thread.                                                             *)
NewThread(n) ==
    /\ tmux[n] # None /\ tmux[n].prog = "codex"
    /\ \E t \in Threads \ known :
           /\ Pane(n, [tmux[n] EXCEPT !.thread = t, !.open = TRUE, !.behind = IF tmux[n].open THEN tmux[n].thread ELSE @])
           /\ known' = known \cup {t}

OpensRollout(n) ==
    /\ tmux[n] # None /\ tmux[n].thread # None /\ tmux[n].prog = "codex" /\ ~tmux[n].open
    /\ Pane(n, [tmux[n] EXCEPT !.open = TRUE])
    /\ UNCHANGED known

(* Codex may close its rollouts while it is idle.                          *)
ClosesRollouts(n) ==
    /\ tmux[n] # None /\ tmux[n].open
    /\ Pane(n, [tmux[n] EXCEPT !.open = FALSE, !.behind = None])
    /\ UNCHANGED known

Quits(n) ==
    /\ tmux[n] # None /\ tmux[n].prog = "codex"
    /\ Pane(n, [tmux[n] EXCEPT !.prog = "shell", !.thread = None, !.open = FALSE, !.behind = None])
    /\ UNCHANGED known

(* A capture records the thread it sees.                                   *)
Observes(n) ==
    /\ tmux[n] # None /\ tmux[n].open
    /\ Pane(n, [tmux[n] EXCEPT !.recorded = tmux[n].thread])
    /\ UNCHANGED known

OpensByHand(n) ==
    /\ tmux[n] = None
    /\ tmux' = [tmux EXCEPT ![n] =
           [hand |-> TRUE, whole |-> FALSE, managed |-> FALSE, launch |-> None, recorded |-> None,
            prog |-> "shell", aim |-> None, thread |-> None, open |-> FALSE, behind |-> None]]
    /\ UNCHANGED <<web, op, late, victim, known>>

-----------------------------------------------------------------------------
(* The Owner dies, and comes back: web sessions move away from names that  *)
(* tmux has, in the order they were made.                                  *)

Conflicts == WebNames \cap Terminals

(* Mutant: only the registry's names are avoided.                          *)
RenamingInRegistry(new) ==
    /\ \A n, m \in Conflicts : n # m => new[n] # new[m]
    /\ \A n \in Conflicts : new[n] \notin WebNames

(* Each gets the lowest name that neither backend has nor had.             *)
Renaming(new) ==
    LET free == Names \ Reserved(Terminals, WebNames) IN
    /\ \A n, m \in Conflicts : n # m => new[n] # new[m]
    /\ \A n \in Conflicts : new[n] \in free /\ \A m \in free : m < new[n] => \E k \in Conflicts : new[k] = m

OwnerRestarts ==
    \E new \in [Conflicts -> Names] :
        /\ Renaming(new)
        /\ web' = [n \in Names |->
                       IF \E k \in Conflicts : new[k] = n
                       THEN web[CHOOSE k \in Conflicts : new[k] = n]
                       ELSE IF n \in Conflicts THEN None ELSE web[n]]
        /\ op' = None /\ late' = None /\ victim' = None
        /\ UNCHANGED <<tmux, known>>

-----------------------------------------------------------------------------
Lock ==
    \/ \E l \in Launches : NewTerminal(l) \/ NewWeb(l)
    \/ \E t \in Threads : ResumeTerminal(t) \/ ResumeWeb(t)
    \/ NewTmuxSession \/ MarkManaged \/ LabelLaunch \/ RecordThread
    \/ WebStarts \/ WebFails \/ WebTimesOut
    \/ \E n \in Names : CloseWeb(n)

Beside ==
    \/ LateAnswer \/ CancelLands \/ KillSession \/ OwnerRestarts
    \/ \E n \in Names : ClosesTerminal(n)

Terminal(n) ==
    \/ CodexStarts(n) \/ NewThread(n) \/ OpensRollout(n) \/ ClosesRollouts(n)
    \/ Quits(n) \/ Observes(n) \/ OpensByHand(n)

Next == Lock \/ Beside \/ \E n \in Names : Terminal(n)

Spec == Init /\ [][Next]_vars

-----------------------------------------------------------------------------
(* The two backends do not share a name, unless a person has made the tmux *)
(* session or the web start was answered after its caller had given up.    *)
NamesAreSeparate ==
    \A n \in Conflicts : tmux[n].hand \/ web[n].late

(* The thread a session is about to open, or has open.                     *)
Aim(n) == IF tmux[n].prog = "preflight" THEN tmux[n].aim ELSE tmux[n].thread

(* No two sessions are for one thread, in one backend or in both, but for  *)
(* terminals whose start was cut short before it recorded the thread and   *)
(* web starts that were answered after their caller had given up.          *)
OneSessionPerThread ==
    LET whole == {n \in Agents : tmux[n].whole /\ Aim(n) # None} IN
    /\ \A n, m \in whole : n # m => Aim(n) # Aim(m)
    /\ \A n \in whole, m \in WebNames : Aim(n) = web[m].thread => web[m].late
    /\ \A n, m \in WebNames : n # m => web[n].thread # web[m].thread

(* A start that was given a limit does not take the agents beyond it.      *)
RunningLimitKept ==
    [][NewTmuxSession /\ tmux' # tmux => Cardinality(Agents') <= op.limit]_vars

(* A launch id is carried by one terminal and by one web session.          *)
LaunchesOnce ==
    \A l \in Launches :
        /\ Cardinality(LaunchedAs(l)) <= 1
        /\ Cardinality({n \in WebNames : web[n].launch = l}) <= 1

ThreadsOnWeb == {web[n].thread : n \in WebNames}

(* A restart takes the names apart and loses no web session.               *)
RestartKeepsThreads ==
    [][OwnerRestarts => ThreadsOnWeb' = ThreadsOnWeb /\ Conflicts' = {}]_vars
=============================================================================
