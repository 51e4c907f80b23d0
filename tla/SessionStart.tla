---------------------------- MODULE SessionStart ----------------------------
(***************************************************************************)
(* What happens between tmux new-session and a Codex that takes input: the *)
(* pane's preflight, which keeps Codex up to date under a file lock of the *)
(* user, the options through which it and the Owner talk, the Owner's      *)
(* start monitors, and what the Owner does after an update.                *)
(*                                                                         *)
(* A pane is the process tmux started, its pid never used again; a name    *)
(* may get a new pane after its session was killed.                        *)
(***************************************************************************)
EXTENDS Naturals

CONSTANTS
    Names,      \* short names of sessions
    Polled,     \* the names that are asked about, a bound: all of them in the code
    MaxThreads, \* bound on the monitor threads at one time
    MaxPanes,   \* bound on the panes ever made
    MaxVersion  \* bound on the versions of Codex ever published

ASSUME BoundsAssumption == MaxPanes \in Nat \ {0} /\ MaxVersion \in Nat \ {0} /\ MaxThreads \in Nat
ASSUME PolledAssumption == Polled \subseteq Names

Panes == 1..MaxPanes
Threads == 1..MaxThreads
Nobody == 0
Broken == 0             \* no version: Codex is not there or does not answer
Versions == 1..MaxVersion
Results == {"current", "updated", "failed"}

VARIABLES
    pane,       \* the pane of a name, or Nobody
    prog,       \* a pane: unused, queued, checking, installing, told, codex, gone
    got,        \* the version a preflight has read
    result,     \* what it will report
    lock,       \* the pane that holds codex-auto-update.lock, or Nobody
    installed,  \* the version on disk
    latest,     \* the version published
    state,      \* codex-auto-update.json: [installed, result, fresh]
    update,     \* @faryo_codex_update of a name
    starting,   \* @faryo_starting_at is set
    error,      \* @faryo_start_error is set
    marking,    \* the start that is writing its options: [name, step], or none
    watch,      \* AGENT_START_MONITORS
    monitors,   \* monitor threads: [id, name, pane, stage]
    calls,      \* what callers of ensure_agent_start_monitor have read: [name, pane]
    displaced,  \* living panes whose entry in watch was overwritten
    helper      \* the version the Owner's helpers were started with

preflight == <<prog, got, result, lock, installed, latest, state>>
options == <<update, starting, error>>
watching == <<watch, monitors, calls, displaced>>
owner == <<marking, watching, helper>>
vars == <<pane, preflight, options, owner>>

NoState == [installed |-> Broken, result |-> "failed", fresh |-> FALSE]
Idle == [name |-> "none", step |-> "none"]
Calls == [name : Names, pane : Panes \cup {Nobody}]
Monitors == [id : Threads, name : Names, pane : Panes, stage : {"watches", "ready", "failed"}]

TypeOK ==
    /\ pane \in [Names -> Panes \cup {Nobody}]
    /\ prog \in [Panes -> {"unused", "queued", "checking", "installing", "told", "codex", "gone"}]
    /\ got \in [Panes -> Versions \cup {Broken}]
    /\ result \in [Panes -> Results]
    /\ lock \in Panes \cup {Nobody}
    /\ installed \in Versions \cup {Broken}
    /\ latest \in Versions
    /\ state \in [installed : Versions \cup {Broken}, result : Results, fresh : BOOLEAN]
    /\ update \in [Names -> Results \cup {"", "pending", "reconciled"}]
    /\ starting \in [Names -> BOOLEAN]
    /\ error \in [Names -> BOOLEAN]
    /\ marking \in [name : Names, step : {"look", "set"}] \cup {Idle}
    /\ watch \in [Names -> Panes \cup {Nobody}]
    /\ monitors \subseteq Monitors
    /\ calls \subseteq Calls
    /\ displaced \subseteq Panes
    /\ helper \in Versions

Init ==
    /\ pane = [n \in Names |-> Nobody]
    /\ prog = [p \in Panes |-> "unused"]
    /\ got = [p \in Panes |-> Broken]
    /\ result = [p \in Panes |-> "failed"]
    /\ lock = Nobody
    /\ installed = 1 /\ latest = 1 /\ helper = 1
    /\ state = NoState
    /\ update = [n \in Names |-> ""]
    /\ starting = [n \in Names |-> FALSE]
    /\ error = [n \in Names |-> FALSE]
    /\ marking = Idle
    /\ watch = [n \in Names |-> Nobody]
    /\ monitors = {}
    /\ calls = {}
    /\ displaced = {}

-----------------------------------------------------------------------------
(* The Owner makes a session and marks it "pending", if its preflight has  *)
(* not already said more.                                                  *)

NewPane == CHOOSE p \in Panes : prog[p] = "unused" /\ \A q \in Panes : q < p => prog[q] # "unused"

Starts(n) ==
    /\ pane[n] = Nobody /\ marking = Idle
    /\ \E p \in Panes : prog[p] = "unused"
    /\ pane' = [pane EXCEPT ![n] = NewPane]
    /\ prog' = [prog EXCEPT ![NewPane] = "queued"]
    /\ update' = [update EXCEPT ![n] = ""]
    /\ starting' = [starting EXCEPT ![n] = TRUE]
    /\ error' = [error EXCEPT ![n] = FALSE]
    /\ marking' = [name |-> n, step |-> "look"]
    /\ UNCHANGED <<got, result, lock, installed, latest, state, watching, helper>>

Looks ==
    /\ marking.step = "look"
    /\ marking' = IF pane[marking.name] # Nobody /\ update[marking.name] # "" THEN Idle ELSE [marking EXCEPT !.step = "set"]
    /\ UNCHANGED <<pane, preflight, options, watching, helper>>

SetsPending ==
    /\ marking.step = "set"
    /\ marking' = Idle
    /\ update' = [update EXCEPT ![marking.name] = IF pane[marking.name] # Nobody THEN "pending" ELSE @]
    /\ UNCHANGED <<pane, preflight, starting, error, watching, helper>>

-----------------------------------------------------------------------------
(* The preflight.                                                          *)

(* Mutant: the lock file is opened and not locked.                         *)
NoLock == TRUE

LockFree == lock = Nobody

TakesLock(p) ==
    /\ prog[p] = "queued" /\ LockFree
    /\ lock' = p
    /\ prog' = [prog EXCEPT ![p] = "checking"]
    /\ \E v \in {installed, Broken} : got' = [got EXCEPT ![p] = v]
    /\ UNCHANGED <<pane, result, installed, latest, state, options, owner>>

(* Mutant: the descriptor is inherited by the Codex that follows.          *)
KeepsLock == lock

Unlocked == Nobody

Ends(p, what) ==
    /\ prog' = [prog EXCEPT ![p] = "told"]
    /\ result' = [result EXCEPT ![p] = what]
    /\ lock' = Unlocked

Saves(version, what) == state' = [installed |-> version, result |-> what, fresh |-> TRUE]

(* A recent answer for the version on disk is used again, unless Codex     *)
(* itself has heard of a newer one.                                        *)
Cached(p) == got[p] # Broken /\ state.fresh /\ state.installed = got[p]

UsesCache(p) ==
    /\ prog[p] = "checking" /\ Cached(p)
    /\ Ends(p, state.result)
    /\ UNCHANGED <<pane, got, installed, latest, state, options, owner>>

NothingToDo(p) ==
    /\ got[p] # Broken /\ latest <= got[p]
    /\ Ends(p, "current") /\ Saves(got[p], "current")

Unknown(p) ==
    /\ Ends(p, "failed") /\ Saves(got[p], "failed")

BeginsInstall(p) ==
    /\ got[p] # Broken /\ latest > got[p]
    /\ prog' = [prog EXCEPT ![p] = "installing"]
    /\ UNCHANGED <<result, lock, state>>

(* The registry, or Codex itself, is asked for the latest version, and may *)
(* not answer.                                                             *)
AsksLatest(p) ==
    /\ prog[p] = "checking" /\ (~Cached(p) \/ latest > got[p])
    /\ NothingToDo(p) \/ Unknown(p) \/ BeginsInstall(p)
    /\ UNCHANGED <<pane, got, installed, latest, options, owner>>

Installed(p) ==
    /\ installed' = latest
    /\ \/ Ends(p, "updated") /\ Saves(latest, "updated")
       \/ Ends(p, "failed") /\ Saves(got[p], "failed")

(* It failed or was stopped after 180 s: done, not done, or half done.     *)
InstallFails(p) ==
    /\ installed' \in {installed, latest, Broken}
    /\ Ends(p, "failed") /\ Saves(got[p], "failed")

InstallEnds(p) ==
    /\ prog[p] = "installing"
    /\ Installed(p) \/ InstallFails(p)
    /\ UNCHANGED <<pane, got, latest, options, owner>>

(* The result goes to the session's option, if tmux answers within 2 s,    *)
(* and Codex takes the preflight's place: its variables are gone.          *)
Forgets(p) ==
    /\ got' = [got EXCEPT ![p] = Broken]
    /\ result' = [result EXCEPT ![p] = "failed"]

Tells(p) ==
    /\ prog[p] = "told"
    /\ prog' = [prog EXCEPT ![p] = "codex"]
    /\ update' \in {update, [n \in Names |-> IF pane[n] = p THEN result[p] ELSE update[n]]}
    /\ Forgets(p)
    /\ UNCHANGED <<pane, lock, installed, latest, state, starting, error, owner>>

(* Somebody closes the session, at any moment.                             *)
Dies(n) ==
    /\ pane[n] # Nobody
    /\ prog' = [prog EXCEPT ![pane[n]] = "gone"]
    /\ pane' = [pane EXCEPT ![n] = Nobody]
    /\ lock' = IF lock = pane[n] THEN Nobody ELSE lock
    /\ installed' \in (IF prog[pane[n]] = "installing" THEN {installed, latest, Broken} ELSE {installed})
    /\ starting' = [starting EXCEPT ![n] = FALSE]
    /\ error' = [error EXCEPT ![n] = FALSE]
    /\ update' = [update EXCEPT ![n] = ""]
    /\ Forgets(pane[n])
    /\ UNCHANGED <<latest, state, owner>>

-----------------------------------------------------------------------------
(* Time: a version is published, the saved answer gets old and is as good  *)
(* as none, a person repairs a broken installation.                        *)

Published ==
    /\ latest < MaxVersion
    /\ latest' = latest + 1
    /\ UNCHANGED <<pane, prog, got, result, lock, installed, state, options, owner>>

Expires ==
    /\ state.fresh
    /\ state' = NoState
    /\ UNCHANGED <<pane, prog, got, result, lock, installed, latest, options, owner>>

Repaired ==
    /\ installed = Broken /\ lock = Nobody
    /\ installed' = latest
    /\ UNCHANGED <<pane, prog, got, result, lock, latest, state, options, owner>>

-----------------------------------------------------------------------------
(* Start monitors: a thread for a pane, found by the session's name.        *)

(* A caller asks tmux for the session's marks, then for its pane, and then *)
(* takes the lock: by that time both may be of another session.  Any       *)
(* number of callers may have read the same, and each may take any time:   *)
(* what was read stays in calls until the Owner ends.                      *)
ReadsMarks(n) ==
    /\ pane[n] # Nobody /\ starting[n] /\ ~error[n]
    /\ calls' = calls \cup {[name |-> n, pane |-> Nobody]}
    /\ UNCHANGED <<pane, preflight, options, marking, watch, monitors, displaced, helper>>

ReadsPane(c) ==
    /\ c.pane = Nobody /\ pane[c.name] # Nobody
    /\ calls' = calls \cup {[name |-> c.name, pane |-> pane[c.name]]}
    /\ UNCHANGED <<pane, preflight, options, marking, watch, monitors, displaced, helper>>

(* Threads are alike: a new one has the least number that is free.         *)
FreeThreads == Threads \ {m.id : m \in monitors}
NewThreads == {id \in FreeThreads : \A o \in FreeThreads : id <= o}

(* The session's living pane loses its entry to one that is gone.          *)
Displaces(n, p) == {watch[n]} \cap {pane[n]} \cap (Panes \ {p})

EnsureMonitor(c) ==
    /\ c.pane # Nobody /\ watch[c.name] # c.pane
    /\ watch' = [watch EXCEPT ![c.name] = c.pane]
    /\ displaced' = displaced \cup Displaces(c.name, c.pane)
    /\ \E id \in NewThreads :
           monitors' = monitors \cup {[id |-> id, name |-> c.name, pane |-> c.pane, stage |-> "watches"]}
    /\ UNCHANGED <<pane, preflight, options, marking, calls, helper>>

(* Mutant: whatever the name's monitor is, it is forgotten.                *)
ForgetName(m) == [watch EXCEPT ![m.name] = Nobody]

Forget(m) == IF watch[m.name] = m.pane THEN [watch EXCEPT ![m.name] = Nobody] ELSE watch

(* It looks at its own pane until Codex takes input or its time is up ...  *)
Decides(m) ==
    /\ m.stage = "watches" /\ pane[m.name] = m.pane
    /\ \E stage \in {"failed"} \cup (IF prog[m.pane] = "codex" THEN {"ready"} ELSE {}) :
           monitors' = (monitors \ {m}) \cup {[m EXCEPT !.stage = stage]}
    /\ UNCHANGED <<pane, preflight, options, marking, watch, calls, displaced, helper>>

(* ... and writes its verdict to whatever session has the name by then.    *)
Writes(m) ==
    /\ m.stage # "watches"
    /\ IF pane[m.name] = Nobody
       THEN UNCHANGED <<starting, error>>
       ELSE /\ error' = [error EXCEPT ![m.name] = m.stage = "failed"]
            /\ starting' = [starting EXCEPT ![m.name] = FALSE]
    /\ monitors' = monitors \ {m}
    /\ watch' = Forget(m)
    /\ UNCHANGED <<pane, preflight, update, marking, calls, displaced, helper>>

LosesPane(m) ==
    /\ m.stage = "watches" /\ pane[m.name] # m.pane
    /\ monitors' = monitors \ {m}
    /\ watch' = Forget(m)
    /\ UNCHANGED <<pane, preflight, options, marking, calls, displaced, helper>>

(* After an update the Owner starts its helpers anew, if the version can   *)
(* be read.                                                                *)
Reconciles(n) ==
    /\ update[n] = "updated"
    /\ helper' \in {helper, IF installed = Broken THEN helper ELSE installed}
    /\ update' = [update EXCEPT ![n] = "reconciled"]
    /\ UNCHANGED <<pane, preflight, starting, error, marking, watching>>

OwnerRestarts ==
    /\ marking' = Idle /\ watch' = [n \in Names |-> Nobody] /\ monitors' = {}
    /\ calls' = {} /\ displaced' = {}
    /\ UNCHANGED <<pane, preflight, options, helper>>

-----------------------------------------------------------------------------
Preflight(p) == TakesLock(p) \/ UsesCache(p) \/ AsksLatest(p) \/ InstallEnds(p) \/ Tells(p)

Ensures(c) == ReadsPane(c) \/ EnsureMonitor(c)

Watches(m) == Decides(m) \/ Writes(m) \/ LosesPane(m)

Next ==
    \/ \E n \in Names : Starts(n) \/ Dies(n) \/ Reconciles(n)
    \/ \E n \in Polled : ReadsMarks(n)
    \/ \E c \in calls : Ensures(c)
    \/ \E p \in Panes : Preflight(p)
    \/ \E m \in monitors : Watches(m)
    \/ Looks \/ SetsPending \/ OwnerRestarts
    \/ Published \/ Expires \/ Repaired

Spec == Init /\ [][Next]_vars

(* Every call of the preflight has a timeout, and a lock that is free is   *)
(* given to one that waits for it.                                         *)
FairSpec == Spec /\ \A p \in Panes : WF_vars(Preflight(p))

-----------------------------------------------------------------------------
(* Codex is installed only when the version on disk is older than the one  *)
(* published: sessions that start together update it once.                 *)
NeverInstallsTwice ==
    [][\A p \in Panes : prog[p] # "installing" /\ prog'[p] = "installing" => installed < latest]_vars

(* Every session that was started runs its Codex or is closed: no          *)
(* preflight waits for the lock for ever.                                  *)
EveryStartProceeds ==
    \A p \in Panes : prog[p] = "queued" ~> prog[p] \in {"codex", "gone"}

(* A session's pane is watched by two monitors only after a caller that    *)
(* had read an older pane of the name wrote over its entry.                *)
WatchedOnce ==
    \A m, o \in monitors : m.pane = o.pane /\ pane[m.name] = m.pane => m = o \/ m.pane \in displaced
=============================================================================
