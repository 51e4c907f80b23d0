# Faryo Owner in TLA+

Faryo puts Codex sessions in a browser. An **Owner** process on the user's machine runs
the sessions, either as terminal sessions (Codex in a tmux pane) or as App Server sessions
(Codex's JSON-RPC server as a systemd unit of its own). A **Gateway** authenticates browsers and proxies
them to Owners. The **CLI** installs and updates both. This directory holds
TLA+ models of the parts where an error would be hard to find by test: the life of App
Server sessions and of terminal sessions, the two ways a message travels to Codex, what Codex asks and people
answer (in both kinds of session), what a browser shows of Codex's answers and of its rollouts, and the
installation of a new version.
Paths below are relative to `src/apps/owner/local-tmux-owner/` unless they say otherwise.

## Inventory

| Component | State | Operations | Hard behaviour | What must hold |
| --- | --- | --- | --- | --- |
| **Session supervisor** `appserver_session_supervisor.py`, start/resume/close in `appserver_runtime.py`, `appserver_registry.py`, `src/src/faryo_cli/appserver_workers.py` | registry file; per session a worker unit, a client, a reconnect task, failure windows, circuit, restart request | open (start, resume), close, restore_all, disconnect handler, request_restart, probe, recover loop | disconnects, probes, restarts, closes and cancelled calls overlap on one event loop; workers crash; the Owner restarts and workers live on | sessions share no worker and no thread; none is forgotten; "ready" can be used; a close frees the thread; everyone recovers |
| **App Server send path** `appserver_runtime.py` `_send`, `appserver_transport.py`, `appserver_session.py`, `static/owner/composer-delivery.mjs` | drafts, send tasks, send lock, receipts, the actor's items and active turn, pending requests | send, duplicate, steer or start a turn, notification, hydrate | lost replies, timeouts, lost connections, Owner restarts, stale turn | a message is taken at most once; a receipt is true; sends end |
| **Tmux delivery** `delivery_service.py`, `delivery_store.py` | delivery records in memory and on disk, the pane, its composer, queue and rollout | send (paste, confirm, key, evidence), recover | no acknowledgement from a terminal: timeouts, a person typing, crashes between paste, key and record | as above, over an unreliable terminal |
| **Event journal** `appserver_events.py` | sequence, retained events, bytes, epoch | publish, trim, replay | budgets by count and bytes, restarts, cursors of old epochs | a replay is exact or says why not |
| **Interactions and slash commands** `appserver_requests.py`, `appserver_commands.py`, `command_timeline.py` | one pending request and one picker per session, the sheet shown, receipts, the timeline's file | request, respond, cancel, begin, close, load | slots tested before an await, answers from old and from several tabs, retries, restarts between an RPC and its row | an answer goes to the question it was given for; a pending question can be seen; a command runs once; rows are true |
| **Event stream** `owner_asgi_events.py`, `appserver_session.py`, `static/owner/capture-controller.mjs` | the actor's text, the stream's cursor, frames, what waits to be painted, a refresh in flight | notifications, hydrate, wait, capture, frame, paint, refresh, retry | events and captures read at different moments, dropped frames, old answers | the browser ends up with what the session shows; the final text is whole |
| **Session launch** `session_launch.py`, `session_namespace.py`, `codex_writer_guard.py`, `owner_asgi_control.py` | tmux sessions and their options, the registry, a call whose caller gave up | start, resume, close, cleanup, restart | tmux calls that time out, web calls whose caller is gone, people in the panes, closes beside the lock | one session per thread and per launch id, one backend per name, the limit |
| **Session start** `codex_update_preflight.py`, monitors in `session_launch.py` | the update lock, its state file, session options, monitor threads | preflight, update, mark, monitor, reconcile | sessions that start together, kills, reused names, failing updates | no start waits for ever; one update; one monitor per pane, unless a caller with an old reading wrote over its entry |
| **Terminal interactions** `interaction_service.py`, `codex_tui_interactions.py`, `command_timeline.py` | generations, ids, receipts, rows | detect, poll, respond, begin a command | the menu changes between look and key; late polls; retries | the key falls where the person clicked; a command runs once |
| **Rollout readers** `server.py`, `codex_history.py`, `appserver_rollout.py`, `appserver_history.py`, `static/owner/history-controller.mjs` | a cached state per path and reader, the browser's pages | look (stat, read), rebuild, follow, page, merge | torn records, a file replaced or cut between stat and read, evictions, old cursors | following a file comes to what reading it says; pages join to one conversation |
| **Versioned installation** `src/src/faryo_cli` | version directories, links, configuration, units, services, the registry's schema | install, update, roll back, migrate, start, stop, uninstall | a failure, a kill or a reboot between two steps; sessions that go on | only whole versions run; a failed switch is taken back; running turns survive |
| Owner facade, catalog, workspace, files | configuration, caches | HTTP reads and checks | little: each request is on its own | – |
| Gateway `src/apps/gateway/server` | sessions, audit log, bridge packages | login, proxy, bridge | retention, revocation | – |
| Browser UIs, build tools, vendored code | – | presentation | – | – |

How they interact: a browser's send goes through the Gateway, unchanged, to the Owner,
which hands it to `DeliveryService` for a terminal session and to `AppServerRuntime._send` for an App
Server session. The runtime asks the supervisor for the session's client, and the client
talks to the worker. Notifications flow back through the client to the session's actor,
and from there into the journal, which all browser streams tail. Requests of Codex wait in the
broker and slash commands in the command service; both show their sheet through the actor. Recovery replaces
the client, resumes the thread and hydrates the actor from the answer.

## Modules

| Module | What it is |
| --- | --- |
| `ReliableDelivery` | abstract: what the Owner promises of a message, whichever way it travels |
| `TmuxDelivery` | the terminal's way; implements `ReliableDelivery` |
| `AppServerSend` | the App Server's way; implements `ReliableDelivery` |
| `SessionSupervisor` | workers, clients, recovery tasks, start, resume and close |
| `Interactions` | requests of Codex, slash commands, their sheets and rows |
| `EventJournal` | the journal and its replay |
| `CaptureStream` | extends `EventJournal`: from Codex's notifications to a browser's screen |
| `SessionLaunch` | names, threads and launch ids over tmux and registry |
| `SessionStart` | from a new pane to a Codex that takes input: preflight, options, monitors |
| `TuiInteraction` | menus and slash commands of a terminal session |
| `RolloutReaders` | the readers of a growing rollout and the history pages |
| `VersionedInstall` | install, update, rollback and the services |
| `TmuxDeliveryProofs`, `AppServerSendProofs`, `CaptureStreamProofs`, `SessionLaunchProofs`, `SessionSupervisorProofs`, `SessionViewProofs` (of `Interactions` and `RolloutReaders`), `TerminalSessionProofs` (of `SessionStart` and `TuiInteraction`), `VersionedInstallProofs` | the theorems |
| `MC*` | the instances TLC checks |

### SessionSupervisor

Everything runs on one event loop, so an action is the code between two awaits.
`registry`, `clients`, `task` (reconnect_tasks), `restart_requested`, `failures`,
`circuit` and `probe_failures` are the supervisor's dictionaries of these names; `conn`
is the state of each client object, with `notice` for a disconnect callback that is still to run;
`unit` and `loaded` are systemd and Codex: whether a worker runs, and which thread its
process holds open for writing. `op` is the start, resume or close under
the namespace lock. `OpenBegin`, `OpenConnected`, `OpenRegistered`, `OpenDiscarded` are `_start_session`
and `_resume_session`; `CloseBegin` to `CloseFails` are `_close_session` with
`stop_worker`, and `CloseFails` is also the caller's deadline; `RecoverAttempt`, `TaskConnected`,
`TaskResumed`, `TaskFails`, `RecoverEnds` are `_recover` and `_restore`; `Disconnected`,
`RequestRestart`, `ProbeFails`, `WorkerResponds`, `RestoreAll` are the handlers.

Taken for granted: an answered RPC resumes its coroutine before the same connection's
disconnect handler runs; a cancelled `to_thread` that still queues is withdrawn, and one that runs has issued its
systemctl verb; a verb takes effect (a `stop` that fails is swallowed in
`discard_unregistered` and listed as a hazard); the Owner restarts gracefully, with
no start or close under way, and the registry is saved. `FailureLimit` stands for both
limits the code sets to 3: failures that open the circuit and attempts before "degraded".

Nothing keeps recoveries and closes apart: the control plane may come back (`RestoreAll`), a disconnect handler may
run and a restart may be requested while a close waits for its worker to stop, as none of them takes the namespace
lock. `revived` (history) holds the workers a recovery went for in that time. Such a worker may be back when its session is closed, and if
the name is given again meanwhile, its recovery connects the new session to it (`Usurped`), or it still writes a thread
that another session has opened (`Locked`). The properties except exactly that, and the run
`close_releases_writer` shows it. `abandoned` holds the names whose close failed after it took the client and the task: nothing
brings those back but the control plane's next connection, so `NobodyForgotten` and `EverySessionRecovers` do not speak of them.

### ReliableDelivery, TmuxDelivery

`ReliableDelivery` has two steps that matter: Codex takes messages, each at most once,
and a browser is told "accepted" of a message taken before. It excuses what no program could
promise: messages a person touched in the terminal while they were under way, and shell command
lines whose delivery was interrupted (the code makes no checkpoint for them). A
pane without Codex gives no evidence, and there "accepted" means sent; those are `unseen`.

`TmuxDelivery` is one pane. `handler` is the request that holds the session lock, and an action is one
call to tmux or one look at screen or rollout. The terminal handles its input (`pty`) in
order. Codex's composer, queue of follow-ups and rollout are modelled as far as the code
relies on them (external in the map). A person may type, clear and enter.
The Owner may die between any two steps: `memory` goes, `disk` stays.
`Promise == INSTANCE ReliableDelivery` maps `taken`, `told` and `unseen`, which are history variables, by name, and `excused`
to what a person or an interruption excused together with `Alike`: evidence is matched by text (`server.py:2573`), so of two ids with the
same text one can pass for the other, when the rollout line of the first comes late.

Taken for granted: a terminal handles a paste before the Owner gives up on its
confirmation (`TuiMayLag = FALSE`; otherwise the retry pastes again, a listed hazard); records do not expire, disk writes
succeed and the rollout is found.

### AppServerSend

One session and its senders. `draft` and `told` are the browser; `task`, `order`, `receipts` are
`send_tasks`, the `asyncio.Lock` with its waiters, and `send_receipts`; `items` and `active` are the
actor; `link`, `degraded`, `snapshot` are the connection as `client()` sees it, reduced to what a
send can tell apart; `wire`, `answer`, `notices` are what is between Owner and worker;
`turn`, `turns`, `taken` are Codex. `Submit` is `_send` (duplicate, submitting, or a new task);
`AckWaitEnds` is the 0.35 s after which it answers "submitting"; `Dispatch`, `Refused`,
`Succeeds`, `Rejected` and `TimesOut` are `_perform_send` and the callback of its task;
`Notice` is the notification task; `ConnectionLost`, `Reconnects`, `ResumeFails` and `Hydrates` are a
recovery in the steps a send can fall between; `OwnerRestarts` loses everything
in memory. A recovery that follows failed ones may find the session "degraded" (after three attempts of `_recover`, or one of
`_restore_record`), and then sends pass before it is hydrated (`Accepting`).

It implements `ReliableDelivery` with nothing unseen. `excused` are the messages for which the code does break the promise, and no others:
a message that was tried before and is handed over again after `_send` looked for its id in an actor that was out of touch (`link # "up"`; `blind` remembers the
look), and one whose request times out while the session has a connection and is not yet hydrated from it. An answer "submitting" clears the draft but tells nothing,
so it does not count as told. Faults, turns and retries have no bound; `MaxTaken` bounds how often an *excused* message is sent again, and nothing else.

Taken for granted, of Codex: a thread/resume answer holds every user message taken, with its
clientId; turn/start joins a running turn; turn/steer with another turn's id is
rejected; what was sent on an old connection is handled or lost by the time
the next is up.
Not modelled: receipts expire after 48 h, a reused id with other content is refused,
overload retries within a request, interrupts, closing the session.

### Interactions

One session. `request` is the life of each thing Codex asks; `slot` is the broker's `pending_by_session`,
`picker` the command service's `pending`, `shown` the actor's `interaction`: three places that must agree
about one sheet. `command` is a `_begin_command` between its awaits and `answers` counts the answers to a picker that are
in their RPC. `rows` is the timeline's file, `receipts` the runtime's `command_receipts`. `seen`
holds the sheets some tab may still have open, since browsers are told late or
not at all. `decision`, `sheet`, `heard`, `ran` and `settled` are history variables: what was decided, on whose
button, and what Codex heard and did.

`Asks` is `_server_request_for` with the broker's `request` up to its await (declined when the slot or the sheet is taken),
`RequestEnds` its `finally` and the reply. `Choose` and `CancelRequest` are `respond` and `cancel`; they differ in that only the first finds the request by
the sheet's id. `Begin` to `CallerGivesUp` are `_begin_command`, cut at its RPCs; `Pick`, `PickDone`, `PickFails` and
`CancelPicker` are `_respond_interaction` for a picker; its other branch is the broker's. `Reconnects` closes the old client,
which cancels the tasks of its requests; `OwnerRestarts` keeps only the timeline's file and closes the rows it finds open.

Taken for granted: ids are random and never reused, and every answer has a new client request id (the
browser makes one per press), so receipts of answers change nothing; an id and a command's text belong
together; the session's actor exists when Codex asks; RPCs of a lost connection have
failed before the next one is up (`reader_loop` fails them at once); a single RPC (15 s) ends before its
caller (20 s), which leaves out overload retries. Commands without a row (`/usage`, a bare `/goal`), the expiry of receipts and the
trimming of rows are left out. `MaxAnswers` bounds the answers to one picker that are in flight.

### EventJournal, CaptureStream

`EventJournal` is `publish`, `_trim`, `replay` and the fresh epoch of a restart. An event is its number and size. What `_trim` sums and `replay`
selects are recursive functions over the number of events looked at (`BytesUpTo`, `AfterUpTo`), so that they can be proved about.

`CaptureStream` extends it: the actor publishes into that journal, the stream replays it. One session, one turn with
one answer, one browser. `worker`, `link`, `answer` and `queue` are Codex and the connection to it; `actor` is what
`WebSessionActor` keeps of the answer (text, final, running, revision), `batch` the runtime's delayed delta;
`stream` is a generator of `OwnerEventStreams` between its awaits, `wire` the frame on its way; `browser` and
`refresh` are the capture controller. `HearsNotice`, `HearsDelta`, `FlushesDelta` are `_notification`;
`Hydrates` is `_session_hydrated`; `StreamWakes`, `StreamReads`, `StreamWrites` are `_web_stream` cut at its awaits, which is what
makes the id of a frame older than its capture; `TerminalLooks` and `TerminalWrites` are the stream of a terminal, which has no
events; `Receives` to `RefreshFails` and `Wakes` are `capture-controller.mjs` with the page events of `app.js`.
`backend` and `watched` are chosen at the start. `said` and `late` are history.

Taken for granted: a timer, which takes seconds, finds nothing else under way (`Resting`); while a browser watches, the actor keeps up with
Codex and the link is back before Codex goes on (`WorkerMayStep`): link faults are explored without a browser, browser
faults with the link up. The runtime publishes only small replayable events, so what the journal never retains does not
occur. A change of session, the full-output mode and the limit of open streams are left out.

What the code does and the properties allow: a "stream-state" frame carries the newest id before its capture and the cursor advances before the
capture is painted, so what is dropped in between is not asked for again; an answer of a non-safety refresh replaces what is
newer. The timers repair both, which is what `ShownCatchesUp` shows (without the safety refresh it fails). An older thread/read applied over
the end of an answer leaves a truncated "final" text until the next hydration (`late`). Hydration marks an item in
progress as final, so its deltas are ignored until it is completed.

### SessionLaunch, SessionStart

`SessionLaunch` has the tmux sessions with the options the Owner sets on them (`tmux`), the registry (`web`), the start or resume
under `RUNTIME_LOCK` (`op`), a web start whose caller gave up (`late`) and the session a close or cleanup will kill
(`victim`). A start in tmux is four calls, `NewTmuxSession` to `RecordThread`, each of which may time out; `Terminal(n)` is what
goes on in a pane. Taken for granted: a login shell reaches its preflight at once, nobody runs Codex in a pane by hand,
no thread is loaded in the control plane, archiving is left out. `OneSessionPerThread` excepts starts that were cut short before the
thread was recorded (`whole`), and with `NamesAreSeparate` a web start answered after its caller was gone (`LateAnswer`).
A close looks and then kills by name; it may kill a session made in between (`KillSession`).

`SessionStart` has the panes' preflight programs with their file lock and saved state, the options `@faryo_*` of a
name, the Owner's marks and monitors and what follows an update. `ensure_agent_start_monitor` (`session_launch.py:267-279`) is three steps: it asks tmux for
the session's marks (`ReadsMarks`) and for its pane (`ReadsPane`) before it takes its lock (`EnsureMonitor`). `calls` keeps every reading until the Owner ends, so a
caller may come with one that is arbitrarily old. It may then write the name's old pane over the entry of the new one (`displaced`), and the next caller starts a
second monitor for the new pane: `WatchedOnce` excepts that and nothing else. `Polled` are the names whose callers are followed and
`MaxThreads` bounds the monitor threads at one time. Known: a start reads the update option and then sets it to pending, over what
a preflight reported in between; a monitor's verdict may be written to the pane that came after (two tmux calls).

### TuiInteraction

One terminal session. `screen`, `composer`, `pty`, `busy`, `quoted` are the terminal; `known` is the service's `session_states`, `poll` a poll
between its capture and its decision, `tab` a sheet that is maybe old, `ask` and `handler` the requests, `rows` and `link` the
timeline. A menu that is read is `fp`: which menu is live, as what it is read (`as`), and the selection: detectors are tried in
order and take everything from their title to the live confirm cue. `Respond` to `SeesNoChange` are `respond`, key by key;
`Begin` to `Ambiguous` are `begin_command`.

`ChoosesWhatWasClicked` excepts what the code cannot see: answers a person or Codex came in between (`touched`), an id and a
selection of different looks (`mixed`: `respond` compares the id with one reading and takes the selection from `session_states`), a menu that
looks like the last one and came up unread (`unseen`: an id has no text of what is approved) or after a restart, and
a live menu under a quoted title. The last one departs from the module's own comment, "Text quoted in an old conversation must
not become a live remote-control surface" (`codex_tui_interactions.py:4-5`): `_active_menu_bounds` (47) takes a quoted title's last line
as the start of a live menu of a later detector.

### RolloutReaders

`path` is the file as whole and torn records; `cache` the state of a reader, `look` a look between stat and read, `held` the
browser's pages. The three readers share nothing, so a behaviour has one of them (`reader`, chosen at the start); the
fourth, "web", pages over the actor. `TailReads` is `codex_rollout_state` (rebuild or catch-up), `IndexReads` and
`Serves` the history index and its page, `ActivityReads` `appserver_rollout._update_index`, `WebServes` `appserver_history`;
`Merge` is the browser's. `MessagesOf`, `TrueGoal`, `TurnsOf` and `ActivityOf` are the reference: what the records
from one to another say, found by their ranks and not by reading on (`InOrder`).
Records name their turn or not (`turn`, 0 when they do not); a record that does belongs to it (`NamedOr`), and the end of a named turn closes that turn only
(`ActiveAfter`, `appserver_rollout.py:42-74`). `TurnAt` and `OwnTurn` say it for the reference.

Excepted, and what the code does: a goal whose call and output have a question between them (`Straddled`: a rebuild reads backwards,
`server.py:1615`); a read that fails half way leaves records in the shared state, which are indexed twice (`spoiled`, `server.py:1342`,
`appserver_rollout.py:223`); a file cut in place and written over to its old size is followed as if nothing had happened, and a
new Owner gives a cut file its old revision (`blurred`, 1362-1364); the page is read after the index's lock is given back (1450).

### VersionedInstall

`dir`, `current`, `marker`, `env` are the installation; `units`, `enabled`, `svc`, `legacy` systemd and the Owner of old; `schema`, `sessions`,
`workers`, `holds`, `turn` what goes on in sessions. `cmd` is the command with its step (`pc`): `Prepare` and `Builds` are `prepare_version`,
`Configures` to `SetsPython` `install_versioned_application` and `switch_version`, `Checks` to `Healthy` `install_services`,
`Disables` to `RestoresApplication` the way back, `Migrates` and `MigrationFails` `migration.py`. Every step
that writes, links, prepares, checks or talks to systemd may fail, the
command may be killed and the machine may reboot between two steps. One command at a time; start, stop, restart and
uninstall are one step each.

What a failure does depends on where it happens. From `install_services` on a failure is caught and taken back (`Undoes`). `activate_version`
(`MarksPrevious`, `Switches`, `Links`) is called before the guarded part (`application.py:521`, `maintenance.py:66`): when its marker, `current` or the link
of `faryo` fails (`ActivationFails`), the command ends there, and what was changed, the configuration of a first install included, stays. The way back of the files is
`RestoresConfig`, `RestoresLink`, `RestoresBin` and `RestoresMarker`, one after the other; when one fails (`RestoreFails`), those
behind it are left out, so a `restore_private_files` that fails (`:534`) leaves the new link. Both are `cmd.left`, which `FailedSwitchesRestore`
excepts beside `torn`.

Known behaviours it has, which the properties except or do not mention: the units are written outside the guarded part, so a
failure there leaves the new ones (`torn`); a session or turn that begins after the check is cut or doubly served (`late`); units of another shape
left unstarted by `--no-start`, a kill or an uninstall that keeps the registry (`loose`) let a worker and the shared App Server hold one
thread, and an older Owner meets schema 2; after an uninstall with sessions installs are refused. A failed install or
update leaves `previous-version` naming the active version, so a rollback refuses (`docs/local-installation.md:187`); a partial version
directory blocks that version for good; the way back disables the services and never enables them again.

## Runs

| Run | Instance | Shows |
| --- | --- | --- |
| `supervisor` | 2 names, 2 workers, 3 clients, 2 threads, effort 5 (an open costs 2, a fault 1), fair | `SessionsAreDisjoint`, `NobodyForgotten`, `ReadyIsUsable`, `ClosesFindRecoveries`, `EverySessionRecovers` |
| `close_releases_writer` | 1 name, 1 worker, 2 clients, effort 2 | **violated**: `CloseReleasesWriter` |
| `delivery` | a message, the same id with another text, a shell command, another id with the first text; 2 keys, 3 sends, 1 crash, 1 human act | `KeepsPromise` (refinement), `AcceptedIsRemembered` |
| `app_server_send` | 2 messages, `MaxTaken` 0 (an excused message is not sent again), fair | `TypeOK`, `OneSendAtATime`, `KeepsPromise` (refinement), `EverySendEnds` |
| `retry_before_hydrate` | 1 message, `MaxTaken` 1 | **violated**: `NoSecondUserMessage` |
| `interactions` | 2 requests (1 cannot be cancelled), 1 direct command, 2 pickers, 1 answer in flight, fair | `OneRequestWaits`, `SheetsAreLive`, `ApprovedOnItsSheet`, `FirstAnswerCounts`, `RunsOnce`, `RowsAreTrue`, `EveryRowSettles` |
| `capture` | 3 deltas (1 while watched), a journal of 2 events or 3 bytes, 3 waiting notifications, 1 fault, 1 restart, fair | `BudgetKept`, `ReplayIsExact`, `FramesCoverTheirId`, `FinalTextIsWhole`, `ShownCatchesUp` |
| `session_launch` | 2 names, 2 threads, 1 launch id, limits 1 and 2 | `NamesAreSeparate`, `OneSessionPerThread`, `LaunchesOnce`, `RunningLimitKept`, `RestartKeepsThreads` |
| `session_start` | 2 names (the callers of 1 followed), 2 panes, 2 versions of Codex, 2 monitor threads, fair | `NeverInstallsTwice`, `EveryStartProceeds`, `WatchedOnce` |
| `tui` | 2 answers, 4 commands, 2 looks of menus, 2 menus, 2 requests, 2 options, 1 fault | `ChoosesWhatWasClicked`, `CommandsRunOnce` |
| `rollout` | 4 records, 2 faults, transcripts and pages of 2 turns | `TailIsRight`, `IndexesAreRight`, `HistoryIsOneConversation` |
| `install` | 3 versions (1 of the old shape), 2 commands, 1 service command, 2 faults, 3 beginnings | `FailedSwitchesRestore`, `OnlyCompleteVersionsRun`, `ServicesAgreeOnSessions`, `TurnsOutliveSwitches` |

Of the type invariants a run checks `TypeOK` of `AppServerSend`; all are proved (those of `RolloutReaders` are parts of `FileInv`, `LookInv`,
`CacheInv` and `RevInv`).

*Why the bounds are enough.* Two sessions let two compete for a worker, a
thread and a name; three clients are the one served, the one a recovery builds, and one of the other session.
`MaxEffort` 5 is one session with three faults, or two sessions, or one closed and one opened again, with one fault beside them: three faults reach the circuit (`FailureLimit` 2) and a forced
restart with one to spare. `close_releases_writer` needs one open and no fault: the control plane is connected late. In
`delivery` three sends are a message, its retry, and another, of which two may have one text; one
crash or failed call between any two steps and one human act at any time; two keys are a
first and a repeated one. In `app_server_send` two messages are a holder and a waiter; faults, turns
and retries are unbounded, and of a message that is excused the promise says nothing more, so it need not be sent again (the violation run does so once). In `interactions` two requests compete for the slot and one may be decided on
the other's sheet; two pickers replace each other; faults, retries and restarts are
unbounded. In `capture` either budget may bind first (two events; a lone delta and one other event), so browsers meet gaps; one fault at any
time is enough for each way a frame gets lost, and the restart comes beside it. In `session_launch` two names are one to
take and one that is taken, two threads are two for one name, and limit 1 makes the second start the one that is refused. In `session_start` the second pane waits
for the first one's lock or takes over its name, with the callers that had read the first; names do not meet in the table of monitors, so the callers of one are followed; two threads are the pane's
monitor and a second one. In `tui` two menus are the clicked one and the one that took its place; two requests are
a request and its retry, or two people. In `rollout` four records hold a question, a call, its output and what came between, or two turns and a page
of each; two faults are a replacement and what goes wrong in the following look. In `install` two commands are a switch and the next
one that meets what it left, two faults a failure and a failure of the way back, or of an activation and of the next command's. Threads and answers are interchangeable, so runs of
invariants and of properties of single steps permute them; runs of liveness properties use no symmetry.

*Deadlock.* `AppServerSend` and `Interactions` may always go on and are checked for deadlock. The others
say `CHECK_DEADLOCK FALSE`: when their budgets are spent and nobody sends, opens, closes, writes or installs,
the system rests, as the program does.

*Fairness.* `supervisor`: weak fairness of the open and the close under way, of `restore_all` once the control plane is connected, of each disconnect
handler, each recovery task, each circuit and each probe that is answered: the event loop runs what is ready, awaited calls end
(each has a timeout), back-offs and circuits expire, the monitor probes
again; no user action, fault or systemd restart is obliged to happen. `app_server_send`: weak
fairness of each send task, which has a deadline, and of nothing else: **none for Codex**, which may never answer, none for recovery,
which may fail for ever, and none for notifications. `interactions`: weak fairness of the end of a request's
task, of a command and of an answer (each has a deadline or nothing left to wait for); none for people, Codex, faults or recovery.
`session_start`: weak fairness of each pane's preflight, whose every call has a timeout and whose lock goes to one that waits; none for the
Owner or people. `capture`: weak fairness of the Owner's tasks and timers (notifications, flushes, reconnecting, streams), of the browser's
(starting a stream, frames, painting, timers) and of answers to requests that do not fail; none for Codex, faults or the person.

## Where code and documents disagree

Two runs show a disagreement, each with its finding in PROJECT.json:

* `retry_before_hydrate` violates `NoSecondUserMessage`: a degraded session (after one failed `_restore_record`, or three attempts of `_recover`) accepts sends
  between its new connection and its hydration; the retry of an indeterminate send is then a second user message. So is a retry whose task reaches
  `client()` after the hydration that followed `_send`'s look at the actor.
* `close_releases_writer` violates `CloseReleasesWriter`, which is `README.md:141-142` of the repository ("Closing one Web session stops only its worker and immediately
  releases its writer"): `stop_worker` empties `clients` and `reconnect_tasks` and waits for the unit to stop. If the control plane comes back during that
  wait, `restore_all` (`appserver_session_supervisor.py:237-243`) finds the session without either and restores it; its worker is
  started again and survives the removal of its record. `ClosesFindRecoveries` is what holds: a close finds and ends the recoveries that are under way when it begins.

The models have these behaviours too. No run claims the opposite, and the properties are stated so that they say what does hold:

* *A switch that fails in the middle* (`application.py:317-331`): `docs/local-installation.md:190-191` says "Service health failure restores config, links, units, and the
  previous services". This holds for failures of the guarded steps; a failing `activate_version` is not taken back, and one failure of the way back leaves what is
  behind it (`ActivationFails`, `RestoreFails`).
* *A second monitor* (`session_launch.py:267-279`), see SessionStart.
* *A stale turn* (`appserver_session.py:787`): a `turn/completed` right behind the `thread/resume` answer is applied before it;
  hydration then sets the ended turn again. Later sends are steered into it and rejected (`Hydrates`).
* *A lost draft* (`appserver_runtime.py:734`): the answer "submitting" clears the draft of a send that then fails unheard (`TellAccepted`, `Fail`).
* *A hidden request* (`appserver_commands.py:239`): `/model` sees that nothing is pending, asks Codex for its list, and then shows its picker over the approval
  that came meanwhile (`OpensPicker`). The approval keeps the broker's slot, so that every later one is declined, but no reload or
  snapshot shows it. The picker itself can get lost in the same way: `_close` pops whatever picker is open, so the sheet of a newer one may stay though it
  cannot be answered; `SheetsAreLive` says only what holds.
* *An old sheet* (`appserver_runtime.py:1156`): Cancel on a sheet other than the open picker declines the session's pending request, whichever it is.
  `ApprovedOnItsSheet` holds: an old sheet can decline, never approve.
* *A quoted menu* (`codex_tui_interactions.py:47`), see TuiInteraction.
* *Over a terminal* (`delivery_service.py`): the composer is looked at before the paste and not before each key (177, 313), a shell line has no
  checkpoint (155), and evidence is matched by text (`server.py:2595`).

## Proofs

`AppServerSendProofs` proves, for **every** set of messages:

* `TypeCorrect`: `Spec => []TypeOK`, and `SendsAreSerialised`:
  `Spec => []OneSendAtATime`. `OneSendAtATime` is inductive with
  the types: `LockOrder` says that the lock's queue has each running send once and only its
  head is in its RPC; `RequestOwner` that a request somebody waits for belongs to that
  send, has no answer yet, and is the only one.
* `SendsKeepThePromise`: `Spec => KeepsPromise`, and `KeptNeverTwice`: Codex takes no message twice that is `Kept`, that is, not excused. Neither assumes
  anything of the recovery. `taken` cannot be bounded from the lock alone: a retry is
  safe because the Owner *knows*, which is the invariant `Knowledge`, of kept messages. A request still on the wire is of a
  message not yet taken, and one per message (`RequestIsFresh`); an abandoned request or one that is
  waited for tells the state of the link (`LinkTellsRequests`); what receipts, items, announced messages or a
  positive answer say was taken, was taken (`BeliefIsTrue`); while the link is up or joining,
  every message taken is in a receipt, in the conversation or the snapshot, or its answer is there (`KnowsTaken`); what was never tried is nowhere (`UntriedIsNowhere`), and what was looked
  for in an actor in touch and not found has not been taken when its task dispatches it (`LookedIsNowhere`). `Believed` joins it with the types
  and the lock and is inductive; under it Codex's step is `Take`, a
  final receipt is `Tell`, and every other step stutters. `retry_before_hydrate` shows
  that an excused message may be taken twice.

`TmuxDeliveryProofs` first proves that the promise means what it should: `PromiseAtMostOnce`
(no message that is not excused is taken twice) and `PromiseTellsTheTruth` (a receipt follows the taking). Then, for **any** messages, number of keys,
sends, crashes and human acts:

* `TypeCorrect`, and `AcceptedStays`: `Spec => []AcceptedIsRemembered`, whether or not the terminal lags. `RecordInv` adds that what memory knows
  is on disk (`MemoryIsOnDisk`), that the request at work was let in against the record of its id (`RequestIsSound`), and that a shell line has no
  checkpoint (`ShellLinesAreNotPasted`): so no second text of an id gets as far as a write.
* `DeliveryKeepsThePromise`: `Spec => KeepsPromise`, and `DeliveredOnce`, which combines it with the theorems above; both
  assume `TuiMayLag = FALSE`, as the run does, and with TRUE they do not hold. The invariant `DeliveryInv` speaks of a message with a text
  of its own that nobody excused. It has at most one copy, wherever it is: in the terminal's input, the composer, a queued follow-up or taken
  (`OneCopy`). A paste is only on its way when the request that made it still waits for it, and a copy nobody waits for has a "pasted" record or shows in the
  composer (`PasteIsSound`, `Loose`), which is what a retry looks for before it pastes. Whatever counts as evidence (a rollout line, a queued
  follow-up more than before, a composer that no longer holds the text) means the copy was taken or a person was there (`EvidenceInv`).

`SessionViewProofs` proves, for **any** sets of requests and commands of `Interactions`:

* `TypeCorrect` and `OneAtATime`: `OneRequestWaits` is inductive; it is what makes `Asks`' test of the slot enough.
* `LiveSheets`: `SheetsAreLive` rests on it, since freeing the slot must also take the sheet of the one request that held it.
* `ApprovalIsMeant` and `FirstAnswerWins`: `DecisionsFollow` is needed, which ties `decision` and `sheet` to the
  state of the request: a yes carries the request's own sheet, and nothing is decided before `request` says so.
* `AtMostOneRun` and `TimelineIsTrue`: `RowsFollow` says that a command in its RPC has a row "running" and that a direct command without a
  row never ran, so a retry after a lost reply or restart is answered by the row.

and of `RolloutReaders`, for **any** file, limits, cuts, replacements, evictions and failed reads:

* `ReadersFitTheirFile`: `IndexReadersInv` is inductive. `FileInv` numbers the records in the order they were written and puts each output behind its call. `CacheInv`
  is what the test of a look rests on (`server.py:1677`, inode and size): a state of the file's generation has read no more than the file holds, and one of an
  earlier generation of the inode has read more, or the cut has escaped it. So a look that goes on from a state that is not of this generation is known
  to be `blurred`, and a look during which nothing changed has read everything. `IndexInv` says that the two indexes hold what the records they have read
  say, unless a failed read has left some in them.
* `IndexesAreTrue`: one record more changes the truth as it changes the index (`TurnsStep` for `Add`, `ActivityStep` for `Follows`); the recursive functions of a
  look follow by `Upwards`, induction with a set of numbers, and what is read stays read (`StillThere`).
* `TailIsTrue`: `TailInv` says the same of the tail, from the first record its rebuild could reach. A bounded list of messages is only known to *cover* the
  whole list: it is an end of it that holds all the turns that fit, however many messages follow (`Covers`, `BoundedOfCovered`), which is why a catch-up
  may bound again what was bounded before, and why a rebuild may stop once the budget is full (`FillsCovers`). For the goal, `ScanGoal` says of a backward reading what it has still
  to find, and `GoalData` of a forward one that a call it does not remember is followed by another word on the goal. Without `Straddled` the two meet in
  `TrueGoal`.
* `HistoryIsOne`: `HistoryInv` rests on what a revision can tell. `PresentRev` is the test a page could make if it knew the file: the revision names the inode,
  and once the file was cut, the generation its index was reset at. `RevInv` says that the index of the present content, and no other, has such a revision,
  and that pages held from before an index was reset have none (`PagesOfARead`); `blurred` names the two histories in which it does not hold. So pages of one
  present revision are all prefixes of turns of the file (`PagesInv`, kept while the file grows by `TextsGrow`). What a page weighs does not matter: however
  much `Trim` drops, the turn asked for stays (`TrimKeeps`), and the cursor stays that of the first turn held (`MergeIs`).

`SessionLaunchProofs` proves all five properties of `SessionLaunch`, for **any** threads, launch ids, limits and
number of names. It rests on lemmas that say what a step does to one thing: to a session (`SessionSteps`, `SessionFates`), to the holder of
the lock (`OpSteps`), to a record (`WebSteps`), to a late start (`LateSteps`), and on `RestartMoves`, which gives for each record after a restart the one it was.

* `TypeCorrect`, and `RestartsKeepThreads` from `RestartMoves`: the renaming is one to one and onto names nobody has.
* `NamesStaySeparate`: `NamesKept` adds that the name the lock's holder found free is still free in the other backend, so a record or a session made
  under it meets at most a person's session or a late record.
* `LimitIsKept`: `RoomKept` adds that the room a start has counted stays, as no other agent can appear while it holds the lock. People only open shells.
* `OneForEachLaunch`: `LabelsOnce` and `RecordsOnce` add the launch id of the lock's holder and of the late start to those that are given.
* `OneForEachThread`: a session *claims* the thread it is about to open or has open, from the moment its start makes it. `ThreadsKept` says that claims differ
  (`ClaimsApart`), that only late records have a claimed thread (`BackendsApart`), that what a start found free stays free (`StartIsFree`), and, so that
  a resume can see every claim, that a pane in its preflight has its thread recorded (`SessionIsSound`); all threads in use are known, so a new one
  disturbs nobody (`ThreadsAreKnown`).

`SessionSupervisorProofs` proves the four invariants of run `supervisor`, for **any** numbers of names, workers, clients, threads, faults and
restarts, and for recoveries and closes in every order.
Lemmas say what a step does to one thing: to a record (`RegistrySteps`), the operation (`OpSteps`), a task (`TaskSteps`), the client of a name
(`ClientSteps`), a connection (`ConnSteps`), a unit (`UnitSteps`), the thread a worker holds (`LoadedSteps`). `Kept` puts together three invariants:

* `SessionsKept`: a task carries the worker and thread that are registered (`InService`), or is a stray (`Stray`): the recovery of a session that is gone, on a worker of
  `revived`. An open is about neither a registered name nor a registered thread or worker.
* `ClientsKept`: a client serves one name and is connected to the worker of that name's session or to a revived one; what an open, a task in its RPC or a close
  holds is the client of its own name, so that discarding it disturbs nobody. With `SessionsKept` this gives `SessionsStayDisjoint`.
* `UnitsOwned`: besides `ClosesFindRecoveries`, a unit told to stop for a close stays down unless it is revived (`WorkersAreOwned`).

On it rest `NobodyIsForgotten` (what ends the service of a session leaves a notice, a task or a close: `ServiceSteps`, `TaskEnds`, `ClosingSteps`,
`RestoreServes`) and `ReadyMeansUsable`: "ready" is written only for a session that is served (`ReadyIsServed`), and while no task is under way the worker of
a connected client holds the session's thread (`Loaded`), as whatever empties a worker ends the connections to it.

`VersionedInstallProofs` proves all four properties of `VersionedInstall`, for **any** versions and any number of commands, failed steps, kills and reboots:

* `TypeCorrect`.
* `FailuresRestore`: `CommandKeeps` follows, for each place a command may be at, what it still has to restore and that what it remembers is what it found. It
  speaks of the guarded steps: what fails in `activate_version` or on the way back is `left`.
* `OnlyCompleteVersions`: `CompleteVersions` puts together all places a version may be named at (link, previous, units, services, the command's memory): a
  rollback and a restoration bring back only what was complete when it was remembered, and nothing makes a complete version incomplete.
* `TurnsOutlive`: `TurnsAreServed` says that a turn runs on a service that is up, so that to stop it a command must have been past its look.
* `OneServesSessions`: between commands units, running Owner, registry and work have one shape, shared or per session (`Settled`). A command past its checks
  notes the shape it found, and differs from it with sessions present exactly when it planned a change (`Noted`); `Moving` says, for each place it may be at,
  which parts have the old shape, which are down and which have the new one, so that the way back from any of them ends settled.

`TerminalSessionProofs` proves an action property and an invariant of `SessionStart`, for **any** names, panes and versions:

* `TypeCorrect`; that a new pane never was one (`NewPaneIsUnused`) needs that the natural numbers are well founded.
* `InstallsOnce`: a pane that checks or installs holds the lock (`LockIsHeld`), so what it read stays on disk until it installs (`ReadIsTrue`).
* `OneMonitorForAPane`: a living pane that has a monitor is the one its name is listed with, or `displaced` (`LivingIsWatched`); this needs that a pane never has a
  second name, in a caller's reading neither (`PanesHaveOneName`, `PanesAreUsed`), and that a monitor's end unlists its own pane only.

and both properties of `TuiInteraction`, for **any** looks and numbers of menus, options, answers, commands, late polls and acts of people:

* `TuiTypeCorrect`.
* `CommandRunsOnce`: the text of a command with a row is in one place at a time, under way, in the composer or run, and nowhere before the row is there
  (`TextsAreOnce`); so whatever fails after the row, a retry finds the row and types nothing.
* `ClickIsChosen`: `Spec => ChoosesWhatWasClicked`, in two parts (`ClicksInPlace`). The menu: generations only grow, so an id that is known has its first
  reading (`IdsGrow`), and the sheet with the id of the last reading belongs to the menu that is up (`SheetsAreOfMenu`), late polls included. The option:
  of an answer nobody came in between of, the keys under way are its own, nothing comes after its Enter, and the keys before that lead from the
  selection to the option (`KeysInPlace`); the keys it has still to press go on from there (`LockInPlace`). `%` at the ends of the list never wraps
  on the way (`MoveReaches`). Keys that leave the menu leave none behind, so none is handled in the composer (`SteeredAway`).

`CaptureStreamProofs` proves the four invariants of the journal and its stream, for **any** budgets, sizes, lengths, faults and restarts:

* `JournalKeepsItsBudget` and `JournalReplaysExactly`: `JournalShape` says that the numbers retained grow and are exactly the published ones behind the
  oldest that were not skipped, and that the running count is their size. `_trim` stops at the least number that fits (`LeastNumber`, `ExcessFits`), and
  `replay` selects every later one in order (`AfterIsExact`). What the recursive functions compute follows by the lemma `UpTo`: a set of
  numbers that holds 0 and every successor holds all up to a bound. It is induction with a set where the library has an operator, which the provers can use.
* `StreamUsesTheJournal`: `CaptureSpec => Spec`, every step of the stream is a step of the journal or leaves it alone; so
  `JournalServesTheStream` has both invariants under it.
* `FramesShowWhatTheyNumber`: a stream takes the number before the capture, and what a browser can see of the actor (its revision) only grows,
  with each number published (`CoverInv`); so whatever comes between the two awaits can only make a capture newer than its number.
* `EndedAnswerIsWhole`: whatever tells the actor of the end (a notice, a read answer) carries the whole text, and an item that is unfinished in
  the actor still has its end in the queue behind the link (`EndInv`).

The assumptions of the constants are those the modules state, evaluated by every run.

Only model-checked: what holds under fairness (`EverySessionRecovers`, `EverySendEnds`, `EveryRowSettles`, `EveryStartProceeds`, `ShownCatchesUp`),
which the prover does not handle. Every other property of a passing run is stated by a theorem.

## Not modelled

See "components" in PROJECT.json. Text and screen parsing, rendering, authentication, file access, the
Gateway's proxying (it neither keeps nor repeats a send), builds and vendored code hold no state in which steps of several actors meet.
Of the modelled parts: receipts and records that expire, failing disk writes, framing and overload retries of the transport, the
actor's titles, settings, usage and goals, the session catalog, two CLI commands at a time.

## Plan

1. Done: `SessionSupervisor`, `TmuxDelivery`, `EventJournal`, `AppServerSend`, `Interactions`, `CaptureStream`, `SessionLaunch`,
   `SessionStart`, `TuiInteraction`, `RolloutReaders`, `VersionedInstall`.
2. Closing a session while a send runs: `AppServerSend` with a close action, composed with `SessionSupervisor`.
3. `SessionLaunch` over `SessionSupervisor`: a resume of a thread whose worker is being recovered.
4. The Gateway's bridge packages and its audit log, if a second session store is to be compared with the Owner's.
