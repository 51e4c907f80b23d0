-------------------------- MODULE SessionSupervisor --------------------------
(***************************************************************************)
(* The life of the App Server sessions: one systemd worker, one client and *)
(* at most one recovery task per registered Web session                    *)
(* (AppServerSessionSupervisor, the start/resume/close coroutines of       *)
(* AppServerRuntime, WebSessionRegistry and WorkerServiceManager).         *)
(*                                                                         *)
(* Everything here runs on one event loop, so an action is the code        *)
(* between two awaits.  The calls the loop awaits are the interleaving     *)
(* points: a systemctl verb and the poll that follows it, a connect, an    *)
(* RPC, a cancelled task, a back-off sleep.                                *)
(*                                                                         *)
(* start_session, resume_session and close_session hold the namespace      *)
(* lock, so one of them is under way at a time: it is `op`.  Restoring,    *)
(* reconnecting and probing do not take that lock.                         *)
(***************************************************************************)
EXTENDS Integers, FiniteSets

CONSTANTS
    MaxNames,       \* bound: public names, taken smallest first
    MaxWorkers,     \* bound: worker identities in use at once
    MaxClients,     \* bound: client objects alive at once
    Threads,        \* Codex threads
    None,           \* no record, client, task, operation, worker or thread
    FailureLimit,   \* failures in the window that open a circuit
    MaxEffort       \* bound: what goes wrong (crashes, failed calls and probes,
                    \*   forced restarts, a lost control plane, Owner restarts),
                    \*   and the sessions opened, each counted OpenCost times

Names == 1..MaxNames
Workers == 1..MaxWorkers
Clients == 1..MaxClients

ASSUME BoundsAreNatural ==
    {MaxNames, MaxWorkers, MaxClients, MaxEffort} \subseteq Nat
ASSUME FailureLimitIsPositive == FailureLimit \in Nat \ {0}

VARIABLES
    registry,           \* name -> record of a registered session
    clients,            \* name -> the client that serves it
    conn,               \* client -> its worker, whether it is ready, and
                        \*   whether its disconnect handler is still to run
    task,               \* name -> its restore or reconnect task
    restart_requested,  \* names whose next attempt must restart the worker
    failures,           \* name -> failures in the window
    circuit,            \* names whose circuit is open
    probe_failures,     \* name -> consecutive failed probes
    op,                 \* the start, resume or close under way
    unit,               \* worker -> state of its systemd unit
    loaded,             \* worker -> thread its process holds open for writing
    control,            \* the control-plane client: "connecting" or "ready"
    abandoned,          \* history: names a failed close left without worker
    revived,            \* history: workers a recovery went for while a close
                        \*   waited for them to stop
    used                \* effort spent

vars == <<registry, clients, conn, task, restart_requested, failures, circuit,
          probe_failures, op, unit, loaded, control, abandoned, revived, used>>

WorkerStates == {"unknown", "starting", "ready", "reconnecting", "degraded", "stopping"}
Record == [worker : Workers, thread : Threads, state : WorkerStates]
Conn == [worker : Workers \cup {None}, ready : BOOLEAN, notice : BOOLEAN]
Task == [pc : {"loop", "open", "resume"}, first : BOOLEAN,
         restart : BOOLEAN, attempts : 0..FailureLimit,
         worker : Workers, thread : Threads, client : Clients \cup {None}]
Op == [kind : {"open", "close"},
       pc : {"starting", "rpc", "unsubscribe", "gather", "stopping", "stopped"},
       name : Names, worker : Workers, thread : Threads, client : Clients \cup {None}]

ASSUME NoneIsNothing == None \notin Threads \cup Names \cup Workers \cup Clients \cup Record \cup Task \cup Op

Registered == {n \in Names : registry[n] # None}
Closing(n) == op # None /\ op.kind = "close" /\ op.name = n

(* stop_worker has taken n's task from the table and waits. *)
Stopping(n) == Closing(n) /\ op.pc # "unsubscribe"

-----------------------------------------------------------------------------
(* The bound on what happens. *)
OpenCost == 2
Spend(cost) == used + cost <= MaxEffort /\ used' = used + cost
Fault == Spend(1)

-----------------------------------------------------------------------------
(* The registry and the worker units. *)

(* update_worker_state: nothing happens to an unregistered name. *)
WithState(reg, n, s) ==
    IF reg[n] = None THEN reg ELSE [reg EXCEPT ![n].state = s]

Referenced(w) ==
    \/ \E n \in Names : registry[n] # None /\ registry[n].worker = w
    \/ \E n \in Names : task[n] # None /\ task[n].worker = w
    \/ \E n \in Names : clients[n] # None /\ conn[clients[n]].worker = w
    \/ op # None /\ op.worker = w

(* A fresh random worker id: one that nothing refers to and that is down. *)
FreeWorkers == {w \in Workers \ revived : ~Referenced(w) /\ unit[w] = "inactive"}
FreeNames == {n \in Names : registry[n] = None}
FreeClients ==
    {c \in Clients :
        /\ ~conn[c].ready /\ ~conn[c].notice
        /\ \A n \in Names : clients[n] # c /\ (task[n] # None => task[n].client # c)
        /\ op # None => op.client # c}
Least(S) == CHOOSE x \in S : \A y \in S : x <= y

(* The process of w ends: every client connected to it reads end of file. *)
WithEof(connections, w) ==
    [c \in Clients |->
        IF connections[c].ready /\ connections[c].worker = w
        THEN [worker |-> w, ready |-> FALSE, notice |-> TRUE]
        ELSE connections[c]]

(* AsyncCodexAppServerClient.close: no disconnect handler after it. *)
WithClosed(connections, c) ==
    IF c = None THEN connections
    ELSE [connections EXCEPT ![c].ready = FALSE, ![c].notice = FALSE]

(* systemctl start, restart and stop, as far as the verb has gone. *)
StartUnit(w) ==
    /\ unit' = [unit EXCEPT ![w] = "active"]
    /\ UNCHANGED <<loaded, conn>>

RestartUnit(w) ==
    /\ unit' = [unit EXCEPT ![w] = "active"]
    /\ loaded' = [loaded EXCEPT ![w] = None]
    /\ conn' = WithEof(conn, w)

StopUnit(w, connections) ==
    /\ unit' = [unit EXCEPT ![w] = "inactive"]
    /\ loaded' = [loaded EXCEPT ![w] = None]
    /\ conn' = WithEof(connections, w)

(* The per-thread writer lock of Codex: held by the process that loaded it. *)
WriterFree(w, t) == \A v \in Workers \ {w} : loaded[v] # t
Load(w, t) == loaded' = [loaded EXCEPT ![w] = t]

(* The end of open_client: the new client takes the name, the one it       *)
(* replaces is closed.                                                     *)
Install(n, w, c) ==
    /\ clients' = [clients EXCEPT ![n] = c]
    /\ conn' = [WithClosed(conn, clients[n]) EXCEPT
                  ![c] = [worker |-> w, ready |-> TRUE, notice |-> FALSE]]

-----------------------------------------------------------------------------
Init ==
    /\ registry = [n \in Names |-> None]
    /\ clients = [n \in Names |-> None]
    /\ conn = [c \in Clients |-> [worker |-> None, ready |-> FALSE, notice |-> FALSE]]
    /\ task = [n \in Names |-> None]
    /\ restart_requested = {}
    /\ failures = [n \in Names |-> 0]
    /\ circuit = {}
    /\ probe_failures = [n \in Names |-> 0]
    /\ op = None
    /\ unit = [w \in Workers |-> "inactive"]
    /\ loaded = [w \in Workers |-> None]
    /\ control = "connecting"
    /\ abandoned = {}
    /\ revived = {}
    /\ used = 0

-----------------------------------------------------------------------------
(* start_session and resume_session: a worker is started and its thread    *)
(* loaded before the session is registered.                                *)

(* Mutant of OpenBegin: nobody asks whether the thread is registered. *)
OpenBeginAgain(t) ==
    /\ op = None
    /\ FreeNames # {} /\ FreeWorkers # {}
    /\ LET w == Least(FreeWorkers)
       IN  /\ op' = [kind |-> "open", pc |-> "starting", name |-> Least(FreeNames),
                     worker |-> w, thread |-> t, client |-> None]
           /\ StartUnit(w)
    /\ Spend(OpenCost)
    /\ UNCHANGED <<registry, clients, task, restart_requested, failures, circuit,
                   probe_failures, control, abandoned, revived>>

(* by_thread: a registered thread is answered with its session.  A new     *)
(* worker is started under the next free name.                             *)
OpenBegin(t) ==
    /\ op = None
    /\ \A n \in Registered : registry[n].thread # t
    /\ FreeNames # {} /\ FreeWorkers # {}
    /\ LET w == Least(FreeWorkers)
       IN  /\ op' = [kind |-> "open", pc |-> "starting", name |-> Least(FreeNames),
                     worker |-> w, thread |-> t, client |-> None]
           /\ StartUnit(w)
    /\ Spend(OpenCost)
    /\ UNCHANGED <<registry, clients, task, restart_requested, failures, circuit,
                   probe_failures, control, abandoned, revived>>

OpenConnected ==
    /\ op # None /\ op.pc = "starting"
    /\ unit[op.worker] = "active"
    /\ FreeClients # {}
    /\ LET c == Least(FreeClients)
       IN  /\ op' = [op EXCEPT !.pc = "rpc", !.client = c]
           /\ Install(op.name, op.worker, c)
    /\ UNCHANGED <<registry, task, restart_requested, failures, circuit,
                   probe_failures, unit, loaded, control, abandoned, revived, used>>

(* thread/start or thread/resume answered: registered, then ready.  The    *)
(* coroutine runs from the answer to the end without a suspension.         *)
OpenRegistered ==
    /\ op # None /\ op.pc = "rpc"
    /\ conn[op.client].ready
    /\ WriterFree(op.worker, op.thread)
    /\ Load(op.worker, op.thread)
    /\ registry' = [registry EXCEPT ![op.name] =
                       [worker |-> op.worker, thread |-> op.thread, state |-> "ready"]]
    /\ abandoned' = abandoned \ {op.name}
    /\ op' = None
    /\ UNCHANGED <<clients, conn, task, restart_requested, failures, circuit,
                   probe_failures, unit, control, revived, used>>

(* Why an open fails: the unit or the connection is down, another process  *)
(* writes the thread, or the call fails or times out.                      *)
OpenFailure ==
    \/ op.pc = "starting" /\ unit[op.worker] # "active" /\ UNCHANGED used
    \/ op.pc = "rpc" /\ ~conn[op.client].ready /\ UNCHANGED used
    \/ op.pc = "rpc" /\ ~WriterFree(op.worker, op.thread) /\ UNCHANGED used
    \/ op.pc \in {"starting", "rpc"} /\ Fault

(* discard_unregistered: the client leaves its name if it still has it,    *)
(* and the unregistered worker is stopped.                                 *)
OpenDiscarded ==
    /\ op # None /\ op.kind = "open"
    /\ OpenFailure
    /\ clients' = IF clients[op.name] = op.client
                  THEN [clients EXCEPT ![op.name] = None] ELSE clients
    /\ StopUnit(op.worker, WithClosed(conn, op.client))
    /\ op' = None
    /\ UNCHANGED <<registry, task, restart_requested, failures, circuit,
                   probe_failures, control, abandoned, revived>>

-----------------------------------------------------------------------------
(* close_session: unsubscribe, cancel the recovery, close the client, stop *)
(* the worker, and only then forget the session.                           *)

CloseBegin(n) ==
    /\ op = None
    /\ registry[n] # None
    /\ op' = [kind |-> "close", pc |-> "unsubscribe", name |-> n,
              worker |-> registry[n].worker, thread |-> registry[n].thread,
              client |-> clients[n]]
    /\ UNCHANGED <<registry, clients, conn, task, restart_requested, failures,
                   circuit, probe_failures, unit, loaded, control, abandoned, revived, used>>

(* stop_worker from its second await on: the selected client leaves the    *)
(* name if it still has it, is closed, and the unit is told to stop.       *)
StopSelected(selected) ==
    /\ clients' = IF clients[op.name] = selected
                  THEN [clients EXCEPT ![op.name] = None] ELSE clients
    /\ StopUnit(op.worker, WithClosed(conn, selected))
    /\ op' = [op EXCEPT !.pc = "stopping", !.client = selected]

(* `client or self.clients.get(name)`. *)
Selected == IF op.client # None THEN op.client ELSE clients[op.name]

(* Mutant of CloseStopsWorker: the recovery it finds goes on. *)
CloseStopsWorkerOnly ==
    /\ op # None /\ op.pc = "unsubscribe"
    /\ registry' = WithState(registry, op.name, "stopping")
    /\ StopSelected(Selected)
    /\ UNCHANGED <<task, restart_requested, failures, circuit, probe_failures, control,
                   abandoned, revived, used>>

(* stop_worker up to its first await.  The unsubscribe was answered, was   *)
(* refused or was never sent: the close goes on all the same.  A recovery  *)
(* task leaves the table and is cancelled; the close waits for it to end.  *)
CloseStopsWorker ==
    /\ op # None /\ op.pc = "unsubscribe"
    /\ registry' = WithState(registry, op.name, "stopping")
    /\ task' = [task EXCEPT ![op.name] = None]
    /\ revived' = revived \ {op.worker}
    /\ IF task[op.name] # None
       THEN /\ op' = [op EXCEPT !.pc = "gather"]
            /\ UNCHANGED <<clients, conn, unit, loaded>>
       ELSE StopSelected(Selected)
    /\ UNCHANGED <<restart_requested, failures, circuit, probe_failures, control,
                   abandoned, used>>

CloseGathered ==
    /\ op # None /\ op.pc = "gather"
    /\ StopSelected(Selected)
    /\ UNCHANGED <<registry, task, restart_requested, failures, circuit,
                   probe_failures, control, abandoned, revived, used>>

(* WorkerServiceManager.stop polls until the unit is down. *)
CloseSeesUnitDown ==
    /\ op # None /\ op.pc = "stopping"
    /\ unit[op.worker] # "active"
    /\ op' = [op EXCEPT !.pc = "stopped"]
    /\ UNCHANGED <<registry, clients, conn, task, restart_requested, failures,
                   circuit, probe_failures, unit, loaded, control, abandoned, revived, used>>

(* The end of stop_worker and of _close_session: the session is forgotten. *)
CloseRemoves ==
    /\ op # None /\ op.pc = "stopped"
    /\ registry' = [registry EXCEPT ![op.name] = None]
    /\ restart_requested' = restart_requested \ {op.name}
    /\ failures' = [failures EXCEPT ![op.name] = 0]
    /\ circuit' = circuit \ {op.name}
    /\ probe_failures' = [probe_failures EXCEPT ![op.name] = 0]
    /\ op' = None
    /\ UNCHANGED <<clients, conn, task, unit, loaded, control, abandoned, revived, used>>

(* The unit did not go down in time ("degraded"), or the caller's deadline *)
(* cancelled the coroutine while it waited (the state is left as it was).  *)
CloseFails ==
    /\ op # None /\ op.pc = "stopping"
    /\ \/ unit[op.worker] = "active" /\ UNCHANGED used
       \/ Fault
    /\ \E s \in {"stopping", "degraded"} : registry' = WithState(registry, op.name, s)
    /\ abandoned' = abandoned \cup {op.name}
    /\ op' = None
    /\ UNCHANGED <<clients, conn, task, restart_requested, failures, circuit,
                   probe_failures, unit, loaded, control, revived>>

-----------------------------------------------------------------------------
(* Recovery. *)

(* The task of restore_all opens a client at once; that of a reconnection  *)
(* enters the loop of _recover.                                            *)
NewTask(n, restore) ==
    [pc |-> IF restore THEN "open" ELSE "loop", first |-> restore,
     restart |-> FALSE, attempts |-> 0,
     worker |-> registry[n].worker, thread |-> registry[n].thread, client |-> None]

(* What a task that begins now revives: a close has cancelled only the     *)
(* task it found, and waits without a look at the table.                   *)
RevivedWith(names) == revived \cup {registry[n].worker : n \in {m \in names : Stopping(m)}}

(* _schedule_recovery: nothing when a task is already under way.  The task *)
(* of an unregistered name ends at its first test.                         *)
Schedule(n) ==
    IF task[n] = None /\ registry[n] # None
    THEN /\ task' = [task EXCEPT ![n] = NewTask(n, FALSE)]
         /\ revived' = RevivedWith({n})
    ELSE UNCHANGED <<task, revived>>

(* disconnected: the handler of a client that lost its connection.  Only   *)
(* the client that serves the name starts a recovery.                      *)
Disconnected(c) ==
    /\ conn[c].notice
    /\ conn' = [conn EXCEPT ![c].notice = FALSE]
    /\ \/ \E n \in Names :
             /\ clients[n] = c
             /\ registry' = WithState(registry, n, "reconnecting")
             /\ Schedule(n)
       \/ /\ \A n \in Names : clients[n] # c
          /\ UNCHANGED <<registry, task, revived>>
    /\ UNCHANGED <<clients, restart_requested, failures, circuit, probe_failures, op,
                   unit, loaded, control, abandoned, used>>

(* request_restart: an RPC of the serving client timed out or could not be *)
(* written, a turn did not settle after its interrupt, or a probe failed   *)
(* once too often.                                                         *)
AskRestart(n) ==
    /\ restart_requested' = restart_requested \cup {n}
    /\ registry' = WithState(registry, n, "reconnecting")
    /\ Schedule(n)

RequestRestart(n) ==
    /\ clients[n] # None
    /\ Fault
    /\ AskRestart(n)
    /\ UNCHANGED <<clients, conn, failures, circuit, probe_failures, op, unit, loaded,
                   control, abandoned>>

(* _probe of a silent active session: the second failure in a row asks for *)
(* a restart.                                                              *)
ProbeLimit == 2

ProbeFails(n) ==
    /\ clients[n] # None /\ conn[clients[n]].ready
    /\ Fault
    /\ probe_failures' = [probe_failures EXCEPT
                             ![n] = IF @ < ProbeLimit THEN @ + 1 ELSE @]
    /\ IF probe_failures[n] + 1 >= ProbeLimit
       THEN AskRestart(n)
       ELSE /\ registry' = WithState(registry, n, "degraded")
            /\ UNCHANGED <<restart_requested, task, revived>>
    /\ UNCHANGED <<clients, conn, failures, circuit, op, unit, loaded, control, abandoned>>

(* A notification, an RPC answer or a probe answer of the serving client:  *)
(* the failed probes are forgotten and the session is called ready again.  *)
WorkerResponds(n) ==
    /\ clients[n] # None /\ conn[clients[n]].ready
    /\ probe_failures[n] > 0
    /\ probe_failures' = [probe_failures EXCEPT ![n] = 0]
    /\ registry' = WithState(registry, n, "ready")
    /\ UNCHANGED <<clients, conn, task, restart_requested, failures, circuit, op,
                   unit, loaded, control, abandoned, revived, used>>

(* restore_all, each time the control plane is connected: every registered *)
(* session without a ready client or a running task gets a restore task,   *)
(* and _restore_record starts its worker.                                  *)
NeedsRestore(n) ==
    /\ registry[n] # None
    /\ task[n] = None
    /\ clients[n] = None \/ ~conn[clients[n]].ready

RestoreAll ==
    /\ control = "connecting"
    /\ control' = "ready"
    /\ registry' = [n \in Names |->
                       IF NeedsRestore(n) THEN [registry[n] EXCEPT !.state = "starting"]
                       ELSE registry[n]]
    /\ task' = [n \in Names |-> IF NeedsRestore(n) THEN NewTask(n, TRUE) ELSE task[n]]
    /\ unit' = [w \in Workers |->
                   IF \E n \in Names : NeedsRestore(n) /\ registry[n].worker = w
                   THEN "active" ELSE unit[w]]
    /\ abandoned' = abandoned \ {n \in Names : NeedsRestore(n)}
    /\ revived' = RevivedWith({n \in Names : NeedsRestore(n)})
    /\ UNCHANGED <<clients, conn, restart_requested, failures, circuit, probe_failures,
                   op, loaded, used>>

(* An attempt of _recover: it reads the record again, waits for an open    *)
(* circuit, and restarts the worker when that was asked for.               *)
RecoverAttempt(n) ==
    /\ task[n] # None /\ task[n].pc = "loop"
    /\ registry[n] # None
    /\ n \notin circuit
    /\ LET restart == n \in restart_requested
           w == registry[n].worker
       IN  /\ task' = [task EXCEPT ![n].pc = "open", ![n].restart = restart,
                                   ![n].worker = w, ![n].thread = registry[n].thread]
           /\ IF restart THEN RestartUnit(w) ELSE StartUnit(w)
    /\ restart_requested' = restart_requested \ {n}
    /\ UNCHANGED <<registry, clients, failures, circuit, probe_failures, op, control,
                   abandoned, revived, used>>

RecoverEnds(n) ==
    /\ task[n] # None /\ task[n].pc = "loop"
    /\ registry[n] = None
    /\ task' = [task EXCEPT ![n] = None]
    /\ UNCHANGED <<registry, clients, conn, restart_requested, failures, circuit,
                   probe_failures, op, unit, loaded, control, abandoned, revived, used>>

TaskConnected(n) ==
    /\ task[n] # None /\ task[n].pc = "open"
    /\ unit[task[n].worker] = "active"
    /\ FreeClients # {}
    /\ LET c == Least(FreeClients)
       IN  /\ task' = [task EXCEPT ![n].pc = "resume", ![n].client = c]
           /\ Install(n, task[n].worker, c)
    /\ UNCHANGED <<registry, restart_requested, failures, circuit, probe_failures, op,
                   unit, loaded, control, abandoned, revived, used>>

(* Mutant of TaskResumed: reconnected, but the thread is not resumed. *)
TaskResumedWithoutThread(n) ==
    /\ task[n] # None /\ task[n].pc = "resume"
    /\ conn[task[n].client].ready
    /\ registry' = WithState(registry, n, "ready")
    /\ probe_failures' = [probe_failures EXCEPT ![n] = 0]
    /\ failures' = [failures EXCEPT ![n] = 0]
    /\ circuit' = circuit \ {n}
    /\ task' = [task EXCEPT ![n] = None]
    /\ UNCHANGED <<clients, conn, restart_requested, op, unit, loaded, control,
                   abandoned, revived, used>>

(* _resume: thread/resume answered.  The session is hydrated and ready,    *)
(* its failures are forgotten and the task ends without a suspension.      *)
TaskResumed(n) ==
    /\ task[n] # None /\ task[n].pc = "resume"
    /\ conn[task[n].client].ready
    /\ WriterFree(task[n].worker, task[n].thread)
    /\ Load(task[n].worker, task[n].thread)
    /\ registry' = WithState(registry, n, "ready")
    /\ probe_failures' = [probe_failures EXCEPT ![n] = 0]
    /\ failures' = [failures EXCEPT ![n] = 0]
    /\ circuit' = circuit \ {n}
    /\ task' = [task EXCEPT ![n] = None]
    /\ UNCHANGED <<clients, conn, restart_requested, op, unit, control, abandoned, revived, used>>

(* Why an attempt fails. *)
AttemptFailure(n) ==
    \/ task[n].pc = "open" /\ unit[task[n].worker] # "active" /\ UNCHANGED used
    \/ task[n].pc = "resume" /\ ~conn[task[n].client].ready /\ UNCHANGED used
    \/ task[n].pc = "resume" /\ UNCHANGED used
       /\ ~WriterFree(task[n].worker, task[n].thread)
    \/ task[n].pc \in {"open", "resume"} /\ Fault

(* start() stops a unit it gave up on; restart() and a failed connect or   *)
(* resume leave the unit alone.                                            *)
GivesUpUnit(n) ==
    \/ /\ task[n].pc = "open" /\ ~task[n].restart
       /\ StopUnit(task[n].worker, conn)
    \/ /\ task[n].pc = "resume" \/ unit[task[n].worker] = "active" \/ task[n].restart
       /\ UNCHANGED <<unit, loaded, conn>>

(* _record_failure: enough failures in the window open the circuit. *)
RecordFailure(n, opens) ==
    /\ failures' = [failures EXCEPT ![n] = IF opens THEN 0 ELSE @ + 1]
    /\ circuit' = IF opens THEN circuit \cup {n} ELSE circuit

(* Mutants of AfterFailure: recovery stops after the attempts that make it *)
(* "degraded", or after the first attempt of a restore.                    *)
AfterFailureGivesUp(n, attempts) ==
    IF attempts >= FailureLimit THEN None
    ELSE [task[n] EXCEPT !.pc = "loop", !.first = FALSE, !.attempts = attempts, !.client = None]

AfterFailureEndsRestore(n, attempts) ==
    IF task[n].first THEN None
    ELSE [task[n] EXCEPT !.pc = "loop", !.attempts = attempts, !.client = None]

(* The task goes on for ever: _restore_record hands over to _recover, and  *)
(* _recover tries again after a back-off.                                  *)
AfterFailure(n, attempts) ==
    [task[n] EXCEPT !.pc = "loop", !.first = FALSE, !.attempts = attempts, !.client = None]

(* A failed attempt.  That of _restore_record is not counted. *)
TaskFails(n) ==
    /\ task[n] # None
    /\ AttemptFailure(n)
    /\ GivesUpUnit(n)
    /\ LET attempts == IF task[n].first \/ task[n].attempts = FailureLimit
                       THEN task[n].attempts ELSE task[n].attempts + 1
           opens == failures[n] + 1 >= FailureLimit
       IN  /\ task' = [task EXCEPT ![n] = AfterFailure(n, attempts)]
           /\ registry' = IF task[n].first \/ opens \/ attempts >= FailureLimit
                          THEN WithState(registry, n, "degraded") ELSE registry
           /\ IF task[n].first THEN UNCHANGED <<failures, circuit>>
              ELSE RecordFailure(n, opens)
    /\ UNCHANGED <<clients, restart_requested, probe_failures, op, control, abandoned, revived>>

(* Time passes: a circuit closes, the failures leave the window. *)
CircuitExpires(n) ==
    /\ n \in circuit
    /\ circuit' = circuit \ {n}
    /\ UNCHANGED <<registry, clients, conn, task, restart_requested, failures,
                   probe_failures, op, unit, loaded, control, abandoned, revived, used>>

FailuresAge(n) ==
    /\ failures[n] > 0
    /\ failures' = [failures EXCEPT ![n] = 0]
    /\ UNCHANGED <<registry, clients, conn, task, restart_requested, circuit,
                   probe_failures, op, unit, loaded, control, abandoned, revived, used>>

-----------------------------------------------------------------------------
(* What happens to the processes and connections. *)

WorkerCrashes(w) ==
    /\ Fault
    /\ unit[w] = "active"
    /\ unit' = [unit EXCEPT ![w] = "failed"]
    /\ loaded' = [loaded EXCEPT ![w] = None]
    /\ conn' = WithEof(conn, w)
    /\ UNCHANGED <<registry, clients, task, restart_requested, failures, circuit,
                   probe_failures, op, control, abandoned, revived>>

(* Restart=on-failure of the unit. *)
SystemdRestarts(w) ==
    /\ unit[w] = "failed"
    /\ unit' = [unit EXCEPT ![w] = "active"]
    /\ UNCHANGED <<registry, clients, conn, task, restart_requested, failures, circuit,
                   probe_failures, op, loaded, control, abandoned, revived, used>>

(* The reader ends though the worker lives: a protocol error, or more      *)
(* notifications than the bounded queue holds.                             *)
ConnectionLost(c) ==
    /\ Fault
    /\ conn[c].ready
    /\ conn' = [conn EXCEPT ![c].ready = FALSE, ![c].notice = TRUE]
    /\ UNCHANGED <<registry, clients, task, restart_requested, failures, circuit,
                   probe_failures, op, unit, loaded, control, abandoned, revived>>

ControlDrops ==
    /\ control = "ready"
    /\ Fault
    /\ control' = "connecting"
    /\ UNCHANGED <<registry, clients, conn, task, restart_requested, failures, circuit,
                   probe_failures, op, unit, loaded, abandoned, revived>>

(* A graceful restart of the Owner, no start or close under way: the       *)
(* workers and the registry file outlive it.                               *)
OwnerRestarts ==
    /\ op = None
    /\ Fault
    /\ clients' = [n \in Names |-> None]
    /\ conn' = [c \in Clients |-> [conn[c] EXCEPT !.ready = FALSE, !.notice = FALSE]]
    /\ task' = [n \in Names |-> None]
    /\ restart_requested' = {}
    /\ failures' = [n \in Names |-> 0]
    /\ circuit' = {}
    /\ probe_failures' = [n \in Names |-> 0]
    /\ control' = "connecting"
    /\ UNCHANGED <<registry, op, unit, loaded, abandoned, revived>>

-----------------------------------------------------------------------------
OpenStep == OpenConnected \/ OpenRegistered \/ OpenDiscarded
CloseStep == CloseStopsWorker \/ CloseGathered \/ CloseSeesUnitDown \/ CloseRemoves \/ CloseFails
TaskStep(n) ==
    \/ RecoverAttempt(n) \/ RecoverEnds(n)
    \/ TaskConnected(n) \/ TaskResumed(n) \/ TaskFails(n)
ProbeStep(n) == ProbeFails(n) \/ WorkerResponds(n)
TimePasses(n) == CircuitExpires(n) \/ FailuresAge(n)
Environment ==
    \/ \E w \in Workers : WorkerCrashes(w) \/ SystemdRestarts(w)
    \/ \E c \in Clients : ConnectionLost(c)
    \/ ControlDrops \/ OwnerRestarts

Next ==
    \/ \E t \in Threads : OpenBegin(t)
    \/ OpenStep
    \/ \E n \in Names : CloseBegin(n)
    \/ CloseStep
    \/ \E c \in Clients : Disconnected(c)
    \/ \E n \in Names : RequestRestart(n) \/ ProbeStep(n) \/ TaskStep(n) \/ TimePasses(n)
    \/ RestoreAll
    \/ Environment

(* The event loop never idles while a coroutine, a callback or a timer is  *)
(* ready: awaited calls end, back-offs and circuits expire, the monitor    *)
(* probes again.  Nothing obliges a user to open or close a session, a     *)
(* worker to fail, or systemd to restart a unit.                           *)
Fairness ==
    /\ WF_vars(OpenStep)
    /\ WF_vars(CloseStep)
    /\ WF_vars(RestoreAll)
    /\ \A c \in Clients : WF_vars(Disconnected(c))
    /\ \A n \in Names : /\ WF_vars(TaskStep(n))
                        /\ WF_vars(CircuitExpires(n))
                        /\ WF_vars(WorkerResponds(n))

Spec == Init /\ [][Next]_vars
FairSpec == Spec /\ Fairness

-----------------------------------------------------------------------------
TypeOK ==
    /\ registry \in [Names -> Record \cup {None}]
    /\ clients \in [Names -> Clients \cup {None}]
    /\ conn \in [Clients -> Conn]
    /\ task \in [Names -> Task \cup {None}]
    /\ restart_requested \subseteq Names
    /\ failures \in [Names -> 0..(FailureLimit - 1)]
    /\ circuit \subseteq Names
    /\ probe_failures \in [Names -> 0..ProbeLimit]
    /\ op \in Op \cup {None}
    /\ unit \in [Workers -> {"inactive", "active", "failed"}]
    /\ loaded \in [Workers -> Threads \cup {None}]
    /\ control \in {"connecting", "ready"}
    /\ abandoned \subseteq Names
    /\ revived \subseteq Workers
    /\ used \in 0..MaxEffort

(* The recovery of a closed session has given the name, meanwhile another  *)
(* session's, a client to its own worker.                                  *)
Usurped(n) ==
    clients[n] # None /\ conn[clients[n]].worker \in revived \ {registry[n].worker}

(* The worker of a closed session is back and writes the thread.           *)
Locked(n) == \E w \in revived \ {registry[n].worker} : loaded[w] = registry[n].thread

(* Sessions never share a thread or a worker, and the client that serves a *)
(* session talks to that session's own worker, whatever was started,       *)
(* recovered, replaced or discarded in between, unless it is usurped.      *)
SessionsAreDisjoint ==
    /\ \A m, n \in Registered :
        m # n => /\ registry[m].thread # registry[n].thread
                 /\ registry[m].worker # registry[n].worker
    /\ \A n \in Registered :
        clients[n] # None => conn[clients[n]].worker = registry[n].worker \/ Usurped(n)

(* No registered session is forgotten: unless a close is under way or gave *)
(* up on it, either its client is connected, or the handler that will      *)
(* notice the loss is still to run, or a task is bringing it back.         *)
NobodyForgotten ==
    control = "ready" =>
        \A n \in Registered \ abandoned :
            \/ Closing(n)
            \/ task[n] # None
            \/ clients[n] # None /\ (conn[clients[n]].ready \/ conn[clients[n]].notice)

(* A session that is called ready, with no recovery or close under way, is *)
(* served by a connected client whose worker holds its thread; the one     *)
(* exception is a loss whose handler is still to run.                      *)
ReadyIsUsable ==
    \A n \in Registered :
        registry[n].state = "ready" /\ task[n] = None /\ ~Closing(n) /\ control = "ready" =>
            /\ clients[n] # None
            /\ LET c == conn[clients[n]]
               IN  \/ c.notice
                   \/ Usurped(n)
                   \/ c.ready /\ loaded[registry[n].worker] = registry[n].thread

Owned(w) ==
    \/ \E n \in Registered : registry[n].worker = w
    \/ op # None /\ op.worker = w

(* Once a session is closed, or its start has failed, its worker is gone   *)
(* and its thread is free for another writer, also when recoveries were    *)
(* under way: the close finds and ends them.  What it misses is a recovery *)
(* that begins while it waits for the worker to stop.                      *)
ClosesFindRecoveries ==
    \A w \in Workers : unit[w] # "inactive" => Owned(w) \/ w \in revived

(* "Closing one Web session stops only its worker and immediately releases *)
(* its writer" (README.md): without the exception.                         *)
CloseReleasesWriter == \A w \in Workers : unit[w] # "inactive" => Owned(w)

(* Every registered session that no close gave up on is ready again and    *)
(* again: no sequence of crashes, lost connections, failed attempts and    *)
(* forced restarts leaves it in a state nothing leads out of.              *)
EverySessionRecovers ==
    \A n \in Names :
        []<>(\/ registry[n] = None
             \/ n \in abandoned
             \/ Usurped(n) \/ Locked(n)
             \/ /\ registry[n].state = "ready"
                /\ clients[n] # None /\ conn[clients[n]].ready
                /\ loaded[registry[n].worker] = registry[n].thread)
=============================================================================
