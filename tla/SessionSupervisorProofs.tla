---------------------- MODULE SessionSupervisorProofs ----------------------
(***************************************************************************)
(* For any number of names, workers, clients, threads and faults, and      *)
(* closes that recoveries overlap: sessions are disjoint, none is          *)
(* forgotten, one that is called ready can be used, and a worker that no   *)
(* session owns is one that a recovery went for while a close waited.      *)
(***************************************************************************)
EXTENDS SessionSupervisor, WellFoundedInduction, TLAPS

USE BoundsAreNatural, FailureLimitIsPositive, NoneIsNothing

-----------------------------------------------------------------------------
(* Choices.                                                                *)

(* The least element of a set of numbers is in it. *)
LEMMA LeastIsIn == ASSUME NEW S \in SUBSET Nat, S # {} PROVE Least(S) \in S
<1> DEFINE R == OpToRel(<, Nat)
<1>1. IsWellFoundedOn(R, Nat)
  BY NatLessThanWellFounded
<1>2. \A m, n \in Nat : m < n => <<m, n>> \in R
  BY DEF OpToRel
<1> HIDE DEF R
<1>3. PICK n \in S : \A m \in S : ~(<<m, n>> \in R)
  BY <1>1, WFMin
<1>4. \A m \in S : ~(m < n)
  BY <1>2, <1>3
<1>5. \A m \in S : n <= m
  BY <1>4
<1>6. QED BY <1>5 DEF Least

(* What an open, a task or a client gets is free. *)
LEMMA FreshOnes ==
    /\ FreeNames # {} => Least(FreeNames) \in FreeNames
    /\ FreeWorkers # {} => Least(FreeWorkers) \in FreeWorkers
    /\ FreeClients # {} => Least(FreeClients) \in FreeClients
<1>1. FreeNames \subseteq Nat /\ FreeWorkers \subseteq Nat /\ FreeClients \subseteq Nat
  BY DEF FreeNames, FreeWorkers, FreeClients, Names, Workers, Clients
<1>2. QED BY <1>1, LeastIsIn

-----------------------------------------------------------------------------
(* Types.                                                                  *)

(* A record's state changes, or the name is unregistered. *)
LEMMA StateType ==
    ASSUME TypeOK, NEW n \in Names, NEW s \in WorkerStates
    PROVE  WithState(registry, n, s) \in [Names -> Record \cup {None}]
<1>1. ASSUME registry[n] # None PROVE [registry[n] EXCEPT !.state = s] \in Record
  BY <1>1 DEF TypeOK, Record
<1>2. QED BY <1>1 DEF WithState, TypeOK

(* Connections end and are closed. *)
LEMMA ConnTypes ==
    ASSUME NEW k \in [Clients -> Conn], NEW w \in Workers, NEW c \in Clients \cup {None}
    PROVE  WithEof(k, w) \in [Clients -> Conn] /\ WithClosed(k, c) \in [Clients -> Conn]
<1>1. [worker |-> w, ready |-> FALSE, notice |-> TRUE] \in Conn
  BY DEF Conn
<1>2. WithEof(k, w) \in [Clients -> Conn]
  BY <1>1 DEF WithEof
<1>3. \A d \in Clients : [[k[d] EXCEPT !.ready = FALSE] EXCEPT !.notice = FALSE] \in Conn
  BY DEF Conn
<1>4. WithClosed(k, c) \in [Clients -> Conn]
  BY <1>3 DEF WithClosed
<1>5. QED BY <1>2, <1>4

(* What the verbs do to a unit. *)
LEMMA UnitTypes ==
    ASSUME TypeOK, NEW w \in Workers, NEW k \in [Clients -> Conn],
           StartUnit(w) \/ RestartUnit(w) \/ StopUnit(w, k)
    PROVE  /\ unit' \in [Workers -> {"inactive", "active", "failed"}]
           /\ loaded' \in [Workers -> Threads \cup {None}]
           /\ conn' \in [Clients -> Conn]
<1>1. CASE StartUnit(w)
  BY <1>1 DEF StartUnit, TypeOK
<1>2. CASE RestartUnit(w)
  BY <1>2, ConnTypes DEF RestartUnit, TypeOK
<1>3. CASE StopUnit(w, k)
  BY <1>3, ConnTypes DEF StopUnit, TypeOK
<1>4. QED BY <1>1, <1>2, <1>3

(* A client takes a name. *)
LEMMA InstallTypes ==
    ASSUME TypeOK, NEW n \in Names, NEW w \in Workers, NEW c \in Clients, Install(n, w, c)
    PROVE  clients' \in [Names -> Clients \cup {None}] /\ conn' \in [Clients -> Conn]
<1>1. WithClosed(conn, clients[n]) \in [Clients -> Conn]
  <2>1. clients[n] \in Clients \cup {None}
    BY DEF TypeOK
  <2>2. conn \in [Clients -> Conn]
    BY DEF TypeOK
  <2>3. QED BY <2>1, <2>2, ConnTypes
<1>2. [worker |-> w, ready |-> TRUE, notice |-> FALSE] \in Conn
  BY DEF Conn
<1>3. QED BY <1>1, <1>2 DEF Install, TypeOK

(* New tasks, and tasks that go on. *)
LEMMA TaskTypes ==
    ASSUME TypeOK, NEW n \in Names, NEW b \in BOOLEAN
    PROVE  /\ registry[n] # None => NewTask(n, b) \in Task
           /\ task[n] # None => \A a \in 0..FailureLimit : AfterFailure(n, a) \in Task
<1>1. registry[n] # None => NewTask(n, b) \in Task
  BY DEF NewTask, Task, TypeOK, Record
<1>2. ASSUME task[n] # None, NEW a \in 0..FailureLimit PROVE AfterFailure(n, a) \in Task
  <2>1. task[n] \in Task
    BY <1>2 DEF TypeOK
  <2>2. QED BY <2>1 DEF AfterFailure, Task
<1>3. QED BY <1>1, <1>2

(* An attempt of a task. *)
LEMMA AttemptType ==
    ASSUME NEW x \in Task, NEW b, NEW w \in Workers, NEW t \in Threads
    PROVE  [x EXCEPT !.pc = "open", !.restart = (b \in restart_requested), !.worker = w, !.thread = t] \in Task
<1> DEFINE asked == b \in restart_requested
<1>1. asked \in BOOLEAN
  OBVIOUS
<1> HIDE DEF asked
<1>2. [x EXCEPT !.pc = "open", !.restart = asked, !.worker = w, !.thread = t] \in Task
  BY <1>1 DEF Task
<1>3. QED BY <1>2 DEF asked

(* What a recovery that begins during a close revives. *)
LEMMA RevivedType == ASSUME TypeOK, NEW S \in SUBSET Registered PROVE RevivedWith(S) \subseteq Workers
<1>1. \A n \in Registered : registry[n].worker \in Workers
  BY DEF Registered, TypeOK, Record
<1>2. QED BY <1>1 DEF RevivedWith, TypeOK

(* Scheduling a recovery. *)
LEMMA ScheduleType ==
    ASSUME TypeOK, NEW n \in Names, Schedule(n)
    PROVE  task' \in [Names -> Task \cup {None}] /\ revived' \subseteq Workers
<1>1. CASE task[n] = None /\ registry[n] # None
  <2>1. {n} \in SUBSET Registered
    BY <1>1 DEF Registered
  <2>2. revived' \subseteq Workers
    BY <1>1, <2>1, RevivedType DEF Schedule
  <2>3. NewTask(n, FALSE) \in Task
    BY <1>1, TaskTypes
  <2>4. task' = [task EXCEPT ![n] = NewTask(n, FALSE)] /\ task \in [Names -> Task \cup {None}]
    BY <1>1 DEF Schedule, TypeOK
  <2>5. QED BY <2>2, <2>3, <2>4
<1>2. CASE ~(task[n] = None /\ registry[n] # None)
  BY <1>2 DEF Schedule, TypeOK
<1>3. QED BY <1>1, <1>2

(* An operation goes on. *)
LEMMA OpTypes ==
    ASSUME TypeOK, op # None, NEW c \in Clients \cup {None},
           NEW pc \in {"starting", "rpc", "unsubscribe", "gather", "stopping", "stopped"}
    PROVE  [op EXCEPT !.pc = pc] \in Op /\ [op EXCEPT !.pc = pc, !.client = c] \in Op
<1>1. op \in Op
  BY DEF TypeOK
<1>2. [op EXCEPT !.pc = pc] \in Op
  BY <1>1 DEF Op
<1>3. [op EXCEPT !.pc = pc, !.client = c] \in Op
  BY <1>1 DEF Op
<1>4. QED BY <1>2, <1>3

(* The bound on effort is kept. *)
LEMMA SpendType ==
    ASSUME TypeOK
    PROVE  (Fault => used' \in 0..MaxEffort) /\ (Spend(OpenCost) => used' \in 0..MaxEffort)
BY DEF Fault, Spend, OpenCost, TypeOK

(* Every step keeps the types. *)
LEMMA TypeStep == TypeOK /\ [Next]_vars => TypeOK'
<1> SUFFICES ASSUME TypeOK, [Next]_vars PROVE TypeOK'
  OBVIOUS
<1>o. op # None => op \in Op /\ op.name \in Names /\ op.worker \in Workers /\ op.thread \in Threads /\ op.client \in Clients \cup {None}
  BY DEF TypeOK, Op
<1>t. \A n \in Names : task[n] # None => /\ task[n] \in Task /\ task[n].worker \in Workers /\ task[n].thread \in Threads
                                         /\ task[n].client \in Clients \cup {None}
  BY DEF TypeOK, Task
<1>r. \A n \in Names : registry[n] # None => registry[n] \in Record /\ registry[n].worker \in Workers /\ registry[n].thread \in Threads
  BY DEF TypeOK, Record
<1>c. conn \in [Clients -> Conn] /\ \A n \in Names : clients[n] \in Clients \cup {None}
  BY DEF TypeOK
<1>n. None \notin Names /\ None \notin Clients
  BY DEF Names, Clients
<1>1. ASSUME NEW t \in Threads, OpenBegin(t) PROVE TypeOK'
  <2>1. Least(FreeWorkers) \in Workers /\ Least(FreeNames) \in Names /\ StartUnit(Least(FreeWorkers))
    BY <1>1, FreshOnes DEF OpenBegin, FreeWorkers, FreeNames
  <2>2. op' \in Op
    BY <1>1, <2>1 DEF OpenBegin, Op
  <2>3. used' \in 0..MaxEffort
    BY <1>1, SpendType DEF OpenBegin
  <2>4. QED BY <1>1, <1>c, <2>1, <2>2, <2>3, UnitTypes DEF OpenBegin, TypeOK
<1>2. CASE OpenConnected
  <2>1. Least(FreeClients) \in Clients
    BY <1>2, FreshOnes DEF OpenConnected, FreeClients
  <2>2. op' \in Op
    BY <1>2, <2>1, OpTypes DEF OpenConnected
  <2>3. Install(op.name, op.worker, Least(FreeClients))
    BY <1>2 DEF OpenConnected
  <2>4. clients' \in [Names -> Clients \cup {None}] /\ conn' \in [Clients -> Conn]
    BY <1>2, <1>o, <2>1, <2>3, InstallTypes DEF OpenConnected
  <2>5. QED BY <1>2, <2>2, <2>4 DEF OpenConnected, TypeOK
<1>3. CASE OpenRegistered
  <2>1. [worker |-> op.worker, thread |-> op.thread, state |-> "ready"] \in Record
    BY <1>3, <1>o DEF OpenRegistered, Record, WorkerStates
  <2>2. QED BY <1>3, <1>o, <2>1 DEF OpenRegistered, Load, TypeOK
<1>4. CASE OpenDiscarded
  <2>1. WithClosed(conn, op.client) \in [Clients -> Conn]
    BY <1>4, <1>c, <1>o, ConnTypes DEF OpenDiscarded
  <2>2. /\ unit' \in [Workers -> {"inactive", "active", "failed"}]
        /\ loaded' \in [Workers -> Threads \cup {None}]
        /\ conn' \in [Clients -> Conn]
    BY <1>4, <1>o, <2>1, UnitTypes DEF OpenDiscarded
  <2>3. used' \in 0..MaxEffort
    BY <1>4, SpendType DEF OpenDiscarded, OpenFailure, TypeOK
  <2>4. clients' \in [Names -> Clients \cup {None}]
    BY <1>4 DEF OpenDiscarded, TypeOK
  <2>5. QED BY <1>4, <2>2, <2>3, <2>4 DEF OpenDiscarded, TypeOK
<1>5. ASSUME NEW n \in Names, CloseBegin(n) PROVE TypeOK'
  <2>1. op' \in Op
    BY <1>5, <1>c, <1>r DEF CloseBegin, Op
  <2>2. QED BY <1>5, <2>1 DEF CloseBegin, TypeOK
<1>6. ASSUME NEW c \in Clients \cup {None}, op # None, StopSelected(c)
      PROVE  /\ unit' \in [Workers -> {"inactive", "active", "failed"}]
             /\ loaded' \in [Workers -> Threads \cup {None}]
             /\ conn' \in [Clients -> Conn]
             /\ clients' \in [Names -> Clients \cup {None}]
             /\ op' \in Op
  <2>1. WithClosed(conn, c) \in [Clients -> Conn]
    BY <1>6, <1>c, <1>o, ConnTypes
  <2>2. op' \in Op
    BY <1>6, OpTypes DEF StopSelected
  <2>3. clients' \in [Names -> Clients \cup {None}]
    BY <1>6 DEF StopSelected, TypeOK
  <2>4. QED BY <1>6, <1>o, <2>1, <2>2, <2>3, UnitTypes DEF StopSelected
<1>7. CASE CloseStopsWorker
  <2>1. registry' \in [Names -> Record \cup {None}]
    BY <1>7, <1>o, StateType DEF CloseStopsWorker, WorkerStates
  <2>2. task' \in [Names -> Task \cup {None}]
    BY <1>7 DEF CloseStopsWorker, TypeOK
  <2>3. Selected \in Clients \cup {None}
    BY <1>7, <1>c, <1>o DEF CloseStopsWorker, Selected
  <2>4. CASE task[op.name] # None
    <3>1. op' \in Op
      BY <1>7, <2>4, OpTypes DEF CloseStopsWorker
    <3>2. QED BY <1>7, <2>1, <2>2, <2>4, <3>1 DEF CloseStopsWorker, TypeOK
  <2>5. CASE task[op.name] = None
    <3>1. StopSelected(Selected) /\ op # None
      BY <1>7, <2>5 DEF CloseStopsWorker
    <3>2. QED BY <1>6, <1>7, <2>1, <2>2, <2>3, <3>1 DEF CloseStopsWorker, TypeOK
  <2>6. QED BY <2>4, <2>5
<1>8. CASE CloseGathered
  <2>1. Selected \in Clients \cup {None}
    BY <1>8, <1>c, <1>o DEF CloseGathered, Selected
  <2>2. QED BY <1>6, <1>8, <2>1 DEF CloseGathered, TypeOK
<1>9. CASE CloseSeesUnitDown
  <2>1. op' \in Op
    BY <1>9, OpTypes DEF CloseSeesUnitDown
  <2>2. QED BY <1>9, <2>1 DEF CloseSeesUnitDown, TypeOK
<1>10. CASE CloseRemoves
  BY <1>10, <1>o DEF CloseRemoves, ProbeLimit, TypeOK
<1>11. CASE CloseFails
  <2>1. registry' \in [Names -> Record \cup {None}]
    BY <1>11, <1>o, StateType DEF CloseFails, WorkerStates
  <2>2. used' \in 0..MaxEffort
    BY <1>11, SpendType DEF CloseFails, TypeOK
  <2>3. QED BY <1>11, <1>o, <2>1, <2>2 DEF CloseFails, TypeOK
<1>12. ASSUME NEW c \in Clients, Disconnected(c) PROVE TypeOK'
  <2>1. conn' \in [Clients -> Conn]
    BY <1>12, <1>c DEF Disconnected, Conn
  <2>2. registry' \in [Names -> Record \cup {None}]
    BY <1>12, StateType DEF Disconnected, WorkerStates, TypeOK
  <2>3. task' \in [Names -> Task \cup {None}] /\ revived' \subseteq Workers
    BY <1>12, ScheduleType DEF Disconnected, TypeOK
  <2>4. QED BY <1>12, <2>1, <2>2, <2>3 DEF Disconnected, TypeOK
<1>13. ASSUME NEW n \in Names, RequestRestart(n) PROVE TypeOK'
  <2>1. registry' \in [Names -> Record \cup {None}] /\ task' \in [Names -> Task \cup {None}] /\ revived' \subseteq Workers
    BY <1>13, StateType, ScheduleType DEF RequestRestart, AskRestart, WorkerStates
  <2>2. used' \in 0..MaxEffort
    BY <1>13, SpendType DEF RequestRestart
  <2>3. QED BY <1>13, <2>1, <2>2 DEF RequestRestart, AskRestart, TypeOK
<1>14. ASSUME NEW n \in Names, ProbeFails(n) PROVE TypeOK'
  <2>1. registry' \in [Names -> Record \cup {None}]
    BY <1>14, StateType DEF ProbeFails, AskRestart, WorkerStates
  <2>2. task' \in [Names -> Task \cup {None}] /\ restart_requested' \subseteq Names /\ revived' \subseteq Workers
    BY <1>14, ScheduleType DEF ProbeFails, AskRestart, TypeOK
  <2>3. used' \in 0..MaxEffort
    BY <1>14, SpendType DEF ProbeFails
  <2>4. probe_failures' \in [Names -> 0..ProbeLimit]
    BY <1>14 DEF ProbeFails, ProbeLimit, TypeOK
  <2>5. QED BY <1>14, <2>1, <2>2, <2>3, <2>4 DEF ProbeFails, TypeOK
<1>15. ASSUME NEW n \in Names, WorkerResponds(n) PROVE TypeOK'
  <2>1. registry' \in [Names -> Record \cup {None}]
    BY <1>15, StateType DEF WorkerResponds, WorkerStates
  <2>2. QED BY <1>15, <2>1 DEF WorkerResponds, ProbeLimit, TypeOK
<1>16. CASE RestoreAll
  <2>1. registry' \in [Names -> Record \cup {None}]
    <3>1. \A n \in Names : registry[n] # None => [registry[n] EXCEPT !.state = "starting"] \in Record
      BY <1>r DEF Record, WorkerStates
    <3>2. QED BY <1>16, <3>1 DEF RestoreAll, NeedsRestore, TypeOK
  <2>2. task' \in [Names -> Task \cup {None}]
    BY <1>16, TaskTypes DEF RestoreAll, NeedsRestore, TypeOK
  <2>3. unit' \in [Workers -> {"inactive", "active", "failed"}]
    BY <1>16 DEF RestoreAll, TypeOK
  <2>4. revived' \subseteq Workers
    <3>1. {n \in Names : NeedsRestore(n)} \in SUBSET Registered
      BY DEF NeedsRestore, Registered
    <3>2. QED BY <1>16, <3>1, RevivedType DEF RestoreAll
  <2>5. QED BY <1>16, <2>1, <2>2, <2>3, <2>4 DEF RestoreAll, TypeOK
<1>17. ASSUME NEW n \in Names, RecoverAttempt(n) PROVE TypeOK'
  <2>1. [task[n] EXCEPT !.pc = "open", !.restart = (n \in restart_requested), !.worker = registry[n].worker,
                        !.thread = registry[n].thread] \in Task
    <3>1. task[n] \in Task /\ registry[n].worker \in Workers /\ registry[n].thread \in Threads
      BY <1>17, <1>r, <1>t DEF RecoverAttempt
    <3>2. QED BY <3>1, AttemptType
  <2>2. task' \in [Names -> Task \cup {None}]
    BY <1>17, <2>1 DEF RecoverAttempt, TypeOK
  <2>3. registry[n].worker \in Workers
    BY <1>17, <1>r DEF RecoverAttempt
  <2>4. StartUnit(registry[n].worker) \/ RestartUnit(registry[n].worker)
    BY <1>17 DEF RecoverAttempt
  <2>5. QED BY <1>17, <1>c, <2>2, <2>3, <2>4, UnitTypes DEF RecoverAttempt, TypeOK
<1>18. ASSUME NEW n \in Names, RecoverEnds(n) PROVE TypeOK'
  BY <1>18 DEF RecoverEnds, TypeOK
<1>19. ASSUME NEW n \in Names, TaskConnected(n) PROVE TypeOK'
  <2>1. Least(FreeClients) \in Clients
    BY <1>19, FreshOnes DEF TaskConnected, FreeClients
  <2>2. [task[n] EXCEPT !.pc = "resume", !.client = Least(FreeClients)] \in Task
    <3>1. task[n] \in Task
      BY <1>19, <1>t DEF TaskConnected
    <3>2. QED BY <2>1, <3>1 DEF Task
  <2>3. task' \in [Names -> Task \cup {None}]
    BY <1>19, <2>2 DEF TaskConnected, TypeOK
  <2>4. Install(n, task[n].worker, Least(FreeClients)) /\ task[n].worker \in Workers
    BY <1>19, <1>t DEF TaskConnected
  <2>5. QED BY <1>19, <2>1, <2>3, <2>4, InstallTypes DEF TaskConnected, TypeOK
<1>20. ASSUME NEW n \in Names, TaskResumed(n) PROVE TypeOK'
  <2>1. registry' \in [Names -> Record \cup {None}]
    BY <1>20, StateType DEF TaskResumed, WorkerStates
  <2>2. loaded' \in [Workers -> Threads \cup {None}]
    BY <1>20, <1>t DEF TaskResumed, Load, TypeOK
  <2>3. QED BY <1>20, <2>1, <2>2 DEF TaskResumed, ProbeLimit, TypeOK
<1>21. ASSUME NEW n \in Names, TaskFails(n) PROVE TypeOK'
  <2>1. registry' \in [Names -> Record \cup {None}]
    BY <1>21, StateType DEF TaskFails, WorkerStates, TypeOK
  <2>2. /\ unit' \in [Workers -> {"inactive", "active", "failed"}]
        /\ loaded' \in [Workers -> Threads \cup {None}]
        /\ conn' \in [Clients -> Conn]
    BY <1>21, <1>c, <1>t, UnitTypes DEF TaskFails, GivesUpUnit, TypeOK
  <2>3. used' \in 0..MaxEffort
    BY <1>21, SpendType DEF TaskFails, AttemptFailure, TypeOK
  <2>4. task' \in [Names -> Task \cup {None}]
    <3>1. task[n] \in Task /\ task[n].attempts \in 0..FailureLimit
      BY <1>21, <1>t DEF TaskFails, Task
    <3> DEFINE a == IF task[n].first \/ task[n].attempts = FailureLimit THEN task[n].attempts ELSE task[n].attempts + 1
    <3>2. task' = [task EXCEPT ![n] = AfterFailure(n, a)]
      BY <1>21 DEF TaskFails
    <3>3. a \in 0..FailureLimit
      BY <3>1
    <3> HIDE DEF a
    <3>4. AfterFailure(n, a) \in Task
      BY <1>21, <3>3, TaskTypes DEF TaskFails
    <3>5. QED BY <3>2, <3>4 DEF TypeOK
  <2>5. failures' \in [Names -> 0..(FailureLimit - 1)] /\ circuit' \subseteq Names
    BY <1>21 DEF TaskFails, RecordFailure, TypeOK
  <2>6. QED BY <1>21, <2>1, <2>2, <2>3, <2>4, <2>5 DEF TaskFails, TypeOK
<1>22. ASSUME NEW n \in Names, TimePasses(n) PROVE TypeOK'
  BY <1>22 DEF TimePasses, CircuitExpires, FailuresAge, TypeOK
<1>23. ASSUME NEW w \in Workers, WorkerCrashes(w) PROVE TypeOK'
  <2>1. conn' \in [Clients -> Conn]
    BY <1>23, <1>c, ConnTypes DEF WorkerCrashes
  <2>2. QED BY <1>23, <2>1, SpendType DEF WorkerCrashes, TypeOK
<1>24. ASSUME NEW w \in Workers, SystemdRestarts(w) PROVE TypeOK'
  BY <1>24 DEF SystemdRestarts, TypeOK
<1>25. ASSUME NEW c \in Clients, ConnectionLost(c) PROVE TypeOK'
  <2>1. conn' \in [Clients -> Conn]
    BY <1>25, <1>c DEF ConnectionLost, Conn
  <2>2. QED BY <1>25, <2>1, SpendType DEF ConnectionLost, TypeOK
<1>26. CASE ControlDrops
  BY <1>26, SpendType DEF ControlDrops, TypeOK
<1>27. CASE OwnerRestarts
  <2>1. conn' \in [Clients -> Conn]
    BY <1>27, <1>c DEF OwnerRestarts, Conn
  <2>2. used' \in 0..MaxEffort
    BY <1>27, SpendType DEF OwnerRestarts
  <2>3. failures' \in [Names -> 0..(FailureLimit - 1)] /\ probe_failures' \in [Names -> 0..ProbeLimit]
    <3>1. 0 \in 0..(FailureLimit - 1) /\ 0 \in 0..ProbeLimit
      BY DEF ProbeLimit
    <3>2. failures' = [n \in Names |-> 0] /\ probe_failures' = [n \in Names |-> 0]
      BY <1>27 DEF OwnerRestarts
    <3> HIDE BoundsAreNatural, FailureLimitIsPositive
    <3>3. QED BY <3>1, <3>2
  <2>4. QED BY <1>27, <2>1, <2>2, <2>3 DEF OwnerRestarts, TypeOK
<1>28. CASE UNCHANGED vars
  BY <1>28 DEF vars, TypeOK
<1>29. QED
  BY <1>1, <1>2, <1>3, <1>4, <1>5, <1>7, <1>8, <1>9, <1>10, <1>11, <1>12, <1>13, <1>14, <1>15, <1>16, <1>17, <1>18, <1>19,
     <1>20, <1>21, <1>22, <1>23, <1>24, <1>25, <1>26, <1>27, <1>28
  DEF Next, OpenStep, CloseStep, TaskStep, ProbeStep, Environment

(* Every variable keeps its type. *)
THEOREM TypeCorrect == Spec => []TypeOK
<1>1. Init => TypeOK
  BY DEF Init, TypeOK, Conn, ProbeLimit
<1>2. QED BY <1>1, TypeStep, PTL DEF Spec

-----------------------------------------------------------------------------
(* What a step does to the records, the operation and the tasks.           *)

SameSession(a, b) == a.worker = b.worker /\ a.thread = b.thread

(* Records are registered, restored or removed, or their state changes. *)
LEMMA RegistryMoves ==
    ASSUME TypeOK, [Next]_vars
    PROVE  \/ OpenRegistered \/ RestoreAll \/ CloseRemoves \/ registry' = registry
           \/ \E m \in Names, x \in WorkerStates : registry' = WithState(registry, m, x)
<1>o. op # None => op.name \in Names
  BY DEF TypeOK, Op
<1>s. {"starting", "ready", "stopping", "degraded", "reconnecting"} \subseteq WorkerStates
  BY DEF WorkerStates
<1> DEFINE Moved == \E m \in Names, x \in WorkerStates : registry' = WithState(registry, m, x)
<1>1. CASE CloseStopsWorker \/ CloseFails
  BY <1>1, <1>o, <1>s DEF CloseStopsWorker, CloseFails
<1>2. ASSUME NEW c \in Clients, Disconnected(c) PROVE Moved \/ registry' = registry
  BY <1>2, <1>s DEF Disconnected
<1>3. ASSUME NEW n \in Names, RequestRestart(n) \/ ProbeFails(n) \/ WorkerResponds(n) \/ TaskResumed(n) \/ TaskFails(n)
      PROVE  Moved \/ registry' = registry
  BY <1>3, <1>s DEF RequestRestart, AskRestart, ProbeFails, WorkerResponds, TaskResumed, TaskFails
<1> HIDE DEF Moved
<1>4. QED
  BY <1>1, <1>2, <1>3
  DEF Moved, Next, OpenStep, CloseStep, TaskStep, ProbeStep, TimePasses, Environment, OpenBegin, OpenConnected, OpenDiscarded, CloseBegin,
      CloseGathered, CloseSeesUnitDown, RecoverAttempt, RecoverEnds, TaskConnected, CircuitExpires, FailuresAge,
      WorkerCrashes, SystemdRestarts, ConnectionLost, ControlDrops, OwnerRestarts, vars

(* A change of state leaves a record that of its session. *)
LEMMA StateChanges ==
    ASSUME NEW r \in Record, NEW x \in WorkerStates
    PROVE  LET c == [r EXCEPT !.state = x] IN c # None /\ SameSession(c, r) /\ c.state = x
<1>1. [r EXCEPT !.state = x] \in Record
  BY DEF Record
<1>2. LET c == [r EXCEPT !.state = x] IN SameSession(c, r) /\ c.state = x
  BY DEF SameSession, Record
<1>3. QED BY <1>1, <1>2

(* A record stays that of its session until its close ends, and it is      *)
(* registered by an open.                                                  *)
LEMMA RegistrySteps ==
    ASSUME TypeOK, [Next]_vars, NEW n \in Names
    PROVE  /\ registry'[n] # None =>
                 \/ registry[n] # None /\ SameSession(registry'[n], registry[n])
                 \/ OpenRegistered /\ n = op.name /\ SameSession(registry'[n], op)
           /\ registry[n] # None /\ registry'[n] = None => CloseRemoves /\ n = op.name
<1>r. registry \in [Names -> Record \cup {None}]
  BY DEF TypeOK
<1>w. "starting" \in WorkerStates
  BY DEF WorkerStates
<1>o. op # None => op.name \in Names /\ op.worker \in Workers /\ op.thread \in Threads
  BY DEF TypeOK, Op
<1>1. ASSUME NEW m \in Names, NEW x \in WorkerStates, registry' = WithState(registry, m, x)
      PROVE  registry'[n] = registry[n] \/ (registry[n] # None /\ registry'[n] # None /\ SameSession(registry'[n], registry[n]))
  <2>1. CASE registry[m] # None /\ m = n
    BY <1>1, <1>r, <2>1, StateChanges DEF WithState
  <2>2. CASE registry[m] = None \/ m # n
    BY <1>1, <1>r, <2>2 DEF WithState
  <2>3. QED BY <2>1, <2>2
<1>2. CASE RestoreAll
  <2>1. registry'[n] = registry[n] \/ (registry[n] # None /\ registry'[n] = [registry[n] EXCEPT !.state = "starting"])
    BY <1>2 DEF RestoreAll, NeedsRestore
  <2>2. CASE registry'[n] = registry[n]
    BY <2>2 DEF SameSession
  <2>3. CASE registry[n] # None /\ registry'[n] = [registry[n] EXCEPT !.state = "starting"]
    <3>1. registry'[n] # None /\ SameSession(registry'[n], registry[n])
      BY <1>r, <1>w, <2>3, StateChanges
    <3>2. QED BY <2>3, <3>1
  <2>4. QED BY <2>1, <2>2, <2>3
<1>3. CASE OpenRegistered
  <2>1. registry' = [registry EXCEPT ![op.name] = [worker |-> op.worker, thread |-> op.thread, state |-> "ready"]] /\ op # None
    BY <1>3 DEF OpenRegistered
  <2>2. [worker |-> op.worker, thread |-> op.thread, state |-> "ready"] \in Record
    BY <1>o, <2>1 DEF Record, WorkerStates
  <2>3. CASE n = op.name
    BY <1>3, <1>r, <2>1, <2>2, <2>3 DEF SameSession
  <2>4. CASE n # op.name
    BY <1>r, <2>1, <2>4 DEF SameSession
  <2>5. QED BY <2>3, <2>4
<1>4. CASE CloseRemoves
  BY <1>4, <1>r DEF CloseRemoves, SameSession
<1>5. QED BY <1>1, <1>2, <1>3, <1>4, RegistryMoves DEF SameSession

(* An operation begins, goes on or ends. *)
LEMMA OpMoves ==
    ASSUME [Next]_vars
    PROVE  \/ op' = op \/ OpenConnected \/ CloseStopsWorker \/ CloseGathered \/ CloseSeesUnitDown
           \/ (\E t \in Threads : OpenBegin(t)) \/ (\E n \in Names : CloseBegin(n))
           \/ op' = None /\ (OpenRegistered \/ OpenDiscarded \/ CloseRemoves \/ CloseFails)
BY DEF Next, OpenStep, CloseStep, TaskStep, ProbeStep, TimePasses, Environment, OpenRegistered, OpenDiscarded, CloseRemoves, CloseFails,
       Disconnected, RequestRestart, ProbeFails, WorkerResponds, RestoreAll, RecoverAttempt, RecoverEnds, TaskConnected, TaskResumed,
       TaskFails, CircuitExpires, FailuresAge, WorkerCrashes, SystemdRestarts, ConnectionLost, ControlDrops, OwnerRestarts, vars

(* The operation goes on, or another begins. *)
LEMMA OpSteps ==
    ASSUME TypeOK, [Next]_vars, op' # None
    PROVE  \/ op # None /\ op'.kind = op.kind /\ op'.name = op.name /\ SameSession(op', op)
              /\ (op'.pc \in {"starting", "rpc"} <=> op.pc \in {"starting", "rpc"})
           \/ op = None /\ \E t \in Threads : OpenBegin(t)
           \/ op = None /\ \E n \in Names : CloseBegin(n)
<1>o. op # None => op \in Op
  BY DEF TypeOK
<1>1. CASE OpenConnected
  BY <1>1, <1>o DEF OpenConnected, Op, SameSession
<1>2. CASE CloseStopsWorker
  BY <1>2, <1>o DEF CloseStopsWorker, StopSelected, Op, SameSession
<1>3. CASE CloseGathered
  BY <1>3, <1>o DEF CloseGathered, StopSelected, Op, SameSession
<1>4. CASE CloseSeesUnitDown
  BY <1>4, <1>o DEF CloseSeesUnitDown, Op, SameSession
<1>5. CASE op' = op
  BY <1>5 DEF SameSession
<1>6. op' = op \/ OpenConnected \/ CloseStopsWorker \/ CloseGathered \/ CloseSeesUnitDown
        \/ (\E t \in Threads : OpenBegin(t)) \/ (\E n \in Names : CloseBegin(n))
  BY OpMoves
<1>7. QED BY <1>1, <1>2, <1>3, <1>4, <1>5, <1>6 DEF OpenBegin, CloseBegin

(* A task stays that of its session, or it begins, or looks again, with    *)
(* what is registered; one that begins during the close of its name        *)
(* revives the worker.                                                     *)
LEMMA TaskSteps ==
    ASSUME TypeOK, [Next]_vars, NEW n \in Names, task'[n] # None
    PROVE  \/ task[n] # None /\ SameSession(task'[n], task[n])
           \/ registry[n] # None /\ SameSession(task'[n], registry[n])
              /\ (Stopping(n) /\ task[n] = None => registry[n].worker \in revived')
<1>t. task \in [Names -> Task \cup {None}]
  BY DEF TypeOK
<1> DEFINE Begun == registry[n] # None /\ SameSession(task'[n], registry[n]) /\ (Stopping(n) => registry[n].worker \in revived')
<1>1. ASSUME NEW m \in Names, Schedule(m) PROVE task'[n] = task[n] \/ Begun
  <2>1. CASE task[m] = None /\ registry[m] # None /\ m = n
    <3>1. task'[n] = NewTask(n, FALSE) /\ revived' = RevivedWith({n})
      BY <1>1, <1>t, <2>1 DEF Schedule
    <3>2. SameSession(task'[n], registry[n])
      BY <3>1 DEF NewTask, SameSession
    <3>3. Stopping(n) => registry[n].worker \in revived'
      BY <3>1 DEF RevivedWith
    <3>4. QED BY <2>1, <3>2, <3>3
  <2>2. CASE ~(task[m] = None /\ registry[m] # None /\ m = n)
    BY <1>1, <1>t, <2>2 DEF Schedule
  <2>3. QED BY <2>1, <2>2
<1>2. CASE CloseStopsWorker
  BY <1>2, <1>t DEF CloseStopsWorker, SameSession
<1>3. ASSUME RestoreAll PROVE task'[n] = task[n] \/ Begun
  <2>1. CASE NeedsRestore(n)
    <3>1. task'[n] = NewTask(n, TRUE) /\ registry[n] # None
      BY <1>3, <2>1 DEF RestoreAll, NeedsRestore
    <3>2. SameSession(task'[n], registry[n])
      BY <3>1 DEF NewTask, SameSession
    <3>3. Stopping(n) => registry[n].worker \in revived'
      BY <1>3, <2>1 DEF RestoreAll, RevivedWith
    <3>4. QED BY <3>1, <3>2, <3>3
  <2>2. CASE ~NeedsRestore(n)
    BY <1>3, <2>2 DEF RestoreAll
  <2>3. QED BY <2>1, <2>2
<1>4. ASSUME NEW m \in Names, RecoverAttempt(m) PROVE task'[n] = task[n] \/ (task[n] # None /\ registry[n] # None /\ SameSession(task'[n], registry[n]))
  <2>1. CASE m = n
    <3>1. task[n] \in Task /\ registry[n] # None
      BY <1>4, <1>t, <2>1 DEF RecoverAttempt
    <3>2. task'[n] = [task[n] EXCEPT !.pc = "open", !.restart = (n \in restart_requested), !.worker = registry[n].worker,
                                     !.thread = registry[n].thread]
      BY <1>4, <1>t, <2>1 DEF RecoverAttempt
    <3>3. SameSession(task'[n], registry[n])
      BY <3>1, <3>2 DEF Task, SameSession
    <3>4. QED BY <1>4, <2>1, <3>1, <3>3 DEF RecoverAttempt
  <2>2. CASE m # n
    BY <1>4, <1>t, <2>2 DEF RecoverAttempt
  <2>3. QED BY <2>1, <2>2
<1>5. ASSUME NEW m \in Names, TaskConnected(m) PROVE task'[n] = task[n] \/ (task[n] # None /\ SameSession(task'[n], task[n]))
  BY <1>5, <1>t DEF TaskConnected, Task, SameSession
<1>6. ASSUME NEW m \in Names, TaskFails(m) PROVE task'[n] = task[n] \/ (task[n] # None /\ SameSession(task'[n], task[n]))
  <2>1. CASE m = n
    <3>1. PICK a : task'[n] = AfterFailure(n, a)
      BY <1>6, <1>t, <2>1 DEF TaskFails
    <3>2. task[n] \in Task
      BY <1>6, <1>t, <2>1 DEF TaskFails
    <3>3. QED BY <1>6, <2>1, <3>1, <3>2 DEF AfterFailure, Task, SameSession, TaskFails
  <2>2. CASE m # n
    BY <1>6, <1>t, <2>2 DEF TaskFails
  <2>3. QED BY <2>1, <2>2
<1>7. ASSUME NEW m \in Names, RecoverEnds(m) \/ TaskResumed(m) PROVE task'[n] = task[n]
  BY <1>7, <1>t DEF RecoverEnds, TaskResumed
<1>8. CASE OwnerRestarts
  BY <1>8 DEF OwnerRestarts
<1>9. ASSUME NEW c \in Clients, Disconnected(c) PROVE task' = task \/ \E m \in Names : Schedule(m)
  BY <1>9 DEF Disconnected
<1>10. ASSUME NEW m \in Names, RequestRestart(m) \/ ProbeFails(m) PROVE task' = task \/ Schedule(m)
  BY <1>10 DEF RequestRestart, ProbeFails, AskRestart
<1>11. CASE task' = task
  BY <1>11 DEF SameSession
<1>12. \/ CloseStopsWorker \/ RestoreAll \/ OwnerRestarts \/ task' = task
       \/ \E c \in Clients : Disconnected(c)
       \/ \E m \in Names : RequestRestart(m) \/ ProbeFails(m) \/ RecoverAttempt(m) \/ TaskConnected(m) \/ TaskFails(m) \/ RecoverEnds(m) \/ TaskResumed(m)
  BY DEF Next, OpenStep, CloseStep, TaskStep, ProbeStep, TimePasses, Environment, OpenBegin, OpenConnected, OpenRegistered, OpenDiscarded,
         CloseBegin, CloseGathered, CloseSeesUnitDown, CloseRemoves, CloseFails, WorkerResponds, CircuitExpires, FailuresAge,
         WorkerCrashes, SystemdRestarts, ConnectionLost, ControlDrops, vars
<1>13. ASSUME task'[n] = task[n] PROVE task[n] # None /\ SameSession(task'[n], task[n])
  BY <1>13 DEF SameSession
<1>14. QED BY <1>1, <1>2, <1>3, <1>4, <1>5, <1>6, <1>7, <1>8, <1>9, <1>10, <1>11, <1>12, <1>13

-----------------------------------------------------------------------------
(* What a step does to the clients and their connections.                  *)

(* A fresh client takes the name n; the one it replaces is closed. *)
Installs(n, c) ==
    /\ c \in FreeClients
    /\ clients' = [clients EXCEPT ![n] = c]
    /\ conn'[c].ready
    /\ clients[n] # None => ~conn'[clients[n]].ready
    /\ \/ /\ OpenConnected /\ n = op.name /\ conn'[c].worker = op.worker
          /\ op'.client = c /\ op'.kind = op.kind /\ op'.name = op.name /\ op'.worker = op.worker /\ op'.pc = "rpc"
       \/ /\ TaskConnected(n) /\ conn'[c].worker = task[n].worker
          /\ task'[n].client = c

(* A closed client is not ready, whatever else ends. *)
LEMMA ClosedIsDown ==
    ASSUME NEW k \in [Clients -> Conn], NEW c \in Clients, NEW w \in Workers
    PROVE  ~WithClosed(k, c)[c].ready /\ ~WithEof(WithClosed(k, c), w)[c].ready
<1>1. k[c] \in Conn /\ c # None
  OBVIOUS
<1>2. WithClosed(k, c)[c] = [[k[c] EXCEPT !.ready = FALSE] EXCEPT !.notice = FALSE]
  BY <1>1 DEF WithClosed
<1>3. ~WithClosed(k, c)[c].ready
  BY <1>1, <1>2 DEF Conn
<1>4. QED BY <1>3 DEF WithEof

(* An open and a recovery do not connect in one step. *)
LEMMA OneConnects == ASSUME TypeOK, OpenConnected PROVE \A n \in Names : ~TaskConnected(n)
<1> DEFINE c == Least(FreeClients)
<1>1. op \in Op /\ op.pc = "starting" /\ op' = [op EXCEPT !.pc = "rpc", !.client = c]
  BY DEF OpenConnected, TypeOK
<1> HIDE DEF c
<1>2. op'.pc = "rpc"
  BY <1>1 DEF Op
<1>3. QED BY <1>1, <1>2 DEF TaskConnected

(* This is how an open and a recovery connect. *)
LEMMA ConnectSteps ==
    ASSUME TypeOK
    PROVE  /\ OpenConnected => op.name \in Names /\ \E c \in Clients : Installs(op.name, c)
           /\ \A n \in Names : TaskConnected(n) => \E c \in Clients : Installs(n, c)
<1>c. clients \in [Names -> Clients \cup {None}] /\ conn \in [Clients -> Conn] /\ task \in [Names -> Task \cup {None}]
  BY DEF TypeOK
<1>1. ASSUME NEW n \in Names, NEW w \in Workers, NEW c \in Clients, c \in FreeClients, Install(n, w, c)
      PROVE  conn'[c].ready /\ conn'[c].worker = w /\ (clients[n] # None => ~conn'[clients[n]].ready)
  <2>1. WithClosed(conn, clients[n]) \in [Clients -> Conn]
    BY <1>c, ConnTypes
  <2>2. conn'[c].ready /\ conn'[c].worker = w
    BY <1>1, <2>1 DEF Install
  <2>3. ASSUME clients[n] # None PROVE ~conn'[clients[n]].ready
    <3>1. clients[n] \in Clients /\ clients[n] # c
      BY <1>1, <1>c, <2>3 DEF FreeClients
    <3>2. conn'[clients[n]] = WithClosed(conn, clients[n])[clients[n]]
      BY <1>1, <2>1, <3>1 DEF Install
    <3>3. QED BY <1>c, <3>1, <3>2, ClosedIsDown
  <2>4. QED BY <2>2, <2>3
<1>2. ASSUME OpenConnected PROVE op.name \in Names /\ \E c \in Clients : Installs(op.name, c)
  <2> DEFINE c == Least(FreeClients)
  <2>1. c \in FreeClients /\ c \in Clients
    BY <1>2, FreshOnes DEF OpenConnected, FreeClients
  <2>2. op \in Op /\ op' = [op EXCEPT !.pc = "rpc", !.client = c] /\ Install(op.name, op.worker, c)
    BY <1>2 DEF OpenConnected, TypeOK
  <2> HIDE DEF c
  <2>3. op.name \in Names /\ op.worker \in Workers
    BY <2>2 DEF Op
  <2>4. op'.client = c /\ op'.kind = op.kind /\ op'.name = op.name /\ op'.worker = op.worker /\ op'.pc = "rpc"
    BY <2>2 DEF Op
  <2>5. conn'[c].ready /\ conn'[c].worker = op.worker /\ (clients[op.name] # None => ~conn'[clients[op.name]].ready)
    BY <1>1, <2>1, <2>2, <2>3
  <2>6. clients' = [clients EXCEPT ![op.name] = c]
    BY <2>2 DEF Install
  <2>7. QED BY <1>2, <2>1, <2>3, <2>4, <2>5, <2>6 DEF Installs
<1>3. ASSUME NEW n \in Names, TaskConnected(n) PROVE \E c \in Clients : Installs(n, c)
  <2> DEFINE c == Least(FreeClients)
  <2>1. c \in FreeClients /\ c \in Clients
    BY <1>3, FreshOnes DEF TaskConnected, FreeClients
  <2>2. task[n] \in Task /\ task'[n] = [task[n] EXCEPT !.pc = "resume", !.client = c] /\ Install(n, task[n].worker, c)
    BY <1>3, <1>c DEF TaskConnected
  <2> HIDE DEF c
  <2>3. task[n].worker \in Workers /\ task'[n].client = c
    BY <2>2 DEF Task
  <2>4. conn'[c].ready /\ conn'[c].worker = task[n].worker /\ (clients[n] # None => ~conn'[clients[n]].ready)
    BY <1>1, <2>1, <2>2, <2>3
  <2>5. clients' = [clients EXCEPT ![n] = c]
    BY <2>2 DEF Install
  <2>6. QED BY <1>3, <2>1, <2>3, <2>4, <2>5 DEF Installs
<1>4. QED BY <1>2, <1>3

(* A name's client stays, is a fresh one, or leaves.  It leaves with the   *)
(* open or the close of its name, or with the Owner.                       *)
LEMMA ClientSteps ==
    ASSUME TypeOK, [Next]_vars, NEW n \in Names
    PROVE  \/ clients'[n] = clients[n]
           \/ \E c \in Clients : clients'[n] = c /\ Installs(n, c)
           \/ clients'[n] = None /\ (OwnerRestarts \/ ((OpenDiscarded \/ CloseStopsWorker \/ CloseGathered) /\ n = op.name))
<1>c. clients \in [Names -> Clients \cup {None}]
  BY DEF TypeOK
<1>1. ASSUME OpenConnected PROVE clients'[n] = clients[n] \/ \E c \in Clients : clients'[n] = c /\ Installs(n, c)
  <2>1. PICK c \in Clients : Installs(op.name, c)
    BY <1>1, ConnectSteps
  <2>2. QED BY <1>c, <2>1 DEF Installs
<1>2. ASSUME NEW m \in Names, TaskConnected(m) PROVE clients'[n] = clients[n] \/ \E c \in Clients : clients'[n] = c /\ Installs(n, c)
  <2>1. PICK c \in Clients : Installs(m, c)
    BY <1>2, ConnectSteps
  <2>2. QED BY <1>c, <2>1 DEF Installs
<1>3. CASE OpenDiscarded
  BY <1>3, <1>c DEF OpenDiscarded
<1>4. CASE CloseStopsWorker
  BY <1>4, <1>c DEF CloseStopsWorker, StopSelected
<1>5. CASE CloseGathered
  BY <1>5, <1>c DEF CloseGathered, StopSelected
<1>6. CASE OwnerRestarts
  BY <1>6 DEF OwnerRestarts
<1>7. OpenConnected \/ (\E m \in Names : TaskConnected(m)) \/ OpenDiscarded \/ CloseStopsWorker \/ CloseGathered \/ OwnerRestarts \/ clients' = clients
  BY DEF Next, OpenStep, CloseStep, TaskStep, ProbeStep, TimePasses, Environment, OpenBegin, OpenRegistered, CloseBegin,
         CloseSeesUnitDown, CloseRemoves, CloseFails, Disconnected, RequestRestart, ProbeFails, WorkerResponds, RestoreAll,
         RecoverAttempt, RecoverEnds, TaskResumed, TaskFails, CircuitExpires, FailuresAge, WorkerCrashes, SystemdRestarts,
         ConnectionLost, ControlDrops, vars
<1>8. QED BY <1>1, <1>2, <1>3, <1>4, <1>5, <1>6, <1>7

(* What becomes of a connection: it is lost, its loss is noticed, or it is *)
(* closed with what it served.                                             *)
Lost(c) == conn[c].ready /\ conn'[c].worker = conn[c].worker /\ ~conn'[c].ready /\ conn'[c].notice

Noticed(c) == Disconnected(c) /\ conn'[c].worker = conn[c].worker /\ conn'[c].ready = conn[c].ready

Shut(c) ==
    /\ conn'[c].worker = conn[c].worker /\ ~conn'[c].ready
    /\ \/ \E n \in Names : clients[n] = c /\ \E d \in Clients : Installs(n, d)
       \/ OpenDiscarded /\ c = op.client
       \/ (CloseStopsWorker \/ CloseGathered) /\ c = Selected
       \/ OwnerRestarts

(* The ends of connections. *)
LEMMA EndEffects ==
    ASSUME NEW k \in [Clients -> Conn], NEW w \in Workers, NEW c \in Clients
    PROVE  /\ \/ WithEof(k, w)[c] = k[c] /\ ~(k[c].ready /\ k[c].worker = w)
              \/ /\ k[c].ready /\ k[c].worker = w
                 /\ WithEof(k, w)[c].worker = w /\ ~WithEof(k, w)[c].ready /\ WithEof(k, w)[c].notice
           /\ \A d \in Clients \cup {None} :
                 \/ WithClosed(k, d)[c] = k[c]
                 \/ c = d /\ WithClosed(k, d)[c].worker = k[c].worker /\ ~WithClosed(k, d)[c].ready /\ ~WithClosed(k, d)[c].notice
<1>1. \/ WithEof(k, w)[c] = k[c] /\ ~(k[c].ready /\ k[c].worker = w)
      \/ /\ k[c].ready /\ k[c].worker = w
         /\ WithEof(k, w)[c].worker = w /\ ~WithEof(k, w)[c].ready /\ WithEof(k, w)[c].notice
  BY DEF WithEof
<1>2. ASSUME NEW d \in Clients \cup {None}
      PROVE  \/ WithClosed(k, d)[c] = k[c]
             \/ c = d /\ WithClosed(k, d)[c].worker = k[c].worker /\ ~WithClosed(k, d)[c].ready /\ ~WithClosed(k, d)[c].notice
  <2>1. CASE d = None \/ d # c
    BY <2>1 DEF WithClosed
  <2>2. CASE d # None /\ d = c
    BY <2>2 DEF WithClosed, Conn
  <2>3. QED BY <2>1, <2>2
<1>3. QED BY <1>1, <1>2

(* One of these happens to every connection. *)
LEMMA ConnSteps ==
    ASSUME TypeOK, [Next]_vars, NEW c \in Clients
    PROVE  conn'[c] = conn[c] \/ Lost(c) \/ Noticed(c) \/ Shut(c) \/ \E n \in Names : Installs(n, c)
<1>c. conn \in [Clients -> Conn] /\ clients \in [Names -> Clients \cup {None}]
  BY DEF TypeOK
<1>o. op # None => op.name \in Names /\ op.worker \in Workers /\ op.client \in Clients \cup {None}
  BY DEF TypeOK, Op
<1>1. ASSUME NEW n \in Names, NEW w \in Workers, NEW d \in Clients, Install(n, w, d), Installs(n, d)
      PROVE  conn'[c] = conn[c] \/ Shut(c) \/ Installs(n, c)
  <2>1. CASE c = d
    BY <1>1, <2>1
  <2>2. CASE c # d
    <3>1. WithClosed(conn, clients[n]) \in [Clients -> Conn]
      BY <1>c, ConnTypes
    <3>2. conn'[c] = WithClosed(conn, clients[n])[c]
      BY <1>1, <2>2, <3>1 DEF Install
    <3>3. conn'[c] = conn[c] \/ (c = clients[n] /\ conn'[c].worker = conn[c].worker /\ ~conn'[c].ready)
      BY <1>c, <3>2, EndEffects
    <3>4. QED BY <1>1, <3>3 DEF Shut
  <2>3. QED BY <2>1, <2>2
<1>2. ASSUME NEW w \in Workers, conn' = WithEof(conn, w) PROVE conn'[c] = conn[c] \/ Lost(c)
  BY <1>2, <1>c, EndEffects DEF Lost
<1>3. ASSUME NEW w \in Workers, NEW d \in Clients \cup {None}, conn' = WithEof(WithClosed(conn, d), w)
      PROVE  conn'[c] = conn[c] \/ Lost(c) \/ (c = d /\ conn'[c].worker = conn[c].worker /\ ~conn'[c].ready)
  <2> DEFINE k == WithClosed(conn, d)
  <2>1. k \in [Clients -> Conn]
    BY <1>3, <1>c, ConnTypes
  <2>2. k[c] = conn[c] \/ (c = d /\ k[c].worker = conn[c].worker /\ ~k[c].ready /\ ~k[c].notice)
    BY <1>3, <1>c, EndEffects
  <2>3. conn' = WithEof(k, w)
    BY <1>3
  <2> HIDE DEF k
  <2>4. QED BY <1>3, <2>1, <2>2, <2>3, EndEffects DEF Lost
<1>4. CASE OpenConnected
  <2> DEFINE d == Least(FreeClients)
  <2>1. d \in Clients /\ op # None /\ Install(op.name, op.worker, d)
    BY <1>4, FreshOnes DEF OpenConnected, FreeClients
  <2>2. clients' = [clients EXCEPT ![op.name] = d]
    BY <2>1 DEF Install
  <2>3. PICK e \in Clients : Installs(op.name, e)
    BY <1>4, ConnectSteps
  <2> HIDE DEF d
  <2>4. d = e
    BY <1>c, <1>o, <2>1, <2>2, <2>3 DEF Installs
  <2>5. QED BY <1>1, <1>o, <2>1, <2>3, <2>4
<1>5. ASSUME NEW n \in Names, TaskConnected(n) PROVE conn'[c] = conn[c] \/ Shut(c) \/ Installs(n, c)
  <2> DEFINE d == Least(FreeClients)
  <2>1. d \in Clients /\ task[n].worker \in Workers /\ Install(n, task[n].worker, d)
    BY <1>5, FreshOnes DEF TaskConnected, FreeClients, TypeOK, Task
  <2>2. clients' = [clients EXCEPT ![n] = d]
    BY <2>1 DEF Install
  <2>3. PICK e \in Clients : Installs(n, e)
    BY <1>5, ConnectSteps
  <2> HIDE DEF d
  <2>4. d = e
    BY <1>c, <2>1, <2>2, <2>3 DEF Installs
  <2>5. QED BY <1>1, <2>1, <2>3, <2>4
<1>6. CASE OpenDiscarded
  <2>1. conn' = WithEof(WithClosed(conn, op.client), op.worker) /\ op # None
    BY <1>6 DEF OpenDiscarded, StopUnit
  <2>2. QED BY <1>3, <1>6, <1>o, <2>1 DEF Shut
<1>7. CASE CloseStopsWorker \/ CloseGathered
  <2>1. op # None /\ Selected \in Clients \cup {None}
    BY <1>7, <1>c, <1>o DEF CloseStopsWorker, CloseGathered, Selected
  <2>2. conn' = conn \/ conn' = WithEof(WithClosed(conn, Selected), op.worker)
    BY <1>7 DEF CloseStopsWorker, CloseGathered, StopSelected, StopUnit
  <2>3. QED BY <1>3, <1>7, <1>o, <2>1, <2>2 DEF Shut
<1>8. CASE OwnerRestarts
  <2>1. conn[c] \in Conn /\ conn'[c] = [conn[c] EXCEPT !.ready = FALSE, !.notice = FALSE]
    BY <1>8, <1>c DEF OwnerRestarts
  <2>2. conn'[c].worker = conn[c].worker /\ ~conn'[c].ready
    BY <2>1 DEF Conn
  <2>3. QED BY <1>8, <2>2 DEF Shut
<1>9. ASSUME NEW d \in Clients, Disconnected(d) PROVE conn'[c] = conn[c] \/ Noticed(c)
  BY <1>9, <1>c DEF Disconnected, Noticed, Conn
<1>10. ASSUME NEW d \in Clients, ConnectionLost(d) PROVE conn'[c] = conn[c] \/ Lost(c)
  BY <1>10, <1>c DEF ConnectionLost, Lost, Conn
<1>11. ASSUME NEW n \in Names, RecoverAttempt(n) \/ TaskFails(n) PROVE conn' = conn \/ \E w \in Workers : conn' = WithEof(conn, w)
  <2>1. registry[n] # None => registry[n].worker \in Workers
    BY DEF TypeOK, Record
  <2>2. task[n] # None => task[n].worker \in Workers
    BY DEF TypeOK, Task
  <2>3. QED BY <1>11, <2>1, <2>2 DEF RecoverAttempt, TaskFails, GivesUpUnit, StartUnit, RestartUnit, StopUnit
<1>12. ASSUME NEW w \in Workers, WorkerCrashes(w) PROVE conn' = WithEof(conn, w)
  BY <1>12 DEF WorkerCrashes
<1>13. \/ OpenConnected \/ OpenDiscarded \/ CloseStopsWorker \/ CloseGathered \/ OwnerRestarts \/ conn' = conn
       \/ \E n \in Names : TaskConnected(n) \/ RecoverAttempt(n) \/ TaskFails(n)
       \/ \E d \in Clients : Disconnected(d) \/ ConnectionLost(d)
       \/ \E w \in Workers : WorkerCrashes(w)
  BY DEF Next, OpenStep, CloseStep, TaskStep, ProbeStep, TimePasses, Environment, OpenBegin, OpenRegistered, CloseBegin,
         CloseSeesUnitDown, CloseRemoves, CloseFails, RequestRestart, ProbeFails, WorkerResponds, RestoreAll,
         RecoverEnds, TaskResumed, CircuitExpires, FailuresAge, SystemdRestarts, ControlDrops, StartUnit, vars
<1>14. QED BY <1>2, <1>4, <1>5, <1>6, <1>7, <1>8, <1>9, <1>10, <1>11, <1>12, <1>13

(* A connection keeps its worker unless it is a fresh one's. *)
LEMMA ConnWorkers ==
    ASSUME TypeOK, [Next]_vars, NEW c \in Clients, c \notin FreeClients
    PROVE  conn'[c].worker = conn[c].worker
BY ConnSteps DEF Lost, Noticed, Shut, Installs

(* A name with a client, the client of a task and that of an operation are not free. *)
LEMMA BusyClients ==
    /\ \A n \in Names : clients[n] \notin FreeClients
    /\ \A n \in Names : task[n] # None => task[n].client \notin FreeClients
    /\ op # None => op.client \notin FreeClients
BY DEF FreeClients

(* A connection that is ready was ready, unless it is a fresh one's. *)
LEMMA StillReady ==
    ASSUME TypeOK, [Next]_vars, NEW c \in Clients, c \notin FreeClients, conn'[c].ready
    PROVE  conn[c].ready
BY ConnSteps DEF Lost, Noticed, Shut, Installs

(* A client that leaves its name is closed. *)
LEMMA ReplacedIsClosed ==
    ASSUME TypeOK, [Next]_vars, NEW n \in Names, clients[n] # None, clients'[n] # clients[n]
    PROVE  ~conn'[clients[n]].ready
<1>c. clients \in [Names -> Clients \cup {None}] /\ conn \in [Clients -> Conn] /\ clients[n] \in Clients
  BY DEF TypeOK
<1>o. op # None => op.worker \in Workers /\ op.client \in Clients \cup {None} /\ op.name \in Names
  BY DEF TypeOK, Op
<1>1. ASSUME NEW c \in Clients, Installs(n, c) PROVE ~conn'[clients[n]].ready
  BY <1>1 DEF Installs
<1>2. CASE OwnerRestarts
  <2>1. conn[clients[n]] \in Conn /\ conn'[clients[n]] = [conn[clients[n]] EXCEPT !.ready = FALSE, !.notice = FALSE]
    BY <1>2, <1>c DEF OwnerRestarts
  <2>2. QED BY <2>1 DEF Conn
<1>3. CASE OpenDiscarded /\ n = op.name
  <2>1. op # None /\ clients[n] = op.client /\ conn' = WithEof(WithClosed(conn, op.client), op.worker)
    BY <1>3, <1>c DEF OpenDiscarded, StopUnit
  <2>2. QED BY <1>c, <1>o, <2>1, ClosedIsDown
<1>4. CASE (CloseStopsWorker \/ CloseGathered) /\ n = op.name
  <2>1. op # None /\ StopSelected(Selected)
    BY <1>4 DEF CloseStopsWorker, CloseGathered
  <2>2. clients[n] = Selected /\ conn' = WithEof(WithClosed(conn, Selected), op.worker)
    BY <1>4, <1>c, <2>1 DEF StopSelected, StopUnit
  <2>3. QED BY <1>c, <1>o, <2>1, <2>2, ClosedIsDown
<1>5. QED BY <1>1, <1>2, <1>3, <1>4, ClientSteps

(* Names are revived while their close waits, and given up by a close. *)
LEMMA RevivedSteps ==
    ASSUME [Next]_vars
    PROVE  /\ revived \subseteq revived' \/ (CloseStopsWorker /\ revived' = revived \ {op.worker})
           /\ \A w \in revived' : w \in revived \/ \E m \in Names : Stopping(m)
<1>1. ASSUME NEW S PROVE revived \subseteq RevivedWith(S) /\ \A w \in RevivedWith(S) : w \in revived \/ \E m \in S : Stopping(m)
  BY DEF RevivedWith
<1>2. CASE CloseStopsWorker
  BY <1>2 DEF CloseStopsWorker
<1>3. ASSUME NEW m \in Names, Schedule(m) PROVE revived' = revived \/ revived' = RevivedWith({m})
  BY <1>3 DEF Schedule
<1>4. CASE RestoreAll
  BY <1>1, <1>4 DEF RestoreAll
<1>5. CASE \E m \in Names : revived' = RevivedWith({m})
  BY <1>1, <1>5
<1>6. \/ CloseStopsWorker \/ RestoreAll \/ revived' = revived
      \/ \E m \in Names : Schedule(m)
  BY DEF Next, OpenStep, CloseStep, TaskStep, ProbeStep, TimePasses, Environment, OpenBegin, OpenConnected, OpenRegistered, OpenDiscarded,
         CloseBegin, CloseGathered, CloseSeesUnitDown, CloseRemoves, CloseFails, WorkerResponds, RecoverAttempt, RecoverEnds,
         TaskConnected, TaskResumed, TaskFails, CircuitExpires, FailuresAge,
         Disconnected, RequestRestart, ProbeFails, AskRestart, WorkerCrashes, SystemdRestarts, ConnectionLost, ControlDrops,
         OwnerRestarts, vars
<1>7. QED BY <1>2, <1>3, <1>4, <1>5, <1>6

(* A close waits for its worker from when it has taken the task. *)
LEMMA StoppingSteps ==
    ASSUME TypeOK, [Next]_vars, NEW n \in Names, Stopping(n)'
    PROVE  Stopping(n) \/ (CloseStopsWorker /\ n = op.name)
<1>o. op # None => op \in Op
  BY DEF TypeOK
<1>1. CASE op' = op
  BY <1>1 DEF Stopping, Closing
<1>2. CASE CloseGathered
  BY <1>2, <1>o DEF CloseGathered, StopSelected, Stopping, Closing, Op
<1>3. CASE CloseSeesUnitDown
  BY <1>3, <1>o DEF CloseSeesUnitDown, Stopping, Closing, Op
<1>4. CASE CloseStopsWorker
  BY <1>4, <1>o DEF CloseStopsWorker, StopSelected, Stopping, Closing, Op
<1>5. CASE OpenConnected
  BY <1>5, <1>o DEF OpenConnected, Stopping, Closing, Op
<1>6. ASSUME NEW t \in Threads, OpenBegin(t) PROVE FALSE
  BY <1>6 DEF OpenBegin, Stopping, Closing
<1>7. ASSUME NEW m \in Names, CloseBegin(m) PROVE FALSE
  BY <1>7 DEF CloseBegin, Stopping, Closing
<1>8. op' # None
  BY DEF Stopping, Closing
<1>9. QED BY <1>1, <1>2, <1>3, <1>4, <1>5, <1>6, <1>7, <1>8, OpMoves

-----------------------------------------------------------------------------
(* Sessions.  A task is about what is registered under its name, or it is   *)
(* a stray: a recovery that a close did not find, left when its session     *)
(* was removed.  An open is about nothing that is in use.                   *)

InService(n) ==
    /\ registry[n] # None
    /\ SameSession(task[n], registry[n])
    /\ Stopping(n) => task[n].worker \in revived

Stray(n) ==
    /\ task[n].worker \in revived
    /\ ~Stopping(n)
    /\ registry[n] = None \/ registry[n].worker # task[n].worker

TasksAgree == \A n \in Names : task[n] # None => InService(n) \/ Stray(n)

TaskNames ==
    \A m, n \in Names : task[m] # None /\ registry[n] # None /\ task[m].worker = registry[n].worker => m = n

PcFits == op # None => op.kind \in {"open", "close"} /\ (op.kind = "open" <=> op.pc \in {"starting", "rpc"})

OpenIsNew ==
    op # None /\ op.kind = "open" =>
        /\ registry[op.name] = None /\ op.worker \notin revived
        /\ \A m \in Registered : registry[m].worker # op.worker /\ registry[m].thread # op.thread
        /\ \A m \in Names : task[m] # None => task[m].worker # op.worker
        /\ \A m \in Names : clients[m] # None /\ conn[clients[m]].worker = op.worker => m = op.name

CloseAgrees == op # None /\ op.kind = "close" => registry[op.name] # None /\ SameSession(op, registry[op.name])

SessionsDiffer ==
    \A m, n \in Registered : m # n => registry[m].thread # registry[n].thread /\ registry[m].worker # registry[n].worker

SessionsKept == TasksAgree /\ TaskNames /\ PcFits /\ OpenIsNew /\ CloseAgrees /\ SessionsDiffer

(* What happens to the operation of an open, while it goes on. *)
LEMMA OpenGoesOn ==
    ASSUME TypeOK, PcFits, [Next]_vars, op # None, op.kind = "open"
    PROVE  (\A n \in Names : ~Stopping(n)) /\ ~CloseStopsWorker /\ ~CloseGathered /\ ~CloseRemoves
BY DEF PcFits, Stopping, Closing, CloseStopsWorker, CloseGathered, CloseRemoves

(* Every step keeps this. *)
LEMMA SessionsStep == TypeOK /\ SessionsKept /\ [Next]_vars => SessionsKept'
<1> SUFFICES ASSUME TypeOK, SessionsKept, [Next]_vars PROVE SessionsKept'
  OBVIOUS
<1> USE DEF SameSession
<1>o. op # None => op.name \in Names /\ (op.kind = "open" <=> op.pc \in {"starting", "rpc"})
  BY DEF SessionsKept, PcFits, TypeOK, Op
<1>t. task \in [Names -> Task \cup {None}] /\ clients \in [Names -> Clients \cup {None}]
  BY DEF TypeOK
<1>2. ASSUME OpenRegistered PROVE op # None /\ op.kind = "open" /\ op' = None /\ op.name \in Names
  BY <1>2, <1>o DEF OpenRegistered
<1>3. ASSUME NEW n \in Names, registry[n] # None, registry'[n] # None PROVE SameSession(registry'[n], registry[n])
  <2>1. CASE OpenRegistered /\ n = op.name
    BY <1>2, <1>3, <2>1 DEF SessionsKept, OpenIsNew
  <2>2. QED BY <1>3, <2>1, RegistrySteps
<1>4. ASSUME NEW n \in Names, registry[n] # None, registry'[n] = None
      PROVE  Closing(n) /\ Stopping(n) /\ op' = None /\ task' = task /\ revived' = revived
  <2>1. CloseRemoves /\ n = op.name
    BY <1>4, RegistrySteps
  <2>2. op # None /\ op.kind = "close" /\ op.pc = "stopped"
    BY <1>o, <2>1 DEF CloseRemoves, SessionsKept, PcFits
  <2>3. QED BY <2>1, <2>2 DEF CloseRemoves, Closing, Stopping
<1>5. ASSUME CloseStopsWorker PROVE op # None /\ op.name \in Names /\ task'[op.name] = None /\ op.kind = "close" /\ \A n \in Names : ~Stopping(n)
  BY <1>5, <1>o, <1>t DEF CloseStopsWorker, SessionsKept, PcFits, Stopping, Closing
<1>6. TasksAgree'
  <2> SUFFICES ASSUME NEW n \in Names, task'[n] # None PROVE InService(n)' \/ Stray(n)'
    BY DEF TasksAgree
  <2>1. Stopping(n)' => Stopping(n)
    BY <1>5, StoppingSteps
  <2>2. Stopping(n) => revived \subseteq revived'
    BY <1>5, RevivedSteps
  <2>3. CASE task[n] # None /\ SameSession(task'[n], task[n]) /\ InService(n)
    <3>1. CASE registry'[n] # None
      <4>1. SameSession(registry'[n], registry[n])
        BY <1>3, <2>3, <3>1 DEF InService
      <4>2. QED BY <2>1, <2>2, <2>3, <3>1, <4>1 DEF InService
    <3>2. CASE registry'[n] = None
      <4>1. Stopping(n) /\ op' = None /\ revived' = revived
        BY <1>4, <2>3, <3>2 DEF InService
      <4>2. ~Stopping(n)'
        BY <4>1 DEF Stopping, Closing
      <4>3. QED BY <2>3, <3>2, <4>1, <4>2 DEF InService, Stray
    <3>3. QED BY <3>1, <3>2
  <2>4. CASE task[n] # None /\ SameSession(task'[n], task[n]) /\ Stray(n)
    <3>1. ~Stopping(n)'
      BY <2>1, <2>4 DEF Stray
    <3>2. task'[n].worker \in revived'
      <4>1. ASSUME CloseStopsWorker, task[n].worker = op.worker PROVE FALSE
        <5>1. registry[op.name] # None /\ registry[op.name].worker = task[n].worker
          BY <1>5, <4>1 DEF SessionsKept, CloseAgrees
        <5>2. n = op.name
          BY <1>5, <2>4, <4>1, <5>1 DEF SessionsKept, TaskNames
        <5>3. QED BY <1>5, <4>1, <5>2
      <4>2. QED BY <2>4, <4>1, RevivedSteps DEF Stray
    <3>3. registry'[n] = None \/ registry'[n].worker # task'[n].worker
      <4>1. CASE registry[n] # None
        BY <1>3, <2>4, <4>1 DEF Stray
      <4>2. CASE registry[n] = None /\ registry'[n] # None
        <5>1. OpenRegistered /\ registry'[n].worker = op.worker
          BY <4>2, RegistrySteps
        <5>2. QED BY <1>2, <2>4, <5>1 DEF SessionsKept, OpenIsNew
      <4>3. QED BY <4>1, <4>2
    <3>4. QED BY <3>1, <3>2, <3>3 DEF Stray
  <2>5. CASE registry[n] # None /\ SameSession(task'[n], registry[n]) /\ registry'[n] # None
             /\ (Stopping(n) /\ task[n] = None => registry[n].worker \in revived')
    <3>1. SameSession(registry'[n], registry[n])
      BY <1>3, <2>5
    <3>2. Stopping(n) /\ task[n] # None => registry[n].worker \in revived'
      BY <2>2 DEF SessionsKept, TasksAgree, InService, Stray
    <3>3. QED BY <2>1, <2>5, <3>1, <3>2 DEF InService
  <2>6. CASE registry[n] # None /\ registry'[n] = None
    BY <1>4, <2>3, <2>4, <2>6 DEF SessionsKept, TasksAgree
  <2>7. task[n] # None => InService(n) \/ Stray(n)
    BY DEF SessionsKept, TasksAgree
  <2>8. QED BY <2>3, <2>4, <2>5, <2>6, <2>7, TaskSteps
<1>7. TaskNames'
  <2> SUFFICES ASSUME NEW m \in Names, NEW n \in Names, task'[m] # None, registry'[n] # None, task'[m].worker = registry'[n].worker
               PROVE  m = n
    BY DEF TaskNames
  <2>1. \/ task[m] # None /\ task'[m].worker = task[m].worker
        \/ registry[m] # None /\ task'[m].worker = registry[m].worker
    BY TaskSteps
  <2>2. CASE registry[n] # None
    <3>1. registry'[n].worker = registry[n].worker
      BY <1>3, <2>2
    <3>2. QED BY <2>1, <2>2, <3>1 DEF SessionsKept, TaskNames, SessionsDiffer, Registered
  <2>3. CASE registry[n] = None
    <3>1. OpenRegistered /\ registry'[n].worker = op.worker
      BY <2>3, RegistrySteps
    <3>2. QED BY <1>2, <2>1, <3>1 DEF SessionsKept, OpenIsNew, Registered
  <2>4. QED BY <2>2, <2>3
<1>8. PcFits'
  <2>1. ASSUME NEW t \in Threads, OpenBegin(t) PROVE PcFits'
    BY <2>1 DEF OpenBegin, PcFits
  <2>2. ASSUME NEW m \in Names, CloseBegin(m) PROVE PcFits'
    BY <2>2 DEF CloseBegin, PcFits
  <2>3. QED BY <2>1, <2>2, OpSteps DEF SessionsKept, PcFits
<1>9. OpenIsNew'
  <2>1. ASSUME NEW t \in Threads, OpenBegin(t) PROVE OpenIsNew'
    <3> DEFINE w == Least(FreeWorkers)
               k == Least(FreeNames)
    <3>1. k \in FreeNames /\ w \in FreeWorkers
      BY <2>1, FreshOnes DEF OpenBegin
    <3>2. op' = [kind |-> "open", pc |-> "starting", name |-> k, worker |-> w, thread |-> t, client |-> None]
          /\ registry' = registry /\ task' = task /\ clients' = clients /\ conn' = conn /\ revived' = revived
          /\ \A n \in Registered : registry[n].thread # t
      BY <2>1 DEF OpenBegin, StartUnit
    <3> HIDE DEF w, k
    <3>3. op'.name = k /\ op'.worker = w /\ op'.thread = t
      BY <3>2
    <3>4. /\ registry[k] = None /\ w \notin revived /\ \A n \in Registered : registry[n].worker # w
          /\ \A m \in Names : (task[m] # None => task[m].worker # w) /\ (clients[m] # None => conn[clients[m]].worker # w)
      BY <3>1 DEF FreeNames, FreeWorkers, Referenced, Registered
    <3>5. QED BY <3>2, <3>3, <3>4 DEF OpenIsNew, Registered
  <2>2. ASSUME NEW m \in Names, CloseBegin(m) PROVE OpenIsNew'
    BY <2>2 DEF CloseBegin, OpenIsNew
  <2>3. CASE op # None /\ op.kind = "open" /\ op' # None /\ op'.kind = op.kind /\ op'.name = op.name /\ SameSession(op', op)
    <3>1. \A n \in Names : registry'[n] # None => registry[n] # None /\ SameSession(registry'[n], registry[n])
      BY <1>2, <2>3, RegistrySteps
    <3>2. op.worker \notin revived'
      BY <2>3, OpenGoesOn, RevivedSteps DEF SessionsKept, OpenIsNew
    <3>3. ASSUME NEW m \in Names, task'[m] # None PROVE task'[m].worker # op.worker
      BY <2>3, <3>3, TaskSteps DEF SessionsKept, OpenIsNew, Registered
    <3>4. ASSUME NEW m \in Names, clients'[m] # None, conn'[clients'[m]].worker = op.worker PROVE m = op.name
      <4>1. CASE clients'[m] = clients[m]
        <5>1. clients[m] \in Clients /\ clients[m] \notin FreeClients
          BY <1>t, <3>4, <4>1, BusyClients
        <5>2. conn[clients[m]].worker = op.worker
          BY <3>4, <4>1, <5>1, ConnWorkers
        <5>3. QED BY <2>3, <3>4, <4>1, <5>2 DEF SessionsKept, OpenIsNew
      <4>2. ASSUME NEW c \in Clients, clients'[m] = c, Installs(m, c) PROVE m = op.name
        BY <2>3, <3>4, <4>2 DEF Installs, TaskConnected, SessionsKept, OpenIsNew
      <4>3. QED BY <3>4, <4>1, <4>2, ClientSteps
    <3>5. op.name \in Names /\ registry[op.name] = None
          /\ \A m \in Registered : registry[m].worker # op.worker /\ registry[m].thread # op.thread
      BY <1>o, <2>3 DEF SessionsKept, OpenIsNew
    <3>6. registry'[op.name] = None /\ \A m \in Registered' : registry'[m].worker # op.worker /\ registry'[m].thread # op.thread
      BY <3>1, <3>5 DEF Registered
    <3>7. QED BY <2>3, <3>2, <3>3, <3>4, <3>6 DEF OpenIsNew
  <2>4. CASE op # None /\ op.kind # "open" /\ op' # None /\ op'.kind = op.kind
    BY <2>4 DEF OpenIsNew
  <2>5. QED BY <2>1, <2>2, <2>3, <2>4, OpSteps DEF OpenIsNew
<1>10. CloseAgrees'
  <2>1. ASSUME NEW t \in Threads, OpenBegin(t) PROVE CloseAgrees'
    BY <2>1 DEF OpenBegin, CloseAgrees
  <2>2. ASSUME NEW m \in Names, CloseBegin(m) PROVE CloseAgrees'
    BY <2>2 DEF CloseBegin, CloseAgrees
  <2>3. CASE op # None /\ op' # None /\ op'.kind = op.kind /\ op'.name = op.name /\ SameSession(op', op)
    BY <1>3, <1>4, <1>o, <2>3 DEF SessionsKept, CloseAgrees
  <2>4. QED BY <2>1, <2>2, <2>3, OpSteps DEF CloseAgrees
<1>11. SessionsDiffer'
  <2>1. ASSUME NEW m \in Names, NEW n \in Names, m # n, registry'[m] # None, registry'[n] # None
        PROVE  registry'[m].thread # registry'[n].thread /\ registry'[m].worker # registry'[n].worker
    <3>1. CASE registry[m] # None /\ registry[n] # None
      BY <1>3, <2>1, <3>1 DEF SessionsKept, SessionsDiffer, Registered
    <3>2. ASSUME NEW x \in Names, NEW y \in Names, x # y, registry'[x] # None, registry'[y] # None, registry[x] = None
          PROVE  registry'[x].thread # registry'[y].thread /\ registry'[x].worker # registry'[y].worker
      <4>1. OpenRegistered /\ x = op.name /\ SameSession(registry'[x], op)
        BY <3>2, RegistrySteps
      <4>2. y \in Registered /\ SameSession(registry'[y], registry[y])
        BY <3>2, <4>1, RegistrySteps DEF Registered
      <4>3. QED BY <1>2, <4>1, <4>2 DEF SessionsKept, OpenIsNew
    <3>3. QED BY <2>1, <3>1, <3>2
  <2>2. QED BY <2>1 DEF SessionsDiffer, Registered
<1>12. QED BY <1>6, <1>7, <1>8, <1>9, <1>10, <1>11 DEF SessionsKept

-----------------------------------------------------------------------------
(* Clients.  Each serves one name and talks to the worker of that name's   *)
(* session, or to one that was revived.  A recovery or an open whose        *)
(* client is still ready has the name; what a close holds is its own.       *)

ClientsDiffer == \A m, n \in Names : clients[m] # None /\ clients[m] = clients[n] => m = n

ClientNames ==
    \A m, n \in Names :
        clients[m] # None /\ registry[n] # None /\ conn[clients[m]].worker = registry[n].worker => m = n

ClientsFit ==
    \A n \in Registered : clients[n] # None => conn[clients[n]].worker \in revived \cup {registry[n].worker}

Has(n, c, w) == c # None /\ (conn[c].ready => clients[n] = c /\ conn[c].worker = w)

TaskClient == \A n \in Names : task[n] # None /\ task[n].pc = "resume" => Has(n, task[n].client, task[n].worker)

OpenClient ==
    op # None /\ op.kind = "open" =>
        IF op.pc = "rpc" THEN Has(op.name, op.client, op.worker) ELSE op.client = None

OpClient == op # None /\ op.client # None => \A m \in Names : clients[m] = op.client => m = op.name

ClientsKept == ClientsDiffer /\ ClientNames /\ ClientsFit /\ TaskClient /\ OpenClient /\ OpClient

(* A client that was installed has its name until it is closed. *)
LEMMA HasSteps ==
    ASSUME TypeOK, [Next]_vars, NEW n \in Names, NEW w, NEW c \in Clients \cup {None}, c \notin FreeClients, Has(n, c, w)
    PROVE  Has(n, c, w)'
<1> SUFFICES ASSUME conn'[c].ready PROVE clients'[n] = c /\ conn'[c].worker = w
  BY DEF Has
<1>1. c \in Clients /\ conn[c].ready
  BY StillReady DEF Has
<1>2. clients[n] = c /\ conn[c].worker = w
  BY <1>1 DEF Has
<1>3. clients'[n] = c
  BY <1>1, <1>2, ReplacedIsClosed
<1>4. conn'[c].worker = w
  BY <1>1, <1>2, ConnWorkers
<1>5. QED BY <1>3, <1>4

(* The operation after a step, and its client. *)
LEMMA OpClientSteps ==
    ASSUME TypeOK, PcFits, [Next]_vars, op' # None
    PROVE  \/ op' = op
           \/ op = None /\ \E t \in Threads : OpenBegin(t)
           \/ op = None /\ \E n \in Names : CloseBegin(n)
           \/ OpenConnected
           \/ op # None /\ op.kind = "close" /\ op'.kind = "close" /\ op'.name = op.name
                 /\ op'.client \in {op.client, clients[op.name]}
                 /\ (\A n \in Names : clients'[n] \in {clients[n], None})
<1>o. op # None => op \in Op /\ op.name \in Names
  BY DEF TypeOK, Op
<1>t. task \in [Names -> Task \cup {None}] /\ clients \in [Names -> Clients \cup {None}]
  BY DEF TypeOK
<1>1. ASSUME NEW c, StopSelected(c), op # None PROVE op'.kind = op.kind /\ op'.name = op.name /\ op'.client = c /\ \A n \in Names : clients'[n] \in {clients[n], None}
  BY <1>1, <1>o, <1>t DEF StopSelected, Op
<1>2. Selected \in {op.client, clients[op.name]}
  BY DEF Selected
<1>3. CASE CloseStopsWorker
  <2>1. op # None /\ op.kind = "close"
    BY <1>3 DEF CloseStopsWorker, PcFits
  <2>2. CASE StopSelected(Selected)
    BY <1>1, <1>2, <2>1, <2>2
  <2>3. CASE op' = [op EXCEPT !.pc = "gather"] /\ clients' = clients
    BY <1>o, <1>t, <2>1, <2>3 DEF Op
  <2>4. QED BY <1>3, <2>2, <2>3 DEF CloseStopsWorker
<1>4. CASE CloseGathered
  <2>1. op # None /\ op.kind = "close" /\ op.pc = "gather"
    BY <1>4 DEF CloseGathered, PcFits
  <2>2. QED BY <1>1, <1>2, <1>4, <2>1 DEF CloseGathered
<1>5. CASE CloseSeesUnitDown
  BY <1>5, <1>o, <1>t DEF CloseSeesUnitDown, PcFits, Op
<1>6. op' = op \/ OpenConnected \/ CloseStopsWorker \/ CloseGathered \/ CloseSeesUnitDown
        \/ (\E t \in Threads : OpenBegin(t)) \/ (\E n \in Names : CloseBegin(n))
  BY OpMoves
<1>7. QED BY <1>3, <1>4, <1>5, <1>6 DEF OpenBegin, CloseBegin

(* A task waits for its RPC from when its client connects. *)
LEMMA ResumeSteps ==
    ASSUME TypeOK, [Next]_vars, NEW n \in Names, task'[n] # None, task'[n].pc = "resume"
    PROVE  task'[n] = task[n] \/ TaskConnected(n)
<1>t. task \in [Names -> Task \cup {None}]
  BY DEF TypeOK
<1>1. ASSUME NEW m \in Names, Schedule(m) PROVE task'[n] = task[n]
  BY <1>1, <1>t DEF Schedule, NewTask
<1>2. CASE CloseStopsWorker
  BY <1>2, <1>t DEF CloseStopsWorker
<1>3. CASE RestoreAll
  BY <1>3, <1>t DEF RestoreAll, NewTask
<1>4. ASSUME NEW m \in Names, RecoverAttempt(m) PROVE task'[n] = task[n]
  <2>1. CASE m = n
    <3>1. task[n] \in Task
      BY <1>4, <1>t, <2>1 DEF RecoverAttempt
    <3>2. task'[n] = [task[n] EXCEPT !.pc = "open", !.restart = (n \in restart_requested), !.worker = registry[n].worker,
                                     !.thread = registry[n].thread]
      BY <1>4, <1>t, <2>1 DEF RecoverAttempt
    <3>3. task'[n].pc = "open"
      BY <3>1, <3>2 DEF Task
    <3>4. QED BY <3>3
  <2>2. CASE m # n
    BY <1>4, <1>t, <2>2 DEF RecoverAttempt
  <2>3. QED BY <2>1, <2>2
<1>5. ASSUME NEW m \in Names, TaskConnected(m) PROVE task'[n] = task[n] \/ TaskConnected(n)
  BY <1>5, <1>t DEF TaskConnected
<1>6. ASSUME NEW m \in Names, TaskFails(m) PROVE task'[n] = task[n]
  <2>1. CASE m = n
    <3>1. PICK a : task'[n] = AfterFailure(n, a)
      BY <1>6, <1>t, <2>1 DEF TaskFails
    <3>2. task[n] \in Task
      BY <1>6, <1>t, <2>1 DEF TaskFails
    <3>3. QED BY <3>1, <3>2 DEF AfterFailure, Task
  <2>2. CASE m # n
    BY <1>6, <1>t, <2>2 DEF TaskFails
  <2>3. QED BY <2>1, <2>2
<1>7. ASSUME NEW m \in Names, RecoverEnds(m) \/ TaskResumed(m) PROVE task'[n] = task[n]
  BY <1>7, <1>t DEF RecoverEnds, TaskResumed
<1>8. CASE OwnerRestarts
  BY <1>8 DEF OwnerRestarts
<1>9. ASSUME NEW c \in Clients, Disconnected(c) PROVE task' = task \/ \E m \in Names : Schedule(m)
  BY <1>9 DEF Disconnected
<1>10. ASSUME NEW m \in Names, RequestRestart(m) \/ ProbeFails(m) PROVE task' = task \/ Schedule(m)
  BY <1>10 DEF RequestRestart, ProbeFails, AskRestart
<1>11. \/ CloseStopsWorker \/ RestoreAll \/ OwnerRestarts \/ task' = task
       \/ \E c \in Clients : Disconnected(c)
       \/ \E m \in Names : RequestRestart(m) \/ ProbeFails(m) \/ RecoverAttempt(m) \/ TaskConnected(m) \/ TaskFails(m) \/ RecoverEnds(m) \/ TaskResumed(m)
  BY DEF Next, OpenStep, CloseStep, TaskStep, ProbeStep, TimePasses, Environment, OpenBegin, OpenConnected, OpenRegistered, OpenDiscarded,
         CloseBegin, CloseGathered, CloseSeesUnitDown, CloseRemoves, CloseFails, WorkerResponds, CircuitExpires, FailuresAge,
         WorkerCrashes, SystemdRestarts, ConnectionLost, ControlDrops, vars
<1>12. QED BY <1>1, <1>2, <1>3, <1>4, <1>5, <1>6, <1>7, <1>8, <1>9, <1>10, <1>11

(* Every step keeps the clients apart. *)
LEMMA ClientsStep == TypeOK /\ SessionsKept /\ ClientsKept /\ [Next]_vars => ClientsKept'
<1> SUFFICES ASSUME TypeOK, SessionsKept, ClientsKept, [Next]_vars PROVE ClientsKept'
  OBVIOUS
<1>c. clients \in [Names -> Clients \cup {None}]
  BY DEF TypeOK
<1>o. op # None => op.name \in Names /\ op.client \in Clients \cup {None} /\ PcFits
  BY DEF SessionsKept, TypeOK, Op
<1>n. None \notin Clients
  OBVIOUS
<1>i. ASSUME NEW n \in Names, NEW c \in Clients, Installs(n, c), NEW m \in Names, m # n PROVE clients'[m] = clients[m] /\ clients'[m] # c
  BY <1>i, <1>c, BusyClients DEF Installs
<1>k. ASSUME NEW n \in Names, clients'[n] # None, clients'[n] = clients[n] PROVE conn'[clients'[n]].worker = conn[clients[n]].worker
  <2>1. clients[n] \in Clients /\ clients[n] \notin FreeClients
    BY <1>k, <1>c, BusyClients
  <2>2. QED BY <1>k, <2>1, ConnWorkers
<1>r. ASSUME OpenRegistered
      PROVE  /\ op # None /\ op.kind = "open" /\ op.name \in Names /\ clients' = clients /\ conn' = conn
             /\ registry'[op.name].worker = op.worker
             /\ clients[op.name] = op.client /\ conn[op.client].worker = op.worker
  <2>1. op # None /\ op.kind = "open" /\ op.pc = "rpc" /\ conn[op.client].ready /\ op.name \in Names
    BY <1>o, <1>r DEF OpenRegistered, PcFits
  <2>2. clients[op.name] = op.client /\ conn[op.client].worker = op.worker
    BY <2>1 DEF ClientsKept, OpenClient, Has
  <2>3. registry'[op.name].worker = op.worker
    BY <1>r, <2>1 DEF OpenRegistered, TypeOK
  <2>4. QED BY <1>r, <2>1, <2>2, <2>3 DEF OpenRegistered
<1>s. ASSUME NEW n \in Names, registry'[n] # None, ~(OpenRegistered /\ n = op.name) PROVE registry[n] # None /\ registry'[n].worker = registry[n].worker
  BY <1>s, RegistrySteps DEF SameSession
<1>1. ClientsDiffer'
  <2> SUFFICES ASSUME NEW m \in Names, NEW n \in Names, clients'[m] # None, clients'[m] = clients'[n], m # n PROVE FALSE
    BY DEF ClientsDiffer
  <2>1. CASE clients'[m] = clients[m] /\ clients'[n] = clients[n]
    BY <2>1 DEF ClientsKept, ClientsDiffer
  <2>2. QED BY <1>i, <2>1, ClientSteps
<1>2. ClientNames'
  <2> SUFFICES ASSUME NEW m \in Names, NEW n \in Names, clients'[m] # None, registry'[n] # None,
                      conn'[clients'[m]].worker = registry'[n].worker
               PROVE  m = n
    BY DEF ClientNames
  <2>1. CASE OpenRegistered /\ n = op.name
    <3>1. clients[m] # None /\ conn[clients[m]].worker = op.worker
      BY <1>r, <2>1
    <3>2. QED BY <1>r, <2>1, <3>1 DEF SessionsKept, OpenIsNew
  <2>2. CASE ~(OpenRegistered /\ n = op.name)
    <3>1. registry[n] # None /\ registry'[n].worker = registry[n].worker
      BY <1>s, <2>2
    <3>2. CASE clients'[m] = clients[m]
      BY <1>k, <3>1, <3>2 DEF ClientsKept, ClientNames
    <3>3. ASSUME NEW c \in Clients, clients'[m] = c, Installs(m, c) PROVE m = n
      <4>1. CASE OpenConnected
        <5>1. op # None /\ op.kind = "open" /\ conn'[c].worker = op.worker
          BY <1>o, <3>3, <4>1, OneConnects DEF OpenConnected, PcFits, Installs
        <5>2. QED BY <3>1, <3>3, <5>1 DEF SessionsKept, OpenIsNew, Registered
      <4>2. CASE ~OpenConnected
        <5>1. task[m] # None /\ conn'[c].worker = task[m].worker
          BY <3>3, <4>2 DEF Installs, TaskConnected
        <5>2. QED BY <3>1, <3>3, <5>1 DEF SessionsKept, TaskNames
      <4>3. QED BY <4>1, <4>2
    <3>4. QED BY <3>2, <3>3, ClientSteps
  <2>3. QED BY <2>1, <2>2
<1>3. ClientsFit'
  <2> SUFFICES ASSUME NEW n \in Names, registry'[n] # None, clients'[n] # None
               PROVE  conn'[clients'[n]].worker \in revived' \cup {registry'[n].worker}
    BY DEF ClientsFit, Registered
  <2>1. CASE OpenRegistered /\ n = op.name
    BY <1>r, <2>1
  <2>2. CASE ~(OpenRegistered /\ n = op.name)
    <3>1. registry[n] # None /\ registry'[n].worker = registry[n].worker
      BY <1>s, <2>2
    <3>2. CASE clients'[n] = clients[n]
      <4>1. conn'[clients'[n]].worker = conn[clients[n]].worker /\ conn[clients[n]].worker \in revived \cup {registry[n].worker}
        BY <1>k, <3>1, <3>2 DEF ClientsKept, ClientsFit, Registered
      <4>2. ASSUME CloseStopsWorker, conn[clients[n]].worker = op.worker PROVE conn[clients[n]].worker = registry[n].worker
        <5>1. op # None /\ op.kind = "close" /\ op.name \in Names
          BY <1>o, <4>2 DEF CloseStopsWorker, PcFits
        <5>2. registry[op.name] # None /\ registry[op.name].worker = conn[clients[n]].worker
          BY <4>2, <5>1 DEF SessionsKept, CloseAgrees, SameSession
        <5>3. n = op.name
          BY <3>2, <5>1, <5>2 DEF ClientsKept, ClientNames
        <5>4. QED BY <5>2, <5>3
      <4>3. QED BY <3>1, <4>1, <4>2, RevivedSteps
    <3>3. ASSUME NEW c \in Clients, clients'[n] = c, Installs(n, c) PROVE conn'[clients'[n]].worker \in revived' \cup {registry'[n].worker}
      <4>1. ~(OpenConnected /\ n = op.name)
        BY <1>o, <3>1 DEF OpenConnected, SessionsKept, OpenIsNew, PcFits
      <4>2. TaskConnected(n) /\ conn'[c].worker = task[n].worker
        BY <3>3, <4>1 DEF Installs
      <4>3. task[n].worker \in revived \cup {registry[n].worker} /\ revived' = revived
        BY <4>2 DEF TaskConnected, SessionsKept, TasksAgree, InService, Stray, SameSession
      <4>4. QED BY <3>1, <3>3, <4>2, <4>3
    <3>4. QED BY <3>2, <3>3, ClientSteps
  <2>3. QED BY <2>1, <2>2
<1>4. ASSUME NEW n \in Names, task'[n] # None, task'[n].pc = "resume" PROVE Has(n, task[n].client, task[n].worker)'
  <2>1. CASE TaskConnected(n)
    <3>1. PICK c \in Clients : Installs(n, c)
      BY <2>1, ConnectSteps
    <3>2. conn'[c].worker = task[n].worker /\ task'[n].client = c
      BY <2>1, <3>1, OneConnects DEF Installs
    <3>3. task'[n].worker = task[n].worker
      <4>1. task[n] \in Task
        BY <2>1 DEF TaskConnected, TypeOK
      <4>2. task'[n] = [task[n] EXCEPT !.pc = "resume", !.client = Least(FreeClients)]
        BY <2>1 DEF TaskConnected, TypeOK
      <4>3. QED BY <4>1, <4>2 DEF Task
    <3>4. clients'[n] = c /\ c # None
      BY <1>c, <1>n, <3>1 DEF Installs
    <3>5. QED BY <3>2, <3>3, <3>4 DEF Has
  <2>2. CASE task'[n] = task[n]
    <3>1. task[n].client \in Clients \cup {None} /\ task[n].client \notin FreeClients
      BY <1>4, <2>2, BusyClients DEF TypeOK, Task
    <3>2. Has(n, task[n].client, task[n].worker)
      BY <1>4, <2>2 DEF ClientsKept, TaskClient
    <3> DEFINE c == task[n].client
               w == task[n].worker
    <3>3. c \in Clients \cup {None} /\ c \notin FreeClients /\ Has(n, c, w) /\ task'[n].client = c /\ task'[n].worker = w
      BY <2>2, <3>1, <3>2
    <3> HIDE DEF c, w
    <3>4. (clients'[n] = c /\ conn'[c].worker = w) \/ ~conn'[c].ready
      BY <3>3, HasSteps DEF Has
    <3>5. c # None
      BY <3>3 DEF Has
    <3>6. QED BY <3>3, <3>4, <3>5 DEF Has
  <2>3. QED BY <1>4, <2>1, <2>2, ResumeSteps
<1>5. OpenClient'
  <2> SUFFICES ASSUME op' # None, op'.kind = "open"
               PROVE  IF op'.pc = "rpc" THEN Has(op.name, op.client, op.worker)' ELSE op'.client = None
    BY DEF OpenClient
  <2>1. CASE op' = op
    <3>1. CASE op.pc = "rpc"
      <4> DEFINE n == op.name
                 c == op.client
                 w == op.worker
      <4>1. n \in Names /\ c \in Clients \cup {None} /\ c \notin FreeClients /\ Has(n, c, w)
            /\ op'.name = n /\ op'.client = c /\ op'.worker = w
        BY <1>o, <2>1, <3>1, BusyClients DEF ClientsKept, OpenClient
      <4> HIDE DEF n, c, w
      <4>2. (clients'[n] = c /\ conn'[c].worker = w) \/ ~conn'[c].ready
        BY <4>1, HasSteps DEF Has
      <4>3. c # None
        BY <4>1 DEF Has
      <4>4. Has(op.name, op.client, op.worker)'
        BY <4>1, <4>2, <4>3 DEF Has
      <4>5. QED BY <2>1, <3>1, <4>4
    <3>2. CASE op.pc # "rpc"
      BY <2>1, <3>2 DEF ClientsKept, OpenClient
    <3>3. QED BY <3>1, <3>2
  <2>2. CASE OpenConnected
    <3>1. PICK c \in Clients : Installs(op.name, c)
      BY <2>2, ConnectSteps
    <3>2. op # None /\ op.name \in Names
      BY <1>o, <2>2 DEF OpenConnected
    <3>3. conn'[c].worker = op.worker /\ op'.client = c /\ op'.name = op.name /\ op'.worker = op.worker /\ op'.pc = "rpc"
      BY <2>2, <3>1, <3>2, OneConnects DEF Installs
    <3>4. clients'[op.name] = c /\ c # None
      BY <1>c, <1>n, <3>1, <3>2 DEF Installs
    <3>5. QED BY <3>3, <3>4 DEF Has
  <2>3. ASSUME NEW t \in Threads, OpenBegin(t) PROVE op'.pc = "starting" /\ op'.client = None
    BY <2>3 DEF OpenBegin
  <2>4. ASSUME NEW n \in Names, CloseBegin(n) PROVE FALSE
    BY <2>4 DEF CloseBegin
  <2>5. QED BY <1>o, <2>1, <2>2, <2>3, <2>4, OpClientSteps DEF SessionsKept
<1>6. ASSUME op' # None, op'.client # None, NEW m \in Names, clients'[m] = op'.client PROVE m = op'.name
  <2>1. ASSUME op # None, op'.name = op.name, op'.client = op.client PROVE m = op'.name
    <3>1. op.client \in Clients /\ op.client \notin FreeClients
      BY <1>6, <1>o, <2>1, BusyClients
    <3>2. ~ \E c \in Clients : clients'[m] = c /\ Installs(m, c)
      BY <1>6, <2>1, <3>1 DEF Installs
    <3>3. clients'[m] = clients[m]
      BY <1>6, <3>2, ClientSteps
    <3>4. QED BY <1>6, <2>1, <3>3 DEF ClientsKept, OpClient
  <2>2. CASE OpenConnected
    <3>1. PICK c \in Clients : Installs(op.name, c)
      BY <2>2, ConnectSteps
    <3>2. op # None /\ op.name \in Names
      BY <1>o, <2>2 DEF OpenConnected
    <3>3. op'.client = c /\ op'.name = op.name
      BY <2>2, <3>1, <3>2, OneConnects DEF Installs
    <3>4. QED BY <1>6, <1>i, <3>1, <3>2, <3>3
  <2>3. ASSUME NEW t \in Threads, OpenBegin(t) PROVE FALSE
    BY <1>6, <2>3 DEF OpenBegin
  <2>4. ASSUME NEW n \in Names, CloseBegin(n) PROVE m = op'.name
    <3>1. op'.name = n /\ op'.client = clients[n] /\ clients' = clients
      BY <2>4 DEF CloseBegin
    <3>2. QED BY <1>6, <3>1 DEF ClientsKept, ClientsDiffer
  <2>5. CASE /\ op # None /\ op.kind = "close" /\ op'.kind = "close" /\ op'.name = op.name
             /\ op'.client \in {op.client, clients[op.name]}
             /\ \A n \in Names : clients'[n] \in {clients[n], None}
    <3>1. clients[m] = op'.client
      BY <1>6, <2>5
    <3>2. CASE op'.client = op.client
      BY <1>6, <2>1, <2>5, <3>2
    <3>3. CASE op'.client = clients[op.name]
      BY <1>6, <1>o, <2>5, <3>1, <3>3 DEF ClientsKept, ClientsDiffer
    <3>4. QED BY <2>5, <3>2, <3>3
  <2>6. CASE op' = op
    BY <1>6, <2>1, <2>6
  <2>7. QED BY <1>6, <2>2, <2>3, <2>4, <2>5, <2>6, OpClientSteps DEF SessionsKept
<1>7. TaskClient'
  BY <1>4 DEF TaskClient
<1>8. OpClient'
  BY <1>6 DEF OpClient
<1>9. QED BY <1>1, <1>2, <1>3, <1>5, <1>7, <1>8 DEF ClientsKept

-----------------------------------------------------------------------------
(* Units.  A unit that is not down is that of a session or of the open     *)
(* under way; once it was told to stop for a close, only a recovery that   *)
(* begins during that close starts it.                                     *)

UnitsOwned ==
    /\ ClosesFindRecoveries
    /\ op # None /\ op.pc \in {"stopping", "stopped"} => unit[op.worker] = "inactive" \/ op.worker \in revived

(* Who starts a unit. *)
LEMMA UnitSteps ==
    ASSUME TypeOK, [Next]_vars, NEW w \in Workers, unit[w] = "inactive", unit'[w] # "inactive"
    PROVE  \/ (\E t \in Threads : OpenBegin(t)) /\ op' # None /\ op'.worker = w
           \/ \E n \in Names : registry[n] # None /\ registry[n].worker = w /\ registry'[n] # None
                                /\ (RecoverAttempt(n) \/ (RestoreAll /\ NeedsRestore(n)))
<1>u. unit \in [Workers -> {"inactive", "active", "failed"}]
  BY DEF TypeOK
<1>r. \A n \in Names : registry[n] # None => registry[n] \in Record /\ registry[n].worker \in Workers
  BY DEF TypeOK, Record
<1>1. ASSUME NEW t \in Threads, OpenBegin(t) PROVE op' # None /\ op'.worker = w
  <2>1. op'.worker = Least(FreeWorkers) /\ StartUnit(Least(FreeWorkers))
    BY <1>1 DEF OpenBegin
  <2>2. op' \in Op
    <3>1. Least(FreeWorkers) \in Workers /\ Least(FreeNames) \in Names
      BY <1>1, FreshOnes DEF OpenBegin, FreeWorkers, FreeNames
    <3>2. QED BY <1>1, <3>1 DEF OpenBegin, Op
  <2>3. QED BY <1>u, <2>1, <2>2 DEF StartUnit
<1>2. ASSUME NEW n \in Names, RecoverAttempt(n) PROVE registry[n] # None /\ registry[n].worker = w /\ registry'[n] # None
  BY <1>2, <1>u DEF RecoverAttempt, StartUnit, RestartUnit
<1>3. CASE RestoreAll
  <2>1. PICK n \in Names : NeedsRestore(n) /\ registry[n].worker = w
    BY <1>3, <1>u DEF RestoreAll
  <2>2. registry[n] # None /\ ~CloseRemoves
    BY <1>3, <2>1 DEF NeedsRestore, RestoreAll, CloseRemoves
  <2>3. registry'[n] # None
    BY <2>2, RegistrySteps
  <2>4. QED BY <1>3, <2>1, <2>2, <2>3
<1>4. ASSUME NEW n \in Names, TaskFails(n) PROVE FALSE
  BY <1>4, <1>u DEF TaskFails, GivesUpUnit, StopUnit
<1>5. ASSUME NEW v \in Workers, WorkerCrashes(v) \/ SystemdRestarts(v) PROVE FALSE
  BY <1>5, <1>u DEF WorkerCrashes, SystemdRestarts
<1>6. CASE OpenDiscarded
  BY <1>6, <1>u DEF OpenDiscarded, StopUnit
<1>7. CASE CloseStopsWorker
  BY <1>7, <1>u DEF CloseStopsWorker, StopSelected, StopUnit
<1>8. CASE CloseGathered
  BY <1>8, <1>u DEF CloseGathered, StopSelected, StopUnit
<1>9. \/ OpenDiscarded \/ CloseStopsWorker \/ CloseGathered \/ RestoreAll
      \/ \E t \in Threads : OpenBegin(t)
      \/ \E n \in Names : RecoverAttempt(n) \/ TaskFails(n)
      \/ \E v \in Workers : WorkerCrashes(v) \/ SystemdRestarts(v)
  BY DEF Next, OpenStep, CloseStep, TaskStep, ProbeStep, TimePasses, Environment, OpenConnected, OpenRegistered, CloseBegin,
         CloseSeesUnitDown, CloseRemoves, CloseFails, Disconnected, RequestRestart, ProbeFails, WorkerResponds, RecoverEnds,
         TaskConnected, TaskResumed, CircuitExpires, FailuresAge, ConnectionLost, ControlDrops, OwnerRestarts, vars
<1>10. QED BY <1>1, <1>2, <1>3, <1>4, <1>5, <1>6, <1>7, <1>8, <1>9

(* Every step keeps the units owned. *)
LEMMA UnitsStep == TypeOK /\ SessionsKept /\ UnitsOwned /\ [Next]_vars => UnitsOwned'
<1> SUFFICES ASSUME TypeOK, SessionsKept, UnitsOwned, [Next]_vars PROVE UnitsOwned'
  OBVIOUS
<1>o. op # None => op \in Op /\ op.name \in Names /\ op.worker \in Workers /\ PcFits
  BY DEF SessionsKept, TypeOK, Op
<1>u. unit \in [Workers -> {"inactive", "active", "failed"}]
  BY DEF TypeOK
<1>1. ASSUME NEW w \in Workers, unit'[w] # "inactive"
      PROVE  \/ (\E n \in Registered' : registry'[n].worker = w) \/ (op' # None /\ op'.worker = w)
             \/ w \in revived'
  <2>1. ASSUME NEW n \in Names, registry[n] # None, registry[n].worker = w, registry'[n] # None PROVE \E m \in Registered' : registry'[m].worker = w
    <3>1. ~(OpenRegistered /\ n = op.name)
      BY <1>o, <2>1 DEF OpenRegistered, SessionsKept, OpenIsNew, PcFits
    <3>2. SameSession(registry'[n], registry[n])
      BY <2>1, <3>1, RegistrySteps
    <3>3. QED BY <2>1, <3>2 DEF Registered, SameSession
  <2>2. CASE unit[w] = "inactive"
    BY <1>1, <2>1, <2>2, UnitSteps
  <2>3. CASE unit[w] # "inactive"
    <3>1. ASSUME NEW n \in Registered, registry[n].worker = w PROVE (\E m \in Registered' : registry'[m].worker = w) \/ w \in revived'
      <4>1. CASE registry'[n] # None
        BY <2>1, <3>1, <4>1 DEF Registered
      <4>2. CASE registry'[n] = None
        <5>1. CloseRemoves /\ n = op.name
          BY <3>1, <4>2, RegistrySteps DEF Registered
        <5>2. op # None /\ op.pc = "stopped" /\ op.kind = "close"
          BY <1>o, <5>1 DEF CloseRemoves, PcFits
        <5>3. op.worker = w
          BY <3>1, <5>1, <5>2 DEF SessionsKept, CloseAgrees, SameSession
        <5>4. revived' = revived
          BY <5>1 DEF CloseRemoves
        <5>5. QED BY <2>3, <5>2, <5>3, <5>4 DEF UnitsOwned
      <4>3. QED BY <4>1, <4>2
    <3>2. ASSUME op # None, op.worker = w
          PROVE  (\E n \in Registered' : registry'[n].worker = w) \/ (op' # None /\ op'.worker = w) \/ w \in revived'
      <4>1. CASE op' # None
        <5>1. SameSession(op', op)
          BY <3>2, <4>1, OpSteps
        <5>2. QED BY <3>2, <4>1, <5>1 DEF SameSession
      <4>2. CASE op.kind = "close"
        BY <3>1, <3>2, <4>2, <1>o DEF SessionsKept, CloseAgrees, SameSession, Registered
      <4>3. CASE OpenRegistered
        <5>1. registry' = [registry EXCEPT ![op.name] = [worker |-> op.worker, thread |-> op.thread, state |-> "ready"]]
          BY <4>3 DEF OpenRegistered
        <5>2. [worker |-> op.worker, thread |-> op.thread, state |-> "ready"] \in Record
          BY <1>o, <3>2 DEF Record, WorkerStates, Op
        <5>3. QED BY <1>o, <3>2, <5>1, <5>2 DEF Registered, TypeOK
      <4>4. CASE OpenDiscarded
        BY <1>1, <1>o, <1>u, <3>2, <4>4 DEF OpenDiscarded, StopUnit
      <4>5. CASE op' = None /\ op.kind = "open"
        <5>1. ~OpenConnected
          <6>1. SUFFICES ASSUME OpenConnected PROVE FALSE
            OBVIOUS
          <6>2. Least(FreeClients) \in Clients /\ op' = [op EXCEPT !.pc = "rpc", !.client = Least(FreeClients)]
            BY <6>1, FreshOnes DEF OpenConnected, FreeClients
          <6>3. op' \in Op
            BY <3>2, <6>2, OpTypes
          <6>4. QED BY <4>5, <6>3
        <5>2. ~CloseStopsWorker /\ ~CloseGathered /\ ~CloseSeesUnitDown /\ ~CloseRemoves /\ ~CloseFails
          BY <1>o, <3>2, <4>5 DEF CloseStopsWorker, CloseGathered, CloseSeesUnitDown, CloseRemoves, CloseFails, PcFits
        <5>3. (\A t \in Threads : ~OpenBegin(t)) /\ (\A n \in Names : ~CloseBegin(n))
          BY <3>2 DEF OpenBegin, CloseBegin
        <5>4. OpenRegistered \/ OpenDiscarded
          BY <3>2, <4>5, <5>1, <5>2, <5>3, OpMoves
        <5>5. QED BY <4>3, <4>4, <5>4
      <4>6. QED BY <1>o, <3>2, <4>1, <4>2, <4>5 DEF PcFits
    <3>3. ASSUME w \in revived PROVE w \in revived' \/ (op # None /\ op.worker = w)
      BY <3>3, RevivedSteps DEF CloseStopsWorker
    <3>4. QED BY <2>3, <3>1, <3>2, <3>3 DEF UnitsOwned, ClosesFindRecoveries, Owned
  <2>4. QED BY <2>2, <2>3
<1>2. ASSUME op' # None, op'.pc \in {"stopping", "stopped"} PROVE unit'[op'.worker] = "inactive" \/ op'.worker \in revived'
  <2>1. CASE CloseStopsWorker \/ CloseGathered
    <3>1. op # None /\ op.kind = "close" /\ op.name \in Names
      BY <1>o, <2>1 DEF CloseStopsWorker, CloseGathered, PcFits
    <3>2. op' # [op EXCEPT !.pc = "gather"]
      BY <1>2, <1>o, <3>1 DEF Op
    <3>3. StopSelected(Selected)
      BY <2>1, <3>2 DEF CloseStopsWorker, CloseGathered
    <3>4. op'.worker = op.worker
      BY <1>o, <3>1, <3>3 DEF StopSelected, Op
    <3>5. QED BY <1>o, <1>u, <3>1, <3>3, <3>4 DEF StopSelected, StopUnit
  <2>2. CASE CloseSeesUnitDown
    <3>1. op # None /\ op.pc = "stopping" /\ unit' = unit /\ revived' = revived /\ op'.worker = op.worker
      BY <1>o, <2>2 DEF CloseSeesUnitDown, Op
    <3>2. QED BY <3>1 DEF UnitsOwned
  <2>3. CASE op' = op
    <3>1. (unit[op.worker] = "inactive" \/ op.worker \in revived) /\ op # None /\ op.kind = "close"
      BY <1>2, <1>o, <2>3 DEF UnitsOwned, PcFits
    <3>2. revived \subseteq revived'
      BY <1>2, <2>3, RevivedSteps DEF CloseStopsWorker
    <3>3. ASSUME NEW n \in Names, registry[n] # None, registry[n].worker = op.worker, RecoverAttempt(n) \/ (RestoreAll /\ NeedsRestore(n))
          PROVE  op.worker \in revived'
      <4>1. n = op.name
        BY <1>o, <3>1, <3>3 DEF SessionsKept, SessionsDiffer, CloseAgrees, SameSession, Registered
      <4>2. Stopping(n)
        BY <1>2, <2>3, <3>1, <4>1 DEF Stopping, Closing
      <4>3. CASE RecoverAttempt(n)
        BY <3>2, <3>3, <4>2, <4>3 DEF RecoverAttempt, SessionsKept, TasksAgree, InService, Stray, SameSession
      <4>4. CASE RestoreAll /\ NeedsRestore(n)
        BY <3>3, <4>2, <4>4 DEF RestoreAll, RevivedWith
      <4>5. QED BY <3>3, <4>3, <4>4
    <3>4. \A t \in Threads : ~OpenBegin(t)
      BY <3>1 DEF OpenBegin
    <3>5. QED BY <1>o, <2>3, <3>1, <3>2, <3>3, <3>4, UnitSteps
  <2>4. CASE OpenConnected \/ (\E t \in Threads : OpenBegin(t)) \/ (\E n \in Names : CloseBegin(n))
    <3>1. CASE OpenConnected
      BY <1>2, <1>o, <3>1 DEF OpenConnected, Op
    <3>2. ASSUME NEW t \in Threads, OpenBegin(t) PROVE FALSE
      <4>1. op'.pc = "starting"
        BY <3>2 DEF OpenBegin
      <4>2. QED BY <1>2, <4>1
    <3>3. ASSUME NEW n \in Names, CloseBegin(n) PROVE FALSE
      <4>1. op'.pc = "unsubscribe"
        BY <3>3 DEF CloseBegin
      <4>2. QED BY <1>2, <4>1
    <3>4. QED BY <2>4, <3>1, <3>2, <3>3
  <2>5. op' = op \/ OpenConnected \/ CloseStopsWorker \/ CloseGathered \/ CloseSeesUnitDown
          \/ (\E t \in Threads : OpenBegin(t)) \/ (\E n \in Names : CloseBegin(n))
    BY <1>2, OpMoves
  <2>6. QED BY <2>1, <2>2, <2>3, <2>4, <2>5
<1>3. QED BY <1>1, <1>2 DEF UnitsOwned, ClosesFindRecoveries, Owned

-----------------------------------------------------------------------------
(* What the sessions of every run have in common.                          *)

Kept == TypeOK /\ SessionsKept /\ ClientsKept /\ UnitsOwned

LEMMA AlwaysKept == Spec => []Kept
<1>1. Init => Kept
  <2> SUFFICES ASSUME Init PROVE Kept
    OBVIOUS
  <2>1. TypeOK
    BY DEF Init, TypeOK, Conn, ProbeLimit
  <2>2. SessionsKept
    BY DEF Init, SessionsKept, TasksAgree, TaskNames, PcFits, OpenIsNew, CloseAgrees, SessionsDiffer, Registered
  <2>3. ClientsKept
    BY DEF Init, ClientsKept, ClientsDiffer, ClientNames, ClientsFit, TaskClient, OpenClient, OpClient, Registered
  <2>4. UnitsOwned
    BY DEF Init, UnitsOwned, ClosesFindRecoveries
  <2>5. QED BY <2>1, <2>2, <2>3, <2>4 DEF Kept
<1>2. Kept /\ [Next]_vars => Kept'
  BY TypeStep, SessionsStep, ClientsStep, UnitsStep DEF Kept
<1>3. QED BY <1>1, <1>2, PTL DEF Spec

(* No two sessions share a thread or a worker, and the client of each      *)
(* talks to its own worker, or to a revived one.                           *)
THEOREM SessionsStayDisjoint == Spec => []SessionsAreDisjoint
<1>1. Kept => SessionsAreDisjoint
  BY DEF Kept, SessionsKept, ClientsKept, SessionsDiffer, ClientsFit, SessionsAreDisjoint, Usurped, Registered
<1>2. QED BY <1>1, AlwaysKept, PTL

(* A worker that runs is a registered session's or that of the open under  *)
(* way, or a recovery went for it while its close waited.                  *)
THEOREM WorkersAreOwned == Spec => []ClosesFindRecoveries
<1>1. Kept => ClosesFindRecoveries
  BY DEF Kept, UnitsOwned
<1>2. QED BY <1>1, AlwaysKept, PTL

-----------------------------------------------------------------------------
(* Service.  What ends the service of a session starts a recovery.         *)

(* What becomes of the client of a registered session. *)
LEMMA ServedSteps ==
    ASSUME Kept, [Next]_vars, NEW n \in Names, registry[n] # None, clients[n] # None
    PROVE  \/ clients'[n] = clients[n] /\ conn'[clients[n]] = conn[clients[n]]
           \/ clients'[n] = clients[n] /\ (Lost(clients[n]) \/ Noticed(clients[n]))
           \/ clients'[n] # None /\ conn'[clients'[n]].ready /\ TaskConnected(n)
           \/ OwnerRestarts
           \/ Closing(n) /\ (clients'[n] = None \/ ~conn'[clients'[n]].ready)
<1> USE DEF Kept
<1>c. clients \in [Names -> Clients \cup {None}] /\ clients[n] \in Clients /\ None \notin Clients
  BY DEF TypeOK
<1>o. (op # None => PcFits /\ op.name \in Names) /\ (op # None /\ op.kind = "open" => op.name # n)
  BY DEF SessionsKept, PcFits, OpenIsNew, TypeOK, Op
<1>1. ASSUME OpenDiscarded PROVE op # None /\ op.name # n
  BY <1>1, <1>o DEF OpenDiscarded
<1>2. ASSUME CloseStopsWorker \/ CloseGathered PROVE op # None /\ op.kind = "close"
  BY <1>2, <1>o DEF CloseStopsWorker, CloseGathered, PcFits
<1>3. ASSUME NEW m \in Names, NEW c \in Clients, Installs(m, c)
      PROVE  /\ clients'[m] = c /\ c # clients[n] /\ conn'[c].ready
             /\ m = n => TaskConnected(n)
  BY <1>3, <1>c, <1>o, BusyClients DEF Installs, OpenConnected, PcFits
<1>4. CASE clients'[n] = clients[n]
  <2>1. CASE \E m \in Names : Installs(m, clients[n])
    BY <1>3, <1>c, <2>1
  <2>2. CASE Shut(clients[n])
    <3>1. ASSUME NEW m \in Names, clients[m] = clients[n], NEW d \in Clients, Installs(m, d) PROVE FALSE
      <4>1. m = n
        BY <1>c, <3>1 DEF ClientsKept, ClientsDiffer
      <4>2. QED BY <1>3, <1>4, <3>1, <4>1
    <3>2. ASSUME OpenDiscarded, clients[n] = op.client PROVE FALSE
      BY <1>1, <1>c, <3>2 DEF ClientsKept, OpClient
    <3>3. ASSUME CloseStopsWorker \/ CloseGathered, clients[n] = Selected PROVE Closing(n)
      <4>1. op.name = n
        BY <1>2, <1>c, <1>o, <3>3 DEF Selected, ClientsKept, OpClient, ClientsDiffer
      <4>2. QED BY <1>2, <3>3, <4>1 DEF Closing
    <3>4. QED BY <1>4, <2>2, <3>1, <3>2, <3>3 DEF Shut
  <2>3. QED BY <1>4, <1>c, <2>1, <2>2, ConnSteps
<1>5. CASE \E c \in Clients : clients'[n] = c /\ Installs(n, c)
  BY <1>3, <1>5, <1>c
<1>6. CASE clients'[n] = None /\ (OwnerRestarts \/ ((OpenDiscarded \/ CloseStopsWorker \/ CloseGathered) /\ n = op.name))
  BY <1>1, <1>2, <1>6 DEF Closing
<1>7. QED BY <1>4, <1>5, <1>6, ClientSteps

(* The handler of a lost connection leaves a task. *)
LEMMA LossIsNoticed ==
    ASSUME Kept, NEW n \in Names, registry[n] # None, clients[n] # None, Noticed(clients[n])
    PROVE  task'[n] # None
<1>1. PICK m \in Names : clients[m] = clients[n] /\ Schedule(m)
  BY DEF Noticed, Disconnected
<1>2. m = n
  BY <1>1 DEF Kept, ClientsKept, ClientsDiffer
<1>3. NewTask(n, FALSE) \in Task /\ task \in [Names -> Task \cup {None}]
  BY TaskTypes DEF Kept, TypeOK
<1>4. QED BY <1>1, <1>2, <1>3 DEF Schedule

(* A task of a registered session ends when it has resumed the thread,     *)
(* when a close takes it, or with the Owner.                               *)
LEMMA TaskLeaves ==
    ASSUME Kept, [Next]_vars, NEW n \in Names, registry[n] # None, task[n] # None, task'[n] = None
    PROVE  TaskResumed(n) \/ (CloseStopsWorker /\ n = op.name) \/ OwnerRestarts
<1>t. task \in [Names -> Task \cup {None}] /\ task[n] \in Task
  BY DEF Kept, TypeOK
<1>1. ASSUME NEW m \in Names, Schedule(m) PROVE FALSE
  BY <1>1, <1>t DEF Schedule
<1>2. CASE CloseStopsWorker
  BY <1>2, <1>t DEF CloseStopsWorker
<1>3. CASE RestoreAll
  BY <1>3, <1>t DEF RestoreAll, NeedsRestore
<1>4. ASSUME NEW m \in Names, RecoverAttempt(m) PROVE FALSE
  <2>1. CASE m = n
    <3>1. registry[n].worker \in Workers /\ registry[n].thread \in Threads
      BY DEF Kept, TypeOK, Record
    <3>2. [task[n] EXCEPT !.pc = "open", !.restart = (n \in restart_requested), !.worker = registry[n].worker,
                          !.thread = registry[n].thread] \in Task
      BY <1>t, <3>1, AttemptType
    <3>3. QED BY <1>4, <1>t, <2>1, <3>2 DEF RecoverAttempt
  <2>2. CASE m # n
    BY <1>4, <1>t, <2>2 DEF RecoverAttempt
  <2>3. QED BY <2>1, <2>2
<1>5. ASSUME NEW m \in Names, TaskConnected(m) PROVE FALSE
  <2> DEFINE c == Least(FreeClients)
  <2>1. c \in Clients /\ task' = [task EXCEPT ![m].pc = "resume", ![m].client = c]
    BY <1>5, FreshOnes DEF TaskConnected, FreeClients
  <2> HIDE DEF c
  <2>2. [task[n] EXCEPT !.pc = "resume", !.client = c] \in Task
    BY <1>t, <2>1 DEF Task
  <2>3. QED BY <1>t, <2>1, <2>2
<1>6. ASSUME NEW m \in Names, TaskFails(m) PROVE FALSE
  <2>1. PICK a \in 0..FailureLimit : task' = [task EXCEPT ![m] = AfterFailure(m, a)]
    <3>1. task[m] \in Task /\ task[m].attempts \in 0..FailureLimit
      BY <1>6, <1>t DEF TaskFails, Task
    <3> DEFINE a == IF task[m].first \/ task[m].attempts = FailureLimit THEN task[m].attempts ELSE task[m].attempts + 1
    <3>2. task' = [task EXCEPT ![m] = AfterFailure(m, a)]
      BY <1>6 DEF TaskFails
    <3>3. a \in 0..FailureLimit
      BY <3>1
    <3> HIDE DEF a
    <3>4. QED BY <3>2, <3>3
  <2>2. AfterFailure(n, a) \in Task
    BY TaskTypes DEF Kept
  <2>3. QED BY <1>t, <2>1, <2>2
<1>7. ASSUME NEW m \in Names, TaskResumed(m) PROVE m = n
  BY <1>7, <1>t DEF TaskResumed
<1>8. ASSUME NEW m \in Names, RecoverEnds(m) PROVE FALSE
  BY <1>8, <1>t DEF RecoverEnds
<1>9. \/ CloseStopsWorker \/ RestoreAll \/ OwnerRestarts \/ task' = task
      \/ \E m \in Names : Schedule(m)
      \/ \E m \in Names : RecoverAttempt(m) \/ TaskConnected(m) \/ TaskFails(m) \/ TaskResumed(m) \/ RecoverEnds(m)
  BY DEF Next, OpenStep, CloseStep, TaskStep, ProbeStep, TimePasses, Environment, OpenBegin, OpenConnected, OpenRegistered, OpenDiscarded,
         CloseBegin, CloseGathered, CloseSeesUnitDown, CloseRemoves, CloseFails, WorkerResponds, CircuitExpires, FailuresAge,
         Disconnected, RequestRestart, ProbeFails, AskRestart, WorkerCrashes, SystemdRestarts, ConnectionLost, ControlDrops, vars
<1>10. QED BY <1>1, <1>2, <1>3, <1>4, <1>5, <1>6, <1>7, <1>8, <1>9

(* In all, it ends with a resumed thread, a close or the Owner. *)
LEMMA TaskEnds ==
    ASSUME Kept, [Next]_vars, NEW n \in Names, registry[n] # None, task[n] # None, task'[n] = None
    PROVE  TaskResumed(n) \/ Closing(n) \/ OwnerRestarts
BY TaskLeaves DEF CloseStopsWorker, Closing, Kept, SessionsKept, PcFits

(* A close ends when its session is removed or, failing, given up. *)
LEMMA ClosingSteps ==
    ASSUME Kept, [Next]_vars, NEW n \in Names, Closing(n), registry'[n] # None
    PROVE  Closing(n)' \/ (CloseFails /\ n = op.name)
<1>1. op \in Op /\ op # None /\ op.kind = "close" /\ op.name = n /\ PcFits
  BY DEF Closing, Kept, SessionsKept, TypeOK
<1>2. CASE op' # None
  BY <1>1, <1>2, OpSteps DEF Closing, Kept
<1>3. CASE op' = None
  <2>1. ~OpenRegistered /\ ~OpenDiscarded /\ ~OpenConnected
    BY <1>1 DEF OpenRegistered, OpenDiscarded, OpenConnected, PcFits
  <2>2. ~CloseRemoves
    BY <1>1 DEF CloseRemoves, Kept, TypeOK
  <2>3. (\A t \in Threads : ~OpenBegin(t)) /\ (\A m \in Names : ~CloseBegin(m))
    BY <1>1 DEF OpenBegin, CloseBegin
  <2>4. ASSUME NEW x \in {"stopped", "stopping"}, NEW c \in Clients \cup {None} PROVE op' # [op EXCEPT !.pc = x] /\ op' # [op EXCEPT !.pc = x, !.client = c]
    <3>1. [op EXCEPT !.pc = x] \in Op /\ [op EXCEPT !.pc = x, !.client = c] \in Op
      BY <1>1, OpTypes DEF Kept
    <3>2. None \notin Op
      OBVIOUS
    <3>3. QED BY <1>3, <3>1, <3>2
  <2>5. [op EXCEPT !.pc = "gather"] \in Op
    BY <1>1, OpTypes DEF Kept
  <2>6. CASE CloseSeesUnitDown
    BY <2>4, <2>6 DEF CloseSeesUnitDown
  <2>7. CASE CloseStopsWorker \/ CloseGathered
    <3>1. Selected \in Clients \cup {None}
      BY <1>1 DEF Selected, Kept, TypeOK, Op
    <3>2. QED BY <1>3, <2>4, <2>5, <2>7, <3>1 DEF CloseStopsWorker, CloseGathered, StopSelected
  <2>8. QED BY <1>1, <1>3, <2>1, <2>2, <2>3, <2>6, <2>7, OpMoves
<1>4. QED BY <1>2, <1>3

(* Names come back from being given up, and the control plane back, with a *)
(* new open or with restore_all.                                           *)
LEMMA ReturnSteps ==
    ASSUME Kept, [Next]_vars
    PROVE  /\ \A n \in abandoned : n \in abandoned' \/ (OpenRegistered /\ n = op.name) \/ (RestoreAll /\ NeedsRestore(n))
           /\ control' = "ready" => control = "ready" \/ RestoreAll
<1>1. CASE RestoreAll
  BY <1>1 DEF RestoreAll, Kept, TypeOK
<1>2. CASE OpenRegistered
  BY <1>2 DEF OpenRegistered
<1>3. CASE UNCHANGED <<abandoned, control>>
  BY <1>3
<1>4. CASE CloseFails
  BY <1>4 DEF CloseFails
<1>5. CASE ControlDrops \/ OwnerRestarts
  BY <1>5 DEF ControlDrops, OwnerRestarts
<1>6. RestoreAll \/ OpenRegistered \/ CloseFails \/ ControlDrops \/ OwnerRestarts \/ UNCHANGED <<abandoned, control>>
  BY DEF Next, OpenStep, CloseStep, TaskStep, ProbeStep, TimePasses, Environment, OpenBegin, OpenConnected, OpenDiscarded,
         CloseBegin, CloseStopsWorker, CloseGathered, CloseSeesUnitDown, CloseRemoves, Disconnected, RequestRestart, ProbeFails,
         WorkerResponds, RecoverAttempt, RecoverEnds, TaskConnected, TaskResumed, TaskFails, CircuitExpires, FailuresAge,
         WorkerCrashes, SystemdRestarts, ConnectionLost, vars
<1>7. QED BY <1>1, <1>2, <1>3, <1>4, <1>5, <1>6

Served(n) == clients[n] # None /\ (conn[clients[n]].ready \/ conn[clients[n]].notice)

(* What an open registers is served, and what a recovery brought back. *)
LEMMA OpenedIsServed ==
    ASSUME Kept, NEW n \in Names, (OpenRegistered /\ n = op.name) \/ TaskResumed(n)
    PROVE  Served(n)'
<1>1. CASE OpenRegistered /\ n = op.name
  <2>1. clients[n] = op.client /\ op.client # None /\ conn[op.client].ready /\ UNCHANGED <<clients, conn>>
    BY <1>1 DEF OpenRegistered, Kept, SessionsKept, PcFits, ClientsKept, OpenClient, Has
  <2>2. QED BY <2>1 DEF Served
<1>2. CASE TaskResumed(n)
  <2>1. clients[n] = task[n].client /\ clients[n] # None /\ conn[clients[n]].ready /\ UNCHANGED <<clients, conn>>
    BY <1>2 DEF TaskResumed, Kept, ClientsKept, TaskClient, Has
  <2>2. QED BY <2>1 DEF Served
<1>3. QED BY <1>1, <1>2

(* A served session goes on being served, or a recovery begins. *)
LEMMA ServiceSteps ==
    ASSUME Kept, [Next]_vars, NEW n \in Names, registry[n] # None, Served(n)
    PROVE  Served(n)' \/ task'[n] # None \/ Closing(n) \/ OwnerRestarts
BY ServedSteps, LossIsNoticed DEF Served, Lost

(* restore_all leaves every session served or being brought back. *)
LEMMA RestoreServes ==
    ASSUME Kept, RestoreAll, NEW n \in Names, registry[n] # None
    PROVE  Served(n)' \/ task'[n] # None
<1>1. NewTask(n, TRUE) # None
  BY TaskTypes DEF Kept
<1>2. UNCHANGED <<clients, conn>> /\ task'[n] = IF NeedsRestore(n) THEN NewTask(n, TRUE) ELSE task[n]
  BY DEF RestoreAll
<1>3. QED BY <1>1, <1>2 DEF NeedsRestore, Served

(* Every step remembers every session. *)
LEMMA MemoryStep == Kept /\ NobodyForgotten /\ [Next]_vars => NobodyForgotten'
<1> SUFFICES ASSUME Kept, NobodyForgotten, [Next]_vars, control' = "ready",
                    NEW n \in Names, registry'[n] # None, n \notin abandoned'
             PROVE  Closing(n)' \/ task'[n] # None \/ Served(n)'
  BY DEF NobodyForgotten, Registered, Served
<1>1. CASE registry[n] = None
  BY <1>1, OpenedIsServed, RegistrySteps DEF Kept
<1>2. CASE registry[n] # None /\ RestoreAll
  BY <1>2, RestoreServes
<1>3. CASE registry[n] # None /\ ~RestoreAll
  <2>1. ~OwnerRestarts
    BY DEF OwnerRestarts
  <2>2. CASE OpenRegistered /\ n = op.name
    BY <2>2, OpenedIsServed
  <2>3. CASE Closing(n)
    <3>1. ~(CloseFails /\ n = op.name)
      BY DEF CloseFails
    <3>2. QED BY <2>3, <3>1, ClosingSteps, <1>3
  <2>4. CASE ~Closing(n) /\ task[n] # None
    BY <1>3, <2>1, <2>4, TaskEnds, OpenedIsServed
  <2>5. CASE ~Closing(n) /\ task[n] = None /\ ~(OpenRegistered /\ n = op.name)
    <3>1. control = "ready" /\ n \notin abandoned
      BY <1>3, <2>5, ReturnSteps
    <3>2. Served(n)
      BY <1>3, <2>5, <3>1 DEF NobodyForgotten, Registered, Served
    <3>3. QED BY <1>3, <2>1, <2>5, <3>2, ServiceSteps
  <2>6. QED BY <2>2, <2>3, <2>4, <2>5
<1>4. QED BY <1>1, <1>2, <1>3

(* No registered session is left without a client, a handler to run or a   *)
(* task, unless a close has it or gave up on it.                           *)
THEOREM NobodyIsForgotten == Spec => []NobodyForgotten
<1>1. Init => NobodyForgotten
  BY DEF Init, NobodyForgotten
<1>2. QED BY <1>1, AlwaysKept, MemoryStep, PTL DEF Spec

-----------------------------------------------------------------------------
(* Readiness.  A state of "ready" is only ever written for a session that  *)
(* is served, and a served session's worker holds its thread.              *)

(* A close that waits for the recovery it cancelled. *)
Gathering(n) == Closing(n) /\ op.pc = "gather"

Loaded ==
    \A n \in Registered :
        /\ task[n] = None /\ ~Gathering(n)
        /\ clients[n] # None /\ conn[clients[n]].ready /\ conn[clients[n]].worker = registry[n].worker
        => loaded[registry[n].worker] = registry[n].thread

ReadyIsServed ==
    \A n \in Registered :
        registry[n].state = "ready" /\ task[n] = None /\ ~Closing(n) /\ control = "ready" => Served(n)

(* A worker's thread changes when it is loaded, or its connections end. *)
LEMMA LoadedSteps ==
    ASSUME Kept, [Next]_vars, NEW w \in Workers
    PROVE  \/ loaded'[w] = loaded[w]
           \/ \A c \in Clients : conn'[c].worker = w => ~conn'[c].ready
           \/ OpenRegistered /\ op.worker = w
           \/ \E m \in Names : TaskResumed(m) /\ task[m].worker = w
<1>l. loaded \in [Workers -> Threads \cup {None}] /\ conn \in [Clients -> Conn]
  BY DEF Kept, TypeOK
<1>o. op # None => op.worker \in Workers /\ op.client \in Clients \cup {None} /\ op.name \in Names
  BY DEF Kept, TypeOK, Op
<1>1. ASSUME NEW k \in [Clients -> Conn], NEW v \in Workers, loaded' = [loaded EXCEPT ![v] = None], conn' = WithEof(k, v)
      PROVE  loaded'[w] = loaded[w] \/ \A c \in Clients : conn'[c].worker = w => ~conn'[c].ready
  <2>1. ASSUME NEW c \in Clients, conn'[c].worker = v PROVE ~conn'[c].ready
    BY <1>1, <2>1, EndEffects
  <2>2. QED BY <1>1, <1>l, <2>1
<1>2. CASE OpenRegistered
  BY <1>2, <1>l DEF OpenRegistered, Load
<1>3. ASSUME NEW m \in Names, TaskResumed(m) PROVE loaded'[w] = loaded[w] \/ task[m].worker = w
  BY <1>3, <1>l DEF TaskResumed, Load
<1>4. CASE OpenDiscarded
  <2>1. WithClosed(conn, op.client) \in [Clients -> Conn]
    BY <1>4, <1>l, <1>o, ConnTypes DEF OpenDiscarded
  <2>2. QED BY <1>1, <1>4, <1>o, <2>1 DEF OpenDiscarded, StopUnit
<1>5. CASE CloseStopsWorker \/ CloseGathered
  <2>1. op # None /\ Selected \in Clients \cup {None}
    BY <1>5, <1>o DEF CloseStopsWorker, CloseGathered, Selected, Kept, TypeOK
  <2>2. WithClosed(conn, Selected) \in [Clients -> Conn]
    BY <1>l, <1>o, <2>1, ConnTypes
  <2>3. QED BY <1>1, <1>5, <1>o, <2>1, <2>2 DEF CloseStopsWorker, CloseGathered, StopSelected, StopUnit
<1>6. ASSUME NEW m \in Names, RecoverAttempt(m) \/ TaskFails(m)
      PROVE  loaded' = loaded \/ \E v \in Workers : loaded' = [loaded EXCEPT ![v] = None] /\ conn' = WithEof(conn, v)
  <2>1. registry[m] # None => registry[m].worker \in Workers
    BY DEF Kept, TypeOK, Record
  <2>2. task[m] # None => task[m].worker \in Workers
    BY DEF Kept, TypeOK, Task
  <2>3. QED BY <1>6, <2>1, <2>2 DEF RecoverAttempt, TaskFails, GivesUpUnit, StartUnit, RestartUnit, StopUnit
<1>7. ASSUME NEW v \in Workers, WorkerCrashes(v) PROVE loaded' = [loaded EXCEPT ![v] = None] /\ conn' = WithEof(conn, v)
  BY <1>7 DEF WorkerCrashes
<1>8. \/ OpenRegistered \/ OpenDiscarded \/ CloseStopsWorker \/ CloseGathered \/ loaded' = loaded
      \/ \E m \in Names : TaskResumed(m) \/ RecoverAttempt(m) \/ TaskFails(m)
      \/ \E v \in Workers : WorkerCrashes(v)
  BY DEF Next, OpenStep, CloseStep, TaskStep, ProbeStep, TimePasses, Environment, OpenBegin, OpenConnected, CloseBegin,
         CloseSeesUnitDown, CloseRemoves, CloseFails, Disconnected, RequestRestart, ProbeFails, WorkerResponds, RestoreAll,
         RecoverEnds, TaskConnected, CircuitExpires, FailuresAge, SystemdRestarts, ConnectionLost, ControlDrops, OwnerRestarts,
         StartUnit, vars
<1>9. QED BY <1>1, <1>2, <1>3, <1>4, <1>5, <1>6, <1>7, <1>8, <1>l

(* A registered session is called ready by its worker's answer or by its   *)
(* recovery.                                                               *)
LEMMA ReadySteps ==
    ASSUME Kept, [Next]_vars, NEW n \in Names, registry[n] # None, registry'[n] # None,
           registry[n].state # "ready", registry'[n].state = "ready"
    PROVE  WorkerResponds(n) \/ TaskResumed(n) \/ OpenRegistered
<1>r. registry \in [Names -> Record \cup {None}] /\ (op # None => op.name \in Names)
  BY DEF Kept, TypeOK, Op
<1>1. ASSUME NEW m \in Names, NEW x \in WorkerStates, registry' = WithState(registry, m, x) PROVE m = n /\ x = "ready"
  <2>1. CASE m = n
    <3>1. registry'[n] = [registry[n] EXCEPT !.state = x]
      BY <1>1, <1>r, <2>1 DEF WithState
    <3>2. QED BY <1>r, <2>1, <3>1, StateChanges
  <2>2. CASE m # n
    BY <1>1, <1>r, <2>2 DEF WithState
  <2>3. QED BY <2>1, <2>2
<1>2. {"starting", "ready", "stopping", "degraded", "reconnecting"} \subseteq WorkerStates
  BY DEF WorkerStates
<1>3. CASE CloseStopsWorker \/ CloseFails
  BY <1>1, <1>2, <1>3, <1>r DEF CloseStopsWorker, CloseFails
<1>4. CASE CloseRemoves
  BY <1>4, <1>r DEF CloseRemoves
<1>5. ASSUME NEW c \in Clients, Disconnected(c) PROVE FALSE
  BY <1>1, <1>2, <1>5 DEF Disconnected
<1>6. ASSUME NEW m \in Names, RequestRestart(m) \/ ProbeFails(m) \/ TaskFails(m) PROVE FALSE
  BY <1>1, <1>2, <1>6 DEF RequestRestart, ProbeFails, TaskFails, AskRestart
<1>7. ASSUME NEW m \in Names, WorkerResponds(m) \/ TaskResumed(m) PROVE m = n
  BY <1>1, <1>2, <1>7 DEF WorkerResponds, TaskResumed
<1>8. CASE RestoreAll
  <2>1. registry'[n] = registry[n] \/ registry'[n] = [registry[n] EXCEPT !.state = "starting"]
    BY <1>8 DEF RestoreAll
  <2>2. registry[n] \in Record
    BY <1>r
  <2>3. [registry[n] EXCEPT !.state = "starting"].state = "starting"
    BY <1>2, <2>2, StateChanges
  <2>4. QED BY <2>1, <2>3
<1>9. \/ CloseStopsWorker \/ CloseFails \/ CloseRemoves \/ RestoreAll \/ OpenRegistered \/ registry' = registry
      \/ \E c \in Clients : Disconnected(c)
      \/ \E m \in Names : RequestRestart(m) \/ ProbeFails(m) \/ TaskFails(m) \/ WorkerResponds(m) \/ TaskResumed(m)
  BY DEF Next, OpenStep, CloseStep, TaskStep, ProbeStep, TimePasses, Environment, OpenBegin, OpenConnected, OpenDiscarded,
         CloseBegin, CloseGathered, CloseSeesUnitDown, RecoverAttempt, RecoverEnds, TaskConnected, CircuitExpires, FailuresAge,
         WorkerCrashes, SystemdRestarts, ConnectionLost, ControlDrops, OwnerRestarts, vars
<1>10. QED BY <1>3, <1>4, <1>5, <1>6, <1>7, <1>8, <1>9

(* A recovery that a close cancels is gathered. *)
LEMMA GatherSteps ==
    ASSUME Kept, [Next]_vars, NEW n \in Names
    PROVE  /\ Closing(n) /\ task[n] # None /\ task'[n] = None => Gathering(n)' \/ TaskResumed(n)
           /\ Gathering(n) => Gathering(n)' \/ (CloseGathered /\ n = op.name)
<1>o. op # None => op \in Op /\ op.name \in Names /\ PcFits
  BY DEF Kept, SessionsKept, TypeOK, Op
<1>t. task \in [Names -> Task \cup {None}]
  BY DEF Kept, TypeOK
<1>1. ASSUME Closing(n), task[n] # None, task'[n] = None, ~TaskResumed(n) PROVE Gathering(n)'
  <2>1. op # None /\ op.kind = "close" /\ op.name = n /\ registry[n] # None
    BY <1>1 DEF Closing, Kept, SessionsKept, CloseAgrees
  <2>2. CloseStopsWorker
    BY <1>1, <2>1, TaskLeaves DEF OwnerRestarts
  <2>3. op' = [op EXCEPT !.pc = "gather"]
    BY <1>1, <2>1, <2>2 DEF CloseStopsWorker
  <2>4. op' # None
    BY <1>o, <2>1, <2>3, OpTypes DEF Kept
  <2>5. QED BY <1>o, <2>1, <2>3, <2>4 DEF Gathering, Closing, Op
<1>2. ASSUME Gathering(n) PROVE Gathering(n)' \/ (CloseGathered /\ n = op.name)
  <2>1. op # None /\ op.pc = "gather" /\ op.kind = "close" /\ op.name = n
    BY <1>2 DEF Gathering, Closing
  <2>2. op' = op \/ CloseGathered
    BY <1>o, <2>1, OpMoves DEF OpenConnected, CloseStopsWorker, CloseSeesUnitDown, OpenBegin, CloseBegin, OpenRegistered, OpenDiscarded,
       OpenFailure, CloseRemoves, CloseFails, PcFits
  <2>3. QED BY <1>2, <2>1, <2>2 DEF Gathering, Closing
<1>3. QED BY <1>1, <1>2

(* The worker of a session whose client is ready holds its thread. *)
LEMMA LoadedStep == Kept /\ Loaded /\ [Next]_vars => Loaded'
<1> SUFFICES ASSUME Kept, Loaded, [Next]_vars, NEW n \in Names, registry'[n] # None, task'[n] = None, ~Gathering(n)',
                    clients'[n] # None, conn'[clients'[n]].ready, conn'[clients'[n]].worker = registry'[n].worker
             PROVE  loaded'[registry'[n].worker] = registry'[n].thread
  BY DEF Loaded, Registered
<1> USE DEF SameSession
<1>l. loaded \in [Workers -> Threads \cup {None}]
  BY DEF Kept, TypeOK
<1>o. op # None => op.worker \in Workers /\ op.thread \in Threads /\ op.name \in Names
  BY DEF Kept, TypeOK, Op
<1>1. CASE registry[n] = None
  <2>1. OpenRegistered /\ n = op.name /\ SameSession(registry'[n], op)
    BY <1>1, RegistrySteps DEF Kept
  <2>2. QED BY <1>l, <1>o, <2>1 DEF OpenRegistered, Load
<1>2. CASE registry[n] # None
  <2>1. ~(OpenRegistered /\ n = op.name) /\ (OpenRegistered => op.worker # registry[n].worker)
    BY <1>2, <1>o DEF OpenRegistered, Kept, SessionsKept, OpenIsNew, PcFits, Registered
  <2>2. registry'[n].worker = registry[n].worker /\ registry'[n].thread = registry[n].thread
    BY <1>2, <2>1, RegistrySteps DEF Kept
  <2>3. ~OwnerRestarts
    BY DEF OwnerRestarts
  <2>4. CASE task[n] # None
    <3>1. TaskResumed(n)
      BY <1>2, <2>3, <2>4, TaskEnds, GatherSteps
    <3>2. clients[n] = task[n].client /\ conn[task[n].client].worker = task[n].worker /\ UNCHANGED <<clients, conn>>
      BY <3>1 DEF TaskResumed, Kept, ClientsKept, TaskClient, Has
    <3>3. task[n].worker = registry[n].worker
      BY <2>2, <3>2
    <3>4. InService(n)
      BY <1>2, <2>4, <3>3 DEF Kept, SessionsKept, TasksAgree, Stray
    <3>5. task[n].thread = registry[n].thread /\ task[n].worker \in Workers
      BY <2>4, <3>4 DEF InService, Kept, TypeOK, Task
    <3>6. QED BY <1>l, <2>2, <3>1, <3>3, <3>5 DEF TaskResumed, Load
  <2>5. CASE task[n] = None
    <3> DEFINE c == clients[n]
               w == registry[n].worker
    <3>1. clients' [n] = c /\ c \in Clients /\ conn[c].ready /\ conn'[c] = conn[c]
      <4>1. ~TaskConnected(n)
        BY <2>5 DEF TaskConnected
      <4>2. clients[n] # None
        <5>1. SUFFICES ASSUME clients[n] = None PROVE FALSE
          OBVIOUS
        <5>2. PICK d \in Clients : Installs(n, d)
          BY <5>1, ClientSteps DEF Kept
        <5>3. OpenConnected /\ n = op.name
          BY <4>1, <5>2 DEF Installs
        <5>4. QED BY <1>2, <5>3 DEF OpenConnected, Kept, SessionsKept, PcFits, OpenIsNew
      <4>3. clients[n] \in Clients
        BY <4>2 DEF Kept, TypeOK
      <4>4. ~Noticed(clients[n])
        BY <1>2, <4>2, LossIsNoticed
      <4>5. QED BY <1>2, <2>3, <4>1, <4>2, <4>3, <4>4, ServedSteps DEF Lost
    <3>2. ~Gathering(n)
      <4>1. SUFFICES ASSUME CloseGathered, n = op.name PROVE FALSE
        BY GatherSteps
      <4>2. op # None /\ op.worker = w /\ Selected \in Clients \cup {None} /\ conn' = WithEof(WithClosed(conn, Selected), w)
        BY <1>2, <4>1 DEF CloseGathered, StopSelected, StopUnit, Selected, Kept, SessionsKept, PcFits, CloseAgrees, TypeOK, Op
      <4> DEFINE k == WithClosed(conn, Selected)
      <4>3. k \in [Clients -> Conn] /\ conn' = WithEof(k, w)
        BY <1>o, <4>2, ConnTypes DEF Kept, TypeOK
      <4> HIDE DEF k
      <4>4. QED BY <1>o, <2>2, <3>1, <4>2, <4>3, EndEffects
    <3>3. loaded[w] = registry[n].thread /\ w \in Workers /\ conn'[c].ready /\ conn'[c].worker = w
      BY <1>2, <2>2, <2>5, <3>1, <3>2 DEF Loaded, Registered, Kept, TypeOK, Record
    <3>4. ASSUME NEW m \in Names, TaskResumed(m), task[m].worker = w PROVE FALSE
      <4>1. task[m] # None
        BY <3>4 DEF TaskResumed
      <4>2. m = n
        BY <1>2, <3>4, <4>1 DEF Kept, SessionsKept, TaskNames
      <4>3. QED BY <2>5, <4>1, <4>2
    <3>5. loaded'[w] = loaded[w]
      BY <2>1, <3>1, <3>3, <3>4, LoadedSteps
    <3>6. QED BY <2>2, <3>3, <3>5
  <2>6. QED BY <2>4, <2>5
<1>3. QED BY <1>1, <1>2

(* A session that is called ready is served. *)
LEMMA ReadyStep == Kept /\ ReadyIsServed /\ [Next]_vars => ReadyIsServed'
<1> SUFFICES ASSUME Kept, ReadyIsServed, [Next]_vars, control' = "ready", NEW n \in Names,
                    registry'[n] # None, registry'[n].state = "ready", task'[n] = None, ~Closing(n)'
             PROVE  Served(n)'
  BY DEF ReadyIsServed, Registered
<1>1. CASE registry[n] = None
  BY <1>1, OpenedIsServed, RegistrySteps DEF Kept
<1>2. CASE registry[n] # None /\ RestoreAll
  BY <1>2, RestoreServes
<1>3. CASE registry[n] # None /\ ~RestoreAll
  <2>1. control = "ready" /\ ~OwnerRestarts
    BY <1>3, ReturnSteps DEF OwnerRestarts
  <2>2. ~Closing(n)
    <3>1. SUFFICES ASSUME Closing(n) PROVE FALSE
      OBVIOUS
    <3>2. CloseFails /\ n = op.name
      BY <3>1, ClosingSteps
    <3>3. PICK s \in {"stopping", "degraded"} : registry' = WithState(registry, n, s)
      BY <3>2 DEF CloseFails
    <3>4. registry[n] \in Record /\ s \in WorkerStates /\ registry'[n] = [registry[n] EXCEPT !.state = s]
      BY <1>3, <3>3 DEF WithState, WorkerStates, Kept, TypeOK
    <3>5. registry'[n].state = s
      BY <3>4, StateChanges
    <3>6. QED BY <3>5
  <2>3. ~(OpenRegistered /\ n = op.name)
    BY <1>3 DEF OpenRegistered, Kept, SessionsKept, PcFits, OpenIsNew
  <2>4. CASE task[n] # None
    BY <1>3, <2>1, <2>2, <2>4, TaskEnds, OpenedIsServed
  <2>5. CASE task[n] = None /\ registry[n].state = "ready"
    <3>1. Served(n)
      BY <1>3, <2>1, <2>2, <2>5 DEF ReadyIsServed, Registered
    <3>2. QED BY <1>3, <2>1, <2>2, <3>1, ServiceSteps
  <2>6. CASE task[n] = None /\ registry[n].state # "ready"
    <3>1. ASSUME OpenRegistered PROVE registry'[n] = registry[n]
      BY <2>3, <3>1 DEF OpenRegistered, Kept, TypeOK
    <3>2. WorkerResponds(n)
      BY <1>3, <2>6, <3>1, ReadySteps DEF TaskResumed
    <3>3. QED BY <3>2 DEF WorkerResponds, Served
  <2>7. QED BY <2>4, <2>5, <2>6
<1>4. QED BY <1>1, <1>2, <1>3

(* A session that is called ready has a client, connected to a worker that *)
(* holds its thread, or the handler of its loss is still to run.           *)
THEOREM ReadyMeansUsable == Spec => []ReadyIsUsable
<1>1. Init => Loaded /\ ReadyIsServed
  BY DEF Init, Loaded, ReadyIsServed, Registered
<1>2. Kept /\ Loaded /\ ReadyIsServed => ReadyIsUsable
  BY DEF Kept, ClientsKept, ClientsFit, Loaded, Gathering, ReadyIsServed, Served, ReadyIsUsable, Usurped
<1>3. QED BY <1>1, <1>2, AlwaysKept, LoadedStep, ReadyStep, PTL DEF Spec

=============================================================================
