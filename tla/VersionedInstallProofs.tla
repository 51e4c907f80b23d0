----------------------- MODULE VersionedInstallProofs -----------------------
(***************************************************************************)
(* For any versions and any number of commands, failed steps, kills and    *)
(* reboots: a command that fails leaves what it found, only complete       *)
(* versions are linked or run, no switch cuts a turn it has seen, and one  *)
(* kind of service has the thread of a session.                            *)
(***************************************************************************)
EXTENDS VersionedInstall, TLAPS

USE VersionsAssumption, BoundsAssumption

-----------------------------------------------------------------------------
(* Types.                                                                  *)

(* A command that goes on is still a command. *)
LEMMA GotoType == ASSUME TypeOK, NEW pc \in Pcs, Goto(pc) PROVE cmd' \in Commands
BY DEF Goto, Commands, TypeOK

(* So is one that begins. *)
LEMMA BeginType ==
    ASSUME NEW I \in Commands, NEW kind \in {"none", "install", "update", "rollback"}, NEW v \in Versions \cup {None},
           NEW pc \in Pcs, NEW noStart \in BOOLEAN, NEW migrate \in BOOLEAN
    PROVE  [I EXCEPT !.kind = kind, !.v = v, !.noStart = noStart, !.migrate = migrate, !.pc = pc] \in Commands
BY DEF Commands

(* A command that checks notes the shape, the Owner of old and the units. *)
LEMMA NoteType ==
    ASSUME NEW I \in Commands, NEW change \in Changes, NEW old \in BOOLEAN, NEW files \in UnitFiles
    PROVE  [I EXCEPT !.pc = "units", !.change = change, !.legacy = old, !.old.units = files] \in Commands
BY DEF Commands, Pcs

(* The way back may be left half done. *)
LEMMA TornType == ASSUME NEW I \in Commands PROVE [I EXCEPT !.pc = "undoApp", !.torn = TRUE] \in Commands
BY DEF Commands, Pcs

(* So may a command that fails where nothing takes back what it did. *)
LEMMA LeavesType == TypeOK /\ Leaves => cmd' \in Commands
BY DEF TypeOK, Leaves, Commands, Pcs

(* A step that fails spends one fault of the budget. *)
LEMMA FaultType == TypeOK /\ Fault => counts' \in Counts
BY DEF Fault, TypeOK, Counts

(* A command that has not begun. *)
LEMMA IdleType == TypeOK => Idle \in Commands
BY DEF TypeOK, Idle, Old, Commands, Pcs, Changes

(* Install, update and rollback begin a command. *)
LEMMA CommandType ==
    ASSUME TypeOK, NEW kind \in {"install", "update", "rollback"}, NEW v \in Versions, NEW noStart \in BOOLEAN,
           NEW migrate \in BOOLEAN, NEW pc \in {"prepare", "fetch", "mark"}, Command(kind, v, noStart, migrate, pc)
    PROVE  TypeOK'
<1>1. pc \in Pcs /\ kind \in {"none", "install", "update", "rollback"} /\ v \in Versions \cup {None} /\ Idle \in Commands
  BY IdleType DEF Pcs
<1>2. cmd' \in Commands
  BY <1>1, BeginType DEF Command
<1>3. counts' \in Counts
  BY DEF Command, TypeOK, Counts
<1>4. QED BY <1>2, <1>3 DEF Command, TypeOK, program, links, services, work, Counts

(* Every step of a command, and every step beside one, gives a command. *)
LEMMA CommandsStay == TypeOK /\ [Next]_vars => cmd' \in Commands
<1> SUFFICES ASSUME TypeOK, [Next]_vars PROVE cmd' \in Commands
  OBVIOUS
<1>c. cmd \in Commands /\ Idle \in Commands
  BY IdleType DEF TypeOK
<1>1. ASSUME NEW pc \in Pcs, Goto(pc) PROVE cmd' \in Commands
  BY <1>1, GotoType
<1>2. CASE Prepares
  <2>1. CASE Install \/ Update \/ Rollback
    BY <2>1, CommandType DEF Install, Update, Rollback, TypeOK
  <2>2. CASE Fetches \/ Unpacks \/ Prepare \/ Builds \/ BuildFails \/ Configures \/ ConfigureFails \/ UndoesConfig
    BY <2>2, <1>1, LeavesType DEF Fetches, Unpacks, Prepare, Builds, BuildFails, Configures, ConfigureFails, UndoesConfig, Pcs
  <2>3. QED BY <1>2, <2>1, <2>2 DEF Prepares
<1>3. CASE Activates
  BY <1>3, <1>1, LeavesType DEF Activates, MarksPrevious, Switches, Links, ActivationFails, SetsPython, Pcs
<1>4. CASE Installs
  <2>1. CASE Checks
    <3>1. Change \in Changes
      BY DEF Change, Changes
    <3>2. QED BY <2>1, <3>1, <1>c, NoteType DEF Checks, TypeOK
  <2>2. CASE UnitsTorn
    BY <2>2, <1>c, TornType DEF UnitsTorn
  <2>3. CASE WritesUnits
    BY <2>3, <1>1 DEF WritesUnits, Pcs, TypeOK, Commands
  <2>4. CASE Refuses \/ StopsOwner \/ StartsOwner \/ Migrates \/ MigrationFails \/ Enables \/ Healthy \/ PanesChanged
    BY <2>4, <1>1 DEF Refuses, StopsOwner, StartsOwner, Migrates, MigrationFails, Enables, Healthy, PanesChanged, Pcs
  <2>5. CASE StartsAppserver \/ StepFails
    BY <2>5, <1>1 DEF StartsAppserver, StepFails, Pcs
  <2>6. QED BY <1>4, <2>1, <2>2, <2>3, <2>4, <2>5 DEF Installs
<1>5. CASE Undoes
  <2>1. CASE UndoFails
    BY <2>1, <1>c, TornType DEF UndoFails
  <2>2. CASE Disables \/ RestoresUnits \/ Revives \/ RestoresApplication
    BY <2>2, <1>1, LeavesType DEF Disables, RestoresUnits, Revives, RestoresApplication, RestoresConfig, RestoresLink, RestoresBin, RestoresMarker, RestoreFails, Pcs
  <2>3. QED BY <1>5, <2>1, <2>2 DEF Undoes
<1>6. CASE Operates \/ Killed \/ Reboots
  BY <1>6, <1>c DEF Operates, StartsFaryo, StopsFaryo, Uninstalls, ServiceOp, Killed, Reboots
<1>7. CASE Sessions \/ UNCHANGED vars
  BY <1>7, <1>c DEF Sessions, SessionStarts, TurnStarts, TurnEnds, vars
<1>8. QED BY <1>2, <1>3, <1>4, <1>5, <1>6, <1>7 DEF Next

(* Every step keeps the types. *)
LEMMA TypeStep == TypeOK /\ [Next]_vars => TypeOK'
<1> SUFFICES ASSUME TypeOK, [Next]_vars PROVE TypeOK'
  OBVIOUS
<1>c. cmd' \in Commands /\ cmd.v \in Versions \cup {None} /\ cmd.old.units \in UnitFiles
         /\ cmd.old.current \in Versions \cup {None} /\ cmd.old.marker \in Versions \cup {None}
         /\ cmd.old.env \in Versions \cup {None, "other"}
  BY CommandsStay DEF TypeOK, Commands
<1>f. Fault => counts' \in Counts
  BY FaultType
<1> USE DEF program, links, services, work
<1>1. CASE Prepares
  <2>1. CASE Install
    BY <2>1, CommandType DEF Install
  <2>2. CASE Update
    BY <2>2, CommandType DEF Update
  <2>3. CASE Rollback
    BY <2>3, CommandType DEF Rollback, TypeOK
  <2>4. CASE Fetches \/ Unpacks \/ ConfigureFails \/ UndoesConfig
    BY <2>4, <1>c, <1>f DEF Fetches, Unpacks, ConfigureFails, UndoesConfig, TypeOK, Counts
  <2>5. CASE Prepare \/ Builds
    <3>1. dir' \in [Versions -> {"absent", "partial", "broken", "healthy"}]
      BY <2>5 DEF Prepare, Builds, TypeOK
    <3>2. QED BY <2>5, <3>1, <1>c DEF Prepare, Builds, TypeOK
  <2>6. CASE BuildFails
    <3>1. dir' \in [Versions -> {"absent", "partial", "broken", "healthy"}]
      BY <2>6 DEF BuildFails, TypeOK
    <3>2. QED BY <2>6, <3>1, <1>c, <1>f DEF BuildFails, TypeOK, Counts
  <2>7. CASE Configures
    BY <2>7, <1>c DEF Configures, TypeOK
  <2>8. QED BY <1>1, <2>1, <2>2, <2>3, <2>4, <2>5, <2>6, <2>7 DEF Prepares
<1>2. CASE Activates
  <2>1. CASE ActivationFails
    BY <2>1, <1>c, <1>f DEF ActivationFails, TypeOK, Counts
  <2>2. CASE MarksPrevious \/ Switches \/ SetsPython
    <3>1. bin' = bin
      BY <2>2 DEF MarksPrevious, Switches, SetsPython
    <3>2. QED BY <2>2, <3>1, <1>c DEF MarksPrevious, Switches, SetsPython, TypeOK
  <2>3. CASE Links
    <3>1. bin' \in BOOLEAN
      BY <2>3 DEF Links
    <3>2. QED BY <2>3, <3>1, <1>c DEF Links, TypeOK
  <2>4. QED BY <1>2, <2>1, <2>2, <2>3 DEF Activates
<1>3. CASE Installs
  <2>1. CASE Checks \/ Refuses \/ PanesChanged \/ StepFails
    BY <2>1, <1>c, <1>f DEF Checks, Refuses, PanesChanged, StepFails, TypeOK, Counts
  <2>2. CASE WritesUnits
    <3>1. units' \in UnitFiles
      BY <2>2, <1>c DEF WritesUnits, UnitFiles, TypeOK
    <3>2. QED BY <2>2, <3>1, <1>c DEF WritesUnits, TypeOK, Commands
  <2>3. CASE UnitsTorn
    <3>1. units' \in UnitFiles
      BY <2>3, <1>c DEF UnitsTorn, UnitFiles, TypeOK
    <3>2. QED BY <2>3, <3>1, <1>c, <1>f DEF UnitsTorn, TypeOK, Counts
  <2>4. CASE StopsOwner \/ StartsAppserver
    <3>1. svc' \in [Services -> Versions \cup {None}]
      BY <2>4 DEF StopsOwner, StartsAppserver, UnitFiles, Units, TypeOK
    <3>2. /\ schema' \in {1, 2} /\ turn' \in {None, "shared", "worker"}
          /\ workers' \in BOOLEAN /\ holds' \in BOOLEAN
      BY <2>4 DEF StopsOwner, StartsAppserver, Rewrites, TypeOK
    <3>3. QED BY <2>4, <3>1, <3>2, <1>c DEF StopsOwner, StartsAppserver, TypeOK
  <2>5. CASE StartsOwner \/ Migrates
    <3>1. svc' \in [Services -> Versions \cup {None}]
      BY <2>5 DEF StartsOwner, Migrates, UnitFiles, Units, TypeOK
    <3>2. schema' \in {1, 2} /\ workers' \in BOOLEAN
      BY <2>5 DEF StartsOwner, Migrates, OwnerLoads, TypeOK
    <3>3. legacy' \in BOOLEAN /\ enabled' \subseteq Services
      BY <2>5 DEF StartsOwner, Migrates, Services, TypeOK
    <3>4. QED BY <2>5, <3>1, <3>2, <3>3, <1>c DEF StartsOwner, Migrates, TypeOK
  <2>6. CASE MigrationFails
    <3>1. svc' \in [Services -> Versions \cup {None}]
      BY <2>6 DEF MigrationFails, TypeOK
    <3>2. QED BY <2>6, <3>1, <1>c, <1>f DEF MigrationFails, OwnerLoads, TypeOK, Counts
  <2>7. CASE Enables
    <3>1. svc' \in [Services -> Versions \cup {None}]
      BY <2>7 DEF Enables, UnitFiles, Units, TypeOK
    <3>2. QED BY <2>7, <3>1, <1>c DEF Enables, TypeOK
  <2>8. CASE Healthy
    <3>1. units' \in UnitFiles
      BY <2>8 DEF Healthy, UnitFiles, TypeOK
    <3>2. QED BY <2>8, <3>1, <1>c DEF Healthy, TypeOK
  <2>9. QED BY <1>3, <2>1, <2>2, <2>3, <2>4, <2>5, <2>6, <2>7, <2>8 DEF Installs
<1>4. CASE Undoes
  <2>1. CASE Disables
    <3>1. svc' \in [Services -> Versions \cup {None}]
      BY <2>1 DEF Disables
    <3>2. QED BY <2>1, <3>1, <1>c DEF Disables, Rewrites, TypeOK
  <2>2. CASE RestoresUnits
    BY <2>2, <1>c DEF RestoresUnits, TypeOK
  <2>3. CASE Revives
    <3>1. svc' \in [Services -> Versions \cup {None}]
      BY <2>3 DEF Revives, UnitFiles, Units, TypeOK
    <3>2. counts' \in Counts
      BY <2>3, <1>f DEF Revives, TypeOK, Counts
    <3>3. schema' \in {1, 2} /\ workers' \in BOOLEAN
      BY <2>3 DEF Revives, OwnerLoads, TypeOK
    <3>4. legacy' \in BOOLEAN
      BY <2>3 DEF Revives, TypeOK, Commands
    <3>5. QED BY <2>3, <3>1, <3>2, <3>3, <3>4, <1>c DEF Revives, TypeOK, Counts
  <2>4. CASE UndoFails
    BY <2>4, <1>c, <1>f DEF UndoFails, TypeOK, Counts
  <2>5. CASE RestoresApplication
    <3>1. CASE RestoreFails
      BY <3>1, <1>c, <1>f DEF RestoreFails, TypeOK, Counts
    <3>2. CASE RestoresConfig \/ RestoresLink
      BY <3>2, <1>c DEF RestoresConfig, RestoresLink, RestoredLink, TypeOK
    <3>3. CASE RestoresMarker
      BY <3>3, <1>c DEF RestoresMarker, TypeOK
    <3>4. CASE RestoresBin
      <4>1. bin' \in BOOLEAN
        BY <3>4 DEF RestoresBin
      <4>2. QED BY <3>4, <4>1, <1>c DEF RestoresBin, TypeOK
    <3>5. QED BY <2>5, <3>1, <3>2, <3>3, <3>4 DEF RestoresApplication
  <2>6. QED BY <1>4, <2>1, <2>2, <2>3, <2>4, <2>5 DEF Undoes
<1>5. CASE Operates
  <2>1. ServiceOp => counts' \in Counts
    BY DEF ServiceOp, TypeOK, Counts
  <2>2. ASSUME NEW restart \in BOOLEAN, StartsFaryo(restart) PROVE TypeOK'
    <3>1. svc' \in [Services -> Versions \cup {None}]
      BY <2>2 DEF StartsFaryo, UnitFiles, Units, TypeOK
    <3>2. schema' \in {1, 2} /\ workers' \in BOOLEAN
      BY <2>2 DEF StartsFaryo, OwnerLoads, TypeOK
    <3>3. QED BY <2>1, <2>2, <3>1, <3>2, <1>c DEF StartsFaryo, TypeOK, Counts
  <2>3. CASE StopsFaryo
    BY <2>1, <2>3, <1>c DEF StopsFaryo, TypeOK, Counts
  <2>4. CASE Uninstalls
    BY <2>1, <2>4, <1>c DEF Uninstalls, UnitFiles, TypeOK, Counts
  <2>5. QED BY <1>5, <2>2, <2>3, <2>4 DEF Operates
<1>6. CASE Killed
  BY <1>6, <1>c, <1>f DEF Killed, TypeOK, Counts
<1>7. CASE Reboots
  <2>1. svc' \in [Services -> Versions \cup {None}]
    BY <1>7 DEF Reboots, UnitFiles, Units, TypeOK
  <2>2. QED BY <1>7, <2>1, <1>c, <1>f DEF Reboots, TypeOK, Counts
<1>8. CASE Sessions
  <2>1. CASE SessionStarts
    BY <2>1, <1>c DEF SessionStarts, Late, TypeOK
  <2>2. CASE TurnStarts
    BY <2>2, <1>c DEF TurnStarts, Late, TypeOK
  <2>3. CASE TurnEnds
    BY <2>3, <1>c DEF TurnEnds, TypeOK
  <2>4. QED BY <1>8, <2>1, <2>2, <2>3 DEF Sessions
<1>9. CASE UNCHANGED vars
  BY <1>9 DEF vars, TypeOK
<1>10. QED BY <1>1, <1>2, <1>3, <1>4, <1>5, <1>6, <1>7, <1>8, <1>9 DEF Next

(* Every variable keeps its type. *)
THEOREM TypeCorrect == Spec => []TypeOK
<1>1. Init => TypeOK
  <2> SUFFICES ASSUME Init PROVE TypeOK
    OBVIOUS
  <2>1. /\ dir \in [Versions -> {"absent", "partial", "broken", "healthy"}]
        /\ current \in Versions \cup {None} /\ marker \in Versions \cup {None}
        /\ env \in Versions \cup {None, "other"}
        /\ units \in UnitFiles /\ enabled \subseteq Services
        /\ svc \in [Services -> Versions \cup {None}]
        /\ legacy \in BOOLEAN
    BY DEF Init, UnitFiles
  <2>2. cmd \in Commands
    BY <2>1 DEF Init, Idle, Old, Commands, Pcs, Changes
  <2>3. counts \in Counts
    BY DEF Init, Counts
  <2>4. schema \in {1, 2} /\ turn \in {None, "shared", "worker"}
    BY DEF Init
  <2>5. QED BY <2>1, <2>2, <2>3, <2>4 DEF Init, TypeOK
<1>2. QED BY <1>1, TypeStep, PTL DEF Spec

-----------------------------------------------------------------------------
(* A command that fails.  What it found stays until the units are checked, *)
(* and the links and the configuration until it activates the version; on  *)
(* the way back the units are those it found, or it is torn, and what has  *)
(* been restored is as it was.                                             *)

Early == {"fetch", "unpack", "prepare", "build", "config"}
Activation == {"mark", "switch", "link", "python", "check"}
Restoring == {"undoLink", "undoBin", "undoMarker"}

CommandKeeps ==
    /\ cmd.pc \in Early => current = cmd.old.current /\ env = cmd.old.env /\ marker = cmd.old.marker
    /\ cmd.pc = "undoConfig" => current = cmd.old.current /\ marker = cmd.old.marker
    /\ cmd.pc \in Restoring => env = cmd.old.env
    /\ cmd.pc \in Restoring \ {"undoLink"} => current = cmd.old.current
    /\ cmd.pc \in Early \cup Activation \cup Restoring \cup {"undoConfig", "revive", "undoApp"}
           => cmd.torn \/ units = cmd.old.units
    /\ FailedSwitchesRestore

(* Every step keeps what the way back needs. *)
LEMMA KeepsStep == TypeOK /\ CommandKeeps /\ [Next]_vars => CommandKeeps'
<1> SUFFICES ASSUME TypeOK, CommandKeeps, [Next]_vars PROVE CommandKeeps'
  OBVIOUS
<1> USE DEF program, links, services, work, CommandKeeps, FailedSwitchesRestore, Ended, Early, Activation, Restoring
<1>t. cmd \in Commands
  BY DEF TypeOK
<1>g. ASSUME NEW pc \in Pcs, Goto(pc)
      PROVE  /\ cmd'.pc = pc /\ cmd'.old = cmd.old /\ cmd'.torn = cmd.torn
             /\ cmd'.left = cmd.left /\ cmd'.kind = cmd.kind
  BY <1>t, <1>g DEF Goto, Commands
<1>l. Leaves => cmd'.pc = "failed" /\ cmd'.old = cmd.old /\ cmd'.torn = cmd.torn /\ cmd'.left
  BY <1>t DEF Leaves, Commands
<1>p. ASSUME NEW pc \in {"prepare", "fetch", "mark"}, NEW kind, NEW v, NEW noStart, NEW migrate,
             Command(kind, v, noStart, migrate, pc)
      PROVE  CommandKeeps'
  BY <1>p DEF Command, Idle, Old
<1>1. CASE Prepares
  <2>1. CASE Install \/ Update \/ Rollback
    BY <2>1, <1>p DEF Install, Update, Rollback
  <2>2. CASE Fetches \/ Unpacks
    BY <2>2, <1>g DEF Fetches, Unpacks, Pcs
  <2>3. CASE Prepare \/ Builds \/ BuildFails
    BY <2>3, <1>g DEF Prepare, Builds, BuildFails, Pcs
  <2>4. CASE Configures \/ ConfigureFails \/ UndoesConfig
    BY <2>4, <1>g, <1>l DEF Configures, ConfigureFails, UndoesConfig, Pcs
  <2>5. QED BY <1>1, <2>1, <2>2, <2>3, <2>4 DEF Prepares
<1>2. CASE Activates
  BY <1>2, <1>g, <1>l DEF Activates, MarksPrevious, Switches, Links, ActivationFails, SetsPython, Pcs
<1>3. CASE Installs
  <2>1. CASE Checks
    BY <2>1, <1>t DEF Checks, Commands
  <2>2. CASE Refuses
    BY <2>2, <1>g DEF Refuses, Pcs
  <2>3. CASE WritesUnits
    <3>1. cmd'.pc \in {"done", "appserver", "stop"}
      BY <2>3, <1>t DEF WritesUnits, Goto, Commands
    <3>2. QED BY <3>1
  <2>4. CASE UnitsTorn
    BY <2>4, <1>t DEF UnitsTorn, Commands
  <2>5. CASE StopsOwner \/ StartsAppserver \/ StartsOwner
    BY <2>5, <1>g DEF StopsOwner, StartsAppserver, StartsOwner, Pcs
  <2>6. CASE Migrates \/ MigrationFails \/ Enables \/ Healthy \/ PanesChanged
    BY <2>6, <1>g DEF Migrates, MigrationFails, Enables, Healthy, PanesChanged, Pcs
  <2>7. CASE StepFails
    BY <2>7, <1>g DEF StepFails, Pcs
  <2>8. QED BY <1>3, <2>1, <2>2, <2>3, <2>4, <2>5, <2>6, <2>7 DEF Installs
<1>4. CASE Undoes
  <2>1. CASE Disables \/ RestoresUnits
    BY <2>1, <1>g DEF Disables, RestoresUnits, Pcs
  <2>2. CASE Revives
    BY <2>2, <1>g DEF Revives, Pcs
  <2>3. CASE UndoFails
    BY <2>3, <1>t DEF UndoFails, Commands
  <2>4. CASE RestoresApplication
    <3>1. CASE RestoreFails
      BY <3>1, <1>l DEF RestoreFails
    <3>2. CASE RestoresConfig \/ RestoresLink \/ RestoresMarker
      BY <3>2, <1>g DEF RestoresConfig, RestoresLink, RestoresMarker, RestoredLink, Pcs
    <3>3. CASE RestoresBin
      <4>1. CASE cmd.kind = "rollback"
        BY <3>3, <4>1, <1>g DEF RestoresBin, Pcs
      <4>2. CASE cmd.kind # "rollback"
        BY <3>3, <4>2, <1>g DEF RestoresBin, Pcs
      <4>3. QED BY <4>1, <4>2
    <3>4. QED BY <2>4, <3>1, <3>2, <3>3 DEF RestoresApplication
  <2>5. QED BY <1>4, <2>1, <2>2, <2>3, <2>4 DEF Undoes
<1>5. CASE Operates \/ Killed \/ Reboots
  BY <1>5 DEF Operates, StartsFaryo, StopsFaryo, Uninstalls, ServiceOp, Killed, Reboots, Idle
<1>6. CASE Sessions \/ UNCHANGED vars
  BY <1>6 DEF Sessions, SessionStarts, TurnStarts, TurnEnds, vars
<1>7. QED BY <1>1, <1>2, <1>3, <1>4, <1>5, <1>6 DEF Next

(* A command that ends with an error outside activate_version leaves what  *)
(* it found, unless its way back fails too.                                *)
THEOREM FailuresRestore == Spec => []FailedSwitchesRestore
<1>1. Init => CommandKeeps
  BY DEF Init, CommandKeeps, FailedSwitchesRestore, Idle, Early, Activation, Restoring
<1>2. CommandKeeps => FailedSwitchesRestore
  BY DEF CommandKeeps
<1>3. QED BY <1>1, <1>2, KeepsStep, TypeCorrect, PTL DEF Spec

-----------------------------------------------------------------------------
(* Complete versions.  A command builds only a directory that was absent,  *)
(* and it activates and goes back to versions that are complete.           *)

Complete(v) == v # None => dir[v] = "healthy"

CompleteVersions ==
    /\ OnlyCompleteVersionsRun
    /\ cmd.pc \notin Ended => /\ cmd.v \in Versions
                              /\ Complete(cmd.old.current)
                              /\ \A u \in Units : Complete(cmd.old.units[u])
    /\ cmd.pc = "build" => dir[cmd.v] = "partial"
    /\ cmd.pc \notin Ended \cup {"fetch", "unpack", "prepare", "build"} => dir[cmd.v] = "healthy"

(* The same about each link, unit and service. *)
LEMMA OnlyComplete ==
    OnlyCompleteVersionsRun <=>
        /\ Complete(current)
        /\ \A u \in Units : Complete(units[u])
        /\ \A s \in Services : Complete(svc[s])
BY DEF OnlyCompleteVersionsRun, Complete

(* Primed. *)
LEMMA OnlyCompleteNext ==
    OnlyCompleteVersionsRun' <=>
        /\ Complete(current)'
        /\ \A u \in Units : Complete(units[u])'
        /\ \A s \in Services : Complete(svc[s])'
BY DEF OnlyCompleteVersionsRun, Complete

(* Every step keeps them complete. *)
LEMMA CompleteStep == TypeOK /\ CompleteVersions /\ [Next]_vars => CompleteVersions'
<1> SUFFICES ASSUME TypeOK, CompleteVersions, [Next]_vars PROVE CompleteVersions'
  OBVIOUS
<1> USE DEF program, links, services, work, Ended
<1>t. cmd \in Commands
  BY DEF TypeOK
<1>c. /\ Complete(current)
      /\ \A u \in Units : Complete(units[u])
      /\ \A s \in Services : Complete(svc[s])
  BY OnlyComplete DEF CompleteVersions
<1>g. ASSUME NEW pc \in Pcs, Goto(pc)
      PROVE  cmd'.pc = pc /\ cmd'.v = cmd.v /\ cmd'.old = cmd.old
  BY <1>t, <1>g DEF Goto, Commands
<1>l. Leaves => cmd'.pc = "failed" /\ cmd'.v = cmd.v /\ cmd'.old = cmd.old
  BY <1>t DEF Leaves, Commands
<1>o. ASSUME cmd'.pc \in Ended \cup {"stop", "appserver", "migrate", "owner", "enable", "health", "undo", "restore", "revive",
                              "undoApp", "undoLink", "undoBin", "undoMarker"},
             cmd.pc \notin Ended \cup {"fetch", "unpack", "prepare", "build"},
             cmd'.v = cmd.v, cmd'.old = cmd.old, dir' = dir,
             Complete(current)', \A u \in Units : Complete(units[u])', \A s \in Services : Complete(svc[s])'
      PROVE  CompleteVersions'
  BY <1>o, OnlyCompleteNext DEF CompleteVersions, Complete
<1>1. CASE Prepares
  <2>1. ASSUME NEW pc \in {"prepare", "fetch", "mark"}, NEW kind, NEW v \in Versions, NEW noStart, NEW migrate,
               pc = "mark" => dir[v] = "healthy", Command(kind, v, noStart, migrate, pc)
        PROVE  CompleteVersions'
    BY <2>1, <1>c, OnlyCompleteNext DEF Command, Idle, Old, CompleteVersions, Complete
  <2>2. CASE Install \/ Update
    BY <2>2, <2>1 DEF Install, Update
  <2>3. CASE Rollback
    BY <2>3, <2>1 DEF Rollback, PreparedIsHealthy, TypeOK
  <2>4. CASE Fetches \/ Unpacks
    BY <2>4, <1>c, <1>g, OnlyCompleteNext DEF Fetches, Unpacks, Pcs, CompleteVersions, Complete
  <2>5. CASE Prepare
    <3>1. CASE UNCHANGED dir /\ (Goto("failed") \/ (PreparedIsHealthy(cmd.v) /\ Goto("config")))
      <4>1. OnlyCompleteVersionsRun'
        BY <2>5, <3>1, <1>c, OnlyCompleteNext DEF Prepare, Complete
      <4>2. cmd'.v = cmd.v /\ cmd'.old = cmd.old
        BY <3>1, <1>g DEF Pcs
      <4>3. CASE Goto("failed")
        BY <4>1, <4>3, <1>g DEF Pcs, CompleteVersions
      <4>4. CASE PreparedIsHealthy(cmd.v) /\ Goto("config")
        BY <2>5, <3>1, <4>1, <4>2, <4>4, <1>g DEF Prepare, Pcs, PreparedIsHealthy, CompleteVersions, Complete
      <4>5. QED BY <3>1, <4>3, <4>4
    <3>2. CASE dir[cmd.v] = "absent" /\ Goto("build") /\ dir' = [dir EXCEPT ![cmd.v] = "partial"]
      <4>1. \A v : v \in Versions \cup {None} /\ Complete(v) => Complete(v)'
        BY <3>2 DEF Complete, TypeOK
      <4>2. cmd'.pc = "build" /\ cmd'.v = cmd.v /\ cmd'.old = cmd.old
        BY <3>2, <1>g DEF Pcs
      <4>3. cmd.v \in Versions /\ dir'[cmd.v] = "partial"
        BY <2>5, <3>2 DEF Prepare, CompleteVersions, TypeOK
      <4>4. /\ Complete(current)'
            /\ \A u \in Units : Complete(units[u])'
            /\ \A s \in Services : Complete(svc[s])'
        BY <2>5, <4>1, <1>c DEF Prepare, TypeOK, UnitFiles, Complete
      <4>5. /\ Complete(cmd.old.current) /\ cmd.old.current \in Versions \cup {None}
            /\ \A u \in Units : Complete(cmd.old.units[u]) /\ cmd.old.units[u] \in Versions \cup {None}
        BY <2>5, <1>t DEF Prepare, CompleteVersions, Commands, UnitFiles
      <4>6. Complete(cmd.old.current)' /\ \A u \in Units : Complete(cmd.old.units[u])'
        BY <4>1, <4>2, <4>5 DEF Complete
      <4>7. QED BY <4>2, <4>3, <4>4, <4>6, OnlyCompleteNext DEF CompleteVersions
    <3>3. \/ UNCHANGED dir /\ (Goto("failed") \/ (PreparedIsHealthy(cmd.v) /\ Goto("config")))
          \/ dir[cmd.v] = "absent" /\ Goto("build") /\ dir' = [dir EXCEPT ![cmd.v] = "partial"]
      BY <2>5 DEF Prepare
    <3>4. QED BY <3>1, <3>2, <3>3
  <2>6. CASE Builds \/ BuildFails
    <3>1. dir[cmd.v] = "partial" /\ cmd.v \in Versions
      BY <2>6 DEF Builds, BuildFails, CompleteVersions
    <3>2. \A v : v \in Versions \cup {None} /\ Complete(v) => Complete(v)'
      BY <2>6, <3>1 DEF Builds, BuildFails, Complete, TypeOK
    <3>3. /\ Complete(current)'
          /\ \A u \in Units : Complete(units[u])'
          /\ \A s \in Services : Complete(svc[s])'
      BY <2>6, <3>2, <1>c DEF Builds, BuildFails, TypeOK, UnitFiles, Complete
    <3>4. CASE BuildFails
      BY <3>4, <3>3, <1>g, OnlyCompleteNext DEF BuildFails, Pcs, CompleteVersions
    <3>5. CASE Builds
      <4>1. cmd'.pc = "config" /\ cmd'.v = cmd.v /\ cmd'.old = cmd.old /\ dir'[cmd.v] = "healthy"
        BY <3>1, <3>5, <1>g DEF Builds, Pcs, TypeOK
      <4>2. /\ Complete(cmd.old.current) /\ cmd.old.current \in Versions \cup {None}
            /\ \A u \in Units : Complete(cmd.old.units[u]) /\ cmd.old.units[u] \in Versions \cup {None}
        BY <3>5, <1>t DEF Builds, CompleteVersions, Commands, UnitFiles
      <4>3. Complete(cmd.old.current)' /\ \A u \in Units : Complete(cmd.old.units[u])'
        BY <3>2, <4>1, <4>2 DEF Complete
      <4>4. QED BY <3>1, <3>3, <4>1, <4>3, OnlyCompleteNext DEF CompleteVersions
    <3>6. QED BY <2>6, <3>4, <3>5
  <2>7. CASE Configures \/ ConfigureFails \/ UndoesConfig
    BY <2>7, <1>c, <1>g, <1>l, OnlyCompleteNext DEF Configures, ConfigureFails, UndoesConfig, Pcs, CompleteVersions, Complete
  <2>8. QED BY <1>1, <2>2, <2>3, <2>4, <2>5, <2>6, <2>7 DEF Prepares
<1>2. CASE Activates
  BY <1>2, <1>c, <1>g, <1>l, OnlyCompleteNext DEF Activates, MarksPrevious, Switches, Links, ActivationFails, SetsPython, Pcs, CompleteVersions, Complete
<1>3. CASE Installs
  <2>1. CASE Checks
    <3>1. cmd'.pc = "units" /\ cmd'.v = cmd.v /\ cmd'.old.current = cmd.old.current /\ cmd'.old.units = units
      BY <2>1, <1>t DEF Checks, Commands
    <3>2. QED BY <2>1, <3>1, <1>c, OnlyCompleteNext DEF Checks, CompleteVersions, Complete
  <2>2. CASE WritesUnits
    <3>1. cmd'.pc \in {"done", "appserver", "stop"} /\ cmd'.v = cmd.v /\ cmd'.old = cmd.old
      BY <2>2, <1>t DEF WritesUnits, Goto, Commands
    <3>2. \A u \in Units : Complete(units[u])'
      BY <2>2, <1>c DEF WritesUnits, CompleteVersions, Complete
    <3>3. Complete(current)' /\ \A s \in Services : Complete(svc[s])'
      BY <2>2, <1>c DEF WritesUnits, Complete
    <3>4. QED BY <2>2, <3>1, <3>2, <3>3, <1>o DEF WritesUnits
  <2>3. CASE UnitsTorn
    <3>1. cmd'.pc = "undoApp" /\ cmd'.v = cmd.v /\ cmd'.old = cmd.old
      BY <2>3, <1>t DEF UnitsTorn, Commands
    <3>2. \A u \in Units : Complete(units[u])'
      BY <2>3, <1>c DEF UnitsTorn, CompleteVersions, Complete
    <3>3. Complete(current)' /\ \A s \in Services : Complete(svc[s])'
      BY <2>3, <1>c DEF UnitsTorn, Complete
    <3>4. QED BY <2>3, <3>1, <3>2, <3>3, <1>o DEF UnitsTorn
  <2>4. CASE Refuses \/ PanesChanged \/ StepFails
    BY <2>4, <1>c, <1>g, OnlyCompleteNext DEF Refuses, PanesChanged, StepFails, Pcs, CompleteVersions, Complete
  <2>5. CASE StopsOwner \/ StartsAppserver \/ StartsOwner \/ Migrates \/ MigrationFails \/ Enables
    <3>1. /\ cmd'.pc \in {"appserver", "migrate", "owner", "enable", "health", "undo"}
          /\ cmd'.v = cmd.v /\ cmd'.old = cmd.old
      BY <2>5, <1>g DEF StopsOwner, StartsAppserver, StartsOwner, Migrates, MigrationFails, Enables, Pcs
    <3>2. \A s \in Services : Complete(svc[s])'
      BY <2>5, <1>c DEF StopsOwner, StartsAppserver, StartsOwner, Migrates, MigrationFails, Enables, TypeOK, Complete, Units
    <3>3. Complete(current)' /\ \A u \in Units : Complete(units[u])'
      BY <2>5, <1>c DEF StopsOwner, StartsAppserver, StartsOwner, Migrates, MigrationFails, Enables, Complete
    <3>4. dir' = dir /\ cmd.pc \notin Ended \cup {"fetch", "unpack", "prepare", "build"}
      BY <2>5 DEF StopsOwner, StartsAppserver, StartsOwner, Migrates, MigrationFails, Enables
    <3>5. QED BY <3>1, <3>2, <3>3, <3>4, <1>o
  <2>6. CASE Healthy
    <3>1. cmd'.pc = "done" /\ cmd'.v = cmd.v /\ cmd'.old = cmd.old
      BY <2>6, <1>g DEF Healthy, Pcs
    <3>2. \A u \in Units : Complete(units[u])'
      BY <2>6, <1>c DEF Healthy, TypeOK, UnitFiles, Complete
    <3>3. Complete(current)' /\ \A s \in Services : Complete(svc[s])'
      BY <2>6, <1>c DEF Healthy, Complete
    <3>4. QED BY <2>6, <3>1, <3>2, <3>3, <1>o DEF Healthy
  <2>7. QED BY <1>3, <2>1, <2>2, <2>3, <2>4, <2>5, <2>6 DEF Installs
<1>4. CASE Undoes
  <2>1. /\ cmd'.pc \in {"restore", "revive", "undoApp", "undoLink", "undoBin", "undoMarker", "failed"}
        /\ cmd'.v = cmd.v /\ cmd'.old = cmd.old
    <3>1. CASE UndoFails
      BY <3>1, <1>t DEF UndoFails, Commands
    <3>2. CASE Disables \/ RestoresUnits \/ Revives \/ RestoresApplication
      BY <3>2, <1>g, <1>l DEF Disables, RestoresUnits, Revives, RestoresApplication, RestoresConfig, RestoresLink, RestoresBin, RestoresMarker, RestoreFails, Pcs
    <3>3. QED BY <1>4, <3>1, <3>2 DEF Undoes
  <2>2. dir' = dir /\ cmd.pc \notin Ended \cup {"fetch", "unpack", "prepare", "build"}
    BY <1>4 DEF Undoes, Disables, RestoresUnits, Revives, RestoresApplication, RestoresConfig, RestoresLink, RestoresBin, RestoresMarker, RestoreFails, UndoFails
  <2>3. Complete(current)'
    BY <1>4, <1>c DEF Undoes, Disables, RestoresUnits, Revives, RestoresApplication, RestoresConfig, RestoresLink, RestoresBin, RestoresMarker, RestoreFails, UndoFails, RestoredLink, CompleteVersions, Complete
  <2>4. \A u \in Units : Complete(units[u])'
    BY <1>4, <1>c DEF Undoes, Disables, RestoresUnits, Revives, RestoresApplication, RestoresConfig, RestoresLink, RestoresBin, RestoresMarker, RestoreFails, UndoFails, RestoredLink, CompleteVersions, Complete
  <2>5. \A s \in Services : Complete(svc[s])'
    BY <1>4, <1>c DEF Undoes, Disables, RestoresUnits, Revives, RestoresApplication, RestoresConfig, RestoresLink, RestoresBin, RestoresMarker, RestoreFails, UndoFails, Complete, Units
  <2>6. QED BY <2>1, <2>2, <2>3, <2>4, <2>5, <1>o
<1>5. CASE Operates
  <2>1. cmd'.pc = "idle"
    BY <1>5 DEF Operates, StartsFaryo, StopsFaryo, Uninstalls, ServiceOp, Idle
  <2>2. OnlyCompleteVersionsRun'
    <3>1. ASSUME NEW restart \in BOOLEAN, StartsFaryo(restart) PROVE OnlyCompleteVersionsRun'
      BY <3>1, <1>c, OnlyCompleteNext DEF StartsFaryo, Complete, Units
    <3>2. CASE StopsFaryo
      BY <3>2, <1>c, OnlyCompleteNext DEF StopsFaryo, Complete
    <3>3. CASE Uninstalls
      BY <3>3, OnlyCompleteNext DEF Uninstalls, Complete
    <3>4. QED BY <1>5, <3>1, <3>2, <3>3 DEF Operates
  <2>3. QED BY <2>1, <2>2 DEF CompleteVersions
<1>6. CASE Killed
  BY <1>6, <1>c, OnlyCompleteNext DEF Killed, Idle, CompleteVersions, Complete
<1>7. CASE Reboots
  BY <1>7, <1>c, OnlyCompleteNext DEF Reboots, Idle, CompleteVersions, Complete, Units
<1>8. CASE Sessions \/ UNCHANGED vars
  BY <1>8, <1>c, OnlyCompleteNext DEF Sessions, SessionStarts, TurnStarts, TurnEnds, vars, CompleteVersions, Complete
<1>9. QED BY <1>1, <1>2, <1>3, <1>4, <1>5, <1>6, <1>7, <1>8 DEF Next

(* Versions are complete in every run. *)
LEMMA AlwaysComplete == Spec => []CompleteVersions
<1>1. Init => CompleteVersions
  <2> SUFFICES ASSUME Init PROVE CompleteVersions
    OBVIOUS
  <2>1. cmd.pc = "idle"
    BY DEF Init, Idle
  <2>2. Complete(current)
    BY DEF Init, Complete
  <2>3. \A u \in Units : Complete(units[u])
    BY DEF Init, Complete
  <2>4. \A s \in Services : Complete(svc[s])
    BY DEF Init, Complete
  <2>5. QED BY <2>1, <2>2, <2>3, <2>4, OnlyComplete DEF CompleteVersions, Ended
<1>2. QED BY <1>1, CompleteStep, TypeCorrect, PTL DEF Spec

(* Only versions whose preparation was completed are linked, named by a    *)
(* unit or run.                                                            *)
THEOREM OnlyCompleteVersions == Spec => []OnlyCompleteVersionsRun
<1>1. CompleteVersions => OnlyCompleteVersionsRun
  BY DEF CompleteVersions
<1>2. QED BY <1>1, AlwaysComplete, PTL

-----------------------------------------------------------------------------
(* Turns.  The services that serve a turn run; and a command that changes  *)
(* the shape of the services has found no turn, so one that runs is late.  *)

TurnsAreServed ==
    /\ turn = "worker" => workers
    /\ turn = "shared" => svc["appserver"] # None
    /\ cmd.pc \in Checked /\ cmd.change # "none" => turn = None \/ late

(* Every step keeps the turns served. *)
LEMMA ServedStep == TypeOK /\ TurnsAreServed /\ [Next]_vars => TurnsAreServed'
<1> SUFFICES ASSUME TypeOK, TurnsAreServed, [Next]_vars PROVE TurnsAreServed'
  OBVIOUS
<1> USE DEF program, links, services, work, TurnsAreServed, Checked
<1>t. cmd \in Commands
  BY DEF TypeOK
<1>g. ASSUME NEW pc \in Pcs, Goto(pc)
      PROVE  cmd'.pc = pc /\ cmd'.change = cmd.change
  BY <1>t, <1>g DEF Goto, Commands
<1>l. Leaves => cmd'.pc = "failed"
  BY <1>t DEF Leaves, Commands
<1>1. CASE Prepares
  <2>1. CASE Install \/ Update \/ Rollback
    BY <2>1 DEF Install, Update, Rollback, Command, Idle
  <2>2. CASE Fetches \/ Unpacks \/ Prepare \/ Builds
    BY <2>2, <1>g DEF Fetches, Unpacks, Prepare, Builds, Pcs
  <2>3. CASE BuildFails \/ Configures \/ ConfigureFails \/ UndoesConfig
    BY <2>3, <1>g, <1>l DEF BuildFails, Configures, ConfigureFails, UndoesConfig, Pcs
  <2>4. QED BY <1>1, <2>1, <2>2, <2>3 DEF Prepares
<1>2. CASE Activates
  BY <1>2, <1>g, <1>l DEF Activates, MarksPrevious, Switches, Links, ActivationFails, SetsPython, Pcs
<1>3. CASE Installs
  <2>1. CASE Checks
    BY <2>1, <1>t DEF Checks, IdleForChange, Commands
  <2>2. CASE Refuses \/ PanesChanged \/ StepFails
    BY <2>2, <1>g DEF Refuses, PanesChanged, StepFails, Pcs
  <2>3. CASE WritesUnits
    <3>1. cmd'.change = cmd.change
      BY <2>3, <1>t DEF WritesUnits, Goto, Commands
    <3>2. cmd.pc \in Checked /\ UNCHANGED <<work, svc>>
      BY <2>3 DEF WritesUnits
    <3>3. QED BY <3>1, <3>2
  <2>4. CASE UnitsTorn
    BY <2>4 DEF UnitsTorn
  <2>5. CASE StopsOwner
    BY <2>5, <1>g DEF StopsOwner, Pcs, TypeOK, Services
  <2>6. CASE StartsAppserver
    BY <2>6, <1>g DEF StartsAppserver, Pcs, TypeOK, Services
  <2>7. CASE StartsOwner \/ Migrates \/ MigrationFails
    BY <2>7, <1>g DEF StartsOwner, Migrates, MigrationFails, OwnerLoads, Pcs, TypeOK, Services
  <2>8. CASE Enables \/ Healthy
    BY <2>8, <1>g DEF Enables, Healthy, Pcs, TypeOK, Services
  <2>9. QED BY <1>3, <2>1, <2>2, <2>3, <2>4, <2>5, <2>6, <2>7, <2>8 DEF Installs
<1>4. CASE Undoes
  <2>1. CASE Disables
    BY <2>1, <1>g DEF Disables, Pcs, TypeOK, Services
  <2>2. CASE RestoresUnits \/ RestoresApplication
    BY <2>2, <1>g, <1>l DEF RestoresUnits, RestoresApplication, RestoresConfig, RestoresLink, RestoresBin, RestoresMarker, RestoreFails, Pcs
  <2>3. CASE Revives
    BY <2>3, <1>g DEF Revives, Revived, OwnerLoads, Pcs, TypeOK, Services
  <2>4. CASE UndoFails
    BY <2>4, <1>t DEF UndoFails, Commands
  <2>5. QED BY <1>4, <2>1, <2>2, <2>3, <2>4 DEF Undoes
<1>5. CASE Operates
  <2>1. cmd'.pc = "idle"
    BY <1>5 DEF Operates, StartsFaryo, StopsFaryo, Uninstalls, ServiceOp, Idle
  <2>2. ASSUME NEW restart \in BOOLEAN, StartsFaryo(restart) PROVE TurnsAreServed'
    <3>1. turn' = turn /\ (workers => workers')
      BY <2>2 DEF StartsFaryo, OwnerLoads
    <3>2. svc["appserver"] # None => svc'["appserver"] # None
      BY <2>2 DEF StartsFaryo, Services
    <3>3. QED BY <2>1, <3>1, <3>2
  <2>3. CASE StopsFaryo \/ Uninstalls
    BY <2>1, <2>3 DEF StopsFaryo, Uninstalls
  <2>4. QED BY <1>5, <2>2, <2>3 DEF Operates
<1>6. CASE Killed \/ Reboots
  BY <1>6 DEF Killed, Reboots, Idle
<1>7. CASE Sessions
  BY <1>7 DEF Sessions, SessionStarts, TurnStarts, TurnEnds, Late
<1>8. CASE UNCHANGED vars
  BY <1>8 DEF vars
<1>9. QED BY <1>1, <1>2, <1>3, <1>4, <1>5, <1>6, <1>7, <1>8 DEF Next

(* What TurnsOutliveSwitches allows to end a turn. *)
Ends ==
    \/ TurnEnds \/ StopsFaryo \/ Uninstalls \/ Reboots
    \/ Disables /\ turn = "shared"
    \/ late

(* The steps that end a turn. *)
LEMMA TurnStep == TypeOK /\ TurnsAreServed /\ [Next]_vars /\ turn # None /\ turn' = None => Ends
<1> SUFFICES ASSUME TypeOK, TurnsAreServed, [Next]_vars, turn # None, turn' = None PROVE Ends
  OBVIOUS
<1> USE DEF program, links, services, work
<1>1. ~Prepares
  BY DEF Prepares, Install, Update, Rollback, Command, Fetches, Unpacks, Prepare, Builds, BuildFails, Configures, ConfigureFails, UndoesConfig
<1>2. ~Activates
  BY DEF Activates, MarksPrevious, Switches, Links, ActivationFails, SetsPython
<1>3. CASE Installs
  <2>1. CASE StopsOwner
    BY <2>1 DEF StopsOwner, TurnsAreServed, Checked, Ends
  <2>2. CASE StartsAppserver
    BY <2>2 DEF StartsAppserver, RestartsAppserver, TurnsAreServed, Checked, Ends
  <2>3. QED BY <1>3, <2>1, <2>2 DEF Installs, Checks, Refuses, WritesUnits, UnitsTorn, StartsOwner,
               Migrates, MigrationFails, Enables, Healthy, PanesChanged, StepFails
<1>4. CASE Undoes
  <2>1. CASE Disables
    BY <2>1 DEF Disables, TurnsAreServed, Checked, Ends, TypeOK
  <2>2. QED BY <1>4, <2>1 DEF Undoes, RestoresUnits, Revives, UndoFails, RestoresApplication, RestoresConfig, RestoresLink, RestoresBin, RestoresMarker, RestoreFails
<1>5. CASE Operates
  BY <1>5 DEF Operates, StartsFaryo, Ends
<1>6. CASE Killed \/ Reboots
  BY <1>6 DEF Killed, Ends
<1>7. CASE Sessions
  BY <1>7 DEF Sessions, SessionStarts, TurnStarts, Ends
<1>8. CASE UNCHANGED vars
  BY <1>8 DEF vars
<1>9. QED BY <1>1, <1>2, <1>3, <1>4, <1>5, <1>6, <1>7, <1>8 DEF Next

(* No install, update or rollback cuts a turn that ran when it looked. *)
THEOREM TurnsOutlive == Spec => TurnsOutliveSwitches
<1>1. Init => TurnsAreServed
  BY DEF Init, TurnsAreServed, Idle, Checked
<1>2. TypeOK /\ TurnsAreServed /\ [Next]_vars => [turn # None /\ turn' = None => Ends]_vars
  BY TurnStep
<1>3. QED BY <1>1, <1>2, ServedStep, TypeCorrect, PTL DEF Spec, TurnsOutliveSwitches, Ends

-----------------------------------------------------------------------------
(* Who serves a session.  Between commands the units, the Owner that runs, *)
(* the registry and what serves the sessions have one shape; a command     *)
(* notes the shape it found and moves them one after the other.            *)

Shape(files) == Supports(files["owner"])
ShapesDiffer == Supports(cmd.v) # Shape(cmd.old.units)

UnitsFit(files) ==
    /\ files["worker"] # None <=> Shape(files)
    /\ files["gateway"] # None => files["owner"] # None
    /\ sessions => files["owner"] # None

WorkFits(shape) ==
    /\ workers \/ holds => sessions
    /\ sessions => (schema = 2 => shape) /\ (workers => shape) /\ (holds => ~shape)

OwnerFits(shape) == svc["owner"] # None => (Supports(svc["owner"]) <=> shape)

Settled ==
    /\ UnitsFit(units)
    /\ WorkFits(Shape(units))
    /\ OwnerFits(Shape(units))
    /\ units["owner"] = None => svc["owner"] = None
    /\ legacy => units["owner"] = None

(* What a command past its checks found. *)
Noted ==
    /\ UnitsFit(cmd.old.units)
    /\ cmd.legacy => cmd.old.units["owner"] = None
    /\ legacy => cmd.legacy
    /\ cmd.change = "none" => ~(sessions /\ ShapesDiffer)
    /\ cmd.change # "none" => sessions /\ ShapesDiffer
    /\ cmd.change = "downgrade" => ~Supports(cmd.v)
    /\ cmd.change = "upgrade" => Supports(cmd.v)

Written ==
    /\ units["owner"] = cmd.v /\ units["gateway"] = cmd.v
    /\ Supports(cmd.v) => units["worker"] = cmd.v

Unmoved == WorkFits(Shape(cmd.old.units)) /\ OwnerFits(Shape(cmd.old.units))

(* No Owner and no worker runs, and the registry has the older schema. *)
Stopped == svc["owner"] = None /\ ~workers /\ schema = 1

Moving ==
    /\ cmd.pc = "units" => Settled /\ units = cmd.old.units
    /\ cmd.pc \in {"stop", "appserver", "owner", "migrate", "enable", "health"} => Written
    /\ cmd.pc = "stop" => Unmoved /\ ~cmd.legacy /\ cmd.change # "none"
    /\ cmd.pc \in {"appserver", "owner", "migrate"} => IF cmd.change = "none" THEN Unmoved ELSE Stopped /\ ~cmd.legacy
    /\ cmd.pc = "owner" => ~cmd.legacy /\ (cmd.change # "none" => ~holds)
    /\ cmd.pc = "migrate" => cmd.legacy
    /\ cmd.pc \in {"enable", "health"} => svc["owner"] = cmd.v /\ WorkFits(Supports(cmd.v)) /\ ~legacy
    /\ cmd.pc = "undo" => /\ ~(workers /\ holds) /\ (workers \/ holds => sessions)
                          /\ sessions /\ svc["owner"] # None => OwnerReads
                          /\ cmd.change = "none" => WorkFits(Shape(cmd.old.units))
    /\ cmd.pc = "restore" => WorkFits(Shape(cmd.old.units)) /\ svc["owner"] = None
    /\ cmd.pc = "revive" => units = cmd.old.units /\ WorkFits(Shape(units)) /\ svc["owner"] = None

Agreed == IF cmd.pc \in Checked THEN Noted /\ Moving ELSE Settled
Agreeing == late \/ loose \/ Agreed

(* The history is never forgotten. *)
LEMMA HistoryStays == TypeOK /\ [Next]_vars => (late => late') /\ (loose => loose')
BY DEF TypeOK, Next, Prepares, Activates, Installs, Undoes, Operates, Sessions, Install, Update, Rollback, Command, Fetches, Unpacks,
       Prepare, Builds, BuildFails, Configures, ConfigureFails, UndoesConfig, MarksPrevious, Switches, Links, ActivationFails, SetsPython, Checks, Refuses, WritesUnits,
       UnitsTorn, StopsOwner, StartsAppserver, StartsOwner, Migrates, MigrationFails, Enables, Healthy, PanesChanged, StepFails,
       Disables, RestoresUnits, Revives, UndoFails, RestoresApplication, RestoresConfig, RestoresLink, RestoresBin, RestoresMarker, RestoreFails, StartsFaryo, StopsFaryo, Uninstalls, Killed, Reboots,
       SessionStarts, TurnStarts, TurnEnds, Late, program, links, services, work, vars

(* A command at work is about a version. *)
Targeted == cmd.pc \notin Ended => cmd.v \in Versions

(* An Owner that starts keeps the work in its shape. *)
LEMMA LoadFits ==
    ASSUME TypeOK, NEW v \in Versions, OwnerLoads(v), UNCHANGED <<sessions, holds>>, WorkFits(Supports(v))
    PROVE  WorkFits(Supports(v))'
BY DEF OwnerLoads, WorkFits, Supports, TypeOK

(* Every step keeps the services agreed. *)
LEMMA AgreeStep == TypeOK /\ Targeted /\ Agreeing /\ [Next]_vars => Agreeing'
<1> SUFFICES ASSUME TypeOK, Targeted, Agreed, [Next]_vars, ~late', ~loose' PROVE Agreed'
  BY HistoryStays DEF Agreeing
<1> USE DEF program, links, services, work, Ended, Checked, Shape
<1>t. cmd \in Commands
  BY DEF TypeOK
<1>n. ~Supports(None)
  BY DEF Supports
<1>g. ASSUME NEW pc \in Pcs, Goto(pc)
      PROVE  /\ cmd'.pc = pc /\ cmd'.v = cmd.v /\ cmd'.old = cmd.old /\ cmd'.legacy = cmd.legacy /\ cmd'.change = cmd.change
             /\ cmd'.noStart = cmd.noStart
  BY <1>t, <1>g DEF Goto, Commands
<1>e. Leaves => cmd'.pc = "failed"
  BY <1>t DEF Leaves, Commands
<1>s. ASSUME UNCHANGED <<units, svc, legacy, schema, sessions, workers, holds>>, Settled PROVE Settled'
  BY <1>s DEF Settled, UnitsFit, WorkFits, OwnerFits
<1>1. CASE Prepares
  <2>1. cmd.pc \notin Checked /\ cmd'.pc \notin Checked
    <3>1. CASE Install \/ Update \/ Rollback
      <4>1. ASSUME NEW kind, NEW v, NEW noStart, NEW migrate, NEW pc \in {"prepare", "fetch", "mark"},
                   Command(kind, v, noStart, migrate, pc)
            PROVE  cmd.pc \notin Checked /\ cmd'.pc \notin Checked
        BY <4>1 DEF Command, Idle
      <4>2. QED BY <3>1, <4>1 DEF Install, Update, Rollback
    <3>2. CASE Fetches \/ Unpacks
      BY <3>2, <1>g DEF Fetches, Unpacks, Pcs
    <3>3. CASE Prepare \/ Builds \/ BuildFails
      BY <3>3, <1>g DEF Prepare, Builds, BuildFails, Pcs
    <3>4. CASE Configures \/ ConfigureFails \/ UndoesConfig
      BY <3>4, <1>g, <1>e DEF Configures, ConfigureFails, UndoesConfig, Pcs
    <3>5. QED BY <1>1, <3>1, <3>2, <3>3, <3>4 DEF Prepares
  <2>2. UNCHANGED <<units, svc, legacy, schema, sessions, workers, holds>>
    BY <1>1 DEF Prepares, Install, Update, Rollback, Command, Fetches, Unpacks, Prepare, Builds, BuildFails, Configures, ConfigureFails, UndoesConfig
  <2>3. QED BY <2>1, <2>2, <1>s DEF Agreed
<1>2. CASE Activates
  <2>1. cmd.pc \notin Checked /\ cmd'.pc \notin Checked
    BY <1>2, <1>g, <1>e DEF Activates, MarksPrevious, Switches, Links, ActivationFails, SetsPython, Pcs
  <2>2. UNCHANGED <<units, svc, legacy, schema, sessions, workers, holds>>
    BY <1>2 DEF Activates, MarksPrevious, Switches, Links, ActivationFails, SetsPython
  <2>3. QED BY <2>1, <2>2, <1>s DEF Agreed
<1>3. CASE Checks
  <2>1. cmd.pc = "check" /\ Settled
    BY <1>3 DEF Checks, Agreed
  <2>2. UNCHANGED <<units, svc, legacy, schema, sessions, workers, holds>> /\ Settled'
    BY <1>3, <1>s, <2>1 DEF Checks
  <2>3. /\ cmd'.pc = "units" /\ cmd'.v = cmd.v /\ cmd'.old.units = units /\ cmd'.legacy = legacy /\ cmd'.change = Change
    BY <1>3, <1>t DEF Checks, Commands
  <2>4. Noted'
    <3>1. sessions => ~legacy
      BY <2>1 DEF Settled, UnitsFit
    <3>2. units["worker"] # None <=> Supports(units["owner"])
      BY <2>1 DEF Settled, UnitsFit
    <3>3. /\ Change = "none" => ~(sessions /\ (Supports(cmd.v) # Supports(units["owner"])))
          /\ Change # "none" => sessions /\ (Supports(cmd.v) # Supports(units["owner"]))
          /\ Change = "downgrade" => ~Supports(cmd.v)
          /\ Change = "upgrade" => Supports(cmd.v)
      BY <3>1, <3>2 DEF Change, Registered, Supports
    <3>4. ShapesDiffer' = (Supports(cmd.v) # Supports(units["owner"]))
      BY <2>3 DEF ShapesDiffer, Supports
    <3>5. UnitsFit(cmd.old.units)' /\ (legacy => units["owner"] = None)
      BY <2>1, <2>2, <2>3 DEF Settled, UnitsFit, Supports
    <3>6. QED BY <2>2, <2>3, <3>3, <3>4, <3>5 DEF Noted
  <2>5. Moving'
    BY <2>2, <2>3 DEF Moving
  <2>6. QED BY <2>3, <2>4, <2>5 DEF Agreed
<1>4. CASE Refuses
  <2>1. cmd.pc \notin Checked /\ cmd'.pc \notin Checked
    BY <1>4, <1>g DEF Refuses, Pcs
  <2>2. QED BY <1>4, <1>s, <2>1 DEF Refuses, Agreed
<1>m. ASSUME cmd.pc \in Checked, cmd'.pc \in Checked, UNCHANGED sessions, legacy' => legacy,
             cmd'.v = cmd.v, cmd'.old = cmd.old, cmd'.legacy = cmd.legacy, cmd'.change = cmd.change
      PROVE  Noted' /\ Noted
  BY <1>m DEF Agreed, Noted, UnitsFit, ShapesDiffer, Supports
<1>u. ASSUME cmd.pc \in Checked, Unmoved PROVE cmd.change = "none" => WorkFits(Supports(cmd.v))
  BY <1>u DEF Agreed, Noted, Unmoved, WorkFits, ShapesDiffer
<1>5. CASE WritesUnits
  <2>1. cmd.pc = "units" /\ Noted /\ Settled /\ units = cmd.old.units /\ cmd.v \in Versions
    BY <1>5 DEF WritesUnits, Agreed, Moving, Targeted
  <2>2. ~cmd.noStart
    BY <1>5 DEF WritesUnits
  <2>3. cmd'.pc = IF ~cmd.legacy /\ cmd.change # "none" THEN "stop" ELSE "appserver"
    BY <1>5, <1>g, <2>2 DEF WritesUnits, Pcs
  <2>4. cmd'.v = cmd.v /\ cmd'.old = cmd.old /\ cmd'.legacy = cmd.legacy /\ cmd'.change = cmd.change
    BY <1>5, <1>g, <2>2 DEF WritesUnits, Pcs
  <2>5. Noted'
    BY <1>5, <1>m, <2>1, <2>3, <2>4 DEF WritesUnits
  <2>6. Written'
    BY <1>5, <2>1, <2>4 DEF WritesUnits, Written, Components, Supports, Units, Services
  <2>7. Unmoved'
    BY <1>5, <2>1, <2>4 DEF WritesUnits, Settled, Unmoved, WorkFits, OwnerFits, Supports
  <2>8. cmd.legacy => cmd.change = "none"
    BY <2>1 DEF Noted, UnitsFit
  <2>9. Moving'
    BY <2>3, <2>4, <2>6, <2>7, <2>8 DEF Moving
  <2>10. QED BY <2>3, <2>5, <2>9 DEF Agreed
<1>6. CASE UnitsTorn \/ UndoFails
  BY <1>6 DEF UnitsTorn, UndoFails
<1>7. CASE StopsOwner
  <2>1. cmd.pc = "stop" /\ Noted /\ Written /\ Unmoved /\ ~cmd.legacy /\ cmd.change # "none"
    BY <1>7 DEF StopsOwner, Agreed, Moving
  <2>2. /\ cmd'.pc = "appserver" /\ cmd'.v = cmd.v /\ cmd'.old = cmd.old /\ cmd'.legacy = cmd.legacy
        /\ cmd'.change = cmd.change
    BY <1>7, <1>g DEF StopsOwner, Pcs
  <2>3. Noted'
    BY <1>7, <1>m, <2>1, <2>2 DEF StopsOwner
  <2>4. Written'
    BY <1>7, <2>1, <2>2 DEF StopsOwner, Written, Supports
  <2>5. Stopped'
    <3>1. svc'["owner"] = None
      BY <1>7 DEF StopsOwner, TypeOK, Services
    <3>2. CASE cmd.change = "downgrade"
      BY <1>7, <3>1, <3>2 DEF StopsOwner, Rewrites, Stopped
    <3>3. CASE cmd.change # "downgrade"
      <4>1. cmd.change = "upgrade"
        BY <1>t, <2>1, <3>3 DEF Commands, Changes
      <4>2. ~Shape(cmd.old.units) /\ sessions
        BY <2>1, <4>1 DEF Noted, ShapesDiffer, Supports
      <4>3. ~workers /\ schema = 1
        BY <2>1, <4>2 DEF Unmoved, WorkFits, TypeOK
      <4>4. QED BY <1>7, <3>1, <3>3, <4>3 DEF StopsOwner, Stopped
    <3>4. QED BY <3>2, <3>3
  <2>6. Moving'
    BY <2>1, <2>2, <2>4, <2>5 DEF Moving
  <2>7. QED BY <2>2, <2>3, <2>6 DEF Agreed
<1>8. CASE StartsAppserver
  <2>1. cmd.pc = "appserver" /\ Noted /\ Written /\ IF cmd.change = "none" THEN Unmoved ELSE Stopped /\ ~cmd.legacy
    BY <1>8 DEF StartsAppserver, Agreed, Moving
  <2>2. /\ cmd'.pc = IF cmd.legacy THEN "migrate" ELSE "owner"
        /\ cmd'.v = cmd.v /\ cmd'.old = cmd.old /\ cmd'.legacy = cmd.legacy /\ cmd'.change = cmd.change
    BY <1>8, <1>g DEF StartsAppserver, Pcs
  <2>3. Noted'
    BY <1>8, <1>m, <2>1, <2>2 DEF StartsAppserver
  <2>4. Written'
    BY <1>8, <2>1, <2>2 DEF StartsAppserver, Written, Supports
  <2>5. svc'["owner"] = svc["owner"] /\ holds' \in {holds, FALSE}
    BY <1>8 DEF StartsAppserver, TypeOK, Services
  <2>6. CASE cmd.change = "none"
    <3>1. Unmoved'
      BY <1>8, <2>1, <2>2, <2>5, <2>6 DEF StartsAppserver, Unmoved, WorkFits, OwnerFits, Supports
    <3>2. Moving'
      BY <2>2, <2>4, <2>6, <3>1 DEF Moving
    <3>3. QED BY <2>2, <2>3, <3>2 DEF Agreed
  <2>7. CASE cmd.change # "none"
    <3>1. Stopped' /\ ~holds'
      BY <1>8, <2>1, <2>5, <2>7 DEF StartsAppserver, RestartsAppserver, Stopped
    <3>2. Moving'
      BY <2>1, <2>2, <2>4, <2>7, <3>1 DEF Moving
    <3>3. QED BY <2>2, <2>3, <3>2 DEF Agreed
  <2>8. QED BY <2>6, <2>7
<1>9. CASE StartsOwner
  <2>1. /\ cmd.pc = "owner" /\ Noted /\ Written /\ ~cmd.legacy /\ cmd.v \in Versions
        /\ IF cmd.change = "none" THEN Unmoved ELSE Stopped /\ ~holds
    BY <1>9 DEF StartsOwner, Agreed, Moving, Targeted
  <2>2. cmd'.pc = "enable" /\ cmd'.v = cmd.v /\ cmd'.old = cmd.old /\ cmd'.legacy = cmd.legacy /\ cmd'.change = cmd.change
    BY <1>9, <1>g DEF StartsOwner, Pcs
  <2>3. Noted'
    BY <1>9, <1>m, <2>1, <2>2 DEF StartsOwner
  <2>4. Written'
    BY <1>9, <2>1, <2>2 DEF StartsOwner, Written, Supports
  <2>5. WorkFits(Supports(cmd.v))
    BY <1>u, <2>1 DEF Stopped, WorkFits
  <2>6. OwnerLoads(cmd.v) /\ UNCHANGED <<sessions, holds>>
    BY <1>9, <2>1 DEF StartsOwner, Written
  <2>7. WorkFits(Supports(cmd.v))'
    <3> DEFINE v == cmd.v
    <3>2. v \in Versions /\ OwnerLoads(v) /\ WorkFits(Supports(v))
      BY <2>1, <2>5, <2>6
    <3>3. cmd'.v = v
      BY <2>2
    <3> HIDE DEF v
    <3>4. (sessions' => (schema' = 2 => Supports(v)) /\ (workers' => Supports(v)) /\ (holds' => ~Supports(v))) /\ (workers' \/ holds' => sessions')
      BY <2>6, <3>2, LoadFits DEF WorkFits, Supports
    <3>5. QED BY <3>3, <3>4 DEF WorkFits, Supports
  <2>8. svc'["owner"] = cmd'.v /\ ~legacy'
    BY <1>9, <2>1, <2>2 DEF StartsOwner, Written, TypeOK, Services, Noted
  <2>9. Moving'
    BY <2>2, <2>4, <2>7, <2>8 DEF Moving
  <2>10. QED BY <2>2, <2>3, <2>9 DEF Agreed
<1>l. ASSUME cmd.pc = "migrate" PROVE ~sessions /\ ~workers /\ ~holds
  <2>1. cmd.legacy /\ Noted /\ ~sessions
    BY <1>l DEF Agreed, Moving, Noted, UnitsFit
  <2>2. Unmoved
    BY <1>l, <2>1 DEF Agreed, Moving
  <2>3. QED BY <2>1, <2>2 DEF Unmoved, WorkFits
<1>10. CASE Migrates \/ MigrationFails
  <2>1. cmd.pc = "migrate" /\ Noted /\ Written /\ cmd.legacy /\ ~sessions /\ ~workers /\ ~holds
    BY <1>10, <1>l DEF Migrates, MigrationFails, Agreed, Moving
  <2>2. /\ cmd'.pc = IF Migrates THEN "enable" ELSE "undo"
        /\ cmd'.v = cmd.v /\ cmd'.old = cmd.old /\ cmd'.legacy = cmd.legacy /\ cmd'.change = cmd.change
    <3>1. CASE Migrates
      BY <1>g, <3>1 DEF Migrates, Pcs
    <3>2. CASE ~Migrates /\ MigrationFails
      BY <1>g, <3>2 DEF MigrationFails, Pcs
    <3>3. QED BY <1>10, <3>1, <3>2
  <2>3. UNCHANGED <<sessions, holds, units>> /\ ~workers'
    <3>1. UNCHANGED <<sessions, holds, units>> /\ OwnerLoads(units["owner"])
      BY <1>10 DEF Migrates, MigrationFails
    <3>2. QED BY <2>1, <3>1 DEF OwnerLoads
  <2>4. Noted'
    BY <2>1, <2>2, <2>3 DEF Noted, UnitsFit, ShapesDiffer, Supports
  <2>5. WorkFits(Supports(cmd.v))' /\ WorkFits(Shape(cmd.old.units))'
    BY <2>1, <2>3 DEF WorkFits
  <2>6. CASE Migrates
    <3>1. svc'["owner"] = cmd'.v /\ ~legacy' /\ Written'
      BY <2>1, <2>2, <2>3, <2>6 DEF Migrates, Written, TypeOK, Services, Supports
    <3>2. Moving'
      BY <2>2, <2>5, <2>6, <3>1 DEF Moving
    <3>3. QED BY <2>2, <2>4, <2>6, <3>2 DEF Agreed
  <2>7. CASE ~Migrates
    <3>1. Moving'
      BY <2>1, <2>2, <2>3, <2>5, <2>7 DEF Moving
    <3>2. QED BY <2>2, <2>4, <2>7, <3>1 DEF Agreed
  <2>8. QED BY <2>6, <2>7
<1>11. CASE Enables
  <2>1. cmd.pc = "enable" /\ Noted /\ Written /\ svc["owner"] = cmd.v /\ WorkFits(Supports(cmd.v)) /\ ~legacy
    BY <1>11 DEF Enables, Agreed, Moving
  <2>2. cmd'.pc = "health" /\ cmd'.v = cmd.v /\ cmd'.old = cmd.old /\ cmd'.legacy = cmd.legacy /\ cmd'.change = cmd.change
    BY <1>11, <1>g DEF Enables, Pcs
  <2>3. Noted'
    BY <1>11, <1>m, <2>1, <2>2 DEF Enables
  <2>4. Written' /\ svc'["owner"] = cmd'.v /\ ~legacy' /\ WorkFits(Supports(cmd.v))'
    BY <1>11, <2>1, <2>2 DEF Enables, Written, WorkFits, TypeOK, Services, Supports
  <2>5. Moving'
    BY <2>2, <2>4 DEF Moving
  <2>6. QED BY <2>2, <2>3, <2>5 DEF Agreed
<1>12. CASE Healthy
  <2>1. cmd.pc = "health" /\ Noted /\ Written /\ svc["owner"] = cmd.v /\ WorkFits(Supports(cmd.v)) /\ ~legacy /\ cmd.v \in Versions
    BY <1>12 DEF Healthy, Agreed, Moving, Targeted
  <2>2. cmd'.pc = "done"
    BY <1>12, <1>g DEF Healthy, Pcs
  <2>3. UNCHANGED <<svc, legacy, schema, sessions, workers, holds>>
    BY <1>12 DEF Healthy
  <2>4. units'["owner"] = cmd.v /\ units'["gateway"] = cmd.v /\ units'["worker"] = IF Supports(cmd.v) THEN cmd.v ELSE None
    BY <1>12, <2>1 DEF Healthy, Written, TypeOK, UnitFiles, Units, Services
  <2>5. Settled'
    BY <2>1, <2>3, <2>4 DEF Settled, UnitsFit, WorkFits, OwnerFits, Supports
  <2>6. QED BY <2>2, <2>5 DEF Agreed
<1>w. ASSUME cmd.pc \in {"stop", "appserver", "owner", "enable", "health"}
      PROVE  /\ ~(workers /\ holds) /\ (workers \/ holds => sessions)
             /\ sessions /\ svc["owner"] # None => OwnerReads
             /\ cmd.change = "none" => WorkFits(Shape(cmd.old.units))
  <2>1. Noted /\ Moving
    BY <1>w DEF Agreed
  <2>2. CASE Unmoved
    BY <2>2, <2>1 DEF Unmoved, WorkFits, OwnerFits, OwnerReads, TypeOK
  <2>3. CASE Stopped /\ cmd.change # "none"
    BY <2>3, <2>1 DEF Stopped, Noted
  <2>4. CASE svc["owner"] = cmd.v /\ WorkFits(Supports(cmd.v))
    BY <2>1, <2>4 DEF Noted, WorkFits, ShapesDiffer, OwnerReads, TypeOK
  <2>5. QED BY <1>w, <2>1, <2>2, <2>3, <2>4 DEF Moving
<1>13. CASE PanesChanged \/ StepFails
  <2>1. UNCHANGED <<units, svc, legacy, schema, sessions, workers, holds>>
    BY <1>13 DEF PanesChanged, StepFails
  <2>2. CASE cmd.pc \in {"python", "check"}
    <3>1. cmd'.pc = "undoApp"
      BY <1>13, <1>g, <2>2 DEF PanesChanged, StepFails, Pcs
    <3>2. QED BY <1>s, <2>1, <2>2, <3>1 DEF Agreed
  <2>3. CASE cmd.pc \in {"stop", "appserver", "owner", "enable", "health"}
    <3>1. cmd'.pc = "undo" /\ cmd'.v = cmd.v /\ cmd'.old = cmd.old /\ cmd'.legacy = cmd.legacy /\ cmd'.change = cmd.change
      BY <1>13, <1>g, <2>3 DEF PanesChanged, StepFails, Pcs
    <3>2. Noted'
      BY <1>m, <2>1, <2>3, <3>1
    <3>3. Moving'
      BY <1>w, <2>1, <2>3, <3>1 DEF Moving, OwnerReads, WorkFits, Supports
    <3>4. QED BY <3>1, <3>2, <3>3 DEF Agreed
  <2>4. QED BY <1>13, <2>2, <2>3 DEF PanesChanged, StepFails
<1>14. CASE Disables
  <2>1. /\ cmd.pc = "undo" /\ Noted /\ (workers \/ holds => sessions)
        /\ cmd.change = "none" => WorkFits(Shape(cmd.old.units))
    BY <1>14 DEF Disables, Agreed, Moving
  <2>2. cmd'.pc = "restore" /\ cmd'.v = cmd.v /\ cmd'.old = cmd.old /\ cmd'.legacy = cmd.legacy /\ cmd'.change = cmd.change
    BY <1>14, <1>g DEF Disables, Pcs
  <2>3. Noted'
    BY <1>14, <1>m, <2>1, <2>2 DEF Disables
  <2>4. svc'["owner"] = None
    BY <1>14 DEF Disables, Services
  <2>5. WorkFits(Shape(cmd.old.units))'
    <3>1. CASE cmd.change = "none"
      BY <1>14, <2>1, <2>2, <3>1 DEF Disables, WorkFits, Supports
    <3>2. CASE cmd.change # "none"
      <4>1. ~workers' /\ ~holds' /\ schema' = IF cmd.old.units["worker"] # None THEN 2 ELSE 1
        BY <1>14, <3>2 DEF Disables, Rewrites
      <4>2. schema' = 2 => Shape(cmd.old.units)
        BY <2>1, <4>1 DEF Noted, UnitsFit
      <4>3. QED BY <2>2, <4>1, <4>2 DEF WorkFits, Supports
    <3>3. QED BY <3>1, <3>2
  <2>6. Moving'
    BY <2>2, <2>4, <2>5 DEF Moving
  <2>7. QED BY <2>2, <2>3, <2>6 DEF Agreed
<1>15. CASE RestoresUnits
  <2>1. cmd.pc = "restore" /\ Noted /\ WorkFits(Shape(cmd.old.units)) /\ svc["owner"] = None
    BY <1>15 DEF RestoresUnits, Agreed, Moving
  <2>2. cmd'.pc = "revive" /\ cmd'.v = cmd.v /\ cmd'.old = cmd.old /\ cmd'.legacy = cmd.legacy /\ cmd'.change = cmd.change
    BY <1>15, <1>g DEF RestoresUnits, Pcs
  <2>3. Noted'
    BY <1>15, <1>m, <2>1, <2>2 DEF RestoresUnits
  <2>4. units' = cmd'.old.units /\ WorkFits(Shape(units))' /\ svc'["owner"] = None
    BY <1>15, <2>1, <2>2 DEF RestoresUnits, WorkFits, Supports
  <2>5. Moving'
    BY <2>2, <2>4 DEF Moving
  <2>6. QED BY <2>2, <2>3, <2>5 DEF Agreed
<1>16. CASE Revives
  <2>1. cmd.pc = "revive" /\ Noted /\ units = cmd.old.units /\ WorkFits(Shape(units)) /\ svc["owner"] = None
    BY <1>16 DEF Revives, Agreed, Moving
  <2>2. cmd'.pc = "undoApp"
    BY <1>16, <1>g DEF Revives, Pcs
  <2>3. UNCHANGED <<units, sessions, holds>> /\ legacy' = (legacy \/ cmd.legacy)
    BY <1>16 DEF Revives
  <2>4. UnitsFit(units)' /\ (legacy' => units'["owner"] = None)
    BY <2>1, <2>3 DEF Noted, UnitsFit
  <2>5. CASE UNCHANGED <<svc, schema, workers>>
    BY <2>1, <2>2, <2>3, <2>4, <2>5 DEF Agreed, Settled, WorkFits, OwnerFits
  <2>6. CASE svc' = [s \in Services |-> IF Revived(s) THEN units[s] ELSE svc[s]] /\ Revived("owner") /\ OwnerLoads(units["owner"])
    <3>1. svc'["owner"] = units["owner"] /\ units["owner"] \in Versions
      BY <2>6 DEF Services, Revived, TypeOK, UnitFiles, Units
    <3>2. WorkFits(Shape(units))'
      BY <2>1, <2>3, <2>6, <3>1, LoadFits DEF WorkFits, Supports
    <3>3. QED BY <2>2, <2>3, <2>4, <3>1, <3>2 DEF Agreed, Settled, OwnerFits
  <2>7. CASE svc' = [s \in Services |-> IF Revived(s) THEN units[s] ELSE svc[s]] /\ ~Revived("owner") /\ UNCHANGED <<schema, workers>>
    <3>1. svc'["owner"] = None
      BY <2>1, <2>7 DEF Services
    <3>2. WorkFits(Shape(units))'
      BY <2>1, <2>3, <2>7 DEF WorkFits
    <3>3. QED BY <2>2, <2>4, <3>1, <3>2 DEF Agreed, Settled, OwnerFits
  <2>8. QED BY <1>16, <2>5, <2>6, <2>7 DEF Revives
<1>17. CASE RestoresApplication
  <2>1. cmd.pc \notin Checked /\ cmd'.pc \notin Checked
    <3>1. CASE RestoreFails
      BY <3>1, <1>e DEF RestoreFails
    <3>2. CASE RestoresConfig \/ RestoresLink \/ RestoresMarker
      BY <3>2, <1>g DEF RestoresConfig, RestoresLink, RestoresMarker, Pcs
    <3>3. CASE RestoresBin
      <4>1. cmd.pc = "undoBin" /\ cmd'.pc \in {"undoMarker", "failed"}
        BY <3>3, <1>g DEF RestoresBin, Pcs
      <4>2. QED BY <4>1
    <3>4. QED BY <1>17, <3>1, <3>2, <3>3 DEF RestoresApplication
  <2>2. QED BY <1>17, <1>s, <2>1 DEF RestoresApplication, RestoresConfig, RestoresLink, RestoresBin, RestoresMarker, RestoreFails, Agreed
<1>18. CASE Operates
  <2>1. Settled /\ cmd'.pc = "idle"
    BY <1>18 DEF Operates, StartsFaryo, StopsFaryo, Uninstalls, ServiceOp, Idle, Agreed
  <2>2. ASSUME NEW restart \in BOOLEAN, StartsFaryo(restart) PROVE Settled'
    <3>1. UNCHANGED <<units, sessions, holds>> /\ units["owner"] # None /\ units["owner"] \in Versions /\ ~legacy /\ ~legacy'
      BY <2>1, <2>2 DEF StartsFaryo, Settled, UnitsFit, TypeOK, UnitFiles, Units, Services
    <3>2. svc'["owner"] = units["owner"] \/ (svc'["owner"] = svc["owner"] /\ svc["owner"] # None)
      BY <2>2, <3>1 DEF StartsFaryo, Services
    <3>3. WorkFits(Shape(units))'
      <4>1. CASE OwnerLoads(units["owner"])
        BY <2>1, <3>1, <4>1, LoadFits DEF Settled, WorkFits, Supports
      <4>2. CASE UNCHANGED <<schema, workers>>
        BY <2>1, <3>1, <4>2 DEF Settled, WorkFits
      <4>3. QED BY <2>2, <4>1, <4>2 DEF StartsFaryo
    <3>4. QED BY <2>1, <3>1, <3>2, <3>3 DEF Settled, UnitsFit, OwnerFits
  <2>3. CASE StopsFaryo
    <3>1. svc'["owner"] = None /\ ~workers' /\ ~holds' /\ UNCHANGED <<units, sessions, schema>>
      BY <2>3 DEF StopsFaryo, Services
    <3>2. ~legacy'
      BY <2>1, <2>3 DEF StopsFaryo, Settled
    <3>3. WorkFits(Shape(units))'
      BY <2>1, <3>1 DEF Settled, WorkFits
    <3>4. UnitsFit(units)'
      BY <2>1, <3>1 DEF Settled, UnitsFit
    <3>5. OwnerFits(Shape(units))'
      BY <3>1 DEF OwnerFits
    <3>6. QED BY <2>1, <3>1, <3>2, <3>3, <3>4, <3>5 DEF Agreed, Settled
  <2>4. CASE Uninstalls
    <3>1. ~sessions' /\ ~legacy' /\ ~workers' /\ ~holds' /\ svc'["owner"] = None
      BY <2>4 DEF Uninstalls, Services
    <3>2. units'["owner"] = None /\ units'["gateway"] = None /\ units'["worker"] = None
      BY <2>4 DEF Uninstalls, Units, Services
    <3>3. UnitsFit(units)'
      BY <1>n, <3>1, <3>2 DEF UnitsFit, Supports
    <3>4. WorkFits(Shape(units))' /\ OwnerFits(Shape(units))'
      BY <3>1 DEF WorkFits, OwnerFits
    <3>5. QED BY <2>1, <3>1, <3>2, <3>3, <3>4 DEF Agreed, Settled
  <2>5. QED BY <1>18, <2>1, <2>2, <2>3, <2>4 DEF Operates, Agreed
<1>19. CASE Killed
  <2>1. cmd.pc \notin Checked /\ cmd'.pc = "idle"
    BY <1>19 DEF Killed, Idle
  <2>2. QED BY <1>19, <1>s, <2>1 DEF Killed, Agreed
<1>20. CASE Reboots
  <2>1. cmd.pc \notin Checked /\ cmd'.pc = "idle" /\ Settled
    BY <1>20 DEF Reboots, Idle, Agreed
  <2>2. UNCHANGED <<units, sessions>> /\ ~legacy' /\ ~holds' /\ svc'["owner"] \in {units["owner"], None}
    BY <1>20 DEF Reboots, Services
  <2>3. WorkFits(Shape(units))'
    <3>1. CASE "owner" \in enabled /\ units["owner"] # None /\ Supports(units["owner"])
      BY <1>20, <2>2, <3>1 DEF Reboots, WorkFits
    <3>2. CASE ~("owner" \in enabled /\ units["owner"] # None /\ Supports(units["owner"]))
      BY <1>20, <2>1, <2>2, <3>2 DEF Reboots, WorkFits, Settled
    <3>3. QED BY <3>1, <3>2
  <2>4. QED BY <2>1, <2>2, <2>3 DEF Agreed, Settled, UnitsFit, OwnerFits
<1>21. CASE SessionStarts \/ TurnStarts
  <2>1. cmd.pc \notin Checked /\ cmd' = cmd /\ Settled /\ UNCHANGED <<units, svc, legacy>> /\ OwnerReads
    BY <1>21 DEF SessionStarts, TurnStarts, Late, Agreed
  <2>2. units["owner"] # None /\ (Supports(svc["owner"]) <=> Shape(units))
    BY <2>1 DEF Settled, OwnerFits, OwnerReads
  <2>3. WorkFits(Shape(units))'
    <3>1. CASE SessionStarts
      BY <2>1, <2>2, <3>1 DEF SessionStarts, Settled, WorkFits, OwnerReads
    <3>2. CASE TurnStarts
      BY <2>1, <2>2, <3>2 DEF TurnStarts, Settled, WorkFits
    <3>3. QED BY <1>21, <3>1, <3>2
  <2>4. QED BY <2>1, <2>2, <2>3 DEF Agreed, Settled, UnitsFit, OwnerFits
<1>22. CASE TurnEnds \/ UNCHANGED vars
  BY <1>22 DEF TurnEnds, vars, Agreed, Noted, Moving, Settled, Written, Unmoved, Stopped, UnitsFit, WorkFits, OwnerFits, OwnerReads,
               ShapesDiffer, Supports
<1>23. QED BY <1>1, <1>2, <1>3, <1>4, <1>5, <1>6, <1>7, <1>8, <1>9, <1>10, <1>11, <1>12, <1>13, <1>14, <1>15, <1>16, <1>17, <1>18,
             <1>19, <1>20, <1>21, <1>22 DEF Next, Installs, Undoes, Sessions

(* But for a session or turn that began after the checks and units that    *)
(* were left, one kind of service has the thread of a session, and the     *)
(* Owner that runs reads the registry.                                     *)
THEOREM OneServesSessions == Spec => []ServicesAgreeOnSessions
<1>1. Init => Agreeing
  <2> SUFFICES ASSUME Init PROVE cmd.pc \notin Checked /\ Settled
    BY DEF Agreeing, Agreed
  <2>1. cmd.pc \notin Checked
    BY DEF Init, Idle, Checked
  <2>2. ~Supports(None) /\ First # None
    BY DEF Supports
  <2>3. PICK v \in {First, None} :
          /\ units = [u \in Units |-> IF u = "worker" /\ First \notin WorkerVersions THEN None ELSE v]
          /\ svc = [s \in Services |-> v] /\ (legacy => v = None)
    BY DEF Init
  <2>4. UnitsFit(units)
    BY <2>2, <2>3 DEF Init, UnitsFit, Shape, Supports, Units, Services
  <2>5. WorkFits(Shape(units))
    BY DEF Init, WorkFits
  <2>6. OwnerFits(Shape(units)) /\ units["owner"] = v /\ svc["owner"] = v
    BY <2>3 DEF OwnerFits, Shape, Units, Services
  <2>7. QED BY <2>1, <2>3, <2>4, <2>5, <2>6 DEF Settled
<1>2. TypeOK /\ Agreeing => ServicesAgreeOnSessions
  <2> SUFFICES ASSUME TypeOK, Agreed PROVE ~(workers /\ holds) /\ (sessions /\ svc["owner"] # None => OwnerReads)
    BY DEF Agreeing, ServicesAgreeOnSessions
  <2>1. CASE Settled
    BY <2>1 DEF Settled, WorkFits, OwnerFits, OwnerReads, TypeOK
  <2>2. CASE Noted /\ Moving /\ cmd.pc \in Checked
    BY <2>2 DEF Noted, Moving, Checked, Settled, UnitsFit, Unmoved, Stopped, WorkFits, OwnerFits, OwnerReads, ShapesDiffer, TypeOK
  <2>3. QED BY <2>1, <2>2 DEF Agreed
<1>3. CompleteVersions => Targeted
  BY DEF CompleteVersions, Targeted
<1>4. QED BY <1>1, <1>2, <1>3, AgreeStep, AlwaysComplete, TypeCorrect, PTL DEF Spec

=============================================================================
