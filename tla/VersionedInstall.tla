-------------------------- MODULE VersionedInstall --------------------------
(***************************************************************************)
(* Installing, updating and rolling back Faryo: a version is prepared in a *)
(* directory of its own, the link `current`, the private configuration and *)
(* the systemd units are moved to it, the services restarted and checked,  *)
(* and everything is moved back when a step fails.                         *)
(*                                                                         *)
(* One command runs at a time, a step at a time (cmd.pc); a step fails or  *)
(* the command is killed between two steps, the machine reboots, and the   *)
(* sessions go on: they are created and turns run while a command works.   *)
(* A version serves its Web sessions either with one shared App Server or  *)
(* with a worker unit per session (WorkerVersions); the registry file says *)
(* by its schema, 1 or 2, for which of the two it was written.             *)
(***************************************************************************)
EXTENDS Naturals

CONSTANTS
    Versions,
    WorkerVersions, \* those with a worker unit per session
    First,          \* the version that is installed at first
    None,
    MaxCommands,    \* bound on the install, update and rollback commands
    MaxServiceOps,  \* bound on start, stop, restart and uninstall
    MaxFaults       \* bound on failed steps, kills and reboots

ASSUME VersionsAssumption ==
    First \in Versions /\ WorkerVersions \subseteq Versions /\ None \notin Versions \cup {"shared", "worker"}
ASSUME BoundsAssumption == {MaxCommands, MaxServiceOps, MaxFaults} \subseteq Nat

Services == {"appserver", "owner", "gateway"}   \* ENABLED_UNIT_NAMES
Units == Services \cup {"worker"}

VARIABLES
    dir,      \* versions/<v>: absent, partial (.installing), broken or healthy
    current,  \* the version the link current leads to
    bin,      \* the link bin/faryo is there; it leads through current
    marker,   \* state/previous-version
    env,      \* the version FARYO_PYTHON of the private configuration names, or other;
              \* None: no configuration
    units,    \* the version a unit file names
    enabled,  \* the units systemd starts at boot
    svc,      \* the version a running service was started from
    legacy,   \* the Owner of old runs in its tmux session
    schema,   \* of the registry file
    sessions, \* the registry has a Web session
    workers,  \* its worker unit runs
    holds,    \* the shared App Server has its thread loaded
    turn,     \* where a turn of it runs: shared, worker or None
    cmd,      \* the command
    late,     \* history: a session or a turn began after the command's checks
    loose,    \* history: units of another shape were left to whoever starts them
    counts    \* [commands, ops, faults]

links == <<current, bin>>
program == <<dir, links, marker, env>>
services == <<units, enabled, svc, legacy>>
work == <<schema, sessions, workers, holds, turn, late>>
vars == <<program, services, work, cmd, loose, counts>>

Pcs == {"idle", "done", "failed", "fetch", "unpack", "prepare", "build", "config", "undoConfig",
        "mark", "switch", "link", "python", "check", "units", "stop", "migrate", "appserver", "owner", "enable", "health", "undo", "restore",
        "revive", "undoApp", "undoLink", "undoBin", "undoMarker"}
Changes == {"none", "upgrade", "downgrade"}
UnitFiles == [Units -> Versions \cup {None}]
Commands ==
    [kind : {"none", "install", "update", "rollback"}, v : Versions \cup {None}, pc : Pcs,
     noStart : BOOLEAN, migrate : BOOLEAN, change : Changes, legacy : BOOLEAN, torn : BOOLEAN, left : BOOLEAN,
     old : [current : Versions \cup {None}, marker : Versions \cup {None},
            env : Versions \cup {None, "other"}, units : UnitFiles]]   \* what a command found
Counts == [commands : 0..MaxCommands, ops : 0..MaxServiceOps, faults : 0..MaxFaults]

TypeOK ==
    /\ dir \in [Versions -> {"absent", "partial", "broken", "healthy"}]
    /\ current \in Versions \cup {None} /\ bin \in BOOLEAN
    /\ marker \in Versions \cup {None}
    /\ env \in Versions \cup {None, "other"}
    /\ units \in UnitFiles /\ enabled \subseteq Services
    /\ svc \in [Services -> Versions \cup {None}]
    /\ schema \in {1, 2} /\ turn \in {None, "shared", "worker"}
    /\ legacy \in BOOLEAN /\ sessions \in BOOLEAN /\ workers \in BOOLEAN
    /\ holds \in BOOLEAN /\ late \in BOOLEAN /\ loose \in BOOLEAN
    /\ cmd \in Commands
    /\ counts \in Counts

Old == [current |-> current, marker |-> marker, env |-> env, units |-> units]
Idle == [kind |-> "none", v |-> None, pc |-> "idle", noStart |-> FALSE, migrate |-> FALSE,
         change |-> "none", legacy |-> FALSE, torn |-> FALSE, left |-> FALSE, old |-> Old]

Init ==
    \* the first version, nothing at all, or the Owner of old from a checkout
    /\ \E start \in {"installed", "fresh", "old"} :
         LET v == IF start = "installed" THEN First ELSE None IN
         /\ dir = [w \in Versions |-> IF w = v THEN "healthy" ELSE "absent"]
         /\ current = v /\ bin = (v # None)
         /\ env = (IF start = "old" THEN "other" ELSE v)
         /\ units = [u \in Units |-> IF u = "worker" /\ First \notin WorkerVersions THEN None ELSE v]
         /\ enabled = IF v = None THEN {} ELSE Services
         /\ svc = [s \in Services |-> v]
         /\ legacy = (start = "old")
    /\ marker = None
    /\ schema = (IF First \in WorkerVersions THEN 2 ELSE 1)
    /\ sessions = FALSE /\ workers = FALSE /\ holds = FALSE /\ turn = None
    /\ late = FALSE /\ loose = FALSE
    /\ cmd = Idle
    /\ counts = [commands |-> 0, ops |-> 0, faults |-> 0]

Ended == {"idle", "done", "failed"}
Checked == {"units", "stop", "migrate", "appserver", "owner", "enable", "health", "undo", "restore", "revive"}
Goto(pc) == cmd' = [cmd EXCEPT !.pc = pc]
Supports(v) == v \in WorkerVersions
Components(v) == IF Supports(v) THEN Units ELSE Services     \* install_components
Leaves == cmd' = [cmd EXCEPT !.pc = "failed", !.left = TRUE]   \* nothing more is taken back
Fault == counts.faults < MaxFaults /\ counts' = [counts EXCEPT !.faults = @ + 1]

------------------------------------------------------------------------------
(* Commands *)

\* Mutant: the marker .installing is not looked for.
IgnoresMarker(v) == dir[v] \in {"healthy", "partial"}

\* prepared_version_is_healthy: the release, the manifest, no .installing, and
\* a faryo command that gives the right version.
PreparedIsHealthy(v) == dir[v] = "healthy"

Command(kind, v, noStart, migrate, pc) ==
    /\ cmd.pc \in Ended
    /\ counts.commands < MaxCommands
    /\ counts' = [counts EXCEPT !.commands = @ + 1]
    /\ cmd' = [Idle EXCEPT !.kind = kind, !.v = v, !.noStart = noStart, !.migrate = migrate, !.pc = pc]
    /\ UNCHANGED <<program, services, work, loose>>

\* install, from a source of version v.
Install == \E v \in Versions, noStart, migrate \in BOOLEAN : Command("install", v, noStart, migrate, "prepare")

\* update_application: another version than the active one is asked for.
Update == \E v \in Versions \ {current} : Command("update", v, FALSE, FALSE, "fetch")

\* The asset arrives in a temporary directory, whole and with the checksum of its
\* manifest, or not.
Fetches ==
    /\ cmd.pc = "fetch"
    /\ \/ Goto("unpack") /\ UNCHANGED counts
       \/ Goto("failed") /\ Fault
    /\ UNCHANGED <<program, services, work, loose>>

\* It has one application of the version that was asked for, or not.
Unpacks ==
    /\ cmd.pc = "unpack"
    /\ \/ Goto("prepare") /\ UNCHANGED counts
       \/ Goto("failed") /\ Fault
    /\ UNCHANGED <<program, services, work, loose>>

\* rollback_application, switch_version up to activate_version.
Rollback ==
    /\ marker # None /\ PreparedIsHealthy(marker) /\ marker # current
    /\ Command("rollback", marker, FALSE, FALSE, "mark")

------------------------------------------------------------------------------
(* prepare_version and the private configuration *)

Prepare ==
    /\ cmd.pc = "prepare"
    /\ \/ PreparedIsHealthy(cmd.v) /\ Goto("config") /\ UNCHANGED dir
       \/ dir[cmd.v] = "absent" /\ Goto("build") /\ dir' = [dir EXCEPT ![cmd.v] = "partial"]
       \/ ~PreparedIsHealthy(cmd.v) /\ dir[cmd.v] # "absent" /\ Goto("failed") /\ UNCHANGED dir
    /\ UNCHANGED <<links, marker, env, services, work, counts, loose>>

Builds ==
    /\ cmd.pc = "build"
    /\ Goto("config")
    /\ dir' = [dir EXCEPT ![cmd.v] = "healthy"]
    /\ UNCHANGED <<links, marker, env, services, work, counts, loose>>

\* remove_incomplete_version: it refuses when the marker has gone, as it has
\* before the last look at the prepared version.
BuildFails ==
    /\ cmd.pc = "build"
    /\ Fault
    /\ Goto("failed")
    /\ \E left \in {"absent", "broken"} : dir' = [dir EXCEPT ![cmd.v] = left]
    /\ UNCHANGED <<links, marker, env, services, work, loose>>

Configures ==
    /\ cmd.pc = "config"
    /\ Goto("mark")
    /\ env' = IF env = None THEN cmd.v ELSE env
    /\ UNCHANGED <<dir, links, marker, services, work, counts, loose>>

\* initialize_private_config fails, with or without the files written ...
ConfigureFails ==
    /\ cmd.pc = "config" /\ env = None
    /\ Fault
    /\ Goto("undoConfig")
    /\ env' \in {None, cmd.v}
    /\ UNCHANGED <<dir, links, marker, services, work, loose>>

\* ... and what it wrote is taken back, unless that fails too.
UndoesConfig ==
    /\ cmd.pc = "undoConfig"
    /\ \/ Goto("failed") /\ env' = cmd.old.env /\ UNCHANGED counts
       \/ Leaves /\ Fault /\ UNCHANGED env
    /\ UNCHANGED <<dir, links, marker, services, work, loose>>

------------------------------------------------------------------------------
(* activate_version: its callers guard what follows it, and not itself.    *)

MarksPrevious ==
    /\ cmd.pc = "mark"
    /\ Goto("switch")
    /\ marker' = IF current \notin {None, cmd.v} THEN current ELSE marker
    /\ UNCHANGED <<dir, links, env, services, work, counts, loose>>

Switches ==
    /\ cmd.pc = "switch"
    /\ Goto("link")
    /\ current' = cmd.v
    /\ UNCHANGED <<dir, bin, marker, env, services, work, counts, loose>>

Links ==
    /\ cmd.pc = "link"
    /\ Goto("python")
    /\ bin' = TRUE
    /\ UNCHANGED <<dir, current, marker, env, services, work, counts, loose>>

\* A write or a link fails: the command ends with what it has changed so far.
ActivationFails ==
    /\ cmd.pc \in {"mark", "switch", "link"}
    /\ Fault
    /\ Leaves
    /\ UNCHANGED <<program, services, work, loose>>

SetsPython ==
    /\ cmd.pc = "python"
    /\ Goto("check")
    /\ env' = cmd.v
    /\ UNCHANGED <<dir, links, marker, services, work, counts, loose>>

------------------------------------------------------------------------------
(* install_services *)

\* owner_process, gateway_process and appserver_process find their configuration.
ConfigIsValid == env # None

Registered == sessions    \* registry_session_count, of either schema

\* The shape of the services differs and there are sessions that notice.
Change ==
    IF legacy \/ ~Registered THEN "none"
    ELSE IF Supports(cmd.v) /\ units["worker"] = None THEN "upgrade"
    ELSE IF ~Supports(cmd.v) /\ units["worker"] # None THEN "downgrade"
    ELSE "none"

\* Mutant: the Owner is not asked.
NeverBusy == TRUE

\* require_idle_appserver_transition: asks the running Owner.
IdleForChange == svc["owner"] # None /\ turn = None

Checks ==
    /\ cmd.pc = "check"
    /\ ConfigIsValid
    /\ legacy => cmd.migrate \/ cmd.noStart
    /\ Change # "none" => IdleForChange
    /\ cmd' = [cmd EXCEPT !.pc = "units", !.change = Change, !.legacy = legacy, !.old.units = units]
    /\ UNCHANGED <<program, services, work, counts, loose>>

Refuses ==
    /\ cmd.pc = "check"
    /\ \/ legacy /\ ~cmd.migrate /\ ~cmd.noStart
       \/ Change # "none" /\ ~IdleForChange
    /\ Goto("undoApp")
    /\ UNCHANGED <<program, services, work, counts, loose>>

\* install_user_units: the worker template of the old version stays until the end.
WritesUnits ==
    /\ cmd.pc = "units"
    /\ units' = [u \in Units |-> IF u \in Components(cmd.v) THEN cmd.v ELSE units[u]]
    /\ Goto(CASE cmd.noStart -> "done"
              [] ~cmd.noStart /\ cmd.legacy -> "appserver"
              [] ~cmd.noStart /\ ~cmd.legacy -> IF cmd.change = "none" THEN "appserver" ELSE "stop")
    /\ loose' = (loose \/ cmd.noStart)
    /\ UNCHANGED <<program, enabled, svc, legacy, work, counts>>

\* A write or the reload fails: it is outside the guarded part, so the units
\* written so far stay.
UnitsTorn ==
    /\ cmd.pc = "units"
    /\ Fault
    /\ \E written \in SUBSET Components(cmd.v) :
         units' = [u \in Units |-> IF u \in written THEN cmd.v ELSE units[u]]
    /\ cmd' = [cmd EXCEPT !.pc = "undoApp", !.torn = TRUE]
    /\ loose' = TRUE
    /\ UNCHANGED <<program, enabled, svc, legacy, work>>

Rewrites(version) == schema' = version    \* rewrite_registry_schema

\* A change of shape: the Owner stops, and for the older shape its workers too.
StopsOwner ==
    /\ cmd.pc = "stop"
    /\ svc' = [svc EXCEPT !["owner"] = None]
    /\ IF cmd.change = "downgrade"
       THEN workers' = FALSE /\ Rewrites(1) /\ turn' = IF turn = "worker" THEN None ELSE turn
       ELSE UNCHANGED <<workers, schema, turn>>
    /\ Goto("appserver")
    /\ UNCHANGED <<program, units, enabled, legacy, sessions, holds, late, counts, loose>>

\* Mutant: start, as when the shape stays.
LeavesAppserver == svc["appserver"] = None

\* The shared App Server restarts when the shape changes and is left alone otherwise.
RestartsAppserver == cmd.change # "none" \/ svc["appserver"] = None

StartsAppserver ==
    /\ cmd.pc = "appserver"
    /\ IF RestartsAppserver
       THEN /\ svc' = [svc EXCEPT !["appserver"] = units["appserver"]]
            /\ holds' = FALSE
            /\ turn' = IF turn = "shared" THEN None ELSE turn
       ELSE UNCHANGED <<svc, holds, turn>>
    /\ Goto(IF cmd.legacy THEN "migrate" ELSE "owner")
    /\ UNCHANGED <<program, units, enabled, legacy, schema, sessions, workers, late, counts, loose>>

\* An Owner starts: one with worker units saves the registry with its own
\* schema as it loads it, and starts the workers of its sessions.
OwnerLoads(v) ==
    IF Supports(v)
    THEN schema' = 2 /\ workers' = (workers \/ sessions)
    ELSE UNCHANGED <<schema, workers>>

StartsOwner ==
    /\ cmd.pc = "owner"
    /\ svc' = [svc EXCEPT !["owner"] = units["owner"]]
    /\ OwnerLoads(units["owner"])
    /\ Goto("enable")
    /\ UNCHANGED <<program, units, enabled, legacy, sessions, holds, turn, late, counts, loose>>

\* migrate_owner: the Owner of old stops and the service takes over, or ...
Migrates ==
    /\ cmd.pc = "migrate"
    /\ legacy' = FALSE
    /\ svc' = [svc EXCEPT !["owner"] = units["owner"]]
    /\ enabled' = enabled \cup {"owner"}
    /\ OwnerLoads(units["owner"])
    /\ Goto("enable")
    /\ UNCHANGED <<program, units, sessions, holds, turn, late, counts, loose>>

\* ... the service does not become healthy and the Owner of old is started again, or not.
MigrationFails ==
    /\ cmd.pc = "migrate"
    /\ Fault
    /\ legacy' \in BOOLEAN
    /\ svc' = [svc EXCEPT !["owner"] = None]
    /\ enabled' = enabled \ {"owner"}
    /\ OwnerLoads(units["owner"])
    /\ Goto("undo")
    /\ UNCHANGED <<program, units, sessions, holds, turn, late, loose>>

Enables ==
    /\ cmd.pc = "enable"
    /\ enabled' = Services
    /\ svc' = [svc EXCEPT !["gateway"] = units["gateway"]]
    /\ Goto("health")
    /\ UNCHANGED <<program, units, legacy, work, counts, loose>>

\* Both answer and the tmux panes are those of before; the worker template of
\* another shape goes.
Healthy ==
    /\ cmd.pc = "health"
    /\ units' = IF Supports(cmd.v) THEN units ELSE [units EXCEPT !["worker"] = None]
    /\ Goto("done")
    /\ UNCHANGED <<program, enabled, svc, legacy, work, counts, loose>>

\* A pane of before has ended or changed its size, by whoever sits at it.
PanesChanged ==
    /\ cmd.pc = "health"
    /\ Fault
    /\ Goto("undo")
    /\ UNCHANGED <<program, services, work, loose>>

\* A call of systemctl fails, or the services do not answer in time.
StepFails ==
    /\ cmd.pc \in {"python", "check", "stop", "appserver", "owner", "enable", "health"}
    /\ Fault
    /\ Goto(IF cmd.pc \in {"python", "check"} THEN "undoApp" ELSE "undo")
    /\ UNCHANGED <<program, services, work, loose>>

------------------------------------------------------------------------------
(* The way back *)

Disables ==
    /\ cmd.pc = "undo"
    /\ enabled' = {}
    /\ svc' = [s \in Services |-> None]
    /\ holds' = FALSE
    /\ IF cmd.change # "none"
       THEN workers' = FALSE /\ Rewrites(IF cmd.old.units["worker"] # None THEN 2 ELSE 1)
       ELSE UNCHANGED <<workers, schema>>
    /\ turn' = IF turn = "shared" \/ ~workers' THEN None ELSE turn
    /\ Goto("restore")
    /\ UNCHANGED <<program, units, legacy, sessions, late, counts, loose>>

RestoresUnits ==
    /\ cmd.pc = "restore"
    /\ units' = cmd.old.units
    /\ Goto("revive")
    /\ UNCHANGED <<program, enabled, svc, legacy, work, counts, loose>>

\* Those that had a unit are started; nobody looks whether they do.
Revived(s) == units[s] # None /\ (s = "owner" => ~cmd.legacy)
Revives ==
    /\ cmd.pc = "revive"
    /\ legacy' = (legacy \/ cmd.legacy)
    /\ \/ /\ svc' = [s \in Services |-> IF Revived(s) THEN units[s] ELSE svc[s]]
          /\ UNCHANGED counts
          /\ IF Revived("owner") THEN OwnerLoads(units["owner"]) ELSE UNCHANGED <<schema, workers>>
       \/ Fault /\ UNCHANGED <<svc, schema, workers>>
    /\ Goto("undoApp")
    /\ UNCHANGED <<program, units, enabled, sessions, holds, turn, late, loose>>

\* "service install and rollback both failed".
UndoFails ==
    /\ cmd.pc \in {"undo", "restore", "revive"}
    /\ Fault
    /\ cmd' = [cmd EXCEPT !.pc = "undoApp", !.torn = TRUE]
    /\ loose' = TRUE
    /\ UNCHANGED <<program, services, work>>

\* restore_private_files, restore_activation and, of a rollback only,
\* restore_previous_marker.
RestoresConfig ==
    /\ cmd.pc = "undoApp"
    /\ env' = cmd.old.env
    /\ Goto("undoLink")
    /\ UNCHANGED <<dir, links, marker, services, work, counts, loose>>

\* Mutant: only the services and the configuration are taken back.
KeepsLink == current

RestoredLink == cmd.old.current

RestoresLink ==
    /\ cmd.pc = "undoLink"
    /\ current' = RestoredLink
    /\ Goto("undoBin")
    /\ UNCHANGED <<dir, bin, marker, env, services, work, counts, loose>>

RestoresBin ==
    /\ cmd.pc = "undoBin"
    /\ bin' = (cmd.old.current # None)
    /\ Goto(IF cmd.kind = "rollback" THEN "undoMarker" ELSE "failed")
    /\ UNCHANGED <<dir, current, marker, env, services, work, counts, loose>>

RestoresMarker ==
    /\ cmd.pc = "undoMarker"
    /\ marker' = cmd.old.marker
    /\ Goto("failed")
    /\ UNCHANGED <<dir, links, env, services, work, counts, loose>>

\* One of them fails, with some of the files restored or none: those that
\* follow are left out.
RestoreFails ==
    /\ cmd.pc \in {"undoApp", "undoLink", "undoBin", "undoMarker"}
    /\ Fault
    /\ Leaves
    /\ env' \in {env, IF cmd.pc = "undoApp" THEN cmd.old.env ELSE env}
    /\ UNCHANGED <<dir, links, marker, services, work, loose>>

\* The command is killed: nothing is taken back.
Killed ==
    /\ cmd.pc \notin Ended
    /\ Fault
    /\ cmd' = Idle
    /\ loose' = (loose \/ cmd.pc \in Checked)
    /\ UNCHANGED <<program, services, work>>

------------------------------------------------------------------------------
(* start, stop, restart and uninstall; the machine *)

ServiceOp ==
    /\ cmd.pc \in Ended
    /\ counts.ops < MaxServiceOps
    /\ counts' = [counts EXCEPT !.ops = @ + 1]
    /\ cmd' = Idle

\* service_operation: without a unit of the Owner it is the Owner of old.
StartsFaryo(restart) ==
    /\ ServiceOp
    /\ units["gateway"] # None /\ units["appserver"] # None
    /\ svc' = [s \in Services |->
                 IF units[s] # None /\ (svc[s] = None \/ (restart /\ s # "appserver"))
                 THEN units[s] ELSE svc[s]]
    /\ legacy' = (legacy \/ units["owner"] = None)
    /\ IF units["owner"] # None /\ svc'["owner"] = units["owner"]
       THEN OwnerLoads(units["owner"]) ELSE UNCHANGED <<schema, workers>>
    /\ UNCHANGED <<program, units, enabled, sessions, holds, turn, late, loose>>

StopsFaryo ==
    /\ ServiceOp
    /\ svc' = [s \in Services |-> None]
    /\ legacy' = (legacy /\ units["owner"] # None)
    /\ workers' = FALSE /\ holds' = FALSE /\ turn' = None
    /\ UNCHANGED <<program, units, enabled, schema, sessions, late, loose>>

Uninstalls ==
    /\ ServiceOp
    /\ svc' = [s \in Services |-> None] /\ enabled' = {}
    /\ legacy' = FALSE
    /\ units' = [u \in Units |-> None]
    /\ workers' = FALSE /\ holds' = FALSE /\ turn' = None
    /\ dir' = [v \in Versions |-> "absent"] /\ current' = None /\ bin' = FALSE /\ marker' = None
    /\ loose' = (loose \/ sessions)            \* the registry stays
    /\ UNCHANGED <<env, schema, sessions, late>>

\* Everything stops and what is enabled starts; the command is gone.
Reboots ==
    /\ Fault
    /\ cmd' = Idle
    /\ svc' = [s \in Services |-> IF s \in enabled THEN units[s] ELSE None]
    /\ legacy' = FALSE /\ holds' = FALSE /\ turn' = None
    /\ IF "owner" \in enabled /\ units["owner"] # None /\ Supports(units["owner"])
       THEN schema' = 2 /\ workers' = sessions
       ELSE workers' = FALSE /\ UNCHANGED schema
    /\ loose' = (loose \/ cmd.pc \in Checked)
    /\ UNCHANGED <<program, units, enabled, sessions, late>>

------------------------------------------------------------------------------
(* The sessions *)

OwnerReads == svc["owner"] # None /\ (schema = 1 \/ Supports(svc["owner"]))
Late == late' = (late \/ cmd.pc \in Checked)

SessionStarts ==
    /\ OwnerReads /\ ~sessions
    /\ sessions' = TRUE
    /\ IF Supports(svc["owner"])
       THEN workers' = TRUE /\ schema' = 2 /\ UNCHANGED holds
       ELSE svc["appserver"] # None /\ holds' = TRUE /\ UNCHANGED <<workers, schema>>
    /\ Late
    /\ UNCHANGED <<program, services, turn, cmd, counts, loose>>

TurnStarts ==
    /\ OwnerReads /\ sessions /\ turn = None
    /\ IF Supports(svc["owner"])
       THEN workers /\ turn' = "worker" /\ UNCHANGED holds
       ELSE svc["appserver"] # None /\ turn' = "shared" /\ holds' = TRUE
    /\ Late
    /\ UNCHANGED <<program, services, schema, sessions, workers, cmd, counts, loose>>

TurnEnds ==
    /\ turn # None
    /\ turn' = None
    /\ UNCHANGED <<program, services, schema, sessions, workers, holds, late, cmd, counts, loose>>

------------------------------------------------------------------------------
Prepares ==
    \/ Install \/ Update \/ Fetches \/ Unpacks \/ Rollback \/ Prepare \/ Builds \/ BuildFails
    \/ Configures \/ ConfigureFails \/ UndoesConfig
Activates == MarksPrevious \/ Switches \/ Links \/ ActivationFails \/ SetsPython
Installs ==
    \/ Checks \/ Refuses \/ WritesUnits \/ UnitsTorn \/ StopsOwner \/ StartsAppserver \/ StartsOwner
    \/ Migrates \/ MigrationFails \/ Enables \/ Healthy \/ PanesChanged \/ StepFails
RestoresApplication == RestoresConfig \/ RestoresLink \/ RestoresBin \/ RestoresMarker \/ RestoreFails
Undoes == Disables \/ RestoresUnits \/ Revives \/ UndoFails \/ RestoresApplication
Operates == (\E restart \in BOOLEAN : StartsFaryo(restart)) \/ StopsFaryo \/ Uninstalls
Sessions == SessionStarts \/ TurnStarts \/ TurnEnds

Next == Prepares \/ Activates \/ Installs \/ Undoes \/ Operates \/ Killed \/ Reboots \/ Sessions
Spec == Init /\ [][Next]_vars

------------------------------------------------------------------------------
(* Properties *)

\* A command that ends with an error leaves the links, the configuration and
\* the units as it found them, and a rollback the marker of the version before
\* (install_versioned_application, switch_version, install_services).  But for
\* an error of activate_version itself and of the way back (left): nothing
\* takes back what was changed by then.  The units may differ when their
\* writing or their way back failed (torn).
FailedSwitchesRestore ==
    cmd.pc = "failed" =>
        /\ ~cmd.left =>
             /\ current = cmd.old.current /\ env = cmd.old.env
             /\ cmd.kind = "rollback" => marker = cmd.old.marker
        /\ ~cmd.torn => units = cmd.old.units

\* Whatever fails, is killed or reboots, only versions whose preparation was
\* completed are linked, named by a unit or run (prepare_version).
OnlyCompleteVersionsRun ==
    \A v \in {current} \cup {units[u] : u \in Units} \cup {svc[s] : s \in Services} :
        v # None => dir[v] = "healthy"

\* A turn that ran when the command looked is never cut by it: the services it
\* restarts are not those that serve the turn (install_services).  A command to
\* stop or uninstall cuts it, a reboot, and a shared App Server going down on
\* the way back; so does a change of shape a turn that began after the look.
TurnsOutliveSwitches ==
    [][turn # None /\ turn' = None =>
         \/ TurnEnds \/ StopsFaryo \/ Uninstalls \/ Reboots
         \/ Disables /\ turn = "shared"
         \/ late]_vars

\* The services agree on who serves a session: a worker and the shared App
\* Server never both have its thread, and the Owner that runs can read the
\* registry, after every switch and way back.  But for a session or turn that
\* began after the command counted them, and units left half written or not
\* started, by --no-start, a kill or a failure of the way back, or removed while
\* the registry stays (uninstall).
ServicesAgreeOnSessions ==
    late \/ loose \/ ( /\ ~(workers /\ holds)
                       /\ sessions /\ svc["owner"] # None => OwnerReads )
=============================================================================
