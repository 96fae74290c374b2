------------------------------ MODULE Lifecycle ------------------------------
(***************************************************************************)
(* sbctl install, with and without --replace-existing, sbctl uninstall,    *)
(* the removal of sing-box, and a change of the subscription mode, over    *)
(* the files and services of one host.                                     *)
(*                                                                         *)
(* A file is known by the deployment it belongs to: one that was there at  *)
(* first, a foreign sing-box, or the one a command of this module installs.*)
(* The operation lock is an inode: a command locks the one it opened, and  *)
(* a purge unlinks the file.  Only some steps take it, as in the code.     *)
(***************************************************************************)
EXTENDS Naturals, Sequences, FiniteSets

CONSTANTS
  Commands,     \* commands that may run at once
  Installers,   \* those that may install
  Ops,          \* what they do: "install", "replace", "uninstall", "purge", "remove", "switch"
  Hosts,        \* what the host holds at first: "clean", "managed", "leftover", "foreign"
  Modes,        \* Direct mode or not, of a new deployment and of the one there is
  FaultKinds,   \* failures the environment may inject
  MaxFaults, MaxCommands,   \* bounds
  None

AllOps    == {"install", "replace", "uninstall", "purge", "remove", "switch"}
AllHosts  == {"clean", "managed", "leftover", "foreign"}
AllFaults == {"preflight", "archive", "services", "delete", "check", "write", "start",
              "undo", "crash"}

ASSUME LifecycleAssumption ==
  /\ Ops \subseteq AllOps /\ Hosts \subseteq AllHosts /\ Modes \subseteq BOOLEAN
  /\ Installers \subseteq Commands
  /\ FaultKinds \subseteq AllFaults
  /\ {MaxFaults, MaxCommands} \subseteq Nat
  /\ {None, "old", "foreign"} \cap Commands = {} /\ None \notin {"old", "foreign"}

\* The units, which are files and services both, in the order install_units writes them.
UnitOrder == <<"sing-box.service", "sbctl.service", "reset.timer", "sbctl-http.socket">>
Units     == {UnitOrder[i] : i \in 1..4}

\* The paths of existing_deployment_paths, sorted as the replacement goes through them.
ConflictOrder ==
  <<"hook", "config.toml", "sing-box.json", "reset.timer", "sbctl-http.socket", "sbctl.service",
    "sing-box.service", "sing-box", "acme-webroot", "artifacts", "certificates", "ownership",
    "state.json">>

ConflictPaths == {ConflictOrder[i] : i \in 1..Len(ConflictOrder)}
Files         == ConflictPaths \cup {"sbctl"}
DataDirectory == {"acme-webroot", "artifacts", "certificates", "ownership", "state.json"}
BackedUp      == {"hook", "config.toml", "sing-box.json", "artifacts", "ownership", "state.json"}

Contents == Commands \cup {"old", "foreign", None}

\* None stands for no archive as well.
ASSUME NoneAssumption == \A paths \in SUBSET Files : None \notin [paths -> Contents]

Managed(content) == content \notin {None, "foreign"}

VARIABLES
  disk,       \* the deployment each file belongs to
  mode,       \* Direct mode in config.toml
  socketed,   \* whether sbctl.service requires the socket
  active, enabled,   \* what systemd runs, and starts at boot
  archives,   \* what var/backups/sbctl holds
  lockFile, inodes,  \* the lock file, and how many there have been
  held,       \* the lock each command holds
  pc, job,    \* the commands
  outcome,    \* how each ended
  committed,  \* deployments that are there to stay
  purged,     \* whether a purge was asked for
  begun, faults      \* bounds

hostVars    == <<disk, mode, socketed, active, enabled, archives>>
lockVars    == <<lockFile, inodes, held>>
commandVars == <<pc, job, outcome>>
vars        == <<hostVars, lockVars, commandVars, committed, purged, begun, faults>>

Host == [disk |-> disk, mode |-> mode, socketed |-> socketed, active |-> active, enabled |-> enabled]

\* managed_units and the files of a deployment in each mode.
ManagedUnits(direct) == IF direct THEN Units ELSE Units \ {"sbctl-http.socket"}
DeploymentFiles(direct) ==
  IF direct THEN Files
  ELSE Files \ {"sbctl-http.socket", "hook", "certificates", "acme-webroot"}

NoJob == [op |-> "none", direct |-> FALSE, then |-> "idle", opened |-> 0, conflicts |-> {},
          backup |-> None, services |-> None, predates |-> {}, started |-> FALSE,
          owned |-> {}, loaded |-> FALSE, alone |-> FALSE, before |-> None]

HostFiles(h, direct) ==
  [f \in Files |->
     IF f = "sbctl" THEN "old"
     ELSE IF h = "managed" /\ f \in DeploymentFiles(direct) THEN "old"
     ELSE IF h = "leftover" /\ f \in DeploymentFiles(direct) \ (Units \cup {"hook", "sing-box"}) THEN "old"
     ELSE IF h = "foreign" /\ f \in {"sing-box.service", "sing-box", "sing-box.json"} THEN "foreign"
     ELSE None]

LifecycleInit(hosts, modes, commands) ==
  /\ \E h \in hosts, d \in modes :
       /\ disk = HostFiles(h, d)
       /\ mode = d /\ socketed = d
       /\ active = IF h = "managed" THEN ManagedUnits(d)
                   ELSE IF h = "foreign" THEN {"sing-box.service"} ELSE {}
       /\ lockFile = IF h \in {"managed", "leftover"} THEN 1 ELSE 0
       /\ committed = IF h = "clean" THEN {} ELSE IF h = "foreign" THEN {"foreign"} ELSE {"old"}
  /\ enabled = active
  /\ archives = {}
  /\ inodes = 1
  /\ held = [c \in Commands |-> 0]
  /\ pc = [c \in Commands |-> "idle"]
  /\ job = [c \in Commands |-> NoJob]
  /\ outcome = [c \in Commands |-> "none"]
  /\ purged = FALSE
  /\ begun = commands /\ faults = <<>>

Init == LifecycleInit(Hosts, Modes, 0)

-------------------------------------------------------------------------------
Goto(c, label) == pc' = [pc EXCEPT ![c] = label]

Fault(kind) ==
  /\ kind \in FaultKinds
  /\ Len(faults) < MaxFaults
  /\ faults' = Append(faults, kind)

\* What a loop over some paths has gone through when it fails.
Prefixes(paths, order) ==
  {{order[i] : i \in 1..n} \cap paths : n \in 0..Len(order)}

Remove(paths) == [f \in Files |-> IF f \in paths THEN None ELSE disk[f]]
Put(paths, content) == [f \in Files |-> IF f \in paths THEN content ELSE disk[f]]

Conflicts == {f \in ConflictPaths : disk[f] # None}

Installing == {"install", "replace"}

\* A command that starts while another runs disturbs it, and is disturbed.
Begin(c, op, direct) ==
  /\ pc[c] = "idle"
  /\ begun < MaxCommands
  /\ op \in Installing => c \in Installers \ committed   \* each deployment has its name
  /\ begun' = begun + 1
  /\ LET quiet == \A d \in Commands : pc[d] = "idle"
         new == [NoJob EXCEPT !.op = op, !.direct = direct, !.alone = quiet, !.before = Host] IN
     job' = [d \in Commands |-> IF d = c THEN new ELSE [job[d] EXCEPT !.alone = FALSE]]
  /\ outcome' = [outcome EXCEPT ![c] = "none"]
  /\ purged' = (purged \/ op = "purge")
  /\ Goto(c, op)
  /\ UNCHANGED <<hostVars, lockVars, committed, faults>>

\* The command returns; the guard it may hold unlocks its inode.
End(c, result) ==
  /\ Goto(c, "idle")
  /\ outcome' = [outcome EXCEPT ![c] = result]
  /\ job' = [job EXCEPT ![c] = NoJob]
  /\ held' = [held EXCEPT ![c] = 0]

Continue(c, label) == Goto(c, label) /\ UNCHANGED <<outcome, held>>

Release(c, label) == Goto(c, label) /\ held' = [held EXCEPT ![c] = 0] /\ UNCHANGED outcome

LockPoints == {"prepare", "initialize", "restore", "switch", "switch back"}

\* Where a command goes on once it has the lock.
AfterLock(label) ==
  CASE label = "prepare" -> "archive" [] label = "initialize" -> "create"
    [] label = "restore" -> "untar"   [] label = "switch" -> "commit"
    [] label = "switch back" -> "revert"

\* The file that a command which locks now opens: created when it is not there.
OpenFile ==
  /\ lockFile' = IF lockFile = 0 THEN inodes + 1 ELSE lockFile
  /\ inodes' = IF lockFile = 0 THEN inodes + 1 ELSE inodes

\* OperationLock::acquire opens the file, then waits for the inode it has opened.
OpenLock(c) ==
  /\ pc[c] \in LockPoints
  /\ OpenFile
  /\ job' = [job EXCEPT ![c].opened = lockFile', ![c].then = pc[c]]
  /\ Goto(c, "wait")
  /\ UNCHANGED <<hostVars, held, outcome, committed, purged, begun, faults>>

AcquireLock(c) ==
  /\ pc[c] = "wait"
  /\ \A d \in Commands : held[d] # job[c].opened
  /\ held' = [held EXCEPT ![c] = job[c].opened]
  /\ Goto(c, AfterLock(job[c].then))
  /\ UNCHANGED <<hostVars, lockFile, inodes, job, outcome, committed, purged, begun, faults>>

\* A write that takes and drops the lock in one call.
BrieflyLocked ==
  /\ lockFile = 0 \/ ~\E d \in Commands : held[d] = lockFile
  /\ OpenFile

\* SIGKILL or a power cut of the command; the kernel drops its lock.
Crash(c) ==
  /\ pc[c] # "idle"
  /\ Fault("crash")
  /\ End(c, "crashed")
  /\ UNCHANGED <<hostVars, lockFile, inodes, committed, purged, begun>>

-------------------------------------------------------------------------------
(* --replace-existing: the previous deployment goes into an archive first. *)

\* Platform, privileges and ports; what exists refuses a fresh installation.
Preflight(c) ==
  /\ pc[c] \in {"install", "replace"}
  /\ \/ /\ pc[c] = "install" /\ Conflicts = {}
        /\ Continue(c, "capture") /\ UNCHANGED <<job, faults>>
     \/ /\ pc[c] = "replace"
        /\ Continue(c, IF Conflicts = {} THEN "recheck" ELSE "prepare")
        /\ job' = [job EXCEPT ![c].conflicts = Conflicts]
        /\ UNCHANGED faults
     \/ /\ pc[c] = "install" /\ Conflicts # {}
        /\ End(c, "refused") /\ UNCHANGED faults
     \/ Fault("preflight") /\ End(c, "refused")
  /\ UNCHANGED <<hostVars, lockFile, inodes, committed, purged, begun>>

\* previous_service_states: the units among the conflicts that run or start at boot.
\* Beside them, what the archived configuration and service unit say.
PreviousServiceStates(paths) ==
  [active |-> active \cap paths, enabled |-> enabled \cap paths, mode |-> mode, socketed |-> socketed]

\* create_conflict_archive, in a directory of its own.
ArchiveOf(paths) == [f \in paths |-> disk[f]]

\* Mutant: the archive keeps its temporary name until the installation has succeeded.
ArchiveConflictsInPart(c) ==
  /\ pc[c] = "archive"
  /\ job[c].conflicts \subseteq Conflicts
  /\ job' = [job EXCEPT ![c].backup = ArchiveOf(job[c].conflicts),
                        ![c].services = PreviousServiceStates(job[c].conflicts)]
  /\ Continue(c, "stop")
  /\ UNCHANGED <<hostVars, lockFile, inodes, committed, purged, begun, faults>>

\* tar stops at a path that is no longer there; nothing was stopped or removed yet.
ArchiveConflicts(c) ==
  /\ pc[c] = "archive"
  /\ \/ /\ job[c].conflicts \subseteq Conflicts
        /\ archives' = archives \cup {ArchiveOf(job[c].conflicts)}
        /\ job' = [job EXCEPT ![c].backup = ArchiveOf(job[c].conflicts),
                              ![c].services = PreviousServiceStates(job[c].conflicts)]
        /\ Continue(c, "stop") /\ UNCHANGED faults
     \/ /\ IF job[c].conflicts \subseteq Conflicts THEN Fault("archive") ELSE UNCHANGED faults
        /\ End(c, "failed") /\ UNCHANGED archives
  /\ UNCHANGED <<disk, mode, socketed, active, enabled, lockFile, inodes, committed, purged, begun>>

\* stop_previous_services.
StopPrevious(c) ==
  /\ pc[c] = "stop"
  /\ \/ /\ active' = active \ job[c].services.active
        /\ enabled' = enabled \ job[c].services.enabled
        /\ Continue(c, "clear") /\ UNCHANGED faults
     \/ /\ Fault("services")
        /\ \E some \in Prefixes(job[c].conflicts, ConflictOrder) :
             /\ active' = active \ (some \cap job[c].services.active)
             /\ enabled' = enabled \ (some \cap job[c].services.enabled)
        /\ Continue(c, "recover")
  /\ UNCHANGED <<disk, mode, socketed, archives, lockFile, inodes, job, committed, purged, begun>>

\* The conflicts go and systemd reloads; the guard drops the lock on return.
ClearConflicts(c) ==
  /\ pc[c] = "clear"
  /\ \/ /\ disk' = Remove(job[c].conflicts)
        /\ Release(c, "recheck") /\ UNCHANGED faults
     \/ /\ Fault("delete")
        /\ \E some \in Prefixes(job[c].conflicts, ConflictOrder) : disk' = Remove(some)
        /\ Continue(c, "recover")
  /\ UNCHANGED <<mode, socketed, active, enabled, archives, lockFile, inodes, job, committed, purged, begun>>

\* The paths of an archive before the one at which a loop over them stops.
All == Len(ConflictOrder)
UpTo(n) == {ConflictOrder[i] : i \in 1..n}
UnitsUpTo(n) == Units \cap UpTo(n)

\* Mutant: the services are started, not enabled.
ServicesRestoredNow(c, n, m) ==
  /\ UNCHANGED enabled
  /\ active' = active \cup (job[c].services.active \cap UnitsUpTo(m))

\* restore_previous_services: each recorded service is enabled and started again; the
\* first n are enabled by then, m of them started.
ServicesRestored(c, n, m) ==
  /\ enabled' = enabled \cup (job[c].services.enabled \cap UnitsUpTo(n))
  /\ active' = active \cup (job[c].services.active \cap UnitsUpTo(m))

\* The loop ends at the first service whose unit is not there, or with the last one.
StopsAt(c, n) ==
  LET recorded == job[c].services.active \cup job[c].services.enabled IN
  /\ \A u \in recorded \cap UpTo(n) : disk[u] # None
  /\ n < All => ConflictOrder[n + 1] \in recorded /\ disk[ConflictOrder[n + 1]] = None

\* What untarring the first n paths of the archive makes of the host.
Untarred(c, n) ==
  LET saved == job[c].backup
      paths == DOMAIN saved \cap UpTo(n) IN
  /\ disk' = [f \in Files |-> IF f \in paths THEN saved[f] ELSE disk[f]]
  /\ mode' = IF "config.toml" \in paths THEN job[c].services.mode ELSE mode
  /\ socketed' = IF "sbctl.service" \in paths THEN job[c].services.socketed ELSE socketed

\* The recovery fails: tar stops at one of the paths, or a service is not enabled, or
\* is enabled and does not start.
UndoFails(c) ==
  LET there == job[c].backup \in archives IN
  /\ Fault("undo")
  /\ \/ /\ there /\ \E n \in 0..All : Untarred(c, n)
        /\ UNCHANGED <<active, enabled>>
     \/ /\ IF there THEN Untarred(c, All)
           ELSE pc[c] = "recover" /\ UNCHANGED <<disk, mode, socketed>>
        /\ \E n \in 0..All, m \in 0..All : n \in {m, m + 1} /\ ServicesRestored(c, n, m)

\* A failed preparation undoes itself (prepare_reinstall), a failed installation after
\* it has rolled back (restore_replaced_deployment); both hold the lock.
RestoreArchive(c) ==
  /\ pc[c] \in {"recover", "untar"}
  /\ \/ /\ job[c].backup \in archives
        /\ Untarred(c, All) /\ ServicesRestored(c, All, All) /\ UNCHANGED faults
     \/ /\ job[c].backup \notin archives
        /\ IF pc[c] = "recover" THEN \E n \in 0..All : StopsAt(c, n) /\ ServicesRestored(c, n, n)
           ELSE UNCHANGED <<active, enabled>>
        /\ UNCHANGED <<disk, mode, socketed, faults>>
     \/ UndoFails(c)
  /\ End(c, "failed")
  /\ UNCHANGED <<archives, lockFile, inodes, committed, purged, begun>>

\* The second preflight, on what should be a clean host.
Recheck(c) ==
  /\ pc[c] = "recheck"
  /\ \/ Conflicts = {} /\ Continue(c, "capture") /\ UNCHANGED faults
     \/ /\ IF Conflicts = {} THEN Fault("preflight") ELSE UNCHANGED faults
        /\ Continue(c, "failed")
  /\ UNCHANGED <<hostVars, lockFile, inodes, job, committed, purged, begun>>

-------------------------------------------------------------------------------
(* The installation, up to its commit point, the ownership marker.         *)

\* preexisting_state: what a rollback must leave alone.
Predating ==
  (IF disk["config.toml"] = None THEN {} ELSE {"config.toml"}) \cup
  (IF \A f \in DataDirectory \ {"acme-webroot"} : disk[f] = None THEN {} ELSE DataDirectory)

Capture(c) ==
  /\ pc[c] = "capture"
  /\ job' = [job EXCEPT ![c].predates = Predating]
  /\ Continue(c, "check")
  /\ UNCHANGED <<hostVars, lockFile, inodes, committed, purged, begun, faults>>

\* Download, generation and the check of sing-box; the host is not touched yet.
CheckCandidate(c) ==
  /\ pc[c] = "check"
  /\ \/ /\ job' = [job EXCEPT ![c].started = TRUE]
        /\ Continue(c, "core") /\ UNCHANGED faults
     \/ Fault("check") /\ Continue(c, "failed") /\ UNCHANGED job
  /\ UNCHANGED <<hostVars, lockFile, inodes, committed, purged, begun>>

\* install_checked_sing_box: copied beside the target and renamed.
InstallCore(c) ==
  /\ pc[c] = "core"
  /\ \/ disk' = Put({"sing-box"}, c) /\ Continue(c, "initialize") /\ UNCHANGED faults
     \/ Fault("write") /\ Continue(c, "failed") /\ UNCHANGED disk
  /\ UNCHANGED <<mode, socketed, active, enabled, archives, lockFile, inodes, job, committed, purged, begun>>

\* initialize_with_artifacts: the configuration is written last, and never replaced.
Initialize(c) ==
  /\ pc[c] = "create"
  /\ LET first == {"artifacts"} \cup (IF job[c].direct THEN {"acme-webroot"} ELSE {}) IN
     \/ /\ disk["config.toml"] = None
        /\ disk' = Put(first \cup {"config.toml"}, c)
        /\ mode' = job[c].direct
        /\ Release(c, "prerequisites") /\ UNCHANGED faults
     \/ /\ disk["config.toml"] = None
        /\ Fault("write")
        /\ \E some \in Prefixes(first, <<"artifacts", "acme-webroot">>) : disk' = Put(some, c)
        /\ Release(c, "failed") /\ UNCHANGED mode
     \/ /\ disk["config.toml"] # None
        /\ Release(c, "failed") /\ UNCHANGED <<disk, mode, faults>>
  /\ UNCHANGED <<socketed, active, enabled, archives, lockFile, inodes, job, committed, purged, begun>>

\* Accounts, a certificate that is already there, and the first accounting state.
Prerequisites(c) ==
  /\ pc[c] = "prerequisites"
  /\ BrieflyLocked
  /\ \E pinned \in SUBSET (IF job[c].direct THEN {"certificates"} ELSE {}) :
       \/ disk' = Put(pinned \cup {"state.json"}, c) /\ Continue(c, "units") /\ UNCHANGED faults
       \/ Fault("write") /\ disk' = Put(pinned, c) /\ Continue(c, "failed")
  /\ UNCHANGED <<mode, socketed, active, enabled, archives, job, committed, purged, begun>>

\* install_units: no unit is replaced; the active configuration goes first.
WriteOrder == <<"sing-box.json", "sing-box.service", "sbctl.service", "reset.timer",
                "sbctl-http.socket", "hook">>

InstallUnits(c) ==
  /\ pc[c] = "units"
  /\ LET files == {WriteOrder[i] : i \in 1..6} \cap DeploymentFiles(job[c].direct)
         free == \A f \in files \ {"sing-box.json"} : disk[f] = None IN
     \/ /\ free
        /\ BrieflyLocked
        /\ disk' = Put(files, c)
        /\ socketed' = job[c].direct
        /\ Continue(c, "start") /\ UNCHANGED faults
     \/ /\ free
        /\ BrieflyLocked
        /\ Fault("write")
        /\ \E some \in Prefixes(files, WriteOrder) :
             /\ disk' = Put(some, c)
             /\ socketed' = IF "sbctl.service" \in some THEN job[c].direct ELSE socketed
        /\ Continue(c, "failed")
     \/ /\ ~ free
        /\ Continue(c, "failed") /\ UNCHANGED <<disk, socketed, lockFile, inodes, faults>>
  /\ UNCHANGED <<mode, active, enabled, archives, job, committed, purged, begun>>

\* start_services: enable --now stops at a unit that has no file or does not start.
StartServices(c) ==
  /\ pc[c] = "start"
  /\ LET units == ManagedUnits(job[c].direct)
         startable == \A u \in units : disk[u] # None IN
     \/ /\ startable
        /\ active' = active \cup units /\ enabled' = enabled \cup units
        /\ Continue(c, "health") /\ UNCHANGED faults
     \/ /\ IF startable THEN Fault("start") ELSE UNCHANGED faults
        /\ \E some \in Prefixes({u \in units : disk[u] # None}, UnitOrder) : active' = active \cup some
        /\ enabled' = enabled \cup {u \in units : disk[u] # None}
        /\ Continue(c, "failed")
  /\ UNCHANGED <<disk, mode, socketed, archives, lockFile, inodes, job, committed, purged, begun>>

\* check_service_health: each unit stays active over the observation window.
CheckHealth(c) ==
  /\ pc[c] = "health"
  /\ \/ /\ ManagedUnits(job[c].direct) \subseteq active
        /\ Continue(c, "marker") /\ UNCHANGED <<active, faults>>
     \/ /\ ~ ManagedUnits(job[c].direct) \subseteq active
        /\ Continue(c, "failed") /\ UNCHANGED <<active, faults>>
     \/ /\ Fault("start")
        /\ \E u \in {"sing-box.service", "sbctl.service"} : active' = active \ {u}
        /\ Continue(c, "failed")
  /\ UNCHANGED <<disk, mode, socketed, enabled, archives, lockFile, inodes, job, committed, purged, begun>>

\* write_ownership_marker, the commit point.
WriteMarker(c) ==
  /\ pc[c] = "marker"
  /\ \/ /\ disk' = Put({"ownership"}, c)
        /\ committed' = committed \cup {c}
        /\ End(c, "installed") /\ UNCHANGED faults
     \/ /\ Fault("write")
        /\ Continue(c, "failed") /\ UNCHANGED <<disk, job, committed>>
  /\ UNCHANGED <<mode, socketed, active, enabled, archives, lockFile, inodes, purged, begun>>

-------------------------------------------------------------------------------
(* What a failed installation undoes.                                      *)

Failed(c) ==
  /\ pc[c] = "failed"
  /\ \/ job[c].started /\ Continue(c, "disable") /\ UNCHANGED job
     \/ ~ job[c].started /\ job[c].backup # None /\ Continue(c, "restore") /\ UNCHANGED job
     \/ ~ job[c].started /\ job[c].backup = None /\ End(c, "failed")
  /\ UNCHANGED <<hostVars, lockFile, inodes, committed, purged, begun, faults>>

\* rollback_fresh_installation stops what it can; its failures are not reported.
DisableUnits(c) ==
  /\ pc[c] = "disable"
  /\ \/ active' = active \ Units /\ enabled' = enabled \ Units /\ UNCHANGED faults
     \/ Fault("undo") /\ UNCHANGED <<active, enabled>>
  /\ Continue(c, "delete")
  /\ UNCHANGED <<disk, mode, socketed, archives, lockFile, inodes, job, committed, purged, begun>>

\* predates_transaction: what the rollback leaves alone.
Predates(c, f) == f \in job[c].predates

\* remove_data_directory_keeping_lock: the entries of the data directory but the lock
\* file; those after the first that cannot be removed stay.
DataRemoved(c) == {f \in DataDirectory : ~ Predates(c, f)}
FilesRemoved(c) == {f \in Files \ DataDirectory : ~ Predates(c, f)}

\* A file that cannot be removed does not keep the others from going.
DeleteFiles(c) ==
  /\ pc[c] = "delete"
  /\ \/ disk' = Remove(FilesRemoved(c) \cup DataRemoved(c)) /\ UNCHANGED faults
     \/ /\ Fault("undo")
        /\ \/ \E f \in FilesRemoved(c) : disk' = Remove((FilesRemoved(c) \ {f}) \cup DataRemoved(c))
           \/ \E some \in SUBSET DataRemoved(c) : disk' = Remove(FilesRemoved(c) \cup some)
  /\ \/ job[c].backup # None /\ Continue(c, "restore") /\ UNCHANGED job
     \/ job[c].backup = None /\ End(c, "failed")
  /\ UNCHANGED <<mode, socketed, active, enabled, archives, lockFile, inodes, committed, purged, begun>>

-------------------------------------------------------------------------------
(* sbctl uninstall, which takes no lock, and the removal of sing-box.      *)

\* What each owned unit takes with it.
With(units) ==
  units \cup (IF "sbctl.service" \in units THEN {"sbctl"} ELSE {})
        \cup (IF "sing-box.service" \in units THEN {"sing-box"} ELSE {})

\* backup_persistent_data: of the files to keep, those that are there.
PersistentData == [f \in {g \in BackedUp : disk[g] # None} |-> disk[f]]

\* The marker of each unit file is read before anything is touched.  Persistent data
\* is copied first, or, with purge, goes with the rest.
Uninstall(c) ==
  /\ pc[c] \in {"uninstall", "purge"}
  /\ LET found == disk["config.toml"] # None /\ disk["ownership"] # None
         owned == {f \in Units \cup {"hook"} : Managed(disk[f])}
         core == IF "sing-box.service" \in owned \/ disk["sing-box.service"] = None
                 THEN {"sing-box.json"} ELSE {} IN
     \/ ~ found /\ End(c, "refused") /\ UNCHANGED <<archives, faults>>
     \/ /\ found
        /\ archives' = IF pc[c] = "purge" THEN archives
                       ELSE archives \cup {PersistentData}
        /\ job' = [job EXCEPT ![c].owned = owned \cup core]
        /\ Continue(c, "stop units") /\ UNCHANGED faults
     \/ /\ found /\ pc[c] = "uninstall"
        /\ Fault("archive")
        /\ End(c, "failed") /\ UNCHANGED archives
  /\ UNCHANGED <<disk, mode, socketed, active, enabled, lockFile, inodes, committed, purged, begun>>

StopUnits(c) ==
  /\ pc[c] = "stop units"
  /\ LET units == job[c].owned \cap Units IN
     \/ /\ active' = active \ units /\ enabled' = enabled \ units
        /\ Continue(c, "remove files") /\ UNCHANGED <<job, faults>>
     \/ /\ Fault("services")
        /\ \E some \in Prefixes(units, <<"sbctl.service", "sing-box.service", "reset.timer">>) :
             active' = active \ some /\ enabled' = enabled \ some
        /\ End(c, "failed")
  /\ UNCHANGED <<disk, mode, socketed, archives, lockFile, inodes, committed, purged, begun>>

RemovalOrder == <<"sbctl.service", "sbctl", "sing-box.service", "sing-box", "reset.timer",
                  "sbctl-http.socket", "hook">>

RemoveFiles(c) ==
  /\ pc[c] = "remove files"
  /\ LET files == With(job[c].owned \ {"sing-box.json"}) IN
     \/ /\ disk' = Remove(files)
        /\ IF job[c].op = "purge" THEN Continue(c, "purge data") /\ UNCHANGED job ELSE End(c, "removed")
        /\ UNCHANGED faults
     \/ /\ Fault("delete")
        /\ \E some \in Prefixes(files, RemovalOrder) : disk' = Remove(some)
        /\ End(c, "failed")
  /\ UNCHANGED <<mode, socketed, active, enabled, archives, lockFile, inodes, committed, purged, begun>>

\* The data directory goes with the lock file, whoever holds it, then the backups.
PurgeData(c) ==
  /\ pc[c] = "purge data"
  /\ LET core == job[c].owned \cap {"sing-box.json"} IN
     \/ /\ disk' = Remove(core \cup {"config.toml"} \cup DataDirectory)
        /\ lockFile' = 0
        /\ archives' = {}
        /\ End(c, "removed") /\ UNCHANGED faults
     \/ /\ Fault("delete")
        /\ \E some \in Prefixes(core \cup {"config.toml"} \cup DataDirectory,
                                <<"sing-box.json", "config.toml", "acme-webroot", "artifacts",
                                  "certificates", "ownership", "state.json">>) : disk' = Remove(some)
        /\ lockFile' \in {lockFile, 0}
        /\ End(c, "failed") /\ UNCHANGED archives
  /\ UNCHANGED <<mode, socketed, active, enabled, inodes, committed, purged, begun>>

\* remove_managed_sing_box: disable --now, the unit, the binary, daemon-reload; what is
\* done by then stays when a step fails.
RemoveCore(c) ==
  /\ pc[c] = "remove"
  /\ LET owned == Managed(disk["sing-box.service"])
         unit == {"sing-box.service"} IN
     \/ ~ owned /\ End(c, "refused") /\ UNCHANGED <<disk, active, enabled, faults>>
     \/ /\ owned
        /\ active' = active \ unit /\ enabled' = enabled \ unit
        /\ \/ disk' = Remove(unit \cup {"sing-box"}) /\ End(c, "removed") /\ UNCHANGED faults
           \/ /\ Fault("delete")
              /\ \E some \in {{}, unit, unit \cup {"sing-box"}} : disk' = Remove(some)
              /\ End(c, "failed")
     \/ /\ owned
        /\ Fault("services")
        /\ enabled' \in {enabled, enabled \ unit}
        /\ End(c, "failed") /\ UNCHANGED <<disk, active>>
  /\ UNCHANGED <<mode, socketed, archives, lockFile, inodes, committed, purged, begun>>

-------------------------------------------------------------------------------
(* A change of the subscription mode: restart_services reconciles the units *)
(* with the committed mode, and a failure puts the old mode back.           *)

\* The configuration is replaced under the lock, in one rename.
CommitMode(c) ==
  /\ pc[c] \in {"commit", "revert"}
  /\ IF disk["config.toml"] = None
     THEN IF pc[c] = "commit" THEN End(c, "refused") /\ UNCHANGED mode
          ELSE Release(c, "reconcile") /\ UNCHANGED <<mode, job>>
     ELSE /\ mode' = IF pc[c] = "commit" THEN job[c].direct ELSE ~ job[c].direct
          /\ Release(c, "reconcile") /\ UNCHANGED job
  /\ UNCHANGED <<disk, socketed, active, enabled, archives, lockFile, inodes, committed, purged, begun, faults>>

\* The first failure puts the mode back and restarts once more, the second is reported.
RestartFails(c) ==
  IF job[c].started THEN End(c, "failed")
  ELSE Continue(c, "switch back") /\ job' = [job EXCEPT ![c].started = TRUE]

\* Mutant: a hook that is no longer wanted stays.
ReconciledKeepsHook(done) ==
  /\ socketed' = IF done > 0 THEN mode ELSE socketed
  /\ disk' = [f \in Files |->
       IF mode /\ disk[f] = None
            /\ f \in {"sbctl-http.socket", "hook"} /\ done > (IF f = "hook" THEN 2 ELSE 1)
       THEN disk["sbctl.service"] ELSE disk[f]]

\* reconcile_subscription_units and reconcile_certificate_hook: the service unit, the
\* socket, the hook, in this order.
Reconciled(done) ==
  /\ socketed' = IF done > 0 THEN mode ELSE socketed
  /\ disk' = [f \in Files |->
       IF f = "sbctl-http.socket" /\ mode /\ done > 1 /\ disk[f] = None THEN disk["sbctl.service"]
       ELSE IF f = "hook" /\ done > 2
            THEN IF ~ mode THEN None ELSE IF disk[f] = None THEN disk["sbctl.service"] ELSE disk[f]
       ELSE disk[f]]

Reconcile(c) ==
  /\ pc[c] = "reconcile"
  /\ LET ours == Managed(disk["sbctl.service"]) /\ disk["config.toml"] # None IN
     \/ /\ ours
        /\ Reconciled(3)
        /\ job' = [job EXCEPT ![c].loaded = mode]
        /\ Continue(c, "restart") /\ UNCHANGED faults
     \/ /\ ours
        /\ Fault("write")
        /\ \E done \in 0..2 : Reconciled(done)
        /\ RestartFails(c)
     \/ ~ ours /\ RestartFails(c) /\ UNCHANGED <<disk, socketed, faults>>
  /\ UNCHANGED <<mode, active, enabled, archives, lockFile, inodes, committed, purged, begun>>

\* trigger_direct_socket: the connection makes systemd start the daemon, with the socket.
Triggered(units) == units \cup {"sbctl.service", "sbctl-http.socket"}

\* sing-box restarts.  In Direct mode sbctl stops and comes back by its socket, else
\* the socket is disabled first; what is done by then stays when a call fails.
Restarted(direct, done) ==
  LET restarted == active \cup {"sing-box.service"} IN
  IF direct
  THEN /\ active' = CASE done = 0 -> restarted
                      [] done = 1 -> restarted \ {"sbctl.service"}
                      [] done = 2 -> (restarted \ {"sbctl.service"}) \cup {"sbctl-http.socket"}
                      [] done = 3 -> Triggered(restarted)
       /\ enabled' = IF done > 1 THEN enabled \cup {"sbctl-http.socket"} ELSE enabled
  ELSE /\ active' = CASE done = 0 -> restarted
                      [] done \in {1, 2} -> restarted \ {"sbctl-http.socket"}
                      [] done = 3 -> (restarted \ {"sbctl-http.socket"}) \cup {"sbctl.service"}
       /\ enabled' = IF done > 0 THEN enabled \ {"sbctl-http.socket"} ELSE enabled

Restart(c) ==
  /\ pc[c] = "restart"
  /\ LET there == {"sing-box.service", "sbctl.service"} \subseteq Conflicts IN
     \/ /\ there
        /\ Restarted(job[c].loaded, 3)
        /\ End(c, IF job[c].started THEN "failed" ELSE "switched")
        /\ UNCHANGED faults
     \/ /\ there
        /\ Fault("start")
        /\ \E done \in 0..3 : Restarted(job[c].loaded, done)
        /\ RestartFails(c)
     \/ ~ there /\ RestartFails(c) /\ UNCHANGED <<active, enabled, faults>>
  /\ UNCHANGED <<disk, mode, socketed, archives, lockFile, inodes, committed, purged, begun>>

-------------------------------------------------------------------------------
Install(c) ==
  \/ Preflight(c) \/ ArchiveConflicts(c) \/ StopPrevious(c) \/ ClearConflicts(c) \/ Recheck(c)
  \/ Capture(c) \/ CheckCandidate(c) \/ InstallCore(c) \/ Initialize(c) \/ Prerequisites(c)
  \/ InstallUnits(c) \/ StartServices(c) \/ CheckHealth(c) \/ WriteMarker(c)
  \/ Failed(c) \/ DisableUnits(c) \/ DeleteFiles(c) \/ RestoreArchive(c)

Command(c) ==
  \/ OpenLock(c) \/ AcquireLock(c) \/ Install(c)
  \/ Uninstall(c) \/ StopUnits(c) \/ RemoveFiles(c) \/ PurgeData(c) \/ RemoveCore(c)
  \/ CommitMode(c) \/ Reconcile(c) \/ Restart(c)

Next ==
  \E c \in Commands :
    \/ \E op \in Ops \cap Installing, d \in Modes : Begin(c, op, d)
    \/ \E op \in Ops \ Installing : Begin(c, op, ~ mode)
    \/ Command(c)
    \/ Crash(c)

Spec == Init /\ [][Next]_vars

\* Commands run on until they return.
Fairness == \A c \in Commands : WF_vars(Command(c))
FairSpec == Spec /\ Fairness

-------------------------------------------------------------------------------
(* Properties.                                                             *)

Labels ==
  AllOps \cup LockPoints \cup {AfterLock(l) : l \in LockPoints} \cup
  {"idle", "wait", "stop", "clear", "recover", "recheck", "capture", "check", "core",
   "prerequisites", "units", "start", "health", "marker", "failed", "disable", "delete",
   "stop units", "remove files", "purge data", "reconcile", "restart"}

\* Every variable has its type; the lock file is one of those there have been.
TypeOK ==
  /\ disk \in [Files -> Contents]
  /\ {mode, socketed, purged} \subseteq BOOLEAN
  /\ active \subseteq Units /\ enabled \subseteq Units
  /\ \A a \in archives : DOMAIN a \subseteq Files
  /\ inodes \in Nat /\ lockFile \in 0..inodes
  /\ held \in [Commands -> 0..inodes]
  /\ pc \in [Commands -> Labels]
  /\ committed \subseteq Contents \ {None}

\* As long as no purge unlinks the lock file, no two commands hold the operation lock,
\* whatever installations are rolled back meanwhile (remove_data_directory_keeping_lock).
OneLockHolder ==
  ~ purged => \A c, d \in Commands : held[c] # 0 /\ held[d] # 0 => c = d

\* What makes a deployment: credentials and accounting, or the files of a foreign one.
Precious(d) ==
  IF d = "foreign" THEN {"sing-box.service", "sing-box", "sing-box.json"}
  ELSE {"config.toml", "state.json"}

\* Unless the administrator asks for a purge, what makes a deployment that was there, or
\* was committed, is on the host or in an archive after every step of every command,
\* whatever fails or is killed.
NothingLost ==
  ~ purged =>
    \A d \in committed : \A f \in Precious(d) :
      disk[f] = d \/ \E a \in archives : f \in DOMAIN a /\ a[f] = d

Ends(c, op) == pc[c] # "idle" /\ pc'[c] = "idle" /\ job[c].op \in op /\ job[c].alone
Happened(kind) == \E i \in 1..Len(faults') : faults'[i] = kind

HasItsUnits(h) == \A u \in h.active \cup h.enabled : h.disk[u] # None

\* An installation that fails with no other command around, on a host whose running units
\* have their files, leaves that host as it found it: every file but usr/local/bin/sbctl, every running and enabled unit, and the mode;
\* only a failure of the recovery itself, which is reported, is excepted.
FailedInstallRestores ==
  [][\A c \in Commands :
       Ends(c, Installing) /\ outcome'[c] # "installed" /\ outcome'[c] # "crashed"
           /\ ~ Happened("undo") /\ HasItsUnits(job[c].before) =>
         /\ \A f \in ConflictPaths : disk'[f] = job[c].before.disk[f]
         /\ active' = job[c].before.active /\ enabled' = job[c].before.enabled
         /\ disk'["config.toml"] # None => mode' = job[c].before.mode]_vars

\* The ownership marker is the commit point: when an installation undisturbed by others
\* writes it, everything of the deployment is in place, runs, and is enabled.
MarkerIsLast ==
  [][\A c \in Commands :
       pc[c] = "marker" /\ disk'["ownership"] = c /\ job[c].alone =>
         /\ \A f \in DeploymentFiles(job[c].direct) \ {"sbctl", "certificates"} : disk'[f] = c
         /\ ManagedUnits(job[c].direct) \subseteq active' \cap enabled'
         /\ socketed' = job[c].direct]_vars

\* The units on the host are those of a mode.
Fits(h) ==
  /\ h.socketed = h.mode
  /\ h.mode <=> h.disk["hook"] # None
  /\ h.mode <=> "sbctl-http.socket" \in h.active
  /\ h.mode => h.disk["sbctl-http.socket"] # None

\* A change of the subscription mode that ends by a successful restart, also when that
\* is the restart after a failure, leaves the service unit, the socket and the hook in
\* step with the committed mode.
UnitsFitMode ==
  [][\A c \in Commands :
       Ends(c, {"switch"}) /\ pc[c] = "restart" /\ faults' = faults /\ Fits(job[c].before) =>
         Fits(Host')]_vars

\* As documented, "an unsuccessful new install can restore the old deployment": once the
\* archive is restored after a rollback, the units that run have their executables.
RestoredDeploymentRuns ==
  [][\A c \in Commands :
       pc[c] = "untar" /\ outcome'[c] = "failed" /\ job[c].backup \in archives /\ faults' = faults =>
         \A u \in active' : \A f \in With({u}) : disk'[f] # None]_vars

\* Every command ends, whatever holds the lock before it.
EveryCommandEnds == \A c \in Commands : pc[c] # "idle" ~> pc[c] = "idle"

=============================================================================
