-------------------------- MODULE ConfigTransactions --------------------------
(***************************************************************************)
(* Concurrent sbctl processes changing one deployment: the configuration   *)
(* wizard, subscription credential rotation, a mode switch and an artifact *)
(* regeneration.  Each of them loads config.toml without the operation     *)
(* lock, works on its copy, takes the lock to publish and restarts the     *)
(* services after releasing it.                                            *)
(*                                                                         *)
(* A configuration is a record of its node model, its subscription mode    *)
(* and its subscription credential.  Every artifact is a function of the   *)
(* node model, so the content of a file is the node model it was           *)
(* generated from.                                                         *)
(***************************************************************************)
EXTENDS Naturals, FiniteSets

CONSTANTS
  Procs,         \* concurrently running sbctl commands
  OpsOf,         \* the kinds of command each of them may run
  Nodes,         \* node models (protocols, ports, hosts, proxy credentials)
  LegacyCapable, \* node models whose generation includes a pre-1.12 artifact
  Modes,         \* subscription modes
  Creds,         \* subscription credentials
  InitialConfig,
  Installations, \* whether the deployment starts installed: a set of Booleans
  None,          \* an absent file, a stopped service
  FaultKinds,    \* failures the environment may inject
  MaxFaults,     \* bound on the injected failures
  MaxOps         \* bound on the commands started

OpKinds == {"wizard", "rotate", "switch", "regenerate"}

AllFaults == {"check", "write", "owner", "undo", "storage", "restart",
              "rollback", "prune", "crash"}

Configs == [nodes : Nodes, mode : Modes, cred : Creds]

\* The artifact files in the order the generator lists them.  "legacy" stands
\* for the version profiles that a node model may not be able to fill.
Files == {"server", "client", "legacy"}
Rank  == [f \in Files |-> CASE f = "server" -> 1
                            [] f = "client" -> 2
                            [] f = "legacy" -> 3]

Generated(n) == {"server", "client"} \cup {f \in {"legacy"} : n \in LegacyCapable}

ASSUME ConstantsAssumption ==
  /\ OpsOf \in [Procs -> SUBSET OpKinds]
  /\ LegacyCapable \subseteq Nodes
  /\ None \notin Nodes
  /\ None \notin Configs
  /\ None \notin Procs
  /\ InitialConfig \in Configs
  /\ Installations \subseteq BOOLEAN
  /\ FaultKinds \subseteq AllFaults
  /\ MaxFaults \in Nat
  /\ MaxOps \in Nat

VARIABLES
  \* the deployment on disk
  config,     \* etc/sbctl/config.toml
  artifacts,  \* var/lib/sbctl/artifacts/<file>
  active,     \* etc/sing-box/config.json
  lock,       \* holder of var/lib/sbctl/.operation.lock
  \* the running services
  served,     \* the configuration sbctl.service loaded when it started
  core,       \* the configuration sing-box.service loaded when it started
  \* the commands
  pc, op,
  base,       \* the configuration loaded before the lock
  new,        \* the configuration to publish
  snap,       \* the prior files read under the lock
  done,       \* artifacts written so far
  outcome,    \* how the last command ended
  \* history and bounds
  issued,     \* credentials generated so far
  revoked,    \* credentials a successful rotation replaced
  started, faults

disk    == <<config, artifacts, active>>
running == <<served, core>>
locals  == <<op, base, new, snap, done>>
history == <<issued, revoked, started>>
vars  == <<config, artifacts, active, lock, served, core, pc, op, base, new,
           snap, done, outcome, issued, revoked, started, faults>>

PCs == {"idle", "editing", "ready", "check", "write", "active", "config",
        "undo", "prune", "storage", "core", "daemon", "rollback",
        "coreAgain", "daemonAgain"}

Snapshots == [config : Configs, artifacts : [Files -> Nodes \cup {None}],
              active : Nodes \cup {None}]

TypeOK ==
  /\ config \in Configs
  /\ artifacts \in [Files -> Nodes \cup {None}]
  /\ active \in Nodes \cup {None}
  /\ lock \in Procs \cup {None}
  /\ served \in Configs \cup {None}
  /\ core \in Nodes \cup {None}
  /\ pc \in [Procs -> PCs]
  /\ op \in [Procs -> OpKinds]
  /\ base \in [Procs -> Configs]
  /\ new \in [Procs -> Configs]
  /\ snap \in [Procs -> Snapshots]
  /\ done \in [Procs -> SUBSET Files]
  /\ outcome \in [Procs -> {"none", "ok", "failed", "crashed"}]
  /\ issued \subseteq Creds
  /\ revoked \subseteq Creds
  /\ started \in Nat
  /\ faults \in Nat

-------------------------------------------------------------------------------
(* Helpers *)

GeneratedFiles(n) ==
  [f \in Files |-> IF f \in Generated(n) THEN n ELSE None]

CurrentFiles == [config |-> config, artifacts |-> artifacts, active |-> active]

Goto(p, label) == pc' = [pc EXCEPT ![p] = label]

Finish(p, result) ==
  /\ Goto(p, "idle")
  /\ outcome' = [outcome EXCEPT ![p] = result]

\* A call of kind k fails.
Fail(k) ==
  /\ k \in FaultKinds
  /\ faults < MaxFaults
  /\ faults' = faults + 1

NoFault == UNCHANGED faults

\* The transaction of p holds the operation lock.  regenerate checks the
\* generated configuration before it takes the lock, the wizard after.
Critical(p) ==
  \/ pc[p] \in {"write", "active", "config", "undo", "prune"}
  \/ pc[p] = "check" /\ op[p] = "wizard"

\* The active configuration a rollback leaves: its prior version if it had one.
\* Mutant: the rollback forgets that the active configuration was replaced.
PriorActiveKept(p) == active

PriorActive(p) == IF snap[p].active # None THEN snap[p].active ELSE active

ArtifactsChanged(n, prior) ==
  \E f \in Generated(n) : prior.artifacts[f] # n

\* Mutant: only a changed artifact, not a drifted active file, asks for a sync.
NeedActiveSyncOnChange(o, n, prior) ==
  o = "regenerate" \/ (prior.active # None /\ ArtifactsChanged(n, prior))

\* An active configuration that does not exist yet is written by the installer,
\* not by the wizard; regenerate on a live host always writes it.
NeedActiveSync(o, n, prior) ==
  \/ o = "regenerate"
  \/ /\ prior.active # None
     /\ ArtifactsChanged(n, prior) \/ prior.active # n

-------------------------------------------------------------------------------
Init ==
  /\ config = InitialConfig
  /\ artifacts = GeneratedFiles(InitialConfig.nodes)
  /\ \E installed \in Installations :
       active = IF installed THEN InitialConfig.nodes ELSE None
  /\ lock = None
  /\ served = (IF active = None THEN None ELSE config)
  /\ core = active
  /\ pc = [p \in Procs |-> "idle"]
  /\ op = [p \in Procs |-> "wizard"]
  /\ base = [p \in Procs |-> InitialConfig]
  /\ new = [p \in Procs |-> InitialConfig]
  /\ snap = [p \in Procs |-> CurrentFiles]
  /\ done = [p \in Procs |-> {}]
  /\ outcome = [p \in Procs |-> "none"]
  /\ issued = {InitialConfig.cred}
  /\ revoked = {}
  /\ started = 0
  /\ faults = 0

-------------------------------------------------------------------------------
(* Before the lock: load config.toml and build the configuration to publish *)

Load(p, o) ==
  /\ pc[p] = "idle"
  /\ o \in OpsOf[p]
  /\ started < MaxOps
  /\ started' = started + 1
  /\ op' = [op EXCEPT ![p] = o]
  /\ base' = [base EXCEPT ![p] = config]
  /\ UNCHANGED <<disk, running, lock, snap, done, outcome, revoked, faults>>

\* The wizard keeps what it loaded for as long as the administrator answers.
BeginWizard(p) ==
  /\ Load(p, "wizard")
  /\ Goto(p, "editing")
  /\ UNCHANGED <<new, issued>>

\* Mutant: the rotation publishes an empty credential.
BeginRotateEmpty(p) ==
  /\ Load(p, "rotate")
  /\ new' = [new EXCEPT ![p] = [config EXCEPT !.cred = None]]
  /\ Goto(p, "ready")
  /\ UNCHANGED issued

BeginRotate(p) ==
  /\ Load(p, "rotate")
  /\ \E c \in Creds \ issued :
       /\ issued' = issued \cup {c}
       /\ new' = [new EXCEPT ![p] = [config EXCEPT !.cred = c]]
  /\ Goto(p, "ready")

BeginSwitch(p) ==
  /\ Load(p, "switch")
  /\ \E m \in Modes : new' = [new EXCEPT ![p] = [config EXCEPT !.mode = m]]
  /\ Goto(p, "ready")
  /\ UNCHANGED issued

BeginRegenerate(p) ==
  /\ Load(p, "regenerate")
  /\ new' = [new EXCEPT ![p] = config]
  /\ Goto(p, "check")
  /\ UNCHANGED issued

\* The administrator confirms an edit; a credential is never one of its fields.
Confirm(p) ==
  /\ pc[p] = "editing"
  /\ \E c \in Configs :
       /\ c # base[p]
       /\ c.cred = base[p].cred
       /\ new' = [new EXCEPT ![p] = c]
  /\ Goto(p, "ready")
  /\ UNCHANGED <<disk, running, lock, op, base, snap, done, outcome, history, faults>>

\* The wizard is cancelled or ends without a change.
Cancel(p) ==
  /\ pc[p] = "editing"
  /\ Goto(p, "idle")
  /\ UNCHANGED <<disk, running, lock, locals, outcome, history, faults>>

-------------------------------------------------------------------------------
(* DeploymentStore::replace: lock, one atomic write, unlock *)

AfterReplace(p) ==
  IF op[p] = "rotate" THEN Goto(p, "core") /\ UNCHANGED outcome
                      ELSE Finish(p, "ok")

Replace(p) ==
  /\ pc[p] = "ready"
  /\ op[p] \in {"rotate", "switch"}
  /\ lock = None
  /\ \/ config' = new[p] /\ AfterReplace(p) /\ NoFault
     \/ UNCHANGED config /\ Finish(p, "failed") /\ Fail("write")
        \* the rename took place, handing the file to its account failed
     \/ config' = new[p] /\ Finish(p, "failed") /\ Fail("owner")
  /\ UNCHANGED <<artifacts, active, running, lock, locals, history>>

-------------------------------------------------------------------------------
(* apply_config_transaction and regenerate: the critical section *)

AcquireLock(p) ==
  /\ pc[p] = "ready"
  /\ op[p] \in {"wizard", "regenerate"}
  /\ lock = None
  /\ lock' = p
  /\ snap' = [snap EXCEPT ![p] = CurrentFiles]
  /\ done' = [done EXCEPT ![p] = {}]
  /\ Goto(p, IF op[p] = "regenerate" THEN "write"
             ELSE IF \/ ArtifactsChanged(new[p].nodes, CurrentFiles)
                     \/ NeedActiveSync("wizard", new[p].nodes, CurrentFiles)
                  THEN "check" ELSE "config")
  /\ UNCHANGED <<disk, running, op, base, new, outcome, history, faults>>

\* Mutant: an early return of the wizard leaks the operation lock.
CheckLeaksLock(p) ==
  /\ pc[p] = "check"
  /\ \/ Goto(p, IF op[p] = "regenerate" THEN "ready" ELSE "write") /\ NoFault /\ UNCHANGED outcome
     \/ Fail("check") /\ Finish(p, "failed")
  /\ UNCHANGED <<disk, running, lock, locals, history>>

\* `sing-box check` of the generated server configuration.
Check(p) ==
  /\ pc[p] = "check"
  /\ \/ /\ Goto(p, IF op[p] = "regenerate" THEN "ready" ELSE "write")
        /\ NoFault
        /\ UNCHANGED <<lock, outcome>>
     \/ /\ Fail("check")
        /\ Finish(p, "failed")
        /\ lock' = IF op[p] = "wizard" THEN None ELSE lock
  /\ UNCHANGED <<disk, running, locals, history>>

Pending(p) == Generated(new[p].nodes) \ done[p]

\* The next artifact in generation order, replaced by one atomic rename; after
\* the last one the active configuration follows if it is to be synced.
WriteArtifact(p) ==
  /\ pc[p] = "write"
  /\ \E f \in Pending(p) :
       /\ \A g \in Pending(p) : Rank[f] <= Rank[g]
       /\ \/ /\ artifacts' = [artifacts EXCEPT ![f] = new[p].nodes]
             /\ done' = [done EXCEPT ![p] = @ \cup {f}]
             /\ Goto(p, IF Pending(p) # {f} THEN "write"
                        ELSE IF NeedActiveSync(op[p], new[p].nodes, snap[p])
                             THEN "active" ELSE "config")
             /\ NoFault
          \/ UNCHANGED <<artifacts, done>> /\ Goto(p, "undo") /\ Fail("write")
          \/ /\ artifacts' = [artifacts EXCEPT ![f] = new[p].nodes]
             /\ UNCHANGED done
             /\ Goto(p, "undo")
             /\ Fail("owner")
  /\ UNCHANGED <<config, active, running, lock, op, base, new, snap, outcome, history>>

\* Mutant: regenerate also writes back the config.toml it loaded.
WriteActiveThenConfig(p) ==
  /\ pc[p] = "active"
  /\ \/ active' = new[p].nodes /\ Goto(p, "config") /\ NoFault
     \/ UNCHANGED active /\ Goto(p, "undo") /\ Fail("write")
  /\ UNCHANGED <<config, artifacts, running, lock, locals, outcome, history>>

WriteActive(p) ==
  /\ pc[p] = "active"
  /\ \/ /\ active' = new[p].nodes
        /\ Goto(p, IF op[p] = "regenerate" THEN "prune" ELSE "config")
        /\ NoFault
     \/ UNCHANGED active /\ Goto(p, "undo") /\ Fail("write")
     \/ active' = new[p].nodes /\ Goto(p, "undo") /\ Fail("owner")
  /\ UNCHANGED <<config, artifacts, running, lock, locals, outcome, history>>

\* Mutant: a failed config.toml write returns without restoring the rest.
WriteConfigNoUndo(p) ==
  /\ pc[p] = "config"
  /\ \/ config' = new[p] /\ Goto(p, "prune") /\ NoFault /\ UNCHANGED <<lock, outcome>>
     \/ UNCHANGED config /\ lock' = None /\ Finish(p, "failed") /\ Fail("write")
  /\ UNCHANGED <<artifacts, active, running, locals, history>>

WriteConfig(p) ==
  /\ pc[p] = "config"
  /\ \/ config' = new[p] /\ Goto(p, "prune") /\ NoFault
     \/ UNCHANGED config /\ Goto(p, "undo") /\ Fail("write")
     \/ config' = new[p] /\ Goto(p, "undo") /\ Fail("owner")
  /\ UNCHANGED <<artifacts, active, running, lock, locals, outcome, history>>

\* restore_replaced: the files that existed before go back to their prior
\* version, best effort; a file that did not exist is left in place.
Undo(p) ==
  LET prior   == {f \in Generated(new[p].nodes) : snap[p].artifacts[f] # None}
      Back(S) == [f \in Files |-> IF f \in S THEN snap[p].artifacts[f] ELSE artifacts[f]]
  IN
  /\ pc[p] = "undo"
  /\ \/ /\ artifacts' = Back(prior)
        /\ active' = PriorActive(p)
        /\ NoFault
     \/ /\ \E S \in SUBSET prior : artifacts' = Back(S)
        /\ active' \in {active, PriorActive(p)}
        /\ Fail("undo")
  /\ lock' = None
  /\ Finish(p, "failed")
  /\ UNCHANGED <<config, running, locals, history>>

\* remove_stale_artifacts, then the lock guard is dropped.  A failed removal is
\* only a warning.
Prune(p) ==
  /\ pc[p] = "prune"
  /\ \/ /\ artifacts' = [f \in Files |-> IF f \in Generated(new[p].nodes)
                                         THEN artifacts[f] ELSE None]
        /\ NoFault
     \/ UNCHANGED artifacts /\ Fail("prune")
  /\ lock' = None
  /\ IF op[p] = "regenerate" THEN Finish(p, "ok")
                             ELSE Goto(p, "storage") /\ UNCHANGED outcome
  /\ UNCHANGED <<config, active, running, locals, history>>

-------------------------------------------------------------------------------
(* After the lock: daemon storage, restart, and the rollback of a failed one *)

PrepareStorage(p) ==
  /\ pc[p] = "storage"
  /\ \/ Goto(p, "core") /\ UNCHANGED outcome /\ NoFault
     \/ Finish(p, "failed") /\ Fail("storage")
  /\ UNCHANGED <<disk, running, lock, locals, history>>

\* systemctl restart sing-box.service; without an active configuration the
\* unit cannot start.
RestartCore(p) ==
  /\ pc[p] = "core"
  /\ \/ active # None /\ core' = active /\ Goto(p, "daemon") /\ NoFault
     \/ active = None /\ core' = None /\ Goto(p, "rollback") /\ NoFault
     \/ core' \in {core, None} /\ Goto(p, "rollback") /\ Fail("restart")
  /\ UNCHANGED <<disk, served, lock, locals, outcome, history>>

\* sbctl.service reloads config.toml, then both units must stay active.
RestartDaemon(p) ==
  /\ pc[p] = "daemon"
  /\ \/ /\ served' = config
        /\ Finish(p, "ok")
        /\ revoked' = IF op[p] = "rotate" THEN revoked \cup {base[p].cred} ELSE revoked
        /\ NoFault
        /\ UNCHANGED core
     \/ /\ served' \in {served, config, None}
        /\ core' \in {core, None}
        /\ Goto(p, "rollback")
        /\ Fail("restart")
        /\ UNCHANGED <<outcome, revoked>>
  /\ UNCHANGED <<disk, lock, locals, issued, started>>

\* restore_config_transaction takes the lock again: the artifacts in reverse order, then
\* the active configuration, then config.toml.  A failing write ends it after the files
\* restored so far, and so does a crash.  Who reads without the lock reads one of these
\* files, and finds it as it was before or as it is afterwards: it is one step.
RestoreSnapshot(p) ==
  LET names   == Generated(new[p].nodes)
      Back(S) == [f \in Files |-> IF f \in S THEN snap[p].artifacts[f] ELSE artifacts[f]]
  IN
  /\ pc[p] = "rollback"
  /\ op[p] = "wizard"
  /\ lock = None
  /\ \/ /\ artifacts' = Back(names) /\ active' = PriorActive(p) /\ config' = snap[p].config
        /\ Goto(p, "coreAgain") /\ UNCHANGED outcome /\ NoFault
     \/ /\ \/ \E f \in names : artifacts' = Back({g \in names : Rank[g] > Rank[f]}) /\ active' = active
           \/ artifacts' = Back(names) /\ active' \in {active, PriorActive(p)}
        /\ \/ Fail("rollback") /\ Goto(p, "coreAgain") /\ UNCHANGED outcome
           \/ Fail("crash") /\ Finish(p, "crashed")
        /\ UNCHANGED config
  /\ UNCHANGED <<running, lock, locals, history>>

\* The rotation writes back the whole configuration it loaded.
RestoreCredential(p) ==
  /\ pc[p] = "rollback"
  /\ op[p] = "rotate"
  /\ lock = None
  /\ \/ config' = [new[p] EXCEPT !.cred = base[p].cred] /\ NoFault
     \/ UNCHANGED config /\ Fail("rollback")
  /\ Goto(p, "coreAgain")
  /\ UNCHANGED <<artifacts, active, running, lock, locals, outcome, history>>

\* The second restart; its own failure is only a warning.
RestartCoreAgain(p) ==
  /\ pc[p] = "coreAgain"
  /\ \/ /\ active # None
        /\ core' = active
        /\ Goto(p, "daemonAgain")
        /\ NoFault
        /\ UNCHANGED outcome
     \/ active = None /\ core' = None /\ Finish(p, "failed") /\ NoFault
     \/ core' \in {core, None} /\ Finish(p, "failed") /\ Fail("restart")
  /\ UNCHANGED <<disk, served, lock, locals, history>>

RestartDaemonAgain(p) ==
  /\ pc[p] = "daemonAgain"
  /\ \/ served' = config /\ NoFault
     \/ served' \in {served, None} /\ Fail("restart")
  /\ Finish(p, "failed")
  /\ UNCHANGED <<disk, core, lock, locals, history>>

-------------------------------------------------------------------------------
(* The environment *)

\* The command is killed; the kernel releases its flock.
Crash(p) ==
  /\ pc[p] \notin {"idle", "editing"}
  /\ Fail("crash")
  /\ Finish(p, "crashed")
  /\ lock' = IF lock = p THEN None ELSE lock
  /\ UNCHANGED <<disk, running, locals, history>>

\* systemd restarts a unit, or `sbctl restart` is run.
CoreReload ==
  /\ core' = active
  /\ UNCHANGED <<disk, served, lock, pc, locals, outcome, history, faults>>

DaemonReload ==
  /\ served' = config
  /\ UNCHANGED <<disk, core, lock, pc, locals, outcome, history, faults>>

-------------------------------------------------------------------------------
Begin(p) ==
  \/ BeginWizard(p) \/ BeginRotate(p) \/ BeginSwitch(p) \/ BeginRegenerate(p)
  \/ Confirm(p) \/ Cancel(p)

Transaction(p) ==
  \/ Replace(p) \/ AcquireLock(p) \/ Check(p) \/ WriteArtifact(p)
  \/ WriteActive(p) \/ WriteConfig(p) \/ Undo(p) \/ Prune(p)

AfterCommit(p) ==
  \/ PrepareStorage(p) \/ RestartCore(p) \/ RestartDaemon(p)
  \/ RestoreSnapshot(p) \/ RestoreCredential(p)
  \/ RestartCoreAgain(p) \/ RestartDaemonAgain(p)

Next ==
  \/ \E p \in Procs : Begin(p) \/ Transaction(p) \/ AfterCommit(p) \/ Crash(p)
  \/ CoreReload
  \/ DaemonReload

Spec == Init /\ [][Next]_vars

\* A started command that is not waiting for the administrator keeps running.
Fairness == \A p \in Procs : WF_vars(Transaction(p) \/ AfterCommit(p))

FairSpec == Spec /\ Fairness

-------------------------------------------------------------------------------
(* Properties *)

\* Only the holder of the operation lock is inside a multi-file critical
\* section, so two transactions never interleave their file replacements.
MutualExclusion == \A p \in Procs : Critical(p) <=> lock = p

\* When a transaction is about to succeed, every file of the new generation is
\* complete on disk whatever earlier crashes, failed rollbacks or drift left
\* behind: its artifacts, the active configuration of an installed deployment
\* and, for the wizard, config.toml.
CommittedBundle ==
  \A p \in Procs : pc[p] = "prune" =>
    /\ \A f \in Generated(new[p].nodes) : artifacts[f] = new[p].nodes
    /\ active \in {None, new[p].nodes}
    /\ op[p] = "regenerate" => active = new[p].nodes
    /\ op[p] = "wizard" => config = new[p]

\* A transaction that fails before it commits puts back config.toml, the active
\* configuration and every artifact that existed before it.
FailedTransactionRestores ==
  [][\A p \in Procs :
       (lock = p /\ outcome'[p] = "failed" /\ pc'[p] = "idle") =>
         /\ config' = snap[p].config
         /\ active' = snap[p].active
         /\ \A f \in Files : snap[p].artifacts[f] # None =>
                               artifacts'[f] = snap[p].artifacts[f]]_vars

\* Between transactions sing-box.service would start on exactly the published
\* server artifact, and every always-generated artifact is of its generation.
CoherentGeneration ==
  (lock = None /\ active # None) =>
    /\ artifacts["server"] = active
    /\ artifacts["client"] = active

\* A credential whose rotation was reported as done never authorises again: the
\* daemon does not hold it, and no later reload can pick it up.
RevokedNeverServed ==
  /\ config.cred \notin revoked
  /\ served # None => served.cred \notin revoked

\* No command waits for the lock forever.
CommandsEnd ==
  \A p \in Procs : pc[p] \notin {"idle", "editing"} ~> pc[p] = "idle"

\* The files as a process that takes the lock finds them: those of before the
\* running transaction until it ends.
Visible == IF lock = None THEN CurrentFiles ELSE snap[lock]

Atomic == INSTANCE AtomicDeployment
            WITH config <- Visible.config, generation <- Visible.active

\* Wizard commits and their rollbacks are atomic: config.toml and the published
\* generation only ever change together.
AtomicCommit == Atomic!Spec

-------------------------------------------------------------------------------
(* What the documentation says and the code does not keep *)

\* A wizard commit that ends in failure leaves the previous deployment.
AnyFailureRestores ==
  [][\A p \in Procs :
       (op[p] = "wizard" /\ pc[p] # "idle" /\ pc'[p] = "idle" /\ outcome'[p] = "failed")
         => CurrentFiles' = snap[p]]_vars
=============================================================================
