---------------------------- MODULE HostFilesProofs ----------------------------
(***************************************************************************)
(* Proofs about the commands that install, replace, switch and remove a    *)
(* deployment, and about who may read its files, as parts of the           *)
(* specification of a host (HostFiles).                                    *)
(*                                                                         *)
(*   CommandTypesCorrect         the types, from TypeInv                   *)
(*   DeploymentsAreKept          NothingLost, from NothingLostInv          *)
(*   SwitchedUnitsFit            UnitsFitMode, from SwitchInvs             *)
(*   FailedInstallationRestores  FailedInstallRestores, from InstallInv    *)
(*   ServicesAloneRead           OnlyServicesRead, from StorageInv         *)
(*                                                                         *)
(* SwitchedUnitsFit and FailedInstallationRestores are about commands that *)
(* nobody disturbs (AloneInv).                                             *)
(***************************************************************************)
EXTENDS HostFiles, SequenceTheorems, TLAPS

-------------------------------------------------------------------------------
(* Type correctness *)

\* Archives that a command may have made, and the states of the host it may remember.
ArchiveType == UNION {[paths -> Contents] : paths \in SUBSET Files}

ServicesType ==
  [active : SUBSET Units, enabled : SUBSET Units, mode : BOOLEAN, socketed : BOOLEAN]

HostType ==
  [disk : [Files -> Contents], mode : BOOLEAN, socketed : BOOLEAN,
   active : SUBSET Units, enabled : SUBSET Units]

JobType ==
  [op : AllOps \cup {"none"}, direct : BOOLEAN, then : LockPoints \cup {"idle"}, opened : Nat,
   conflicts : SUBSET ConflictPaths, backup : ArchiveType \cup {None},
   services : ServicesType \cup {None}, predates : SUBSET Files, started : BOOLEAN,
   owned : SUBSET Files, loaded : BOOLEAN, alone : BOOLEAN, before : HostType \cup {None}]

Outcomes == {"none", "refused", "failed", "crashed", "installed", "removed", "switched"}

HostTypeOK ==
  /\ disk \in [Files -> Contents]
  /\ mode \in BOOLEAN /\ socketed \in BOOLEAN /\ purged \in BOOLEAN
  /\ active \in SUBSET Units /\ enabled \in SUBSET Units
  /\ archives \in SUBSET ArchiveType
  /\ committed \in SUBSET (Contents \ {None})

CommandTypeOK ==
  /\ pc \in [Commands -> Labels]
  /\ job \in [Commands -> JobType]
  /\ outcome \in [Commands -> Outcomes]
  /\ inodes \in Nat /\ lockFile \in 0..inodes
  /\ held \in [Commands -> 0..inodes]
  /\ \A c \in Commands : job[c].opened \in 0..inodes
  /\ \A c \in Commands : job[c].backup # None => job[c].services \in ServicesType
  /\ \A c \in Commands : pc[c] = "wait" => job[c].then \in LockPoints

TypeInv == HostTypeOK /\ CommandTypeOK /\ begun \in Nat /\ faults \in Seq(FaultKinds)

LEMMA LabelNames ==
  /\ \A l \in LockPoints : AfterLock(l) \in Labels
  /\ {"install", "replace", "uninstall", "purge", "remove", "switch"} \subseteq Labels
  /\ LockPoints \subseteq Labels
  /\ {"archive", "create", "untar", "commit", "revert"} \subseteq Labels
  /\ {"idle", "wait", "stop", "clear", "recover", "recheck", "capture", "check", "core",
      "prerequisites", "units", "start", "health", "marker", "failed", "disable", "delete",
      "stop units", "remove files", "purge data", "reconcile", "restart"} \subseteq Labels
<1>1. /\ AfterLock("prepare") = "archive" /\ AfterLock("initialize") = "create"
      /\ AfterLock("restore") = "untar" /\ AfterLock("switch") = "commit"
      /\ AfterLock("switch back") = "revert"
  BY DEF AfterLock
<1>2. {"prepare", "initialize", "restore", "switch", "switch back"} \subseteq LockPoints
  BY DEF LockPoints
<1> QED  BY <1>1, <1>2 DEF Labels, AllOps

LEMMA FileNames ==
  /\ Units = {"sing-box.service", "sbctl.service", "reset.timer", "sbctl-http.socket"}
  /\ ConflictPaths = {"hook", "config.toml", "sing-box.json", "reset.timer", "sbctl-http.socket",
       "sbctl.service", "sing-box.service", "sing-box", "acme-webroot", "artifacts",
       "certificates", "ownership", "state.json"}
  /\ Units \subseteq ConflictPaths /\ DataDirectory \subseteq ConflictPaths
  /\ BackedUp \subseteq ConflictPaths
<1>1. Units = {UnitOrder[1], UnitOrder[2], UnitOrder[3], UnitOrder[4]}
  BY DEF Units
<1>2. Units = {"sing-box.service", "sbctl.service", "reset.timer", "sbctl-http.socket"}
  BY <1>1 DEF UnitOrder
<1>3. Len(ConflictOrder) = 13
  BY DEF ConflictOrder
<1>4. ConflictPaths = {ConflictOrder[1], ConflictOrder[2], ConflictOrder[3], ConflictOrder[4],
        ConflictOrder[5], ConflictOrder[6], ConflictOrder[7], ConflictOrder[8],
        ConflictOrder[9], ConflictOrder[10], ConflictOrder[11], ConflictOrder[12], ConflictOrder[13]}
  BY <1>3 DEF ConflictPaths
<1>5. ConflictPaths = {"hook", "config.toml", "sing-box.json", "reset.timer", "sbctl-http.socket",
       "sbctl.service", "sing-box.service", "sing-box", "acme-webroot", "artifacts",
       "certificates", "ownership", "state.json"}
  BY <1>4 DEF ConflictOrder
<1> QED  BY <1>2, <1>5 DEF DataDirectory, BackedUp

LEMMA NoJobTyped == NoJob \in JobType /\ None \notin Commands /\ NoJob.opened = 0 /\ NoJob.backup = None
  BY LifecycleAssumption DEF NoJob, JobType, AllOps, LockPoints

\* A prefix is made of paths it goes through.
LEMMA PrefixesWithin ==
  ASSUME NEW paths, NEW order, NEW some \in Prefixes(paths, order)
  PROVE  some \subseteq paths
BY DEF Prefixes

LEMMA InitTypes ==
  ASSUME NEW hosts \in SUBSET AllHosts, NEW modes \in SUBSET BOOLEAN, NEW commands \in Nat,
         LifecycleInit(hosts, modes, commands)
  PROVE  TypeInv
<1>1. PICK h \in hosts, d \in modes :
        /\ disk = HostFiles(h, d)
        /\ mode = d /\ socketed = d
        /\ active = IF h = "managed" THEN ManagedUnits(d)
                    ELSE IF h = "foreign" THEN {"sing-box.service"} ELSE {}
        /\ lockFile = IF h \in {"managed", "leftover"} THEN 1 ELSE 0
        /\ committed = IF h = "clean" THEN {} ELSE IF h = "foreign" THEN {"foreign"} ELSE {"old"}
  BY DEF LifecycleInit
<1>2. disk \in [Files -> Contents]
  BY <1>1 DEF HostFiles, Contents
<1>3. active \in SUBSET Units
  BY <1>1, FileNames DEF ManagedUnits
<1>4. enabled \in SUBSET Units /\ archives = {} /\ purged = FALSE /\ inodes = 1 /\ begun = commands
      /\ faults = <<>> /\ held = [c \in Commands |-> 0] /\ pc = [c \in Commands |-> "idle"]
      /\ job = [c \in Commands |-> NoJob] /\ outcome = [c \in Commands |-> "none"]
  BY <1>3 DEF LifecycleInit
<1>5. committed \in SUBSET (Contents \ {None})
  BY <1>1, LifecycleAssumption DEF Contents
<1>6. HostTypeOK
  BY <1>1, <1>2, <1>3, <1>4, <1>5 DEF HostTypeOK
<1>7. /\ pc \in [Commands -> Labels] /\ job \in [Commands -> JobType]
      /\ outcome \in [Commands -> Outcomes] /\ \A c \in Commands : job[c].opened = 0 /\ job[c].backup = None
  <2>1. "idle" \in Labels
    BY LabelNames
  <2>2. NoJob \in JobType /\ NoJob.opened = 0 /\ NoJob.backup = None
    BY NoJobTyped
  <2>3. pc = [c \in Commands |-> "idle"] /\ job = [c \in Commands |-> NoJob]
        /\ outcome = [c \in Commands |-> "none"]
    BY <1>4
  <2>4. pc \in [Commands -> Labels]  BY <2>1, <2>3
  <2>5. job \in [Commands -> JobType]  BY <2>2, <2>3
  <2>6. outcome \in [Commands -> Outcomes]  BY <2>3 DEF Outcomes
  <2>7. \A c \in Commands : job[c].opened = 0 /\ job[c].backup = None  BY <2>2, <2>3
  <2> QED  BY <2>4, <2>5, <2>6, <2>7
<1>8. lockFile \in 0..inodes /\ inodes \in Nat /\ held \in [Commands -> 0..inodes]
  BY <1>1, <1>4
<1> QED
  BY <1>4, <1>6, <1>7, <1>8 DEF TypeInv, CommandTypeOK

\* How a step moves a command on keeps the types.
LEMMA EndTypes ==
  ASSUME CommandTypeOK, NEW c \in Commands, NEW result \in Outcomes, End(c, result),
         UNCHANGED <<lockFile, inodes>>
  PROVE  CommandTypeOK'
<1>1. "idle" \in Labels
  BY LabelNames
<1>2. /\ pc' \in [Commands -> Labels] /\ outcome' \in [Commands -> Outcomes]
      /\ job' \in [Commands -> JobType] /\ held' \in [Commands -> 0..inodes]
      /\ \A d \in Commands : job'[d].opened \in 0..inodes
      /\ \A d \in Commands : job'[d].backup # None => job'[d].services \in ServicesType
      /\ \A d \in Commands : pc'[d] = "wait" => job'[d].then \in LockPoints
  BY <1>1, NoJobTyped DEF CommandTypeOK, End, Goto
<1> QED  BY <1>2 DEF CommandTypeOK

LEMMA MoveTypes ==
  ASSUME CommandTypeOK, NEW c \in Commands, NEW label \in Labels,
         Continue(c, label) \/ Release(c, label),
         job' \in [Commands -> JobType],
         \A d \in Commands : job'[d].opened = job[d].opened,
         \A d \in Commands : job'[d].backup # None => job'[d].services \in ServicesType,
         label # "wait", \A d \in Commands : job'[d].then = job[d].then,
         inodes' \in Nat, inodes' >= inodes, lockFile' \in 0..inodes'
  PROVE  CommandTypeOK'
<1>1. /\ pc' \in [Commands -> Labels] /\ outcome' = outcome
      /\ held' \in [Commands -> 0..inodes]
      /\ \A d \in Commands : pc'[d] = "wait" => job'[d].then \in LockPoints
  BY DEF CommandTypeOK, Continue, Release, Goto
<1>2. 0..inodes \subseteq 0..inodes'
  BY DEF CommandTypeOK
<1> QED  BY <1>1, <1>2 DEF CommandTypeOK

LEMMA FaultTypes ==
  ASSUME faults \in Seq(FaultKinds), UNCHANGED faults \/ \E kind \in AllFaults : Fault(kind)
  PROVE  faults' \in Seq(FaultKinds)
<1>1. CASE UNCHANGED faults
  BY <1>1
<1>2. ASSUME NEW kind \in AllFaults, Fault(kind) PROVE faults' \in Seq(FaultKinds)
  <2>1. kind \in FaultKinds /\ faults' = Append(faults, kind)
    BY <1>2 DEF Fault
  <2> QED  BY <2>1, AppendProperties
<1> QED  BY <1>1, <1>2

LEMMA OpenTypes ==
  ASSUME inodes \in Nat, lockFile \in 0..inodes, OpenFile
  PROVE  inodes' \in Nat /\ inodes' >= inodes /\ lockFile' \in 1..inodes'
BY DEF OpenFile

\* What a step does to the files, services and archives keeps the types.
LEMMA DiskTypes ==
  ASSUME HostTypeOK
  PROVE  /\ \A paths : Remove(paths) \in [Files -> Contents]
         /\ \A paths : \A c \in Commands : Put(paths, c) \in [Files -> Contents]
         /\ \A paths \in SUBSET Files : ArchiveOf(paths) \in ArchiveType
         /\ PersistentData \in ArchiveType
         /\ Conflicts \in SUBSET ConflictPaths
         /\ Host \in HostType
<1>1. \A paths : Remove(paths) \in [Files -> Contents]
  BY DEF HostTypeOK, Remove, Contents
<1>2. \A paths : \A c \in Commands : Put(paths, c) \in [Files -> Contents]
  BY DEF HostTypeOK, Put, Contents
<1>3. \A paths \in SUBSET Files : ArchiveOf(paths) \in [paths -> Contents]
  BY DEF HostTypeOK, ArchiveOf
<1>4. {g \in BackedUp : disk[g] # None} \subseteq Files
  BY FileNames DEF Files
<1>5. PersistentData \in [{g \in BackedUp : disk[g] # None} -> Contents]
  BY <1>4 DEF PersistentData, HostTypeOK
<1>6. Conflicts \in SUBSET ConflictPaths
  BY DEF Conflicts
<1>7. Host \in HostType
  BY DEF Host, HostType, HostTypeOK
<1>8. \A paths \in SUBSET Files : ArchiveOf(paths) \in ArchiveType
  BY <1>3 DEF ArchiveType
<1>9. PersistentData \in ArchiveType
  BY <1>4, <1>5 DEF ArchiveType
<1> QED  BY <1>1, <1>2, <1>6, <1>7, <1>8, <1>9

\* Commands add known failures only.
LEMMA StepFaults ==
  ASSUME NEW c \in Commands, Command(c) \/ Crash(c)
  PROVE  UNCHANGED faults \/ \E kind \in AllFaults : Fault(kind)
<1>1. CASE OpenLock(c)  BY <1>1 DEF OpenLock
<1>2. CASE AcquireLock(c)  BY <1>2 DEF AcquireLock
<1>3. CASE Preflight(c)  BY <1>3 DEF Preflight, AllFaults
<1>4. CASE ArchiveConflicts(c)  BY <1>4 DEF ArchiveConflicts, AllFaults
<1>5. CASE StopPrevious(c)  BY <1>5 DEF StopPrevious, AllFaults
<1>6. CASE ClearConflicts(c)  BY <1>6 DEF ClearConflicts, AllFaults
<1>7. CASE Recheck(c)  BY <1>7 DEF Recheck, AllFaults
<1>8. CASE Capture(c)  BY <1>8 DEF Capture, AllFaults
<1>9. CASE CheckCandidate(c)  BY <1>9 DEF CheckCandidate, AllFaults
<1>10. CASE InstallCore(c)  BY <1>10 DEF InstallCore, AllFaults
<1>11. CASE Initialize(c)  BY <1>11 DEF Initialize, AllFaults
<1>12. CASE Prerequisites(c)  BY <1>12 DEF Prerequisites, AllFaults
<1>13. CASE InstallUnits(c)  BY <1>13 DEF InstallUnits, AllFaults
<1>14. CASE StartServices(c)  BY <1>14 DEF StartServices, AllFaults
<1>15. CASE CheckHealth(c)  BY <1>15 DEF CheckHealth, AllFaults
<1>16. CASE WriteMarker(c)  BY <1>16 DEF WriteMarker, AllFaults
<1>17. CASE Failed(c)  BY <1>17 DEF Failed, AllFaults
<1>18. CASE DisableUnits(c)  BY <1>18 DEF DisableUnits, AllFaults
<1>19. CASE DeleteFiles(c)  BY <1>19 DEF DeleteFiles, AllFaults
<1>20. CASE RestoreArchive(c)  BY <1>20 DEF RestoreArchive, UndoFails, AllFaults
<1>21. CASE Uninstall(c)  BY <1>21 DEF Uninstall, AllFaults
<1>22. CASE StopUnits(c)  BY <1>22 DEF StopUnits, AllFaults
<1>23. CASE RemoveFiles(c)  BY <1>23 DEF RemoveFiles, AllFaults
<1>24. CASE PurgeData(c)  BY <1>24 DEF PurgeData, AllFaults
<1>25. CASE RemoveCore(c)  BY <1>25 DEF RemoveCore, AllFaults
<1>26. CASE CommitMode(c)  BY <1>26 DEF CommitMode, AllFaults
<1>27. CASE Reconcile(c)  BY <1>27 DEF Reconcile, AllFaults
<1>28. CASE Restart(c)  BY <1>28 DEF Restart, AllFaults
<1>29. CASE Crash(c)  BY <1>29 DEF Crash, AllFaults
<1> QED
  BY <1>1, <1>2, <1>3, <1>4, <1>5, <1>6, <1>7, <1>8, <1>9, <1>10, <1>11, <1>12, <1>13, <1>14,
     <1>15, <1>16, <1>17, <1>18, <1>19, <1>20, <1>21, <1>22, <1>23, <1>24, <1>25, <1>26, <1>27,
     <1>28, <1>29
  DEF Command, Install

\* Commands keep the types of the host.
LEMMA StepHostTypes ==
  ASSUME HostTypeOK, CommandTypeOK, NEW c \in Commands, Command(c) \/ Crash(c)
  PROVE  HostTypeOK'
<1> USE DEF HostTypeOK
<1>1. CASE \/ OpenLock(c) \/ AcquireLock(c) \/ Preflight(c) \/ Recheck(c) \/ Capture(c)
           \/ CheckCandidate(c) \/ Failed(c) \/ Crash(c)
  BY <1>1 DEF OpenLock, AcquireLock, Preflight, Recheck, Capture, CheckCandidate, Failed, Crash,
              hostVars
<1>2. CASE ArchiveConflicts(c)
  <2>1. job[c].conflicts \in SUBSET Files
    BY FileNames DEF CommandTypeOK, JobType, Files
  <2>2. ArchiveOf(job[c].conflicts) \in ArchiveType
    BY <2>1, DiskTypes
  <2> QED  BY <1>2, <2>2 DEF ArchiveConflicts
<1>3. CASE StopPrevious(c) \/ DisableUnits(c) \/ StopUnits(c)
  <2>1. active' \in SUBSET Units /\ enabled' \in SUBSET Units
    BY <1>3 DEF StopPrevious, DisableUnits, StopUnits
  <2> QED  BY <1>3, <2>1 DEF StopPrevious, DisableUnits, StopUnits
<1>4. CASE ClearConflicts(c) \/ DeleteFiles(c) \/ RemoveFiles(c)
  <2>1. \E paths : disk' = Remove(paths)
    BY <1>4 DEF ClearConflicts, DeleteFiles, RemoveFiles
  <2>2. disk' \in [Files -> Contents]
    BY <2>1, DiskTypes
  <2> QED  BY <1>4, <2>2 DEF ClearConflicts, DeleteFiles, RemoveFiles
<1>5. CASE InstallCore(c) \/ Initialize(c) \/ Prerequisites(c) \/ InstallUnits(c) \/ WriteMarker(c)
  <2>1. disk' = disk \/ \E paths : disk' = Put(paths, c)
    BY <1>5 DEF InstallCore, Initialize, Prerequisites, InstallUnits, WriteMarker
  <2>2. disk' \in [Files -> Contents]
    BY <2>1, DiskTypes
  <2>3. job[c].direct \in BOOLEAN
    BY DEF CommandTypeOK, JobType
  <2>4. mode' \in BOOLEAN /\ socketed' \in BOOLEAN
    BY <1>5, <2>3 DEF InstallCore, Initialize, Prerequisites, InstallUnits, WriteMarker
  <2>5. committed' = committed \/ committed' = committed \cup {c}
    BY <1>5 DEF InstallCore, Initialize, Prerequisites, InstallUnits, WriteMarker
  <2>6. committed' \in SUBSET (Contents \ {None})
    BY <2>5, NoJobTyped DEF Contents
  <2> QED  BY <1>5, <2>2, <2>4, <2>6 DEF InstallCore, Initialize, Prerequisites, InstallUnits, WriteMarker
<1>6. CASE StartServices(c) \/ CheckHealth(c) \/ Restart(c)
  <2>1. ManagedUnits(job[c].direct) \subseteq Units
    BY DEF ManagedUnits
  <2>2. \A some \in Prefixes({u \in ManagedUnits(job[c].direct) : disk[u] # None}, UnitOrder) : some \subseteq Units
    BY <2>1 DEF Prefixes
  <2>3. CASE StartServices(c)
    BY <2>1, <2>2, <2>3 DEF StartServices
  <2>4. CASE CheckHealth(c)
    BY <2>4 DEF CheckHealth
  <2>5. CASE Restart(c)
    <3>1. \A direct, done : done \in 0..3 /\ Restarted(direct, done) =>
             active' \in SUBSET Units /\ enabled' \in SUBSET Units
      BY FileNames DEF Restarted, Triggered
    <3> QED  BY <2>5, <3>1 DEF Restart
  <2> QED  BY <1>6, <2>3, <2>4, <2>5
<1>7. CASE RestoreArchive(c)
  <2>1. \A n, m : ServicesRestored(c, n, m) => active' \in SUBSET Units /\ enabled' \in SUBSET Units
    BY DEF ServicesRestored, UnitsUpTo
  <2>2. ASSUME job[c].backup \in archives, NEW n, Untarred(c, n)
        PROVE  disk' \in [Files -> Contents] /\ mode' \in BOOLEAN /\ socketed' \in BOOLEAN
    <3>1. PICK paths \in SUBSET Files : job[c].backup \in [paths -> Contents]
      BY <2>2 DEF ArchiveType
    <3>2. job[c].backup # None
      BY <3>1, NoneAssumption
    <3>3. job[c].services \in ServicesType
      BY <3>2 DEF CommandTypeOK, JobType
    <3>4. job[c].services.mode \in BOOLEAN /\ job[c].services.socketed \in BOOLEAN
      BY <3>3 DEF ServicesType
    <3> QED  BY <2>2, <3>1, <3>4 DEF Untarred
  <2>3. active' \in SUBSET Units /\ enabled' \in SUBSET Units
    BY <1>7, <2>1 DEF RestoreArchive, UndoFails
  <2>4. disk' \in [Files -> Contents] /\ mode' \in BOOLEAN /\ socketed' \in BOOLEAN
    BY <1>7, <2>2 DEF RestoreArchive, UndoFails
  <2> QED  BY <1>7, <2>3, <2>4 DEF RestoreArchive
<1>8. CASE Uninstall(c) \/ PurgeData(c)
  <2>1. disk' = disk \/ \E paths : disk' = Remove(paths)
    BY <1>8 DEF Uninstall, PurgeData
  <2>2. disk' \in [Files -> Contents] /\ PersistentData \in ArchiveType
    BY <2>1, DiskTypes
  <2>3. archives' \in SUBSET ArchiveType
    BY <1>8, <2>2 DEF Uninstall, PurgeData
  <2> QED  BY <1>8, <2>2, <2>3 DEF Uninstall, PurgeData
<1>9. CASE RemoveCore(c)
  <2>1. disk' = disk \/ \E paths : disk' = Remove(paths)
    BY <1>9 DEF RemoveCore
  <2>2. disk' \in [Files -> Contents]
    BY <2>1, DiskTypes
  <2> QED  BY <1>9, <2>2 DEF RemoveCore
<1>10. CASE CommitMode(c) \/ Reconcile(c)
  <2>1. job[c].direct \in BOOLEAN
    BY DEF CommandTypeOK, JobType
  <2>2. \A done : Reconciled(done) => disk' \in [Files -> Contents] /\ socketed' \in BOOLEAN
    BY FileNames DEF Reconciled, Contents, Files
  <2> QED  BY <1>10, <2>1, <2>2 DEF CommitMode, Reconcile
<1> QED
  BY <1>1, <1>2, <1>3, <1>4, <1>5, <1>6, <1>7, <1>8, <1>9, <1>10 DEF Command, Install

\* Commands keep the types of what they know of themselves and of the lock.
LEMMA StepCommandTypes ==
  ASSUME HostTypeOK, CommandTypeOK, NEW c \in Commands, Command(c) \/ Crash(c)
  PROVE  CommandTypeOK'
<1>0. job \in [Commands -> JobType] /\ inodes \in Nat /\ lockFile \in 0..inodes
  BY DEF CommandTypeOK
<1>1. CASE OpenLock(c)
  <2>1. inodes' \in Nat /\ inodes' >= inodes /\ lockFile' \in 1..inodes'
    BY <1>0, <1>1, OpenTypes DEF OpenLock
  <2>2. 0..inodes \subseteq 0..inodes' /\ lockFile' \in 0..inodes'
    BY <1>0, <2>1
  <2>3. pc[c] \in LockPoints /\ lockFile' \in Nat
    BY <1>1, <2>1 DEF OpenLock
  <2>4. job' \in [Commands -> JobType]
    <3> DEFINE j == [job[c] EXCEPT !.opened = lockFile', !.then = pc[c]]
    <3>1. job[c] \in JobType
      BY <1>0
    <3>2. j \in JobType
      BY <2>3, <3>1 DEF JobType
    <3>3. job' = [job EXCEPT ![c] = j]
      BY <1>0, <1>1 DEF OpenLock
    <3> HIDE DEF j
    <3> QED  BY <1>0, <3>2, <3>3
  <2>5. \A d \in Commands : job'[d].opened = IF d = c THEN lockFile' ELSE job[d].opened
    BY <1>0, <1>1 DEF OpenLock, JobType
  <2>6. \A d \in Commands : job'[d].services = job[d].services /\ job'[d].backup = job[d].backup
    BY <1>0, <1>1 DEF OpenLock, JobType
  <2>7. pc' \in [Commands -> Labels]
    BY <1>1, LabelNames DEF OpenLock, Goto, CommandTypeOK
  <2>9. \A d \in Commands : pc'[d] = "wait" => job'[d].then \in LockPoints
    BY <1>0, <1>1 DEF OpenLock, Goto, CommandTypeOK, JobType
  <2>8. held' \in [Commands -> 0..inodes'] /\ outcome' = outcome
    BY <1>1, <2>2 DEF OpenLock, CommandTypeOK
  <2> QED  BY <2>1, <2>2, <2>4, <2>5, <2>6, <2>7, <2>8, <2>9 DEF CommandTypeOK
<1>2. CASE AcquireLock(c)
  <2>1. job[c].then \in LockPoints /\ job[c].opened \in 0..inodes
    BY <1>2 DEF AcquireLock, CommandTypeOK
  <2>2. AfterLock(job[c].then) \in Labels /\ AfterLock(job[c].then) # "wait"
    BY <2>1, LabelNames DEF AfterLock, LockPoints
  <2>3. pc' \in [Commands -> Labels] /\ held' \in [Commands -> 0..inodes]
        /\ \A d \in Commands : pc'[d] = "wait" => job[d].then \in LockPoints
    BY <1>2, <2>1, <2>2 DEF AcquireLock, Goto, CommandTypeOK
  <2> QED  BY <1>2, <2>3 DEF AcquireLock, CommandTypeOK
<1>3. ASSUME NEW result \in Outcomes, End(c, result), UNCHANGED <<lockFile, inodes>>
      PROVE  CommandTypeOK'
  BY <1>3, EndTypes
<1>4. ASSUME NEW label \in Labels \ {"wait"}, Continue(c, label) \/ Release(c, label),
             UNCHANGED job, inodes' \in Nat, inodes' >= inodes, lockFile' \in 0..inodes'
      PROVE  CommandTypeOK'
  <2>1. \A d \in Commands : job'[d].backup # None => job'[d].services \in ServicesType
    BY <1>4 DEF CommandTypeOK
  <2> QED  BY <1>0, <1>4, <2>1, MoveTypes
<1>5. UNCHANGED <<lockFile, inodes>> => inodes' \in Nat /\ inodes' >= inodes /\ lockFile' \in 0..inodes'
  BY <1>0
<1>6. BrieflyLocked => inodes' \in Nat /\ inodes' >= inodes /\ lockFile' \in 0..inodes'
  BY <1>0, OpenTypes DEF BrieflyLocked
<1>7. ASSUME NEW label \in Labels \ {"wait"}, Continue(c, label), UNCHANGED <<lockFile, inodes>>,
             NEW j \in JobType, job' = [job EXCEPT ![c] = j], j.opened = job[c].opened,
             j.then = job[c].then, j.backup # None => j.services \in ServicesType
      PROVE  CommandTypeOK'
  <2>1. job' \in [Commands -> JobType]
    BY <1>0, <1>7
  <2>2. \A d \in Commands : /\ job'[d].opened = job[d].opened /\ job'[d].then = job[d].then
                            /\ job'[d].backup # None => job'[d].services \in ServicesType
    BY <1>0, <1>7 DEF CommandTypeOK
  <2> QED  BY <1>0, <1>5, <1>7, <2>1, <2>2, MoveTypes
<1>8. {"refused", "failed", "crashed", "installed", "removed", "switched"} \subseteq Outcomes
  BY DEF Outcomes
<1>9. {"stop", "clear", "recover", "recheck", "capture", "check", "core", "prerequisites", "units",
       "start", "health", "marker", "failed", "disable", "delete", "stop units", "remove files",
       "purge data", "reconcile", "restart", "prepare", "initialize", "restore", "switch back"}
         \subseteq Labels \ {"wait"}
  BY LabelNames DEF LockPoints
<1>10. /\ job[c] \in JobType
       /\ job[c].backup # None => job[c].services \in ServicesType
  BY <1>0 DEF CommandTypeOK
<1>11. CASE Crash(c)
  BY <1>11, <1>3, <1>8 DEF Crash
<1>12. CASE Preflight(c)
  <2>1. CASE End(c, "refused")
    BY <1>12, <2>1, <1>3, <1>8 DEF Preflight
  <2>2. CASE Continue(c, "capture") /\ UNCHANGED job
    BY <1>12, <2>2, <1>4, <1>5, <1>9 DEF Preflight
  <2>3. CASE /\ job' = [job EXCEPT ![c].conflicts = Conflicts]
             /\ Continue(c, "recheck") \/ Continue(c, "prepare")
    <3> DEFINE j == [job[c] EXCEPT !.conflicts = Conflicts]
    <3>1. j \in JobType /\ j.opened = job[c].opened /\ j.then = job[c].then
          /\ j.services = job[c].services /\ j.backup = job[c].backup
      BY <1>10, DiskTypes DEF JobType
    <3>2. job' = [job EXCEPT ![c] = j]
      BY <2>3
    <3>3. "recheck" \in Labels \ {"wait"} /\ "prepare" \in Labels \ {"wait"}
      BY <1>9
    <3> HIDE DEF j
    <3> QED  BY <1>12, <2>3, <1>7, <1>10, <3>1, <3>2, <3>3 DEF Preflight
  <2> QED  BY <1>12, <2>1, <2>2, <2>3 DEF Preflight
<1>13. CASE ArchiveConflicts(c)
  <2>1. CASE End(c, "failed")
    BY <1>13, <2>1, <1>3, <1>8 DEF ArchiveConflicts
  <2>2. CASE /\ job' = [job EXCEPT ![c].backup = ArchiveOf(job[c].conflicts),
                                   ![c].services = PreviousServiceStates(job[c].conflicts)]
             /\ Continue(c, "stop")
    <3> DEFINE j == [job[c] EXCEPT !.backup = ArchiveOf(job[c].conflicts),
                                   !.services = PreviousServiceStates(job[c].conflicts)]
    <3>1. job[c].conflicts \in SUBSET Files
      BY <1>10, FileNames DEF JobType, Files
    <3>2. ArchiveOf(job[c].conflicts) \in ArchiveType
      BY <3>1, DiskTypes
    <3>3. PreviousServiceStates(job[c].conflicts) \in ServicesType
      BY DEF PreviousServiceStates, ServicesType, HostTypeOK
    <3>4. j \in JobType /\ j.opened = job[c].opened /\ j.then = job[c].then
          /\ j.services \in ServicesType
      BY <1>10, <3>2, <3>3 DEF JobType
    <3>5. job' = [job EXCEPT ![c] = j]
      BY <1>0, <2>2
    <3>6. "stop" \in Labels \ {"wait"}
      BY <1>9
    <3> HIDE DEF j
    <3> QED  BY <1>13, <2>2, <1>7, <3>4, <3>5, <3>6 DEF ArchiveConflicts
  <2> QED  BY <1>13, <2>1, <2>2 DEF ArchiveConflicts
<1>14. CASE StopPrevious(c)
  BY <1>14, <1>4, <1>5, <1>9 DEF StopPrevious
<1>15. CASE ClearConflicts(c)
  BY <1>15, <1>4, <1>5, <1>9 DEF ClearConflicts
<1>16. CASE Recheck(c)
  BY <1>16, <1>4, <1>5, <1>9 DEF Recheck
<1>17. CASE Capture(c)
  <2> DEFINE j == [job[c] EXCEPT !.predates = Predating]
  <2>1. Predating \in SUBSET Files
    BY FileNames DEF Predating, Files
  <2>2. j \in JobType /\ j.opened = job[c].opened /\ j.then = job[c].then
        /\ j.services = job[c].services /\ j.backup = job[c].backup
    BY <1>10, <2>1 DEF JobType
  <2>3. job' = [job EXCEPT ![c] = j] /\ Continue(c, "check")
    BY <1>17 DEF Capture
  <2>4. "check" \in Labels \ {"wait"}
    BY <1>9
  <2> HIDE DEF j
  <2> QED  BY <1>17, <1>7, <1>10, <2>2, <2>3, <2>4 DEF Capture
<1>18. CASE CheckCandidate(c)
  <2>1. CASE Continue(c, "failed") /\ UNCHANGED job
    BY <1>18, <2>1, <1>4, <1>5, <1>9 DEF CheckCandidate
  <2>2. CASE Continue(c, "core") /\ job' = [job EXCEPT ![c].started = TRUE]
    <3> DEFINE j == [job[c] EXCEPT !.started = TRUE]
    <3>1. j \in JobType /\ j.opened = job[c].opened /\ j.then = job[c].then
          /\ j.services = job[c].services /\ j.backup = job[c].backup
      BY <1>10 DEF JobType
    <3>2. job' = [job EXCEPT ![c] = j]
      BY <2>2
    <3>3. "core" \in Labels \ {"wait"}
      BY <1>9
    <3> HIDE DEF j
    <3> QED  BY <1>18, <2>2, <1>7, <1>10, <3>1, <3>2, <3>3 DEF CheckCandidate
  <2> QED  BY <1>18, <2>1, <2>2 DEF CheckCandidate
<1>19. CASE InstallCore(c)
  BY <1>19, <1>4, <1>5, <1>9 DEF InstallCore
<1>20. CASE Initialize(c)
  BY <1>20, <1>4, <1>5, <1>9 DEF Initialize
<1>21. CASE Prerequisites(c)
  BY <1>21, <1>4, <1>6, <1>9 DEF Prerequisites
<1>22. CASE InstallUnits(c)
  BY <1>22, <1>4, <1>5, <1>6, <1>9 DEF InstallUnits
<1>23. CASE StartServices(c)
  BY <1>23, <1>4, <1>5, <1>9 DEF StartServices
<1>24. CASE CheckHealth(c)
  BY <1>24, <1>4, <1>5, <1>9 DEF CheckHealth
<1>25. CASE WriteMarker(c)
  BY <1>25, <1>3, <1>4, <1>5, <1>8, <1>9 DEF WriteMarker
<1>26. CASE Failed(c)
  BY <1>26, <1>3, <1>4, <1>5, <1>8, <1>9 DEF Failed
<1>27. CASE DisableUnits(c)
  BY <1>27, <1>4, <1>5, <1>9 DEF DisableUnits
<1>28. CASE DeleteFiles(c)
  BY <1>28, <1>3, <1>4, <1>5, <1>8, <1>9 DEF DeleteFiles
<1>29. CASE RestoreArchive(c)
  BY <1>29, <1>3, <1>8 DEF RestoreArchive
<1>30. CASE Uninstall(c)
  <2>1. CASE \E result \in {"refused", "failed"} : End(c, result)
    BY <1>30, <2>1, <1>3, <1>8 DEF Uninstall
  <2>2. CASE \E owned \in SUBSET Files :
               Continue(c, "stop units") /\ job' = [job EXCEPT ![c].owned = owned]
    <3>1. PICK owned \in SUBSET Files :
            Continue(c, "stop units") /\ job' = [job EXCEPT ![c].owned = owned]
      BY <2>2
    <3> DEFINE j == [job[c] EXCEPT !.owned = owned]
    <3>2. j \in JobType /\ j.opened = job[c].opened /\ j.then = job[c].then
          /\ j.services = job[c].services /\ j.backup = job[c].backup
      BY <1>10 DEF JobType
    <3>3. job' = [job EXCEPT ![c] = j]
      BY <3>1
    <3>4. "stop units" \in Labels \ {"wait"}
      BY <1>9
    <3> HIDE DEF j
    <3> QED  BY <1>30, <1>7, <1>10, <3>1, <3>2, <3>3, <3>4 DEF Uninstall
  <2>3. {f \in Units \cup {"hook"} : Managed(disk[f])} \cup {"sing-box.json"} \subseteq Files
    BY FileNames DEF Files
  <2>4. \A some \in {{}, {"sing-box.json"}} :
          {f \in Units \cup {"hook"} : Managed(disk[f])} \cup some \in SUBSET Files
    BY <2>3
  <2> QED  BY <1>30, <2>1, <2>2, <2>4 DEF Uninstall
<1>31. CASE StopUnits(c)
  BY <1>31, <1>3, <1>4, <1>5, <1>8, <1>9 DEF StopUnits
<1>32. CASE RemoveFiles(c)
  BY <1>32, <1>3, <1>4, <1>5, <1>8, <1>9 DEF RemoveFiles
<1>33. CASE PurgeData(c)
  <2>1. \E result \in {"removed", "failed"} : End(c, result)
    BY <1>33 DEF PurgeData
  <2>2. lockFile' \in {lockFile, 0} /\ inodes' = inodes
    BY <1>33 DEF PurgeData
  <2>3. 0 \in 0..inodes /\ lockFile' \in 0..inodes
    BY <1>0, <2>2
  <2>4. pc' = [pc EXCEPT ![c] = "idle"] /\ job' = [job EXCEPT ![c] = NoJob]
        /\ held' = [held EXCEPT ![c] = 0]
    BY <2>1 DEF End, Goto
  <2>5. pc' \in [Commands -> Labels] /\ \A d \in Commands : pc'[d] = "wait" => job'[d].then \in LockPoints
    BY <2>4, LabelNames DEF CommandTypeOK
  <2>6. outcome' \in [Commands -> Outcomes]
    BY <2>1, <1>8 DEF End, CommandTypeOK
  <2>7. /\ job' \in [Commands -> JobType]
        /\ \A d \in Commands : job'[d].opened \in 0..inodes
        /\ \A d \in Commands : job'[d].backup # None => job'[d].services \in ServicesType
    BY <2>3, <2>4, NoJobTyped DEF CommandTypeOK
  <2>8. held' \in [Commands -> 0..inodes]
    BY <2>3, <2>4 DEF CommandTypeOK
  <2> QED  BY <1>0, <2>2, <2>3, <2>5, <2>6, <2>7, <2>8 DEF CommandTypeOK
<1>34. CASE RemoveCore(c)
  BY <1>34, <1>3, <1>8 DEF RemoveCore
<1>35. CASE CommitMode(c)
  BY <1>35, <1>3, <1>4, <1>5, <1>8, <1>9 DEF CommitMode
<1>36. ASSUME RestartFails(c), UNCHANGED <<lockFile, inodes>>
       PROVE  CommandTypeOK'
  <2>1. CASE job[c].started
    BY <1>36, <2>1, <1>3, <1>8 DEF RestartFails
  <2>2. CASE ~ job[c].started
    <3> DEFINE j == [job[c] EXCEPT !.started = TRUE]
    <3>1. j \in JobType /\ j.opened = job[c].opened /\ j.then = job[c].then
          /\ j.services = job[c].services /\ j.backup = job[c].backup
      BY <1>10 DEF JobType
    <3>2. job' = [job EXCEPT ![c] = j] /\ Continue(c, "switch back")
      BY <1>36, <2>2 DEF RestartFails
    <3>3. "switch back" \in Labels \ {"wait"}
      BY <1>9
    <3> HIDE DEF j
    <3> QED  BY <1>36, <1>7, <1>10, <3>1, <3>2, <3>3
  <2> QED  BY <2>1, <2>2
<1>37. CASE Reconcile(c)
  <2>1. CASE RestartFails(c)
    BY <1>36, <1>37, <2>1 DEF Reconcile
  <2>2. CASE Continue(c, "restart") /\ job' = [job EXCEPT ![c].loaded = mode]
    <3> DEFINE j == [job[c] EXCEPT !.loaded = mode]
    <3>1. j \in JobType /\ j.opened = job[c].opened /\ j.then = job[c].then
          /\ j.services = job[c].services /\ j.backup = job[c].backup
      BY <1>10 DEF JobType, HostTypeOK
    <3>2. job' = [job EXCEPT ![c] = j]
      BY <2>2
    <3>3. "restart" \in Labels \ {"wait"}
      BY <1>9
    <3> HIDE DEF j
    <3> QED  BY <1>37, <2>2, <1>7, <1>10, <3>1, <3>2, <3>3 DEF Reconcile
  <2> QED  BY <1>37, <2>1, <2>2 DEF Reconcile
<1>38. CASE Restart(c)
  <2>1. CASE RestartFails(c)
    BY <1>36, <1>38, <2>1 DEF Restart
  <2>2. CASE \E result \in {"failed", "switched"} : End(c, result)
    BY <1>38, <2>2, <1>3, <1>8 DEF Restart
  <2> QED  BY <1>38, <2>1, <2>2 DEF Restart
<1> QED
  BY <1>1, <1>2, <1>11, <1>12, <1>13, <1>14, <1>15, <1>16, <1>17, <1>18, <1>19, <1>20, <1>21,
     <1>22, <1>23, <1>24, <1>25, <1>26, <1>27, <1>28, <1>29, <1>30, <1>31, <1>32, <1>33, <1>34,
     <1>35, <1>37, <1>38
  DEF Command, Install

LEMMA DisturbedJob ==
  ASSUME NEW j \in JobType
  PROVE  /\ [j EXCEPT !.alone = FALSE] \in JobType
         /\ [j EXCEPT !.alone = FALSE].opened = j.opened
         /\ [j EXCEPT !.alone = FALSE].backup = j.backup
         /\ [j EXCEPT !.alone = FALSE].services = j.services
         /\ [j EXCEPT !.alone = FALSE].then = j.then
BY DEF JobType

LEMMA BeginTypes ==
  ASSUME TypeInv, NEW c \in Commands, NEW op \in AllOps, NEW direct \in BOOLEAN,
         Begin(c, op, direct)
  PROVE  TypeInv'
<1> DEFINE new == [NoJob EXCEPT !.op = op, !.direct = direct,
                     !.alone = (\A d \in Commands : pc[d] = "idle"), !.before = Host]
<1>1. new \in JobType /\ new.opened = 0 /\ new.backup = None
  BY NoJobTyped, DiskTypes DEF JobType, TypeInv, NoJob
<1>2. job' = [d \in Commands |-> IF d = c THEN new ELSE [job[d] EXCEPT !.alone = FALSE]]
  BY DEF Begin
<1>3. \A d \in Commands : /\ [job[d] EXCEPT !.alone = FALSE] \in JobType
                          /\ [job[d] EXCEPT !.alone = FALSE].opened = job[d].opened
                          /\ [job[d] EXCEPT !.alone = FALSE].backup = job[d].backup
                          /\ [job[d] EXCEPT !.alone = FALSE].services = job[d].services
                          /\ [job[d] EXCEPT !.alone = FALSE].then = job[d].then
  BY DisturbedJob DEF TypeInv, CommandTypeOK
<1>4. op \in Labels /\ op # "wait"
  BY LabelNames DEF AllOps
<1> HIDE DEF new
<1>5. job' \in [Commands -> JobType]
  BY <1>1, <1>2, <1>3
<1>6. /\ \A d \in Commands : job'[d].opened \in 0..inodes
      /\ \A d \in Commands : job'[d].backup # None => job'[d].services \in ServicesType
      /\ \A d \in Commands : d # c => job'[d].then = job[d].then
  <2>1. job'[c] = new /\ 0 \in 0..inodes
    BY <1>2 DEF TypeInv, CommandTypeOK
  <2>2. \A d \in Commands \ {c} : job'[d] = [job[d] EXCEPT !.alone = FALSE]
    BY <1>2
  <2>3. \A d \in Commands \ {c} : /\ job'[d].opened = job[d].opened /\ job'[d].then = job[d].then
                                 /\ job'[d].backup = job[d].backup
                                 /\ job'[d].services = job[d].services
    BY <1>3, <2>2
  <2> QED  BY <1>1, <2>1, <2>3 DEF TypeInv, CommandTypeOK
<1>7. /\ pc' \in [Commands -> Labels] /\ outcome' \in [Commands -> Outcomes]
      /\ \A d \in Commands : pc'[d] = "wait" => job'[d].then \in LockPoints
  BY <1>4, <1>6 DEF Begin, Goto, TypeInv, CommandTypeOK, Outcomes
<1>8. CommandTypeOK'
  BY <1>5, <1>6, <1>7 DEF Begin, lockVars, TypeInv, CommandTypeOK
<1>9. HostTypeOK'
  BY DEF Begin, hostVars, TypeInv, HostTypeOK
<1>10. begun' = begun + 1 /\ faults' = faults
  BY DEF Begin
<1> QED  BY <1>8, <1>9, <1>10 DEF TypeInv

\* What a step of the specification is, to the commands.
LEMMA StepCases ==
  ASSUME [Next]_vars
  PROVE  \/ UNCHANGED vars
         \/ \E c \in Commands : \E op \in Ops, d \in BOOLEAN :
              Begin(c, op, d) /\ (op \notin Installing => d = ~ mode)
         \/ \E c \in Commands : Command(c) \/ Crash(c)
<1>1. Modes \subseteq BOOLEAN /\ (~ mode) \in BOOLEAN
  BY LifecycleAssumption
<1> QED  BY <1>1 DEF Next

LEMMA StepTypes == TypeInv /\ [Next]_vars => TypeInv'
<1> SUFFICES ASSUME TypeInv, [Next]_vars PROVE TypeInv'
  OBVIOUS
<1>1. CASE UNCHANGED vars
  BY <1>1 DEF vars, hostVars, lockVars, commandVars, TypeInv, HostTypeOK, CommandTypeOK
<1>2. ASSUME NEW c \in Commands, NEW op \in Ops, NEW d \in BOOLEAN, Begin(c, op, d)
      PROVE  TypeInv'
  BY <1>2, BeginTypes, LifecycleAssumption
<1>3. ASSUME NEW c \in Commands, Command(c) \/ Crash(c)
      PROVE  TypeInv'
  <2>1. HostTypeOK' /\ CommandTypeOK'
    BY <1>3, StepHostTypes, StepCommandTypes DEF TypeInv
  <2>2. faults' \in Seq(FaultKinds)
    BY <1>3, StepFaults, FaultTypes DEF TypeInv
  <2>3. begun' = begun
    BY <1>3 DEF Command, Install, OpenLock, AcquireLock, Preflight, ArchiveConflicts, StopPrevious,
                ClearConflicts, Recheck, Capture, CheckCandidate, InstallCore, Initialize,
                Prerequisites, InstallUnits, StartServices, CheckHealth, WriteMarker, Failed,
                DisableUnits, DeleteFiles, RestoreArchive, Uninstall, StopUnits, RemoveFiles,
                PurgeData, RemoveCore, CommitMode, Reconcile, Restart, Crash
  <2> QED  BY <2>1, <2>2, <2>3 DEF TypeInv
<1> QED  BY <1>1, <1>2, <1>3, StepCases

\* The commands of a behaviour of the host begin as in Lifecycle, and no step of the
\* storage moves them.
LEMMA HostCommands ==
  /\ HostInit => \E hosts \in SUBSET AllHosts, modes \in SUBSET BOOLEAN, commands \in Nat :
       LifecycleInit(hosts, modes, commands)
  /\ [HostNext]_<<vars, storageVars>> => [Next]_vars
<1>1. Hosts \in SUBSET AllHosts /\ Modes \in SUBSET BOOLEAN /\ MaxCommands \in Nat
      /\ {"clean"} \in SUBSET AllHosts /\ {FALSE} \in SUBSET BOOLEAN /\ 0 \in Nat
  BY LifecycleAssumption DEF AllHosts
<1>2. HostInit => LifecycleInit(Hosts, Modes, 0) \/ LifecycleInit({"clean"}, {FALSE}, MaxCommands)
  BY DEF HostInit, Init
<1>3. HostInit => \E hosts \in SUBSET AllHosts, modes \in SUBSET BOOLEAN, commands \in Nat :
       LifecycleInit(hosts, modes, commands)
  BY <1>1, <1>2
<1>4. [HostNext]_<<vars, storageVars>> => [Next]_vars
  BY DEF HostNext
<1> QED  BY <1>3, <1>4

LEMMA TypesHold == HostSpec => []TypeInv
<1>1. HostInit => TypeInv
  BY HostCommands, InitTypes
<1>2. TypeInv /\ [HostNext]_<<vars, storageVars>> => TypeInv'
  BY HostCommands, StepTypes
<1> QED  BY <1>1, <1>2, PTL DEF HostSpec

\* Every reachable state of the commands and of what they work on is well typed; the
\* lock file is one of those there have been.
THEOREM CommandTypesCorrect == HostSpec => []TypeOK
<1>1. TypeInv => TypeOK
  <2>1. \A a \in ArchiveType : DOMAIN a \subseteq Files
    BY DEF ArchiveType
  <2> QED  BY <2>1 DEF TypeInv, HostTypeOK, CommandTypeOK, TypeOK
<1> QED  BY <1>1, TypesHold, PTL

-------------------------------------------------------------------------------
(* What was there is never lost *)

\* A command leaves the others where they are.
LEMMA OthersStand ==
  ASSUME CommandTypeOK, NEW c \in Commands, Command(c) \/ Crash(c), NEW d \in Commands \ {c}
  PROVE  pc'[d] = pc[d] /\ job'[d] = job[d]
<1> USE DEF CommandTypeOK
<1>1. CASE OpenLock(c)  BY <1>1 DEF OpenLock, Goto, End, Continue
<1>2. CASE AcquireLock(c)  BY <1>2 DEF AcquireLock, Goto, End, Continue, Release
<1>3. CASE Preflight(c)  BY <1>3 DEF Preflight, Goto, End, Continue, Release
<1>4. CASE ArchiveConflicts(c)  BY <1>4 DEF ArchiveConflicts, Goto, End, Continue, Release
<1>5. CASE StopPrevious(c)  BY <1>5 DEF StopPrevious, Goto, End, Continue, Release
<1>6. CASE ClearConflicts(c)  BY <1>6 DEF ClearConflicts, Goto, End, Continue, Release
<1>7. CASE Recheck(c)  BY <1>7 DEF Recheck, Goto, End, Continue, Release
<1>8. CASE Capture(c)  BY <1>8 DEF Capture, Goto, End, Continue, Release
<1>9. CASE CheckCandidate(c)  BY <1>9 DEF CheckCandidate, Goto, End, Continue, Release
<1>10. CASE InstallCore(c)  BY <1>10 DEF InstallCore, Goto, End, Continue, Release
<1>11. CASE Initialize(c)  BY <1>11 DEF Initialize, Goto, End, Continue, Release
<1>12. CASE Prerequisites(c)  BY <1>12 DEF Prerequisites, Goto, End, Continue, Release
<1>13. CASE InstallUnits(c)  BY <1>13 DEF InstallUnits, Goto, End, Continue, Release
<1>14. CASE StartServices(c)  BY <1>14 DEF StartServices, Goto, End, Continue, Release
<1>15. CASE CheckHealth(c)  BY <1>15 DEF CheckHealth, Goto, End, Continue, Release
<1>16. CASE WriteMarker(c)  BY <1>16 DEF WriteMarker, Goto, End, Continue, Release
<1>17. CASE Failed(c)  BY <1>17 DEF Failed, Goto, End, Continue, Release
<1>18. CASE DisableUnits(c)  BY <1>18 DEF DisableUnits, Goto, End, Continue, Release
<1>19. CASE DeleteFiles(c)  BY <1>19 DEF DeleteFiles, Goto, End, Continue, Release
<1>20. CASE RestoreArchive(c)  BY <1>20 DEF RestoreArchive, Goto, End, Continue, Release
<1>21. CASE Uninstall(c)  BY <1>21 DEF Uninstall, Goto, End, Continue, Release
<1>22. CASE StopUnits(c)  BY <1>22 DEF StopUnits, Goto, End, Continue, Release
<1>23. CASE RemoveFiles(c)  BY <1>23 DEF RemoveFiles, Goto, End, Continue, Release
<1>24. CASE PurgeData(c)  BY <1>24 DEF PurgeData, Goto, End, Continue, Release
<1>25. CASE RemoveCore(c)  BY <1>25 DEF RemoveCore, Goto, End, Continue, Release
<1>26. CASE CommitMode(c)  BY <1>26 DEF CommitMode, Goto, End, Continue, Release
<1>27. CASE Reconcile(c)  BY <1>27 DEF Reconcile, RestartFails, Goto, End, Continue
<1>28. CASE Restart(c)  BY <1>28 DEF Restart, RestartFails, Goto, End, Continue
<1>29. CASE Crash(c)  BY <1>29 DEF Crash, Goto, End, Continue, Release
<1> QED
  BY <1>1, <1>2, <1>3, <1>4, <1>5, <1>6, <1>7, <1>8, <1>9, <1>10, <1>11, <1>12, <1>13, <1>14,
     <1>15, <1>16, <1>17, <1>18, <1>19, <1>20, <1>21, <1>22, <1>23, <1>24, <1>25, <1>26,
     <1>27, <1>28, <1>29
  DEF Command, Install

\* Archives are there to stay, unless they are purged.
LEMMA ArchivesStay ==
  ASSUME NEW c \in Commands, Command(c) \/ Crash(c)
  PROVE  /\ pc[c] # "purge data" => archives \subseteq archives'
         /\ purged' = purged
         /\ committed' = committed \/ (pc[c] = "marker" /\ committed' = committed \cup {c})
<1>1. CASE OpenLock(c)  BY <1>1 DEF OpenLock, hostVars
<1>2. CASE AcquireLock(c)  BY <1>2 DEF AcquireLock, hostVars
<1>3. CASE Preflight(c)  BY <1>3 DEF Preflight, hostVars
<1>4. CASE ArchiveConflicts(c)  BY <1>4 DEF ArchiveConflicts, hostVars
<1>5. CASE StopPrevious(c)  BY <1>5 DEF StopPrevious, hostVars
<1>6. CASE ClearConflicts(c)  BY <1>6 DEF ClearConflicts, hostVars
<1>7. CASE Recheck(c)  BY <1>7 DEF Recheck, hostVars
<1>8. CASE Capture(c)  BY <1>8 DEF Capture, hostVars
<1>9. CASE CheckCandidate(c)  BY <1>9 DEF CheckCandidate, hostVars
<1>10. CASE InstallCore(c)  BY <1>10 DEF InstallCore, hostVars
<1>11. CASE Initialize(c)  BY <1>11 DEF Initialize, hostVars
<1>12. CASE Prerequisites(c)  BY <1>12 DEF Prerequisites, hostVars
<1>13. CASE InstallUnits(c)  BY <1>13 DEF InstallUnits, hostVars
<1>14. CASE StartServices(c)  BY <1>14 DEF StartServices, hostVars
<1>15. CASE CheckHealth(c)  BY <1>15 DEF CheckHealth, hostVars
<1>16. CASE WriteMarker(c)  BY <1>16 DEF WriteMarker, hostVars
<1>17. CASE Failed(c)  BY <1>17 DEF Failed, hostVars
<1>18. CASE DisableUnits(c)  BY <1>18 DEF DisableUnits, hostVars
<1>19. CASE DeleteFiles(c)  BY <1>19 DEF DeleteFiles, hostVars
<1>20. CASE RestoreArchive(c)  BY <1>20 DEF RestoreArchive, hostVars
<1>21. CASE Uninstall(c)  BY <1>21 DEF Uninstall, hostVars
<1>22. CASE StopUnits(c)  BY <1>22 DEF StopUnits, hostVars
<1>23. CASE RemoveFiles(c)  BY <1>23 DEF RemoveFiles, hostVars
<1>24. CASE PurgeData(c)  BY <1>24 DEF PurgeData, hostVars
<1>25. CASE RemoveCore(c)  BY <1>25 DEF RemoveCore, hostVars
<1>26. CASE CommitMode(c)  BY <1>26 DEF CommitMode, hostVars
<1>27. CASE Reconcile(c)  BY <1>27 DEF Reconcile, hostVars
<1>28. CASE Restart(c)  BY <1>28 DEF Restart, hostVars
<1>29. CASE Crash(c)  BY <1>29 DEF Crash, hostVars
<1> QED
  BY <1>1, <1>2, <1>3, <1>4, <1>5, <1>6, <1>7, <1>8, <1>9, <1>10, <1>11, <1>12, <1>13, <1>14,
     <1>15, <1>16, <1>17, <1>18, <1>19, <1>20, <1>21, <1>22, <1>23, <1>24, <1>25, <1>26,
     <1>27, <1>28, <1>29
  DEF Command, Install

\* Only one of the commands that may run at once installs: two installations at the same
\* time take each other's files for their own when one of them fails.
OneInstaller == \A c, d \in Installers : c = d

Archived(x, f) == \E a \in archives : f \in DOMAIN a /\ a[f] = x
Safe(x)        == \A f \in Precious(x) : Archived(x, f)
Kept(x)        == \A f \in Precious(x) : disk[f] = x
AllSafe        == \A x \in committed : Safe(x)

\* Where an installation has read what it will replace, and where it has put it away.
CoverLabels == {"prepare", "archive"}
SafeLabels  ==
  {"stop", "clear", "recover", "recheck", "capture", "check", "core", "initialize", "create",
   "prerequisites", "units", "start", "health", "marker", "failed", "disable", "delete",
   "restore", "untar"}

\* A command is at one of some labels, or waits for the lock on its way there.
At(c, labels) == pc[c] \in labels \/ (pc[c] = "wait" /\ job[c].then \in labels)

Installs(c) == At(c, {"install", "replace"} \cup CoverLabels \cup SafeLabels)

Written == {"prerequisites", "units", "start", "health", "marker"}

\* An installation has put away whatever makes the deployments before it, all of it
\* before it touches anything; what it has written itself nobody takes away.  What an
\* uninstallation found to be managed was not, or not any more, the foreign deployment.
LossInv(c) ==
  /\ Installs(c) => c \in Installers \ committed
  /\ At(c, CoverLabels) => \A x \in committed : Precious(x) \subseteq job[c].conflicts \/ Safe(x)
  /\ At(c, SafeLabels) => AllSafe
  /\ pc[c] \in Written => disk["config.toml"] = c
  /\ pc[c] \in Written \ {"prerequisites"} => disk["state.json"] = c
  /\ pc[c] \in {"stop units", "remove files"} =>
       /\ job[c].owned \subseteq Units \cup {"hook", "sing-box.json"}
       /\ "sing-box.service" \in job[c].owned /\ "foreign" \in committed => Safe("foreign")

\* A deployment is on the host as a whole, or in archives as a whole.
WholeInv == \A x \in committed : Kept(x) \/ Safe(x)

NothingLostInv == ~ purged => WholeInv /\ \A c \in Commands : LossInv(c)

\* Who purges was asked to.
PurgeInv ==
  \A c \in Commands : (job[c].op = "purge" => purged) /\ (pc[c] = "purge data" => job[c].op = "purge")

\* What a command was begun for, and on what host.
SameOrder(j, k) == j.op = k.op /\ j.direct = k.direct /\ j.before = k.before /\ j.alone = k.alone

LEMMA JobUpdates ==
  ASSUME NEW j \in JobType, NEW v, NEW w
  PROVE  /\ SameOrder([j EXCEPT !.opened = v, !.then = w], j)
         /\ SameOrder([j EXCEPT !.conflicts = v], j)
         /\ SameOrder([j EXCEPT !.backup = v, !.services = w], j)
         /\ SameOrder([j EXCEPT !.predates = v], j)
         /\ SameOrder([j EXCEPT !.started = v], j)
         /\ SameOrder([j EXCEPT !.owned = v], j)
         /\ SameOrder([j EXCEPT !.loaded = v], j)
BY DEF JobType, SameOrder

\* A command is what it was begun as until it ends.
LEMMA JobMoves ==
  ASSUME CommandTypeOK, NEW c \in Commands, Command(c) \/ Crash(c)
  PROVE  \/ pc'[c] = "idle" /\ job'[c] = NoJob
         \/ pc'[c] # "idle" /\ SameOrder(job'[c], job[c])
<1>0. /\ job[c] \in JobType /\ job \in [Commands -> JobType] /\ pc \in [Commands -> Labels]
      /\ pc[c] = "wait" => job[c].then \in LockPoints
  BY DEF CommandTypeOK
<1> DEFINE Ended  == pc'[c] = "idle" /\ job'[c] = NoJob
           Moved(j) == pc'[c] # "idle" /\ job'[c] = j
<1>01. \A result : End(c, result) => Ended
  BY <1>0 DEF End, Goto
<1>02. \A label : label # "idle" /\ (Continue(c, label) \/ Release(c, label)) => pc'[c] # "idle"
  BY <1>0 DEF Continue, Release, Goto
<1>03. SameOrder(job[c], job[c])
  BY DEF SameOrder
<1>04. \A l \in LockPoints : AfterLock(l) # "idle"
  BY DEF LockPoints, AfterLock
<1> HIDE DEF Ended, Moved
<1>1. CASE OpenLock(c)
  <2>1. Ended \/ Moved(job[c])
        \/ Moved([job[c] EXCEPT !.opened = lockFile', !.then = pc[c]])
    BY <1>1, <1>0, <1>01, <1>02 DEF OpenLock, Goto, Moved
  <2>2. \A v, w : SameOrder([job[c] EXCEPT !.opened = v, !.then = w], job[c])
    BY <1>0, JobUpdates
  <2>3. SameOrder([job[c] EXCEPT !.opened = lockFile', !.then = pc[c]], job[c])
    BY <2>2
  <2> HIDE DEF SameOrder
  <2> QED  BY <1>03, <2>1, <2>3 DEF Ended, Moved
<1>2. CASE AcquireLock(c)
  <2>1. Ended \/ Moved(job[c])
    BY <1>2, <1>0, <1>01, <1>02, <1>04 DEF AcquireLock, Goto, Moved
  <2> QED  BY <1>03, <2>1 DEF Ended, Moved
<1>3. CASE Preflight(c)
  <2>1. Ended \/ Moved(job[c])
        \/ Moved([job[c] EXCEPT !.conflicts = Conflicts])
    BY <1>3, <1>0, <1>01, <1>02 DEF Preflight, Moved
  <2> QED  BY <1>0, <1>03, <2>1, JobUpdates DEF Ended, Moved
<1>4. CASE ArchiveConflicts(c)
  <2> DEFINE saved == ArchiveOf(job[c].conflicts)
             states == PreviousServiceStates(job[c].conflicts)
  <2>1. Ended \/ Moved([job[c] EXCEPT !.backup = saved, !.services = states])
    BY <1>4, <1>0, <1>01, <1>02 DEF ArchiveConflicts, Moved
  <2> HIDE DEF saved, states
  <2>2. SameOrder([job[c] EXCEPT !.backup = saved, !.services = states], job[c])
    BY <1>0, JobUpdates
  <2> QED  BY <2>1, <2>2 DEF Ended, Moved
<1>5. CASE StopPrevious(c)
  <2>1. Ended \/ Moved(job[c])
    BY <1>5, <1>0, <1>01, <1>02 DEF StopPrevious, Moved
  <2> QED  BY <1>03, <2>1 DEF Ended, Moved
<1>6. CASE ClearConflicts(c)
  <2>1. Ended \/ Moved(job[c])
    BY <1>6, <1>0, <1>01, <1>02 DEF ClearConflicts, Moved
  <2> QED  BY <1>03, <2>1 DEF Ended, Moved
<1>7. CASE Recheck(c)
  <2>1. Ended \/ Moved(job[c])
    BY <1>7, <1>0, <1>01, <1>02 DEF Recheck, Moved
  <2> QED  BY <1>03, <2>1 DEF Ended, Moved
<1>8. CASE Capture(c)
  <2>1. Ended \/ Moved(job[c])
        \/ Moved([job[c] EXCEPT !.predates = Predating])
    BY <1>8, <1>0, <1>01, <1>02 DEF Capture, Moved
  <2> QED  BY <1>0, <1>03, <2>1, JobUpdates DEF Ended, Moved
<1>9. CASE CheckCandidate(c)
  <2>1. Ended \/ Moved(job[c])
        \/ Moved([job[c] EXCEPT !.started = TRUE])
    BY <1>9, <1>0, <1>01, <1>02 DEF CheckCandidate, Moved
  <2> QED  BY <1>0, <1>03, <2>1, JobUpdates DEF Ended, Moved
<1>10. CASE InstallCore(c)
  <2>1. Ended \/ Moved(job[c])
    BY <1>10, <1>0, <1>01, <1>02 DEF InstallCore, Moved
  <2> QED  BY <1>03, <2>1 DEF Ended, Moved
<1>11. CASE Initialize(c)
  <2>1. Ended \/ Moved(job[c])
    BY <1>11, <1>0, <1>01, <1>02 DEF Initialize, Moved
  <2> QED  BY <1>03, <2>1 DEF Ended, Moved
<1>12. CASE Prerequisites(c)
  <2>1. Ended \/ Moved(job[c])
    BY <1>12, <1>0, <1>01, <1>02 DEF Prerequisites, Moved
  <2> QED  BY <1>03, <2>1 DEF Ended, Moved
<1>13. CASE InstallUnits(c)
  <2>1. Ended \/ Moved(job[c])
    BY <1>13, <1>0, <1>01, <1>02 DEF InstallUnits, Moved
  <2> QED  BY <1>03, <2>1 DEF Ended, Moved
<1>14. CASE StartServices(c)
  <2>1. Ended \/ Moved(job[c])
    BY <1>14, <1>0, <1>01, <1>02 DEF StartServices, Moved
  <2> QED  BY <1>03, <2>1 DEF Ended, Moved
<1>15. CASE CheckHealth(c)
  <2>1. Ended \/ Moved(job[c])
    BY <1>15, <1>0, <1>01, <1>02 DEF CheckHealth, Moved
  <2> QED  BY <1>03, <2>1 DEF Ended, Moved
<1>16. CASE WriteMarker(c)
  <2>1. Ended \/ Moved(job[c])
    BY <1>16, <1>0, <1>01, <1>02 DEF WriteMarker, Moved
  <2> QED  BY <1>03, <2>1 DEF Ended, Moved
<1>17. CASE Failed(c)
  <2>1. Ended \/ Moved(job[c])
    BY <1>17, <1>0, <1>01, <1>02 DEF Failed, Moved
  <2> QED  BY <1>03, <2>1 DEF Ended, Moved
<1>18. CASE DisableUnits(c)
  <2>1. Ended \/ Moved(job[c])
    BY <1>18, <1>0, <1>01, <1>02 DEF DisableUnits, Moved
  <2> QED  BY <1>03, <2>1 DEF Ended, Moved
<1>19. CASE DeleteFiles(c)
  <2>1. Ended \/ Moved(job[c])
    BY <1>19, <1>0, <1>01, <1>02 DEF DeleteFiles, Moved
  <2> QED  BY <1>03, <2>1 DEF Ended, Moved
<1>20. CASE RestoreArchive(c)
  <2>1. Ended \/ Moved(job[c])
    BY <1>20, <1>0, <1>01, <1>02 DEF RestoreArchive, Moved
  <2> QED  BY <1>03, <2>1 DEF Ended, Moved
<1>21. CASE Uninstall(c)
  <2>1. Ended \/ \E v : Moved([job[c] EXCEPT !.owned = v])
    BY <1>21, <1>0, <1>01, <1>02 DEF Uninstall, Moved
  <2>2. \A v : SameOrder([job[c] EXCEPT !.owned = v], job[c])
    BY <1>0, JobUpdates
  <2> QED  BY <2>1, <2>2 DEF Ended, Moved
<1>22. CASE StopUnits(c)
  <2>1. Ended \/ Moved(job[c])
    BY <1>22, <1>0, <1>01, <1>02 DEF StopUnits, Moved
  <2> QED  BY <1>03, <2>1 DEF Ended, Moved
<1>23. CASE RemoveFiles(c)
  <2>1. Ended \/ Moved(job[c])
    BY <1>23, <1>0, <1>01, <1>02 DEF RemoveFiles, Moved
  <2> QED  BY <1>03, <2>1 DEF Ended, Moved
<1>24. CASE PurgeData(c)
  <2>1. Ended \/ Moved(job[c])
    BY <1>24, <1>0, <1>01, <1>02 DEF PurgeData, Moved
  <2> QED  BY <1>03, <2>1 DEF Ended, Moved
<1>25. CASE RemoveCore(c)
  <2>1. Ended \/ Moved(job[c])
    BY <1>25, <1>0, <1>01, <1>02 DEF RemoveCore, Moved
  <2> QED  BY <1>03, <2>1 DEF Ended, Moved
<1>26. CASE CommitMode(c)
  <2>1. Ended \/ Moved(job[c])
    BY <1>26, <1>0, <1>01, <1>02 DEF CommitMode, Moved
  <2> QED  BY <1>03, <2>1 DEF Ended, Moved
<1>27. CASE Reconcile(c)
  <2>1. Ended \/ Moved(job[c])
        \/ Moved([job[c] EXCEPT !.loaded = mode])
        \/ Moved([job[c] EXCEPT !.started = TRUE])
    BY <1>27, <1>0, <1>01, <1>02 DEF Reconcile, RestartFails, Moved
  <2> QED  BY <1>0, <1>03, <2>1, JobUpdates DEF Ended, Moved
<1>28. CASE Restart(c)
  <2>1. Ended \/ Moved(job[c])
        \/ Moved([job[c] EXCEPT !.started = TRUE])
    BY <1>28, <1>0, <1>01, <1>02 DEF Restart, RestartFails, Moved
  <2> QED  BY <1>0, <1>03, <2>1, JobUpdates DEF Ended, Moved
<1>29. CASE Crash(c)
  <2>1. Ended \/ Moved(job[c])
    BY <1>29, <1>0, <1>01, <1>02 DEF Crash, Moved
  <2> QED  BY <1>03, <2>1 DEF Ended, Moved
<1> QED
  BY <1>1, <1>2, <1>3, <1>4, <1>5, <1>6, <1>7, <1>8, <1>9, <1>10, <1>11, <1>12, <1>13, <1>14,
     <1>15, <1>16, <1>17, <1>18, <1>19, <1>20, <1>21, <1>22, <1>23, <1>24, <1>25, <1>26,
     <1>27, <1>28, <1>29
  DEF Command, Install

LEMMA PurgeLabel ==
  ASSUME CommandTypeOK, NEW c \in Commands, Command(c) \/ Crash(c), pc'[c] = "purge data"
  PROVE  job[c].op = "purge"
<1>0. /\ pc \in [Commands -> Labels]
      /\ pc[c] = "wait" => job[c].then \in LockPoints
      /\ \A l \in LockPoints : AfterLock(l) # "purge data"
  BY DEF CommandTypeOK, LockPoints, AfterLock
<1>1. CASE OpenLock(c)  BY <1>1, <1>0 DEF OpenLock, Goto, End, Continue, Release
<1>2. CASE AcquireLock(c)  BY <1>2, <1>0 DEF AcquireLock, Goto, End, Continue, Release
<1>3. CASE Preflight(c)  BY <1>3, <1>0 DEF Preflight, Goto, End, Continue, Release
<1>4. CASE ArchiveConflicts(c)  BY <1>4, <1>0 DEF ArchiveConflicts, Goto, End, Continue, Release
<1>5. CASE StopPrevious(c)  BY <1>5, <1>0 DEF StopPrevious, Goto, End, Continue, Release
<1>6. CASE ClearConflicts(c)  BY <1>6, <1>0 DEF ClearConflicts, Goto, End, Continue, Release
<1>7. CASE Recheck(c)  BY <1>7, <1>0 DEF Recheck, Goto, End, Continue, Release
<1>8. CASE Capture(c)  BY <1>8, <1>0 DEF Capture, Goto, End, Continue, Release
<1>9. CASE CheckCandidate(c)  BY <1>9, <1>0 DEF CheckCandidate, Goto, End, Continue, Release
<1>10. CASE InstallCore(c)  BY <1>10, <1>0 DEF InstallCore, Goto, End, Continue, Release
<1>11. CASE Initialize(c)  BY <1>11, <1>0 DEF Initialize, Goto, End, Continue, Release
<1>12. CASE Prerequisites(c)  BY <1>12, <1>0 DEF Prerequisites, Goto, End, Continue, Release
<1>13. CASE InstallUnits(c)  BY <1>13, <1>0 DEF InstallUnits, Goto, End, Continue, Release
<1>14. CASE StartServices(c)  BY <1>14, <1>0 DEF StartServices, Goto, End, Continue, Release
<1>15. CASE CheckHealth(c)  BY <1>15, <1>0 DEF CheckHealth, Goto, End, Continue, Release
<1>16. CASE WriteMarker(c)  BY <1>16, <1>0 DEF WriteMarker, Goto, End, Continue, Release
<1>17. CASE Failed(c)  BY <1>17, <1>0 DEF Failed, Goto, End, Continue, Release
<1>18. CASE DisableUnits(c)  BY <1>18, <1>0 DEF DisableUnits, Goto, End, Continue, Release
<1>19. CASE DeleteFiles(c)  BY <1>19, <1>0 DEF DeleteFiles, Goto, End, Continue, Release
<1>20. CASE RestoreArchive(c)  BY <1>20, <1>0 DEF RestoreArchive, Goto, End, Continue, Release
<1>21. CASE Uninstall(c)  BY <1>21, <1>0 DEF Uninstall, Goto, End, Continue, Release
<1>22. CASE StopUnits(c)  BY <1>22, <1>0 DEF StopUnits, Goto, End, Continue, Release
<1>23. CASE RemoveFiles(c)  BY <1>23, <1>0 DEF RemoveFiles, Goto, End, Continue, Release
<1>24. CASE PurgeData(c)  BY <1>24, <1>0 DEF PurgeData, Goto, End, Continue, Release
<1>25. CASE RemoveCore(c)  BY <1>25, <1>0 DEF RemoveCore, Goto, End, Continue, Release
<1>26. CASE CommitMode(c)  BY <1>26, <1>0 DEF CommitMode, Goto, End, Continue, Release
<1>27. CASE Reconcile(c)  BY <1>27, <1>0 DEF Reconcile, RestartFails, Goto, End, Continue
<1>28. CASE Restart(c)  BY <1>28, <1>0 DEF Restart, RestartFails, Goto, End, Continue
<1>29. CASE Crash(c)  BY <1>29, <1>0 DEF Crash, Goto, End, Continue, Release
<1> QED
  BY <1>1, <1>2, <1>3, <1>4, <1>5, <1>6, <1>7, <1>8, <1>9, <1>10, <1>11, <1>12, <1>13, <1>14,
     <1>15, <1>16, <1>17, <1>18, <1>19, <1>20, <1>21, <1>22, <1>23, <1>24, <1>25, <1>26,
     <1>27, <1>28, <1>29
  DEF Command, Install

LEMMA PurgeStep ==
  ASSUME TypeInv, PurgeInv, [Next]_vars
  PROVE  PurgeInv'
<1> USE DEF TypeInv
<1>1. CASE UNCHANGED vars
  BY <1>1 DEF vars, commandVars, PurgeInv
<1>2. ASSUME NEW c \in Commands, NEW op \in Ops, NEW d \in BOOLEAN, Begin(c, op, d)
      PROVE  PurgeInv'
  <2> DEFINE new == [NoJob EXCEPT !.op = op, !.direct = d,
                       !.alone = (\A e \in Commands : pc[e] = "idle"), !.before = Host]
  <2>1. job' = [e \in Commands |-> IF e = c THEN new ELSE [job[e] EXCEPT !.alone = FALSE]]
    BY <1>2 DEF Begin
  <2>2. new.op = op
    BY DEF NoJob
  <2>3. \A e \in Commands : [job[e] EXCEPT !.alone = FALSE].op = job[e].op
    BY DEF CommandTypeOK, JobType
  <2> HIDE DEF new
  <2>4. \A e \in Commands : job'[e].op = IF e = c THEN op ELSE job[e].op
    BY <2>1, <2>2, <2>3
  <2>5. op # "purge data" /\ (purged' = (purged \/ op = "purge"))
        /\ pc' = [pc EXCEPT ![c] = op]
    BY <1>2, LifecycleAssumption DEF Begin, Goto, AllOps
  <2> QED  BY <2>4, <2>5 DEF PurgeInv, CommandTypeOK
<1>3. ASSUME NEW c \in Commands, Command(c) \/ Crash(c)
      PROVE  PurgeInv'
  <2>1. \A d \in Commands \ {c} : pc'[d] = pc[d] /\ job'[d] = job[d]
    BY <1>3, OthersStand
  <2>2. job'[c].op \in {job[c].op, "none"}
    BY <1>3, JobMoves DEF SameOrder, NoJob
  <2>3. pc'[c] = "purge data" => job[c].op = "purge" /\ job'[c].op = job[c].op
    <3>1. pc'[c] = "purge data" => job[c].op = "purge"
      BY <1>3, PurgeLabel
    <3> QED  BY <1>3, <3>1, JobMoves DEF SameOrder
  <2>4. purged' = purged
    BY <1>3, ArchivesStay
  <2> QED  BY <2>1, <2>2, <2>3, <2>4 DEF PurgeInv
<1> QED  BY <1>1, <1>2, <1>3, StepCases

LEMMA PreciousFiles ==
  /\ \A x : Precious(x) \subseteq ConflictPaths
  /\ Precious("foreign") = {"sing-box.service", "sing-box", "sing-box.json"}
  /\ \A x : x # "foreign" => Precious(x) = {"config.toml", "state.json"}
BY FileNames DEF Precious

LEMMA SafeStays ==
  ASSUME archives \subseteq archives', NEW x, Safe(x)
  PROVE  Safe(x)'
BY DEF Safe, Archived

LEMMA RemovedFiles ==
  ASSUME NEW c \in Commands, RemoveFiles(c)
  PROVE  \E paths : disk' = Remove(paths) /\ paths \subseteq With(job[c].owned \ {"sing-box.json"})
BY PrefixesWithin DEF RemoveFiles

\* Only installations and purges touch the configuration and the state.
LEMMA DataStands ==
  ASSUME HostTypeOK, CommandTypeOK, NEW c \in Commands, Command(c) \/ Crash(c),
         ~ Installs(c), LossInv(c), pc[c] # "purge data"
  PROVE  /\ disk'["config.toml"] = disk["config.toml"]
         /\ disk'["state.json"] = disk["state.json"]
         /\ disk'["sing-box.json"] = disk["sing-box.json"]
<1>0. /\ {"config.toml", "state.json", "sing-box.json"} \subseteq Files
      /\ pc[c] \notin {"install", "replace"} \cup CoverLabels \cup SafeLabels
  BY FileNames DEF Files, Installs, At
<1>1. CASE \/ OpenLock(c) \/ AcquireLock(c) \/ Uninstall(c) \/ StopUnits(c) \/ CommitMode(c)
           \/ Restart(c) \/ Crash(c)
  BY <1>1 DEF OpenLock, AcquireLock, Uninstall, StopUnits, CommitMode, Restart, Crash, hostVars
<1>2. CASE RemoveFiles(c)
  <2>1. job[c].owned \subseteq Units \cup {"hook", "sing-box.json"}
    BY <1>2 DEF RemoveFiles, LossInv
  <2>2. With(job[c].owned \ {"sing-box.json"}) \cap {"config.toml", "state.json", "sing-box.json"} = {}
    BY <2>1, FileNames DEF With
  <2>3. \E paths : disk' = Remove(paths) /\ paths \subseteq With(job[c].owned \ {"sing-box.json"})
    BY <1>2, RemovedFiles
  <2> QED  BY <1>0, <2>2, <2>3 DEF Remove, HostTypeOK
<1>3. CASE RemoveCore(c)
  BY <1>0, <1>3 DEF RemoveCore, Remove, HostTypeOK
<1>4. CASE Reconcile(c)
  BY <1>0, <1>4 DEF Reconcile, Reconciled, HostTypeOK
<1>5. CASE Install(c)
  BY <1>0, <1>5 DEF CoverLabels, SafeLabels, Install, Preflight, ArchiveConflicts, StopPrevious,
                    ClearConflicts, Recheck, Capture, CheckCandidate, InstallCore, Initialize,
                    Prerequisites, InstallUnits, StartServices, CheckHealth, WriteMarker, Failed,
                    DisableUnits, DeleteFiles, RestoreArchive
<1>6. CASE PurgeData(c)
  BY <1>6 DEF PurgeData
<1> QED  BY <1>1, <1>2, <1>3, <1>4, <1>5, <1>6 DEF Command

\* A deployment that is on the host as a whole, or in archives, stays so.
LEMMA WholeStep ==
  ASSUME TypeInv, NothingLostInv, ~ purged, NEW c \in Commands, Command(c) \/ Crash(c),
         pc[c] # "purge data", NEW x \in committed
  PROVE  Kept(x)' \/ Safe(x)'
<1> USE DEF TypeInv
<1>1. archives \subseteq archives' /\ LossInv(c) /\ (Kept(x) \/ Safe(x))
  BY ArchivesStay DEF NothingLostInv, WholeInv
<1>2. CASE Safe(x)
  BY <1>1, <1>2, SafeStays
<1>3. CASE At(c, SafeLabels)
  BY <1>1, <1>2, <1>3 DEF LossInv, AllSafe
<1>4. CASE Kept(x) /\ ~ Safe(x) /\ ~ At(c, SafeLabels)
  <2>0. {"sing-box.service", "sing-box", "sing-box.json", "config.toml", "state.json"} \subseteq Files
    BY FileNames DEF Files
  <2>1. ASSUME UNCHANGED disk PROVE Kept(x)'
    BY <1>4, <2>1 DEF Kept
  <2>2. CASE x # "foreign" /\ ~ Installs(c)
    <3>1. disk'["config.toml"] = disk["config.toml"] /\ disk'["state.json"] = disk["state.json"]
      BY <1>1, <2>2, DataStands
    <3> QED  BY <1>4, <2>2, <3>1, PreciousFiles DEF Kept
  <2>3. CASE Installs(c)
    <3>1. /\ pc[c] \in {"install", "replace", "archive", "wait", "prepare"}
      BY <1>4, <2>3 DEF Installs, At, CoverLabels
    <3>2. UNCHANGED disk
      BY <3>1 DEF Command, Install, OpenLock, AcquireLock, Preflight, ArchiveConflicts,
                  StopPrevious, ClearConflicts, Recheck, Capture, CheckCandidate, InstallCore,
                  Initialize, Prerequisites, InstallUnits, StartServices, CheckHealth, WriteMarker,
                  Failed, DisableUnits, DeleteFiles, RestoreArchive, Uninstall, StopUnits,
                  RemoveFiles, PurgeData, RemoveCore, CommitMode, Reconcile, Restart, Crash, hostVars,
                  LockPoints
    <3> QED  BY <2>1, <3>2
  <2>4. CASE x = "foreign" /\ ~ Installs(c)
    <3>1. disk["sing-box.service"] = "foreign" /\ disk["sing-box"] = "foreign"
          /\ disk["sing-box.json"] = "foreign"
      BY <1>4, <2>4, PreciousFiles DEF Kept
    <3>2. disk'["sing-box.json"] = disk["sing-box.json"]
      BY <1>1, <2>4, DataStands
    <3>3. disk'["sing-box.service"] = "foreign" /\ disk'["sing-box"] = "foreign"
      <4>0. pc[c] \notin {"install", "replace"} \cup CoverLabels \cup SafeLabels
        BY <2>4 DEF Installs, At
      <4>1. CASE \/ OpenLock(c) \/ AcquireLock(c) \/ Uninstall(c) \/ StopUnits(c) \/ CommitMode(c)
                 \/ Restart(c) \/ Crash(c)
        BY <3>1, <4>1 DEF OpenLock, AcquireLock, Uninstall, StopUnits, CommitMode, Restart, Crash, hostVars
      <4>2. CASE RemoveFiles(c)
        <5>1. job[c].owned \subseteq Units \cup {"hook", "sing-box.json"}
              /\ "sing-box.service" \notin job[c].owned
          BY <1>1, <1>4, <2>4, <4>2 DEF RemoveFiles, LossInv
        <5>2. With(job[c].owned \ {"sing-box.json"}) \cap {"sing-box.service", "sing-box"} = {}
          BY <5>1, FileNames DEF With
        <5>3. \E paths : disk' = Remove(paths) /\ paths \subseteq With(job[c].owned \ {"sing-box.json"})
          BY <4>2, RemovedFiles
        <5> QED  BY <2>0, <3>1, <5>2, <5>3 DEF Remove, HostTypeOK
      <4>3. CASE RemoveCore(c)
        BY <3>1, <4>3 DEF RemoveCore, Managed
      <4>4. CASE Reconcile(c)
        BY <2>0, <3>1, <4>4 DEF Reconcile, Reconciled, HostTypeOK
      <4>5. CASE Install(c)
        BY <4>0, <4>5 DEF CoverLabels, SafeLabels, Install, Preflight, ArchiveConflicts, StopPrevious,
                    ClearConflicts, Recheck, Capture, CheckCandidate, InstallCore, Initialize,
                    Prerequisites, InstallUnits, StartServices, CheckHealth, WriteMarker, Failed,
                    DisableUnits, DeleteFiles, RestoreArchive
      <4>6. CASE PurgeData(c)
        BY <4>6 DEF PurgeData
      <4> QED  BY <4>1, <4>2, <4>3, <4>4, <4>5, <4>6 DEF Command
    <3> QED  BY <2>4, <3>1, <3>2, <3>3, PreciousFiles DEF Kept
  <2> QED  BY <2>2, <2>3, <2>4
<1> QED  BY <1>1, <1>2, <1>3, <1>4

\* What a command knows is not disturbed by another.
LEMMA OthersLoss ==
  ASSUME OneInstaller, TypeInv, NothingLostInv, ~ purged,
         NEW c \in Commands, Command(c) \/ Crash(c), pc[c] # "purge data",
         NEW d \in Commands \ {c}
  PROVE  LossInv(d)'
<1> USE DEF TypeInv
<1>1. archives \subseteq archives' /\ LossInv(c) /\ LossInv(d)
  BY ArchivesStay DEF NothingLostInv
<1>2. pc'[d] = pc[d] /\ job'[d] = job[d]
  BY OthersStand
<1>3. Installs(d) => ~ Installs(c)
  BY <1>1 DEF OneInstaller, LossInv
<1>4. committed' = committed \/ (Installs(c) /\ committed' = committed \cup {c})
  BY ArchivesStay DEF Installs, At, SafeLabels
<1>5. c # "foreign"
  BY LifecycleAssumption
<1>6. \A x : Safe(x) => Safe(x)'
  BY <1>1, SafeStays
<1>7. Installs(d)' = Installs(d) /\ At(d, CoverLabels)' = At(d, CoverLabels)
      /\ At(d, SafeLabels)' = At(d, SafeLabels)
  BY <1>2 DEF Installs, At
<1>8. At(d, CoverLabels) \/ At(d, SafeLabels) \/ pc[d] \in Written => Installs(d)
  BY DEF Installs, At, Written, SafeLabels
<1>9. Installs(d) => /\ disk'["config.toml"] = disk["config.toml"]
                     /\ disk'["state.json"] = disk["state.json"]
                     /\ committed' = committed
  BY <1>1, <1>3, <1>4, DataStands
<1>10. Installs(d)' => d \in Installers \ committed'
  BY <1>1, <1>7, <1>9 DEF LossInv
<1>11. At(d, CoverLabels)' => \A x \in committed' : Precious(x) \subseteq job'[d].conflicts \/ Safe(x)'
  BY <1>1, <1>2, <1>6, <1>7, <1>8, <1>9 DEF LossInv
<1>12. At(d, SafeLabels)' => AllSafe'
  BY <1>1, <1>6, <1>7, <1>8, <1>9 DEF LossInv, AllSafe
<1>13. /\ pc'[d] \in Written => disk'["config.toml"] = d
       /\ pc'[d] \in Written \ {"prerequisites"} => disk'["state.json"] = d
  BY <1>1, <1>2, <1>8, <1>9 DEF LossInv
<1>14. pc'[d] \in {"stop units", "remove files"} =>
         /\ job'[d].owned \subseteq Units \cup {"hook", "sing-box.json"}
         /\ "sing-box.service" \in job'[d].owned /\ "foreign" \in committed' => Safe("foreign")'
  BY <1>1, <1>2, <1>4, <1>5, <1>6 DEF LossInv
<1> QED  BY <1>10, <1>11, <1>12, <1>13, <1>14 DEF LossInv

\* Each step of an installation or removal knows what the next one relies on.
LEMMA OwnLoss ==
  ASSUME TypeInv, NothingLostInv, ~ purged, NEW c \in Commands, Command(c) \/ Crash(c),
         pc[c] # "purge data"
  PROVE  LossInv(c)'
<1> USE DEF TypeInv
<1>1. archives \subseteq archives' /\ LossInv(c)
  BY ArchivesStay DEF NothingLostInv
<1>2. \A x : Safe(x) => Safe(x)'
  BY <1>1, SafeStays
<1>3. committed' = committed \/ (pc[c] = "marker" /\ committed' = committed \cup {c})
  BY ArchivesStay
<1>4. /\ pc \in [Commands -> Labels] /\ job \in [Commands -> JobType] /\ disk \in [Files -> Contents]
      /\ job[c] \in JobType /\ pc[c] \in Labels
      /\ {"config.toml", "state.json"} \subseteq Files
  BY FileNames DEF CommandTypeOK, HostTypeOK, Files
<1>5. ASSUME NEW label, pc'[c] = label, label \notin Written \cup {"wait", "stop units", "remove files"},
             label \notin {"install", "replace"} \cup CoverLabels \cup SafeLabels
      PROVE  LossInv(c)'
  BY <1>5 DEF LossInv, Installs, At
<1>6. ASSUME NEW label \in SafeLabels, pc'[c] = label, Installs(c), AllSafe, committed' = committed,
             label \in Written => disk'["config.toml"] = c,
             label \in Written \ {"prerequisites"} => disk'["state.json"] = c
      PROVE  LossInv(c)'
  <2>1. AllSafe'
    BY <1>2, <1>6 DEF AllSafe
  <2>2. c \in Installers \ committed'
    BY <1>1, <1>6 DEF LossInv
  <2>3. ~ At(c, CoverLabels)'
    BY <1>6 DEF At, CoverLabels, SafeLabels
  <2>4. pc'[c] \notin {"stop units", "remove files"}
    BY <1>6 DEF SafeLabels
  <2> QED  BY <1>6, <2>1, <2>2, <2>3, <2>4 DEF LossInv
<1>7. \A result : End(c, result) => pc'[c] = "idle"
  BY <1>4 DEF End, Goto
<1>8. \A label : Continue(c, label) \/ Release(c, label) => pc'[c] = label
  BY <1>4 DEF Continue, Release, Goto
<1>9. (\E result : End(c, result)) => LossInv(c)'
  BY <1>5, <1>7 DEF Written, CoverLabels, SafeLabels
<1>10. At(c, SafeLabels) => Installs(c) /\ AllSafe
  BY <1>1 DEF LossInv, Installs, At
<1>11. CASE OpenLock(c)
  <2>1. pc'[c] = "wait" /\ pc[c] \in LockPoints
    BY <1>4, <1>11 DEF OpenLock, Goto
  <2>2. job'[c].then = pc[c] /\ job'[c].conflicts = job[c].conflicts
    BY <1>4, <1>11 DEF OpenLock, JobType
  <2>3. Installs(c)' = Installs(c) /\ At(c, CoverLabels)' = At(c, CoverLabels)
        /\ At(c, SafeLabels)' = At(c, SafeLabels)
    BY <2>1, <2>2 DEF Installs, At, LockPoints, CoverLabels, SafeLabels
  <2>4. committed' = committed
    BY <1>11 DEF OpenLock
  <2>5. pc'[c] \notin Written \cup {"stop units", "remove files"}
    BY <2>1 DEF Written
  <2> QED  BY <1>1, <1>2, <2>2, <2>3, <2>4, <2>5 DEF LossInv, AllSafe
<1>12. CASE AcquireLock(c)
  <2>1. pc[c] = "wait" /\ pc'[c] = AfterLock(job[c].then) /\ job'[c] = job[c] /\ job[c].then \in LockPoints
        /\ committed' = committed
    BY <1>4, <1>12 DEF AcquireLock, Goto, CommandTypeOK
  <2>2. CASE job[c].then = "prepare"
    <3>1. pc'[c] = "archive" /\ At(c, CoverLabels) /\ Installs(c)
      BY <2>1, <2>2 DEF AfterLock, At, CoverLabels, Installs
    <3>2. ~ At(c, SafeLabels)'
      BY <3>1 DEF At, SafeLabels
    <3>3. pc'[c] \notin Written \cup {"stop units", "remove files"}
      BY <3>1 DEF Written
    <3> QED  BY <1>1, <1>2, <2>1, <3>1, <3>2, <3>3 DEF LossInv
  <2>3. CASE job[c].then \in {"initialize", "restore"}
    <3>1. pc'[c] \in {"create", "untar"} /\ At(c, SafeLabels)
      BY <2>1, <2>3 DEF AfterLock, At, SafeLabels
    <3> QED  BY <1>6, <1>10, <2>1, <3>1 DEF SafeLabels, Written
  <2>4. CASE job[c].then \in {"switch", "switch back"}
    <3>1. pc'[c] \in {"commit", "revert"}
      BY <2>1, <2>4 DEF AfterLock
    <3> QED  BY <1>5, <3>1 DEF Written, CoverLabels, SafeLabels
  <2> QED  BY <2>1, <2>2, <2>3, <2>4 DEF LockPoints
<1>13. CASE Preflight(c)
  <2>1. pc[c] \in {"install", "replace"} /\ Installs(c) /\ committed' = committed
    BY <1>13 DEF Preflight, Installs, At
  <2>2. \A x \in committed : x # None /\ Precious(x) # {} /\ Precious(x) \subseteq ConflictPaths
    BY PreciousFiles DEF HostTypeOK
  <2>3. Conflicts = {} => AllSafe
    BY <2>2 DEF Conflicts, AllSafe, Kept, NothingLostInv, WholeInv
  <2>4. CASE Conflicts = {} /\ pc'[c] \in {"capture", "recheck"}
    BY <1>6, <2>1, <2>3, <2>4 DEF SafeLabels, Written
  <2>5. CASE pc'[c] = "prepare" /\ job' = [job EXCEPT ![c].conflicts = Conflicts]
    <3>1. job'[c].conflicts = Conflicts
      BY <1>4, <2>5 DEF JobType
    <3>2. \A x \in committed : Precious(x) \subseteq Conflicts \/ Safe(x)
      BY <2>2 DEF Conflicts, Kept, NothingLostInv, WholeInv
    <3>3. ~ At(c, SafeLabels)' /\ pc'[c] \notin Written \cup {"stop units", "remove files"}
      BY <2>5 DEF At, SafeLabels, Written
    <3> QED  BY <1>1, <1>2, <2>1, <3>1, <3>2, <3>3 DEF LossInv
  <2> QED  BY <1>8, <1>9, <1>13, <2>4, <2>5 DEF Preflight
<1>14. CASE ArchiveConflicts(c)
  <2>1. pc[c] = "archive" /\ Installs(c) /\ At(c, CoverLabels) /\ committed' = committed
    BY <1>14 DEF ArchiveConflicts, Installs, At, CoverLabels
  <2>2. CASE archives' = archives \cup {ArchiveOf(job[c].conflicts)} /\ pc'[c] = "stop"
    <3>1. ArchiveOf(job[c].conflicts) \in archives'
          /\ DOMAIN ArchiveOf(job[c].conflicts) = job[c].conflicts
          /\ \A f \in job[c].conflicts : ArchiveOf(job[c].conflicts)[f] = disk[f]
      BY <2>2 DEF ArchiveOf
    <3>2. ASSUME NEW x \in committed PROVE Safe(x)'
      <4>1. CASE Safe(x)
        BY <1>2, <4>1
      <4>2. CASE ~ Safe(x)
        <5>1. Precious(x) \subseteq job[c].conflicts /\ Kept(x)
          BY <1>1, <2>1, <4>2 DEF LossInv, NothingLostInv, WholeInv
        <5> QED  BY <3>1, <5>1 DEF Safe, Archived, Kept
      <4> QED  BY <4>1, <4>2
    <3>3. AllSafe'
      BY <2>1, <3>2 DEF AllSafe
    <3>4. ~ At(c, CoverLabels)' /\ pc'[c] \notin Written \cup {"stop units", "remove files"}
      BY <2>2 DEF At, CoverLabels, Written
    <3> QED  BY <1>1, <2>1, <3>3, <3>4 DEF LossInv
  <2> QED  BY <1>8, <1>9, <1>14, <2>2 DEF ArchiveConflicts
<1>15. CASE /\ \/ StopPrevious(c) \/ ClearConflicts(c) \/ Recheck(c) \/ Capture(c) \/ CheckCandidate(c)
               \/ InstallCore(c) \/ Failed(c) \/ DisableUnits(c) \/ DeleteFiles(c) \/ RestoreArchive(c)
  <2>1. At(c, SafeLabels) /\ committed' = committed
    BY <1>15 DEF At, SafeLabels, StopPrevious, ClearConflicts, Recheck, Capture, CheckCandidate,
                 InstallCore, Failed, DisableUnits, DeleteFiles, RestoreArchive
  <2>2. \/ \E result : End(c, result)
        \/ pc'[c] \in {"clear", "recover", "recheck", "capture", "failed", "check", "core",
                       "initialize", "disable", "restore", "delete"}
    BY <1>8, <1>15 DEF StopPrevious, ClearConflicts, Recheck, Capture, CheckCandidate,
                 InstallCore, Failed, DisableUnits, DeleteFiles, RestoreArchive
  <2> QED  BY <1>6, <1>9, <1>10, <2>1, <2>2 DEF SafeLabels, Written
<1>16. CASE Initialize(c)
  <2>1. At(c, SafeLabels) /\ committed' = committed
    BY <1>16 DEF At, SafeLabels, Initialize
  <2>2. \/ pc'[c] = "failed"
        \/ /\ pc'[c] = "prerequisites"
           /\ \E paths : disk' = Put(paths, c) /\ "config.toml" \in paths
    BY <1>8, <1>16 DEF Initialize
  <2>3. pc'[c] = "failed" \/ (pc'[c] = "prerequisites" /\ disk'["config.toml"] = c)
    BY <1>4, <2>2 DEF Put
  <2> QED  BY <1>6, <1>10, <2>1, <2>3 DEF SafeLabels, Written
<1>17. CASE Prerequisites(c)
  <2>1. At(c, SafeLabels) /\ committed' = committed /\ disk["config.toml"] = c
    BY <1>1, <1>17 DEF At, SafeLabels, Prerequisites, LossInv, Written
  <2>2. \/ pc'[c] = "failed"
        \/ /\ pc'[c] = "units"
           /\ \E paths : disk' = Put(paths, c) /\ "state.json" \in paths
    BY <1>8, <1>17 DEF Prerequisites
  <2>3. pc'[c] = "failed" \/ (pc'[c] = "units" /\ disk'["config.toml"] = c /\ disk'["state.json"] = c)
    BY <1>4, <2>1, <2>2 DEF Put
  <2> QED  BY <1>6, <1>10, <2>1, <2>3 DEF SafeLabels, Written
<1>18. CASE InstallUnits(c) \/ StartServices(c) \/ CheckHealth(c)
  <2>1. /\ At(c, SafeLabels) /\ committed' = committed
        /\ disk["config.toml"] = c /\ disk["state.json"] = c
    BY <1>1, <1>18 DEF At, SafeLabels, InstallUnits, StartServices, CheckHealth, LossInv, Written
  <2>2. pc'[c] \in {"failed", "start", "health", "marker"}
    BY <1>8, <1>18 DEF InstallUnits, StartServices, CheckHealth
  <2>3. disk' = disk \/ \E paths : disk' = Put(paths, c)
    BY <1>18 DEF InstallUnits, StartServices, CheckHealth
  <2>4. disk'["config.toml"] = c /\ disk'["state.json"] = c
    BY <1>4, <2>1, <2>3 DEF Put
  <2> QED  BY <1>6, <1>10, <2>1, <2>2, <2>4 DEF SafeLabels, Written
<1>19. CASE WriteMarker(c)
  <2>1. At(c, SafeLabels)
    BY <1>19 DEF At, SafeLabels, WriteMarker
  <2>2. (\E result : End(c, result)) \/ (pc'[c] = "failed" /\ committed' = committed)
    BY <1>8, <1>19 DEF WriteMarker
  <2> QED  BY <1>6, <1>9, <1>10, <2>1, <2>2 DEF SafeLabels, Written
<1>20. CASE Uninstall(c)
  <2>1. committed' = committed
    BY <1>20 DEF Uninstall
  <2>2. ASSUME pc'[c] = "stop units",
               NEW owned, owned = {f \in Units \cup {"hook"} : Managed(disk[f])},
               NEW core, core \subseteq {"sing-box.json"}, job' = [job EXCEPT ![c].owned = owned \cup core]
        PROVE  LossInv(c)'
    <3>1. job'[c].owned = owned \cup core
      BY <1>4, <2>2 DEF JobType
    <3>2. ASSUME "sing-box.service" \in owned \cup core, "foreign" \in committed PROVE Safe("foreign")'
      <4>1. disk["sing-box.service"] # "foreign"
        BY <2>2, <3>2 DEF Managed
      <4>2. ~ Kept("foreign")
        BY <4>1, PreciousFiles DEF Kept
      <4> QED  BY <1>2, <3>2, <4>2 DEF NothingLostInv, WholeInv
    <3>3. ~ Installs(c)' /\ ~ At(c, CoverLabels)' /\ ~ At(c, SafeLabels)' /\ pc'[c] \notin Written
      BY <2>2 DEF Installs, At, CoverLabels, SafeLabels, Written
    <3> QED  BY <2>1, <2>2, <3>1, <3>2, <3>3 DEF LossInv
  <2> DEFINE managed == {f \in Units \cup {"hook"} : Managed(disk[f])}
             core == IF "sing-box.service" \in managed \/ disk["sing-box.service"] = None
                     THEN {"sing-box.json"} ELSE {}
  <2>3. \/ \E result : End(c, result)
        \/ pc'[c] = "stop units" /\ job' = [job EXCEPT ![c].owned = managed \cup core]
    BY <1>8, <1>20 DEF Uninstall
  <2>4. core \subseteq {"sing-box.json"}
    OBVIOUS
  <2> HIDE DEF core
  <2> QED  BY <1>9, <2>2, <2>3, <2>4
<1>21. CASE StopUnits(c)
  <2>1. pc[c] = "stop units" /\ committed' = committed
    BY <1>21 DEF StopUnits
  <2>2. CASE pc'[c] = "remove files" /\ job' = job
    <3>1. ~ Installs(c)' /\ ~ At(c, CoverLabels)' /\ ~ At(c, SafeLabels)' /\ pc'[c] \notin Written
      BY <2>2 DEF Installs, At, CoverLabels, SafeLabels, Written
    <3> QED  BY <1>1, <1>2, <2>1, <2>2, <3>1 DEF LossInv
  <2> QED  BY <1>8, <1>9, <1>21, <2>2 DEF StopUnits
<1>22. CASE RemoveFiles(c) \/ CommitMode(c) \/ Reconcile(c) \/ Restart(c)
  <2>1. \/ \E result : End(c, result)
        \/ pc'[c] \in {"purge data", "reconcile", "switch back", "restart"}
    BY <1>8, <1>22 DEF RemoveFiles, CommitMode, Reconcile, Restart, RestartFails
  <2> QED  BY <1>5, <1>9, <2>1 DEF Written, CoverLabels, SafeLabels
<1>23. CASE PurgeData(c) \/ RemoveCore(c) \/ Crash(c)
  <2>1. \E result : End(c, result)
    BY <1>23 DEF PurgeData, RemoveCore, Crash
  <2> QED  BY <1>9, <2>1
<1> QED
  BY <1>11, <1>12, <1>13, <1>14, <1>15, <1>16, <1>17, <1>18, <1>19, <1>20, <1>21, <1>22, <1>23
  DEF Command, Install

\* A command that begins knows nothing yet.
LEMMA BeginLoss ==
  ASSUME TypeInv, NothingLostInv, ~ purged', NEW c \in Commands, NEW op \in Ops, NEW direct \in BOOLEAN,
         Begin(c, op, direct)
  PROVE  NothingLostInv'
<1> USE DEF TypeInv
<1>1. ~ purged /\ committed' = committed /\ UNCHANGED disk /\ UNCHANGED archives
  BY DEF Begin, hostVars, HostTypeOK
<1>2. WholeInv /\ \A d \in Commands : LossInv(d)
  BY <1>1 DEF NothingLostInv
<1>3. \A x : Safe(x)' = Safe(x) /\ Kept(x)' = Kept(x)
  BY <1>1 DEF Safe, Archived, Kept
<1>4. WholeInv'
  BY <1>1, <1>2, <1>3 DEF WholeInv
<1>5. pc' = [pc EXCEPT ![c] = op] /\ (op \in Installing => c \in Installers \ committed)
      /\ op \in AllOps
  BY LifecycleAssumption DEF Begin, Goto
<1>6. LossInv(c)'
  <2>1. pc'[c] = op
    BY <1>5 DEF CommandTypeOK
  <2>2. ~ At(c, CoverLabels)' /\ ~ At(c, SafeLabels)'
        /\ pc'[c] \notin Written \cup {"stop units", "remove files"}
    BY <1>5, <2>1 DEF At, CoverLabels, SafeLabels, Written, AllOps
  <2>3. Installs(c)' => op \in Installing
    BY <1>5, <2>1, <2>2 DEF Installs, At, Installing, AllOps
  <2> QED  BY <1>1, <1>5, <2>2, <2>3 DEF LossInv
<1>7. ASSUME NEW d \in Commands \ {c} PROVE LossInv(d)'
  <2>1. job'[d] = [job[d] EXCEPT !.alone = FALSE] /\ job[d] \in JobType
    BY DEF Begin, CommandTypeOK
  <2>2. job'[d].then = job[d].then /\ job'[d].conflicts = job[d].conflicts
        /\ job'[d].owned = job[d].owned
    BY <2>1 DEF JobType
  <2>3. pc'[d] = pc[d]
    BY <1>5 DEF CommandTypeOK
  <2>4. Installs(d)' = Installs(d) /\ At(d, CoverLabels)' = At(d, CoverLabels)
        /\ At(d, SafeLabels)' = At(d, SafeLabels)
    BY <2>2, <2>3 DEF Installs, At
  <2> QED  BY <1>1, <1>2, <1>3, <2>2, <2>3, <2>4 DEF LossInv, AllSafe
<1> QED  BY <1>1, <1>4, <1>6, <1>7 DEF NothingLostInv

LEMMA LossStep ==
  ASSUME OneInstaller, TypeInv, PurgeInv, NothingLostInv, [Next]_vars
  PROVE  NothingLostInv'
<1>1. CASE UNCHANGED vars
  BY <1>1 DEF vars, hostVars, lockVars, commandVars, NothingLostInv, WholeInv, LossInv, Kept, Safe,
              Archived, AllSafe, Installs, At
<1>2. ASSUME NEW c \in Commands, NEW op \in Ops, NEW d \in BOOLEAN, Begin(c, op, d)
      PROVE  NothingLostInv'
  <2>1. CASE ~ purged'
    BY <1>2, <2>1, BeginLoss
  <2>2. CASE purged'
    BY <1>2, <2>2 DEF Begin, NothingLostInv
  <2> QED  BY <2>1, <2>2
<1>3. ASSUME NEW c \in Commands, Command(c) \/ Crash(c)
      PROVE  NothingLostInv'
  <2>1. purged' = purged
        /\ (committed' = committed \/ (pc[c] = "marker" /\ committed' = committed \cup {c}))
    BY <1>3, ArchivesStay
  <2>3. CASE purged
    BY <2>1, <2>3 DEF NothingLostInv
  <2>4. CASE ~ purged
    <3>1. pc[c] # "purge data"
      BY <2>4 DEF PurgeInv
    <3>2. \A d \in Commands : LossInv(d)'
      BY <1>3, <2>4, <3>1, OwnLoss, OthersLoss
    <3>3. \A x \in committed : Kept(x)' \/ Safe(x)'
      BY <1>3, <2>4, <3>1, WholeStep
    <3>4. pc[c] = "marker" /\ committed' # committed => Kept(c)'
      <4>1. ASSUME pc[c] = "marker", committed' # committed PROVE Kept(c)'
        <5>1. WriteMarker(c) /\ disk["config.toml"] = c /\ disk["state.json"] = c
          BY <1>3, <2>4, <4>1 DEF NothingLostInv, LossInv, Written, Command, Install, OpenLock,
             AcquireLock, Preflight, ArchiveConflicts, StopPrevious, ClearConflicts, Recheck, Capture,
             CheckCandidate, InstallCore, Initialize, Prerequisites, InstallUnits, StartServices,
             CheckHealth, Failed, DisableUnits, DeleteFiles, RestoreArchive, Uninstall, StopUnits,
             RemoveFiles, PurgeData, RemoveCore, CommitMode, Reconcile, Restart, Crash, LockPoints
        <5>2. disk' = disk \/ disk' = Put({"ownership"}, c)
          BY <5>1 DEF WriteMarker
        <5>3. disk'["config.toml"] = c /\ disk'["state.json"] = c
          BY <5>1, <5>2, FileNames DEF Put, Files, TypeInv, HostTypeOK
        <5>4. c # "foreign"
          BY LifecycleAssumption
        <5> QED  BY <5>3, <5>4, PreciousFiles DEF Kept
      <4> QED  BY <4>1
    <3>5. WholeInv'
      BY <2>1, <3>3, <3>4 DEF WholeInv
    <3> QED  BY <3>2, <3>5 DEF NothingLostInv
  <2> QED  BY <2>3, <2>4
<1> QED  BY <1>1, <1>2, <1>3, StepCases

LEMMA InitLoss ==
  ASSUME NEW hosts \in SUBSET AllHosts, NEW modes \in SUBSET BOOLEAN, NEW commands \in Nat,
         LifecycleInit(hosts, modes, commands)
  PROVE  PurgeInv /\ NothingLostInv
<1>1. PICK h \in hosts, d \in modes :
        /\ disk = HostFiles(h, d)
        /\ committed = IF h = "clean" THEN {} ELSE IF h = "foreign" THEN {"foreign"} ELSE {"old"}
  BY DEF LifecycleInit
<1>2. /\ pc = [c \in Commands |-> "idle"] /\ job = [c \in Commands |-> NoJob]
      /\ h \in AllHosts
  BY DEF LifecycleInit
<1>3. PurgeInv
  BY <1>2 DEF PurgeInv, NoJob
<1>4. \A c \in Commands : LossInv(c)
  BY <1>2 DEF LossInv, Installs, At, CoverLabels, SafeLabels, Written
<1>5. {"config.toml", "state.json"} \subseteq DeploymentFiles(d)
  BY FileNames DEF DeploymentFiles, Files
<1>6. CASE h = "foreign"
  <2>1. Kept("foreign")
    BY <1>1, <1>6, PreciousFiles, FileNames DEF Kept, HostFiles, Files
  <2> QED  BY <1>1, <1>3, <1>4, <1>6, <2>1 DEF NothingLostInv, WholeInv
<1>7. CASE h \in {"managed", "leftover"}
  <2>1. {"config.toml", "state.json"} \cap (Units \cup {"hook", "sing-box"}) = {}
        /\ {"config.toml", "state.json"} \subseteq Files
    BY FileNames DEF Files
  <2>2. Kept("old")
    BY <1>1, <1>5, <1>7, <2>1, PreciousFiles DEF Kept, HostFiles
  <2> QED  BY <1>1, <1>3, <1>4, <1>7, <2>2 DEF NothingLostInv, WholeInv
<1>8. CASE h = "clean"
  BY <1>1, <1>3, <1>4, <1>8 DEF NothingLostInv, WholeInv
<1> QED  BY <1>2, <1>6, <1>7, <1>8 DEF AllHosts

\* Where one installs at a time, what makes a deployment that was there or was committed is
\* on the host or in an archive until somebody asks for a purge, for any number of commands,
\* failures and deaths.
THEOREM DeploymentsAreKept ==
  ASSUME OneInstaller
  PROVE  HostSpec => []NothingLost
<1>1. NothingLostInv => NothingLost
  BY DEF NothingLostInv, WholeInv, Kept, Safe, Archived, NothingLost
<1>2. HostInit => PurgeInv /\ NothingLostInv
  BY HostCommands, InitLoss
<1>3. TypeInv /\ PurgeInv /\ NothingLostInv /\ [HostNext]_<<vars, storageVars>>
        => (PurgeInv /\ NothingLostInv)'
  BY HostCommands, PurgeStep, LossStep
<1> QED  BY <1>1, <1>2, <1>3, TypesHold, PTL DEF HostSpec

-------------------------------------------------------------------------------
(* Commands that run alone *)

\* A command that began with no other under way, and was not joined by one since.
AloneInv ==
  \A c \in Commands : job[c].alone => \A d \in Commands \ {c} : pc[d] = "idle"

LEMMA Busy ==
  ASSUME CommandTypeOK, NEW c \in Commands, Command(c) \/ Crash(c)
  PROVE  pc[c] # "idle"
<1>1. CASE OpenLock(c)  BY <1>1 DEF OpenLock, LockPoints
<1>2. CASE AcquireLock(c)  BY <1>2 DEF AcquireLock
<1>3. CASE Preflight(c)  BY <1>3 DEF Preflight
<1>4. CASE ArchiveConflicts(c)  BY <1>4 DEF ArchiveConflicts
<1>5. CASE StopPrevious(c)  BY <1>5 DEF StopPrevious
<1>6. CASE ClearConflicts(c)  BY <1>6 DEF ClearConflicts
<1>7. CASE Recheck(c)  BY <1>7 DEF Recheck
<1>8. CASE Capture(c)  BY <1>8 DEF Capture
<1>9. CASE CheckCandidate(c)  BY <1>9 DEF CheckCandidate
<1>10. CASE InstallCore(c)  BY <1>10 DEF InstallCore
<1>11. CASE Initialize(c)  BY <1>11 DEF Initialize
<1>12. CASE Prerequisites(c)  BY <1>12 DEF Prerequisites
<1>13. CASE InstallUnits(c)  BY <1>13 DEF InstallUnits
<1>14. CASE StartServices(c)  BY <1>14 DEF StartServices
<1>15. CASE CheckHealth(c)  BY <1>15 DEF CheckHealth
<1>16. CASE WriteMarker(c)  BY <1>16 DEF WriteMarker
<1>17. CASE Failed(c)  BY <1>17 DEF Failed
<1>18. CASE DisableUnits(c)  BY <1>18 DEF DisableUnits
<1>19. CASE DeleteFiles(c)  BY <1>19 DEF DeleteFiles
<1>20. CASE RestoreArchive(c)  BY <1>20 DEF RestoreArchive
<1>21. CASE Uninstall(c)  BY <1>21 DEF Uninstall
<1>22. CASE StopUnits(c)  BY <1>22 DEF StopUnits
<1>23. CASE RemoveFiles(c)  BY <1>23 DEF RemoveFiles
<1>24. CASE PurgeData(c)  BY <1>24 DEF PurgeData
<1>25. CASE RemoveCore(c)  BY <1>25 DEF RemoveCore
<1>26. CASE CommitMode(c)  BY <1>26 DEF CommitMode
<1>27. CASE Reconcile(c)  BY <1>27 DEF Reconcile
<1>28. CASE Restart(c)  BY <1>28 DEF Restart
<1>29. CASE Crash(c)  BY <1>29 DEF Crash
<1> QED
  BY <1>1, <1>2, <1>3, <1>4, <1>5, <1>6, <1>7, <1>8, <1>9, <1>10, <1>11, <1>12, <1>13, <1>14,
     <1>15, <1>16, <1>17, <1>18, <1>19, <1>20, <1>21, <1>22, <1>23, <1>24, <1>25, <1>26,
     <1>27, <1>28, <1>29
  DEF Command, Install

\* What a new command starts from; the others are no longer alone.
LEMMA BeginJobs ==
  ASSUME CommandTypeOK, NEW c \in Commands, NEW op \in Ops, NEW direct \in BOOLEAN,
         Begin(c, op, direct)
  PROVE  /\ pc'[c] = op /\ job'[c].op = op /\ job'[c].direct = direct /\ job'[c].before = Host
         /\ job'[c].alone = (\A d \in Commands : pc[d] = "idle")
         /\ job'[c].backup = None /\ job'[c].started = FALSE /\ pc[c] = "idle"
         /\ \A d \in Commands \ {c} : job'[d].alone = FALSE /\ pc'[d] = pc[d]
<1> DEFINE quiet == \A d \in Commands : pc[d] = "idle"
           new   == [NoJob EXCEPT !.op = op, !.direct = direct, !.alone = quiet, !.before = Host]
<1>1. job' = [d \in Commands |-> IF d = c THEN new ELSE [job[d] EXCEPT !.alone = FALSE]]
  BY DEF Begin
<1> HIDE DEF quiet
<1>2. new.op = op /\ new.direct = direct /\ new.before = Host /\ new.alone = quiet
      /\ new.backup = None /\ new.started = FALSE
  BY DEF NoJob
<1>3. \A d \in Commands : [job[d] EXCEPT !.alone = FALSE].alone = FALSE
  BY DEF CommandTypeOK, JobType
<1>4. pc' = [pc EXCEPT ![c] = op] /\ pc[c] = "idle"
  BY DEF Begin, Goto
<1> HIDE DEF new
<1>5. job'[c] = new /\ \A d \in Commands \ {c} : job'[d].alone = FALSE
  BY <1>1, <1>3
<1>6. pc'[c] = op /\ \A d \in Commands \ {c} : pc'[d] = pc[d]
  BY <1>4 DEF CommandTypeOK
<1> QED  BY <1>2, <1>4, <1>5, <1>6 DEF quiet

LEMMA AloneStep ==
  ASSUME TypeInv, AloneInv, [Next]_vars
  PROVE  AloneInv'
<1> USE DEF TypeInv
<1>1. CASE UNCHANGED vars
  BY <1>1 DEF vars, commandVars, AloneInv
<1>2. ASSUME NEW c \in Commands, NEW op \in Ops, NEW d \in BOOLEAN, Begin(c, op, d)
      PROVE  AloneInv'
  BY <1>2, BeginJobs DEF AloneInv
<1>3. ASSUME NEW c \in Commands, Command(c) \/ Crash(c)
      PROVE  AloneInv'
  <2>1. \A d \in Commands \ {c} : pc'[d] = pc[d] /\ job'[d] = job[d]
    BY <1>3, OthersStand
  <2>2. pc[c] # "idle"
    BY <1>3, Busy
  <2>3. job'[c].alone => job[c].alone
    BY <1>3, JobMoves DEF SameOrder, NoJob
  <2> QED  BY <2>1, <2>2, <2>3 DEF AloneInv
<1> QED  BY <1>1, <1>2, <1>3, StepCases

\* What has failed so far.
Undone == \E i \in 1..Len(faults) : faults[i] = "undo"

LEMMA FaultsGrow ==
  ASSUME faults \in Seq(FaultKinds), NEW c \in Commands, Command(c) \/ Crash(c)
  PROVE  /\ Undone => Undone'
         /\ Fault("undo") => Undone'
         /\ \A kind : Fault(kind) => faults' # faults
<1>1. ASSUME NEW kind, Fault(kind)
      PROVE  (Undone => Undone') /\ faults' # faults /\ (kind = "undo" => Undone')
  <2>1. kind \in FaultKinds /\ faults' = Append(faults, kind)
    BY <1>1 DEF Fault
  <2>2. /\ Len(faults') = Len(faults) + 1 /\ Len(faults) \in Nat
        /\ \A i \in 1..Len(faults) : faults'[i] = faults[i]
        /\ faults'[Len(faults) + 1] = kind
    BY <2>1, AppendProperties, LenProperties
  <2> QED  BY <2>2 DEF Undone
<1>2. UNCHANGED faults => (Undone => Undone')
  BY DEF Undone
<1> QED  BY <1>1, <1>2, StepFaults

-------------------------------------------------------------------------------
(* A change of the mode leaves units that fit *)

\* The units a restart needs.
Restartable(d) == d["sing-box.service"] # None /\ d["sbctl.service"] # None

\* The files have been reconciled with the mode that is committed.
Reconciles(c) ==
  /\ job[c].loaded = mode /\ socketed = mode
  /\ mode <=> disk["hook"] # None
  /\ mode => disk["sbctl-http.socket"] # None

\* A change that runs alone knows how the host differs from the one it found: before the
\* commit not at all; later in the mode, unless it has been put back, in the files of the
\* mode, and in what runs only if a restart could touch it.
SwitchInv(c) ==
  job[c].alone /\ job[c].op = "switch" =>
    LET before == job[c].before IN
    /\ At(c, {"switch", "commit", "reconcile", "restart", "switch back", "revert"})
    /\ before.mode \in BOOLEAN /\ job[c].direct = ~ before.mode
    /\ \A f \in {"config.toml", "sing-box.service", "sbctl.service"} : disk[f] = before.disk[f]
    /\ At(c, {"switch", "commit"}) => mode = before.mode /\ active = before.active /\ ~ job[c].started
    /\ ~ At(c, {"switch", "commit"}) => disk["config.toml"] # None
    /\ pc[c] \in {"reconcile", "restart"} =>
         mode = (IF job[c].started THEN before.mode ELSE ~ before.mode)
    /\ At(c, {"switch back", "revert"}) => job[c].started
    /\ ~ Restartable(disk) => active = before.active
    /\ pc[c] = "restart" => Reconciles(c)

SwitchInvs == \A c \in Commands : SwitchInv(c)

LEMMA SwitchOwn ==
  ASSUME TypeInv, NEW c \in Commands, SwitchInv(c), Command(c) \/ Crash(c)
  PROVE  SwitchInv(c)'
<1> USE DEF TypeInv
<1>0. /\ pc \in [Commands -> Labels] /\ job \in [Commands -> JobType] /\ disk \in [Files -> Contents]
      /\ job[c] \in JobType /\ mode \in BOOLEAN
      /\ {"config.toml", "sing-box.service", "sbctl.service", "hook", "sbctl-http.socket"} \subseteq Files
  BY FileNames DEF CommandTypeOK, HostTypeOK, Files
<1>1. CASE ~ (job[c].alone /\ job[c].op = "switch") \/ pc'[c] = "idle"
  <2>1. NoJob.op # "switch"
    BY DEF NoJob
  <2>2. ~ (job'[c].alone /\ job'[c].op = "switch")
    BY <1>1, <2>1, JobMoves DEF SameOrder
  <2> QED  BY <2>2 DEF SwitchInv
<1>2. CASE job[c].alone /\ job[c].op = "switch" /\ pc'[c] # "idle"
  <2> DEFINE before == job[c].before
  <2>1. SameOrder(job'[c], job[c]) /\ job'[c].before = before /\ job'[c].direct = job[c].direct
    BY <1>2, JobMoves DEF SameOrder
  <2>2. /\ At(c, {"switch", "commit", "reconcile", "restart", "switch back", "revert"})
        /\ before.mode \in BOOLEAN /\ job[c].direct = ~ before.mode
        /\ \A f \in {"config.toml", "sing-box.service", "sbctl.service"} : disk[f] = before.disk[f]
        /\ At(c, {"switch", "commit"}) => mode = before.mode /\ active = before.active /\ ~ job[c].started
        /\ ~ At(c, {"switch", "commit"}) => disk["config.toml"] # None
        /\ pc[c] \in {"reconcile", "restart"} =>
             mode = (IF job[c].started THEN before.mode ELSE ~ before.mode)
        /\ At(c, {"switch back", "revert"}) => job[c].started
        /\ ~ Restartable(disk) => active = before.active
        /\ pc[c] = "restart" => Reconciles(c)
    BY <1>2 DEF SwitchInv
  <2>3. SUFFICES
        /\ At(c, {"switch", "commit", "reconcile", "restart", "switch back", "revert"})'
        /\ \A f \in {"config.toml", "sing-box.service", "sbctl.service"} : disk'[f] = before.disk[f]
        /\ At(c, {"switch", "commit"})' => mode' = before.mode /\ active' = before.active /\ ~ job'[c].started
        /\ ~ At(c, {"switch", "commit"})' => disk'["config.toml"] # None
        /\ pc'[c] \in {"reconcile", "restart"} =>
             mode' = (IF job'[c].started THEN before.mode ELSE ~ before.mode)
        /\ At(c, {"switch back", "revert"})' => job'[c].started
        /\ ~ Restartable(disk') => active' = before.active
        /\ pc'[c] = "restart" => Reconciles(c)'
    BY <2>1, <2>2 DEF SwitchInv
  <2> HIDE DEF before
  <2>4. CASE OpenLock(c)
    <3>1. pc'[c] = "wait" /\ job'[c].then = pc[c] /\ job'[c].started = job[c].started
          /\ pc[c] \in LockPoints /\ UNCHANGED <<disk, mode, active>>
      BY <1>0, <2>4 DEF OpenLock, Goto, JobType, hostVars
    <3>2. \A labels \in {{"switch", "commit", "reconcile", "restart", "switch back", "revert"},
                         {"switch", "commit"}, {"switch back", "revert"}} :
             At(c, labels)' = At(c, labels)
      BY <3>1 DEF At, LockPoints
    <3> QED  BY <2>2, <3>1, <3>2
  <2>5. CASE AcquireLock(c)
    <3>1. pc[c] = "wait" /\ pc'[c] = AfterLock(job[c].then) /\ job'[c] = job[c]
          /\ job[c].then \in {"switch", "switch back"} /\ UNCHANGED <<disk, mode, active>>
      BY <1>0, <2>2, <2>5 DEF AcquireLock, Goto, hostVars, At, CommandTypeOK, LockPoints
    <3>2. pc'[c] = IF job[c].then = "switch" THEN "commit" ELSE "revert"
      BY <3>1 DEF AfterLock
    <3>3. \A labels \in {{"switch", "commit", "reconcile", "restart", "switch back", "revert"},
                         {"switch", "commit"}, {"switch back", "revert"}} :
             At(c, labels)' = At(c, labels)
      BY <3>1, <3>2 DEF At
    <3> QED  BY <2>2, <3>1, <3>2, <3>3
  <2>6. CASE CommitMode(c)
    <3>1. pc[c] \in {"commit", "revert"} /\ UNCHANGED <<disk, active>>
      BY <2>6 DEF CommitMode
    <3>2. disk["config.toml"] # None
      BY <1>0, <1>2, <2>2, <2>6 DEF CommitMode, End, Goto, At
    <3>3. /\ pc'[c] = "reconcile" /\ job' = job
          /\ mode' = IF pc[c] = "commit" THEN job[c].direct ELSE ~ job[c].direct
      BY <1>0, <2>6, <3>2 DEF CommitMode, Release, Goto
    <3>4. job[c].started = (pc[c] = "revert")
      BY <1>0, <2>2, <3>1 DEF At, JobType
    <3>5. mode' = (IF job'[c].started THEN before.mode ELSE ~ before.mode)
      BY <2>2, <3>1, <3>3, <3>4
    <3> QED  BY <2>2, <3>1, <3>2, <3>3, <3>5 DEF At
  <2>7. ASSUME RestartFails(c) PROVE pc'[c] = "switch back" /\ job'[c].started
    BY <1>0, <1>2, <2>7 DEF RestartFails, Continue, End, Goto, JobType
  <2>8. CASE Reconcile(c)
    <3>1. pc[c] = "reconcile" /\ UNCHANGED <<mode, active>>
      BY <2>8 DEF Reconcile
    <3>2. \A f \in {"config.toml", "sing-box.service", "sbctl.service"} : disk'[f] = disk[f]
      BY <1>0, <2>8 DEF Reconcile, Reconciled
    <3>3. Restartable(disk') = Restartable(disk)
      BY <3>2 DEF Restartable
    <3>4. \/ pc'[c] = "switch back" /\ job'[c].started
          \/ /\ pc'[c] = "restart" /\ job'[c].started = job[c].started
             /\ Reconciles(c)'
      <4>1. CASE RestartFails(c)
        BY <2>7, <4>1
      <4>2. CASE /\ Managed(disk["sbctl.service"])
                 /\ Reconciled(3)
                 /\ job' = [job EXCEPT ![c].loaded = mode]
                 /\ Continue(c, "restart")
        <5>1. pc'[c] = "restart" /\ job'[c].started = job[c].started /\ job'[c].loaded = mode
          BY <1>0, <4>2 DEF Continue, Goto, JobType
        <5>2. disk["sbctl.service"] # None
          BY <4>2 DEF Managed
        <5>3. socketed' = mode /\ (mode <=> disk'["hook"] # None)
              /\ (mode => disk'["sbctl-http.socket"] # None)
          BY <1>0, <4>2, <5>2 DEF Reconciled
        <5> QED  BY <3>1, <5>1, <5>3 DEF Reconciles
      <4> QED  BY <2>8, <4>1, <4>2 DEF Reconcile
    <3> QED  BY <2>2, <3>1, <3>2, <3>3, <3>4 DEF At
  <2>9. CASE Restart(c)
    <3>1. pc[c] = "restart" /\ UNCHANGED <<mode, disk>>
      BY <2>9 DEF Restart
    <3>2. RestartFails(c)
      BY <1>0, <1>2, <2>9 DEF Restart, End, Goto
    <3>3. ~ Restartable(disk) => active' = active
      BY <2>9, FileNames DEF Restart, Restartable, Conflicts
    <3> QED  BY <2>2, <2>7, <3>1, <3>2, <3>3 DEF At
  <2>10. CASE Crash(c)
    BY <1>0, <1>2, <2>10 DEF Crash, End, Goto
  <2>11. CASE Install(c) \/ Uninstall(c) \/ StopUnits(c) \/ RemoveFiles(c) \/ PurgeData(c) \/ RemoveCore(c)
    BY <2>2, <2>11 DEF At, Install, Preflight, ArchiveConflicts, StopPrevious, ClearConflicts, Recheck,
         Capture, CheckCandidate, InstallCore, Initialize, Prerequisites, InstallUnits, StartServices,
         CheckHealth, WriteMarker, Failed, DisableUnits, DeleteFiles, RestoreArchive, Uninstall,
         StopUnits, RemoveFiles, PurgeData, RemoveCore
  <2> QED  BY <2>4, <2>5, <2>6, <2>8, <2>9, <2>10, <2>11 DEF Command
<1> QED  BY <1>1, <1>2

\* An invariant of commands that run alone is disturbed by nobody else.
LEMMA SwitchStep ==
  ASSUME TypeInv, AloneInv, SwitchInvs, [Next]_vars
  PROVE  SwitchInvs'
<1> USE DEF TypeInv
<1>1. CASE UNCHANGED vars
  <2>1. UNCHANGED <<disk, mode, socketed, active, pc, job>>
    BY <1>1 DEF vars, hostVars, commandVars
  <2>2. ASSUME NEW c \in Commands PROVE SwitchInv(c)'
    <3>1. SwitchInv(c)
      BY DEF SwitchInvs
    <3>2. \A labels : At(c, labels)' = At(c, labels)
      BY <2>1 DEF At
    <3>3. Reconciles(c)' = Reconciles(c)
      BY <2>1 DEF Reconciles
    <3> QED  BY <2>1, <3>1, <3>2, <3>3 DEF SwitchInv
  <2> QED  BY <2>2 DEF SwitchInvs
<1>2. ASSUME NEW c \in Commands, NEW op \in Ops, NEW d \in BOOLEAN, Begin(c, op, d),
             op \notin Installing => d = ~ mode
      PROVE  SwitchInvs'
  <2>1. \A e \in Commands \ {c} : SwitchInv(e)'
    BY <1>2, BeginJobs DEF SwitchInv
  <2>2. ASSUME op = "switch" PROVE SwitchInv(c)'
    <3>1. /\ pc'[c] = "switch" /\ job'[c].before = Host /\ job'[c].direct = d /\ ~ job'[c].started
          /\ d = ~ mode /\ UNCHANGED <<disk, mode, active>>
      <4>1. pc'[c] = op /\ job'[c].before = Host /\ job'[c].direct = d /\ ~ job'[c].started
        BY <1>2, BeginJobs
      <4>2. op \notin Installing
        BY <2>2 DEF Installing
      <4>3. UNCHANGED <<disk, mode, active>>
        BY <1>2 DEF Begin, hostVars
      <4> QED  BY <1>2, <2>2, <4>1, <4>2, <4>3
    <3>2. Host.disk = disk /\ Host.mode = mode /\ Host.active = active /\ mode \in BOOLEAN
      BY DEF Host, HostTypeOK
    <3> QED  BY <3>1, <3>2 DEF SwitchInv, At
  <2>3. ASSUME op # "switch" PROVE SwitchInv(c)'
    BY <1>2, <2>3, BeginJobs DEF SwitchInv
  <2> QED  BY <2>1, <2>2, <2>3 DEF SwitchInvs
<1>3. ASSUME NEW c \in Commands, Command(c) \/ Crash(c)
      PROVE  SwitchInvs'
  <2>1. SwitchInv(c)'
    BY <1>3, SwitchOwn DEF SwitchInvs
  <2>2. ASSUME NEW d \in Commands \ {c} PROVE SwitchInv(d)'
    <3>1. pc[c] # "idle" /\ job'[d] = job[d]
      BY <1>3, Busy, OthersStand
    <3>2. ~ job[d].alone
      BY <3>1 DEF AloneInv
    <3> QED  BY <3>1, <3>2 DEF SwitchInv
  <2> QED  BY <2>1, <2>2 DEF SwitchInvs
<1> QED  BY <1>1, <1>2, <1>3, StepCases

LEMMA SwitchEnds ==
  ASSUME TypeInv, SwitchInvs, [Next]_vars, NEW c \in Commands,
         Ends(c, {"switch"}), pc[c] = "restart", faults' = faults, Fits(job[c].before)
  PROVE  Fits(Host')
<1> USE DEF TypeInv
<1>1. pc[c] # "idle" /\ pc'[c] = "idle" /\ job[c].alone /\ job[c].op = "switch"
  BY DEF Ends
<1>2. /\ Reconciles(c) /\ job[c].before.mode \in BOOLEAN
      /\ mode = (IF job[c].started THEN job[c].before.mode ELSE ~ job[c].before.mode)
      /\ ~ Restartable(disk) => active = job[c].before.active
  BY <1>1 DEF SwitchInvs, SwitchInv
<1>3. Restart(c)
  <2>1. ~ UNCHANGED pc
    BY <1>1
  <2>2. ASSUME NEW d \in Commands, NEW op \in Ops, NEW e \in BOOLEAN, Begin(d, op, e) PROVE FALSE
    <3>1. op # "idle"
      BY LifecycleAssumption DEF AllOps
    <3> QED  BY <1>1, <2>2, <3>1, BeginJobs
  <2>3. PICK d \in Commands : Command(d) \/ Crash(d)
    BY <2>1, <2>2, StepCases DEF vars, commandVars
  <2>4. d = c
    BY <1>1, <2>3, OthersStand
  <2>5. ~ Crash(c)
    BY FaultsGrow DEF Crash
  <2> QED
    BY <2>3, <2>4, <2>5 DEF Command, Install, OpenLock, AcquireLock, Preflight, ArchiveConflicts,
       StopPrevious, ClearConflicts, Recheck, Capture, CheckCandidate, InstallCore, Initialize,
       Prerequisites, InstallUnits, StartServices, CheckHealth, WriteMarker, Failed, DisableUnits,
       DeleteFiles, RestoreArchive, Uninstall, StopUnits, RemoveFiles, PurgeData, RemoveCore,
       CommitMode, Reconcile, LockPoints
<1>4. ASSUME NEW kind, Fault(kind) PROVE FALSE
  BY <1>3, <1>4, FaultsGrow DEF Command
<1>5. UNCHANGED <<disk, mode, socketed>>
  BY <1>3 DEF Restart
<1>6. mode <=> "sbctl-http.socket" \in active'
  <2>1. CASE Restarted(job[c].loaded, 3)
    <3>1. job[c].loaded = mode /\ mode \in BOOLEAN
      BY <1>2 DEF Reconciles, HostTypeOK
    <3> QED  BY <2>1, <3>1 DEF Restarted, Triggered
  <2>2. CASE ~ {"sing-box.service", "sbctl.service"} \subseteq Conflicts /\ RestartFails(c) /\ active' = active
    <3>1. job[c].started
      BY <1>1, <2>2 DEF RestartFails, Continue, Goto, CommandTypeOK
    <3>2. ~ Restartable(disk)
      BY <2>2, FileNames DEF Restartable, Conflicts
    <3>3. active' = job[c].before.active /\ mode = job[c].before.mode
      BY <1>2, <2>2, <3>1, <3>2
    <3> QED  BY <3>3 DEF Fits
  <2> QED  BY <1>3, <1>4, <2>1, <2>2 DEF Restart
<1>7. /\ socketed' = mode' /\ (mode' <=> disk'["hook"] # None)
      /\ (mode' <=> "sbctl-http.socket" \in active') /\ (mode' => disk'["sbctl-http.socket"] # None)
  BY <1>2, <1>5, <1>6 DEF Reconciles
<1>8. (Host').socketed = socketed' /\ (Host').mode = mode' /\ (Host').disk = disk' /\ (Host').active = active'
  BY DEF Host
<1> QED  BY <1>7, <1>8 DEF Fits

LEMMA InitAlone ==
  ASSUME NEW hosts \in SUBSET AllHosts, NEW modes \in SUBSET BOOLEAN, NEW commands \in Nat,
         LifecycleInit(hosts, modes, commands)
  PROVE  AloneInv /\ \A c \in Commands : job[c] = NoJob /\ ~ job[c].alone
<1>1. \A c \in Commands : job[c] = NoJob
  BY DEF LifecycleInit
<1>2. ~ NoJob.alone
  BY DEF NoJob
<1> QED  BY <1>1, <1>2 DEF AloneInv

LEMMA AloneHolds == HostSpec => []AloneInv
<1>1. HostInit => AloneInv
  BY HostCommands, InitAlone
<1>2. TypeInv /\ AloneInv /\ [HostNext]_<<vars, storageVars>> => AloneInv'
  BY HostCommands, AloneStep
<1> QED  BY <1>1, <1>2, TypesHold, PTL DEF HostSpec

\* A change of the mode that ends by a restart leaves the service unit, the socket and the
\* hook in step with the committed mode, also when the restart is the one that puts the
\* earlier mode back, for any number of commands and of failures.
THEOREM SwitchedUnitsFit == HostSpec => UnitsFitMode
<1> DEFINE Fitting ==
      \A c \in Commands :
        Ends(c, {"switch"}) /\ pc[c] = "restart" /\ faults' = faults /\ Fits(job[c].before) =>
          Fits(Host')
<1>1. HostInit => SwitchInvs
  BY HostCommands, InitAlone DEF SwitchInvs, SwitchInv
<1>2. TypeInv /\ AloneInv /\ SwitchInvs /\ [HostNext]_<<vars, storageVars>> => SwitchInvs'
  BY HostCommands, SwitchStep
<1>3. TypeInv /\ SwitchInvs /\ [HostNext]_<<vars, storageVars>> => [Fitting]_vars
  BY HostCommands, SwitchEnds
<1> HIDE DEF Fitting
<1>4. HostSpec => [][Fitting]_vars
  BY <1>1, <1>2, <1>3, TypesHold, AloneHolds, PTL DEF HostSpec
<1> QED  BY <1>4 DEF Fitting, UnitsFitMode

-------------------------------------------------------------------------------
(* A failed installation puts everything back *)

\* What a replacement puts into its archive of a host.
Present(h) == {f \in ConflictPaths : h.disk[f] # None}

\* Nothing of a deployment is left, nothing runs.
Cleared == (\A f \in ConflictPaths : disk[f] = None) /\ active = {} /\ enabled = {}

PutAway(c) ==
  LET h == job[c].before IN
  /\ job[c].backup \in archives
  /\ job[c].backup = [f \in Present(h) |-> h.disk[f]]
  /\ job[c].services = [active |-> h.active, enabled |-> h.enabled, mode |-> h.mode, socketed |-> h.socketed]

\* What there was is in the archive, or there was nothing.
Recoverable(c) == PutAway(c) \/ (job[c].backup = None /\ Present(job[c].before) = {})

\* The host is as it was, but for what has been stopped or removed of what is put away.
Within(h) ==
  /\ mode = h.mode
  /\ \A f \in ConflictPaths : disk[f] \in {h.disk[f], None}
  /\ active \subseteq h.active /\ enabled \subseteq h.enabled

FirstLabels   == {"install", "replace", "prepare", "archive"}
PutLabels     == {"stop", "clear", "recover"}
CleanLabels   == {"recheck", "capture", "check"}
ChangedLabels == {"core", "initialize", "create", "prerequisites", "units", "start", "health",
                  "marker", "disable", "delete"}
BackLabels    == {"restore", "untar"}

InstallLabels == FirstLabels \cup PutLabels \cup CleanLabels \cup ChangedLabels \cup BackLabels \cup {"failed"}

\* Where a command is, also when it waits for the lock there.
Stage(c) == IF pc[c] = "wait" THEN job[c].then ELSE pc[c]

\* Installations that are to put everything back when they fail.
Answers(c) ==
  job[c].alone /\ job[c].op \in Installing /\ HasItsUnits(job[c].before) /\ ~ Undone

Installation(c) ==
  /\ job[c].before \in HostType /\ job[c].predates = {}
  /\ Stage(c) \in InstallLabels
  /\ Stage(c) \in FirstLabels => Host = job[c].before /\ job[c].backup = None /\ ~ job[c].started
  /\ Stage(c) \in {"prepare", "archive"} => job[c].conflicts = Present(job[c].before)
  /\ Stage(c) \in PutLabels => PutAway(c) /\ Within(job[c].before) /\ job[c].conflicts = Present(job[c].before) /\ ~ job[c].started
  /\ Stage(c) \in CleanLabels => Recoverable(c) /\ Cleared /\ ~ job[c].started
  /\ Stage(c) \in ChangedLabels => Recoverable(c) /\ job[c].started
  /\ Stage(c) \in {"clear", "delete"} => active = {} /\ enabled = {}
  /\ Stage(c) = "failed" => Recoverable(c) /\ (job[c].started \/ Cleared)
  /\ Stage(c) \in BackLabels => PutAway(c) /\ Cleared

InstallInv == \A c \in Commands : Answers(c) => Installation(c)

LEMMA StageNames ==
  /\ \A l \in FirstLabels : l \notin PutLabels \cup CleanLabels \cup ChangedLabels \cup BackLabels \cup {"failed", "clear", "delete"}
  /\ \A l \in PutLabels : l \notin FirstLabels \cup CleanLabels \cup ChangedLabels \cup BackLabels \cup {"failed", "delete"}
  /\ \A l \in CleanLabels : l \notin FirstLabels \cup PutLabels \cup ChangedLabels \cup BackLabels \cup {"failed", "clear", "delete"}
  /\ \A l \in ChangedLabels : l \notin FirstLabels \cup PutLabels \cup CleanLabels \cup BackLabels \cup {"failed", "clear"}
  /\ \A l \in BackLabels : l \notin FirstLabels \cup PutLabels \cup CleanLabels \cup ChangedLabels \cup {"failed", "clear", "delete"}
  /\ "failed" \notin FirstLabels \cup PutLabels \cup CleanLabels \cup ChangedLabels \cup BackLabels
  /\ {"prepare", "archive"} \subseteq FirstLabels
  /\ "wait" \notin InstallLabels /\ "idle" \notin InstallLabels
BY DEF FirstLabels, PutLabels, CleanLabels, ChangedLabels, BackLabels, InstallLabels

\* A step that stays in the invariant at the stage it goes to.
LEMMA ArrivesClean ==
  ASSUME NEW c \in Commands, job'[c].before \in HostType, job'[c].predates = {},
         Stage(c)' \in CleanLabels, Recoverable(c)', Cleared', ~ job'[c].started
  PROVE  Installation(c)'
<1>1. /\ Stage(c)' \in InstallLabels
      /\ Stage(c)' \notin FirstLabels /\ Stage(c)' \notin PutLabels /\ Stage(c)' \notin ChangedLabels
      /\ Stage(c)' \notin BackLabels
      /\ Stage(c)' \notin {"failed", "clear", "delete", "prepare", "archive"}
  BY StageNames DEF InstallLabels
<1> QED  BY <1>1 DEF Installation

LEMMA ArrivesChanged ==
  ASSUME NEW c \in Commands, job'[c].before \in HostType, job'[c].predates = {},
         Stage(c)' \in ChangedLabels, Recoverable(c)', job'[c].started,
         Stage(c)' = "delete" => active' = {} /\ enabled' = {}
  PROVE  Installation(c)'
<1>1. /\ Stage(c)' \in InstallLabels
      /\ Stage(c)' \notin FirstLabels /\ Stage(c)' \notin PutLabels /\ Stage(c)' \notin CleanLabels
      /\ Stage(c)' \notin BackLabels
      /\ Stage(c)' \notin {"failed", "clear", "prepare", "archive"}
  BY StageNames DEF InstallLabels
<1> QED  BY <1>1 DEF Installation

LEMMA ArrivesFailed ==
  ASSUME NEW c \in Commands, job'[c].before \in HostType, job'[c].predates = {},
         Stage(c)' = "failed", Recoverable(c)', job'[c].started \/ Cleared'
  PROVE  Installation(c)'
<1>1. /\ Stage(c)' \in InstallLabels
      /\ Stage(c)' \notin FirstLabels /\ Stage(c)' \notin PutLabels /\ Stage(c)' \notin CleanLabels
      /\ Stage(c)' \notin ChangedLabels /\ Stage(c)' \notin BackLabels
      /\ Stage(c)' \notin {"clear", "delete", "prepare", "archive"}
  BY StageNames DEF InstallLabels
<1> QED  BY <1>1 DEF Installation

LEMMA ArrivesBack ==
  ASSUME NEW c \in Commands, job'[c].before \in HostType, job'[c].predates = {},
         Stage(c)' \in BackLabels, PutAway(c)', Cleared'
  PROVE  Installation(c)'
<1>1. /\ Stage(c)' \in InstallLabels
      /\ Stage(c)' \notin FirstLabels /\ Stage(c)' \notin PutLabels /\ Stage(c)' \notin CleanLabels
      /\ Stage(c)' \notin ChangedLabels
      /\ Stage(c)' \notin {"failed", "clear", "delete", "prepare", "archive"}
  BY StageNames DEF InstallLabels
<1> QED  BY <1>1 DEF Installation

LEMMA ArrivesPut ==
  ASSUME NEW c \in Commands, job'[c].before \in HostType, job'[c].predates = {},
         Stage(c)' \in PutLabels, PutAway(c)', Within(job[c].before)',
         job'[c].conflicts = Present(job'[c].before), ~ job'[c].started,
         Stage(c)' = "clear" => active' = {} /\ enabled' = {}
  PROVE  Installation(c)'
<1>1. /\ Stage(c)' \in InstallLabels
      /\ Stage(c)' \notin FirstLabels /\ Stage(c)' \notin CleanLabels /\ Stage(c)' \notin ChangedLabels
      /\ Stage(c)' \notin BackLabels
      /\ Stage(c)' \notin {"failed", "delete", "prepare", "archive"}
  BY StageNames DEF InstallLabels
<1> QED  BY <1>1 DEF Installation

LEMMA AwayStays ==
  ASSUME NEW c \in Commands, archives \subseteq archives', job'[c].before = job[c].before,
         job'[c].backup = job[c].backup, job'[c].services = job[c].services
  PROVE  (PutAway(c) => PutAway(c)') /\ (Recoverable(c) => Recoverable(c)')
<1>1. PutAway(c) => PutAway(c)'
  BY DEF PutAway
<1> QED  BY <1>1 DEF Recoverable

\* Running units that have their files are among what is put away.
LEMMA UnitsPresent ==
  ASSUME NEW h \in HostType, HasItsUnits(h)
  PROVE  h.active \subseteq Present(h) /\ h.enabled \subseteq Present(h)
<1>1. h.active \subseteq Units /\ h.enabled \subseteq Units
  BY DEF HostType
<1> QED  BY <1>1, FileNames DEF HasItsUnits, Present

LEMMA FirstHost ==
  ASSUME NEW c \in Commands, Host = job[c].before
  PROVE  /\ disk = job[c].before.disk /\ mode = job[c].before.mode
         /\ active = job[c].before.active /\ enabled = job[c].before.enabled
         /\ socketed = job[c].before.socketed /\ Conflicts = Present(job[c].before)
<1>1. disk = job[c].before.disk
  BY DEF Host
<1>2. Conflicts = Present(job[c].before)
  BY <1>1 DEF Conflicts, Present
<1> QED  BY <1>2 DEF Host

\* The first preflight, and the wait for the lock.
LEMMA FirstInstall ==
  ASSUME TypeInv, NEW c \in Commands, OpenLock(c) \/ AcquireLock(c) \/ Preflight(c),
         Installation(c), HasItsUnits(job[c].before), pc'[c] # "idle", SameOrder(job'[c], job[c])
  PROVE  Installation(c)'
<1> USE DEF TypeInv
<1>0. /\ pc \in [Commands -> Labels] /\ job \in [Commands -> JobType] /\ job[c] \in JobType
      /\ job[c].before \in HostType /\ job'[c].before = job[c].before
  BY DEF CommandTypeOK, Installation, SameOrder
<1>1. CASE OpenLock(c)
  <2> DEFINE j == [job[c] EXCEPT !.opened = lockFile', !.then = pc[c]]
  <2>1. pc'[c] = "wait" /\ job'[c] = j /\ pc[c] \in LockPoints /\ UNCHANGED hostVars
    BY <1>0, <1>1 DEF OpenLock, Goto
  <2>2. /\ j.then = pc[c] /\ j.backup = job[c].backup /\ j.services = job[c].services
        /\ j.before = job[c].before /\ j.predates = job[c].predates
        /\ j.conflicts = job[c].conflicts /\ j.started = job[c].started
    BY <1>0 DEF JobType
  <2> HIDE DEF j
  <2>3. Stage(c)' = Stage(c)
    BY <2>1, <2>2 DEF Stage, LockPoints
  <2>4. (Host' = Host) /\ (Cleared' = Cleared) /\ (PutAway(c)' = PutAway(c))
        /\ (Recoverable(c)' = Recoverable(c)) /\ (Within(job[c].before)' = Within(job[c].before))
    <3>1. Host' = Host
      BY <2>1 DEF hostVars, Host
    <3>2. Cleared' = Cleared
      BY <2>1 DEF hostVars, Cleared
    <3>3. PutAway(c)' = PutAway(c)
      BY <2>1, <2>2 DEF hostVars, PutAway
    <3>4. Recoverable(c)' = Recoverable(c)
      BY <2>1, <2>2, <3>3 DEF Recoverable
    <3>5. Within(job[c].before)' = Within(job[c].before)
      BY <2>1, <2>2 DEF hostVars, Within
    <3> QED  BY <3>1, <3>2, <3>3, <3>4, <3>5
  <2>5. UNCHANGED <<active, enabled>>
    BY <2>1 DEF hostVars
  <2> QED  BY <2>1, <2>2, <2>3, <2>4, <2>5 DEF Installation
<1>2. CASE AcquireLock(c)
  <2>1. /\ pc[c] = "wait" /\ pc'[c] = AfterLock(job[c].then) /\ job'[c] = job[c]
        /\ job[c].then \in LockPoints /\ UNCHANGED hostVars
    BY <1>0, <1>2 DEF AcquireLock, Goto, CommandTypeOK
  <2>2. Stage(c) = job[c].then /\ Stage(c) \in InstallLabels
    BY <2>1 DEF Stage, Installation
  <2>3. /\ Stage(c) \in {"prepare", "initialize", "restore"}
        /\ Stage(c)' = (CASE Stage(c) = "prepare" -> "archive" [] Stage(c) = "initialize" -> "create"
                          [] Stage(c) = "restore" -> "untar")
    BY <2>1, <2>2 DEF Stage, AfterLock, LockPoints, InstallLabels, FirstLabels, PutLabels, CleanLabels,
         ChangedLabels, BackLabels
  <2>4. PutAway(c) => PutAway(c)'
    BY <2>1, AwayStays DEF hostVars
  <2>5. Recoverable(c) => Recoverable(c)'
    BY <2>1, AwayStays DEF hostVars
  <2>6. Cleared => Cleared'
    BY <2>1 DEF hostVars, Cleared
  <2>7. CASE Stage(c) = "prepare"
    <3>1. Stage(c)' = "archive"
      BY <2>3, <2>7
    <3>2. Host = job[c].before /\ job[c].backup = None /\ ~ job[c].started /\ job[c].predates = {}
          /\ job[c].conflicts = Present(job[c].before)
      BY <2>7, StageNames DEF Installation
    <3>3. Host' = Host
      BY <2>1 DEF hostVars, Host
    <3>4. /\ Stage(c)' \in FirstLabels
          /\ Stage(c)' \notin PutLabels \cup CleanLabels \cup ChangedLabels \cup BackLabels
                             \cup {"failed", "clear", "delete"}
      BY <3>1, StageNames
    <3> QED  BY <1>0, <2>1, <3>2, <3>3, <3>4 DEF Installation, InstallLabels
  <2>8. CASE Stage(c) = "initialize"
    <3>1. Stage(c)' = "create"
      BY <2>3, <2>8
    <3>2. Stage(c)' \in ChangedLabels /\ Stage(c) \in ChangedLabels
      BY <2>8, <3>1 DEF ChangedLabels
    <3>3. Recoverable(c) /\ job[c].started /\ job[c].predates = {}
      BY <3>2 DEF Installation
    <3> QED  BY <1>0, <2>1, <2>5, <3>1, <3>2, <3>3, ArrivesChanged
  <2>9. CASE Stage(c) = "restore"
    <3>1. Stage(c)' = "untar"
      BY <2>3, <2>9
    <3>2. Stage(c)' \in BackLabels /\ Stage(c) \in BackLabels
      BY <2>9, <3>1 DEF BackLabels
    <3>3. PutAway(c) /\ Cleared /\ job[c].predates = {}
      BY <3>2 DEF Installation
    <3> QED  BY <1>0, <2>1, <2>4, <2>6, <3>2, <3>3, ArrivesBack
  <2> QED  BY <2>3, <2>7, <2>8, <2>9
<1>3. CASE Preflight(c)
  <2>1. pc[c] \in {"install", "replace"} /\ UNCHANGED hostVars
    BY <1>3 DEF Preflight, hostVars
  <2>2. Stage(c) \in FirstLabels
    BY <2>1 DEF Stage, FirstLabels
  <2>3. Host = job[c].before /\ job[c].backup = None /\ ~ job[c].started /\ job[c].predates = {}
    BY <2>2 DEF Installation
  <2>4. /\ disk = job[c].before.disk /\ active = job[c].before.active /\ enabled = job[c].before.enabled
        /\ Conflicts = Present(job[c].before)
    BY <2>3, FirstHost
  <2>5. ASSUME Conflicts = {} PROVE Cleared'
    <3>1. active = {} /\ enabled = {}
      BY <1>0, <2>4, <2>5, UnitsPresent
    <3>2. \A f \in ConflictPaths : disk[f] = None
      BY <2>5 DEF Conflicts
    <3> QED  BY <2>1, <3>1, <3>2 DEF Cleared, hostVars
  <2>6. \/ pc[c] = "install" /\ Conflicts = {} /\ pc'[c] = "capture" /\ job'[c] = job[c]
        \/ /\ pc[c] = "replace" /\ pc'[c] = (IF Conflicts = {} THEN "recheck" ELSE "prepare")
           /\ job'[c] = [job[c] EXCEPT !.conflicts = Conflicts]
    BY <1>0, <1>3 DEF Preflight, Continue, Goto, End
  <2>7. \A v : LET j == [job[c] EXCEPT !.conflicts = v] IN
          /\ j.before = job[c].before /\ j.backup = None /\ ~ j.started /\ j.predates = {}
          /\ j.conflicts = v
    BY <1>0, <2>3 DEF JobType
  <2>8. job'[c].backup = None /\ ~ job'[c].started /\ job'[c].predates = {}
    BY <2>3, <2>6, <2>7
  <2>9. CASE Conflicts = {}
    <3>1. Stage(c)' \in CleanLabels
      BY <2>6, <2>9 DEF Stage, CleanLabels
    <3>2. Recoverable(c)'
      BY <1>0, <2>4, <2>8, <2>9 DEF Recoverable
    <3> QED  BY <1>0, <2>5, <2>8, <2>9, <3>1, <3>2, ArrivesClean
  <2>10. CASE Conflicts # {}
    <3>1. Stage(c)' = "prepare" /\ job'[c].conflicts = Conflicts
      BY <2>6, <2>7, <2>10 DEF Stage
    <3>2. Host' = Host
      BY <2>1 DEF hostVars, Host
    <3>3. /\ Stage(c)' \in FirstLabels
          /\ Stage(c)' \notin PutLabels \cup CleanLabels \cup ChangedLabels \cup BackLabels
                             \cup {"failed", "clear", "delete"}
      BY <3>1, StageNames
    <3> QED  BY <1>0, <2>3, <2>4, <2>8, <3>1, <3>2, <3>3 DEF Installation, InstallLabels
  <2> QED  BY <2>9, <2>10
<1> QED  BY <1>1, <1>2, <1>3

\* The replacement puts the earlier deployment away, stops it and removes it.
LEMMA PutInstall ==
  ASSUME TypeInv, NEW c \in Commands, ArchiveConflicts(c) \/ StopPrevious(c) \/ ClearConflicts(c),
         Installation(c), HasItsUnits(job[c].before), pc'[c] # "idle", SameOrder(job'[c], job[c])
  PROVE  Installation(c)'
<1> USE DEF TypeInv
<1> DEFINE before == job[c].before
<1>0. /\ pc \in [Commands -> Labels] /\ job \in [Commands -> JobType] /\ job[c] \in JobType
      /\ before \in HostType /\ job'[c].before = before /\ job[c].predates = {}
  BY DEF CommandTypeOK, Installation, SameOrder
<1>1. before.active \subseteq Present(before) /\ before.enabled \subseteq Present(before)
  BY <1>0, UnitsPresent
<1>2. CASE ArchiveConflicts(c)
  <2>1. Stage(c) = "archive" /\ Stage(c) \in FirstLabels /\ UNCHANGED <<disk, mode, socketed, active, enabled>>
    BY <1>2 DEF ArchiveConflicts, Stage, FirstLabels
  <2>2. Host = before /\ ~ job[c].started /\ job[c].conflicts = Present(before)
    BY <2>1 DEF Installation
  <2>3. /\ disk = before.disk /\ active = before.active /\ enabled = before.enabled
        /\ mode = before.mode /\ socketed = before.socketed
    BY <2>2, FirstHost
  <2> DEFINE away   == ArchiveOf(job[c].conflicts)
             states == PreviousServiceStates(job[c].conflicts)
             j      == [job[c] EXCEPT !.backup = away, !.services = states]
  <2>4. pc'[c] = "stop" /\ job'[c] = j /\ archives' = archives \cup {away}
    BY <1>0, <1>2 DEF ArchiveConflicts, Continue, Goto, End
  <2> HIDE DEF away, states
  <2>5. /\ j.backup = away /\ j.services = states /\ ~ j.started /\ j.predates = {}
        /\ j.conflicts = Present(before)
    BY <1>0, <2>2 DEF JobType
  <2> HIDE DEF j
  <2>6. away = [f \in Present(before) |-> before.disk[f]]
    BY <2>2, <2>3 DEF away, ArchiveOf
  <2>7. active \cap Present(before) = before.active /\ enabled \cap Present(before) = before.enabled
    BY <1>1, <2>3
  <2>8. states = [active |-> before.active, enabled |-> before.enabled,
                  mode |-> before.mode, socketed |-> before.socketed]
    BY <2>2, <2>3, <2>7 DEF states, PreviousServiceStates
  <2>9. PutAway(c)'
    BY <1>0, <2>4, <2>5, <2>6, <2>8 DEF PutAway
  <2>10. Within(job[c].before)'
    BY <1>0, <2>1, <2>3 DEF Within
  <2>11. Stage(c)' \in PutLabels /\ Stage(c)' # "clear"
    BY <2>4 DEF Stage, PutLabels
  <2> QED  BY <1>0, <2>4, <2>5, <2>9, <2>10, <2>11, ArrivesPut
<1>3. CASE StopPrevious(c)
  <2>1. Stage(c) \in PutLabels /\ job' = job /\ UNCHANGED <<disk, mode, archives>>
    BY <1>3 DEF StopPrevious, Stage, PutLabels
  <2>2. PutAway(c) /\ Within(before) /\ job[c].conflicts = Present(before) /\ ~ job[c].started
    BY <2>1 DEF Installation
  <2>3. active' \subseteq active /\ enabled' \subseteq enabled
    BY <1>3 DEF StopPrevious
  <2>4. Within(job[c].before)'
    BY <1>0, <2>1, <2>2, <2>3 DEF Within
  <2>5. Stage(c)' \in PutLabels
    BY <1>0, <1>3 DEF StopPrevious, Continue, Goto, Stage, PutLabels
  <2>6. PutAway(c)'
    BY <2>1, <2>2, AwayStays
  <2>7. ASSUME Stage(c)' = "clear" PROVE active' = {} /\ enabled' = {}
    <3>1. pc'[c] # "recover"
      BY <2>7 DEF Stage
    <3>2. active' = active \ job[c].services.active /\ enabled' = enabled \ job[c].services.enabled
      BY <1>0, <1>3, <3>1 DEF StopPrevious, Continue, Goto
    <3>3. job[c].services.active = before.active /\ job[c].services.enabled = before.enabled
      BY <2>2 DEF PutAway
    <3>4. active \subseteq before.active /\ enabled \subseteq before.enabled
      BY <2>2 DEF Within
    <3> QED  BY <3>2, <3>3, <3>4
  <2> QED  BY <1>0, <2>1, <2>2, <2>4, <2>5, <2>6, <2>7, ArrivesPut
<1>4. CASE ClearConflicts(c)
  <2>1. /\ Stage(c) \in PutLabels /\ Stage(c) = "clear" /\ job' = job
        /\ UNCHANGED <<mode, archives, active, enabled>>
    BY <1>4 DEF ClearConflicts, Stage, PutLabels
  <2>2. /\ PutAway(c) /\ Within(before) /\ job[c].conflicts = Present(before) /\ ~ job[c].started
        /\ active = {} /\ enabled = {}
    BY <2>1 DEF Installation
  <2>3. PutAway(c)' /\ PutAway(c)' = Recoverable(c)'
    <3>1. PutAway(c)'
      BY <2>1, <2>2, AwayStays
    <3> QED  BY <3>1 DEF Recoverable
  <2>4. \A f \in ConflictPaths : disk[f] \in {before.disk[f], None} /\ f \in Files
    BY <2>2 DEF Within, Files
  <2>5. CASE pc'[c] = "recheck" /\ disk' = Remove(job[c].conflicts)
    <3>1. \A f \in ConflictPaths : disk'[f] = None
      BY <2>2, <2>4, <2>5 DEF Remove, Present
    <3>2. Cleared'
      BY <2>1, <2>2, <3>1 DEF Cleared
    <3>3. Stage(c)' \in CleanLabels
      BY <2>5 DEF Stage, CleanLabels
    <3> QED  BY <1>0, <2>1, <2>2, <2>3, <3>2, <3>3, ArrivesClean
  <2>6. CASE pc'[c] = "recover" /\ \E some : disk' = Remove(some)
    <3>1. \A f \in ConflictPaths : disk'[f] \in {before.disk[f], None}
      BY <2>4, <2>6 DEF Remove
    <3>2. Within(job[c].before)'
      BY <1>0, <2>1, <2>2, <3>1 DEF Within
    <3>3. Stage(c)' \in PutLabels
      BY <2>6 DEF Stage, PutLabels
    <3> QED  BY <1>0, <2>1, <2>2, <2>3, <3>2, <3>3, ArrivesPut
  <2> QED  BY <1>0, <1>4, <2>5, <2>6 DEF ClearConflicts, Release, Continue, Goto
<1> QED  BY <1>2, <1>3, <1>4

\* The installation itself, which keeps the archive as it is.
LEMMA MiddleInstall ==
  ASSUME TypeInv, NEW c \in Commands,
         Recheck(c) \/ Capture(c) \/ CheckCandidate(c) \/ InstallCore(c) \/ Initialize(c)
           \/ Prerequisites(c) \/ InstallUnits(c) \/ StartServices(c) \/ CheckHealth(c) \/ WriteMarker(c),
         Installation(c), pc'[c] # "idle", SameOrder(job'[c], job[c])
  PROVE  Installation(c)'
<1> USE DEF TypeInv
<1> DEFINE before == job[c].before
<1>0. /\ pc \in [Commands -> Labels] /\ job \in [Commands -> JobType] /\ job[c] \in JobType
      /\ before \in HostType /\ job'[c].before = before /\ job[c].predates = {}
  BY DEF CommandTypeOK, Installation, SameOrder
<1>1. UNCHANGED archives
  BY DEF Recheck, Capture, CheckCandidate, InstallCore, Initialize, Prerequisites, InstallUnits,
     StartServices, CheckHealth, WriteMarker, hostVars
<1>2. ASSUME job'[c].backup = job[c].backup, job'[c].services = job[c].services, Recoverable(c)
      PROVE  Recoverable(c)'
  BY <1>0, <1>1, <1>2, AwayStays
<1>3. ASSUME Stage(c) \in CleanLabels PROVE Recoverable(c) /\ Cleared /\ ~ job[c].started
  BY <1>3 DEF Installation
<1>4. ASSUME Stage(c) \in ChangedLabels PROVE Recoverable(c) /\ job[c].started
  BY <1>4 DEF Installation
<1>5. ASSUME UNCHANGED hostVars, Cleared PROVE Cleared'
  BY <1>5 DEF hostVars, Cleared
<1>6. CASE Recheck(c)
  <2>1. Stage(c) \in CleanLabels /\ job' = job /\ UNCHANGED hostVars /\ pc'[c] \in {"capture", "failed"}
    BY <1>0, <1>6 DEF Recheck, Stage, CleanLabels, Continue, Goto
  <2>2. Recoverable(c)' /\ Cleared' /\ ~ job'[c].started /\ job'[c].predates = {}
    BY <1>0, <1>2, <1>3, <1>5, <2>1
  <2>3. Stage(c)' \in CleanLabels \/ Stage(c)' = "failed"
    BY <2>1 DEF Stage, CleanLabels
  <2> QED  BY <1>0, <2>2, <2>3, ArrivesClean, ArrivesFailed
<1>7. CASE Capture(c)
  <2> DEFINE j == [job[c] EXCEPT !.predates = Predating]
  <2>1. Stage(c) \in CleanLabels /\ job'[c] = j /\ UNCHANGED hostVars /\ pc'[c] = "check"
    BY <1>0, <1>7 DEF Capture, Stage, CleanLabels, Continue, Goto
  <2>2. /\ j.predates = Predating /\ j.backup = job[c].backup /\ j.services = job[c].services
        /\ j.started = job[c].started
    BY <1>0 DEF JobType
  <2> HIDE DEF j
  <2>3. Predating = {}
    <3>1. \A f \in ConflictPaths : disk[f] = None
      BY <1>3, <2>1 DEF Cleared
    <3> QED  BY <3>1, FileNames DEF Predating
  <2>4. Recoverable(c)' /\ Cleared' /\ ~ job'[c].started /\ job'[c].predates = {}
    BY <1>0, <1>2, <1>3, <1>5, <2>1, <2>2, <2>3
  <2>5. Stage(c)' \in CleanLabels
    BY <2>1 DEF Stage, CleanLabels
  <2> QED  BY <1>0, <2>4, <2>5, ArrivesClean
<1>8. CASE CheckCandidate(c)
  <2>1. Stage(c) \in CleanLabels /\ UNCHANGED hostVars
    BY <1>8 DEF CheckCandidate, Stage, CleanLabels
  <2> DEFINE j == [job[c] EXCEPT !.started = TRUE]
  <2>2. \/ pc'[c] = "core" /\ job'[c] = j
        \/ pc'[c] = "failed" /\ job'[c] = job[c]
    BY <1>0, <1>8 DEF CheckCandidate, Continue, Goto
  <2>3. j.backup = job[c].backup /\ j.services = job[c].services /\ j.started /\ j.predates = job[c].predates
    BY <1>0 DEF JobType
  <2> HIDE DEF j
  <2>4. Recoverable(c)' /\ Cleared' /\ job'[c].predates = {}
    BY <1>0, <1>2, <1>3, <1>5, <2>1, <2>2, <2>3
  <2>5. CASE pc'[c] = "core" /\ job'[c] = j
    <3>1. Stage(c)' \in ChangedLabels /\ Stage(c)' # "delete"
      BY <2>5 DEF Stage, ChangedLabels
    <3> QED  BY <1>0, <2>3, <2>4, <2>5, <3>1, ArrivesChanged
  <2>6. CASE pc'[c] = "failed" /\ job'[c] = job[c]
    <3>1. Stage(c)' = "failed"
      BY <2>6 DEF Stage
    <3> QED  BY <1>0, <2>4, <3>1, ArrivesFailed
  <2> QED  BY <2>2, <2>5, <2>6
<1>9. CASE InstallCore(c) \/ Initialize(c) \/ Prerequisites(c) \/ InstallUnits(c) \/ StartServices(c)
           \/ CheckHealth(c) \/ WriteMarker(c)
  <2>1. Stage(c) \in ChangedLabels
    BY <1>9 DEF InstallCore, Initialize, Prerequisites, InstallUnits, StartServices, CheckHealth,
       WriteMarker, Stage, ChangedLabels
  <2>2. /\ job'[c] = job[c]
        /\ pc'[c] \in {"initialize", "prerequisites", "units", "start", "health", "marker", "failed"}
    BY <1>0, <1>9 DEF InstallCore, Initialize, Prerequisites, InstallUnits, StartServices, CheckHealth,
       WriteMarker, Continue, Release, Goto, End
  <2>3. Recoverable(c)' /\ job'[c].started /\ job'[c].predates = {}
    BY <1>0, <1>2, <1>4, <2>1, <2>2
  <2>4. Stage(c)' = "failed" \/ (Stage(c)' \in ChangedLabels /\ Stage(c)' # "delete")
    BY <2>2 DEF Stage, ChangedLabels
  <2> QED  BY <1>0, <2>3, <2>4, ArrivesChanged, ArrivesFailed
<1> QED  BY <1>6, <1>7, <1>8, <1>9

\* The rollback, and the way back to the archive.
LEMMA BackInstall ==
  ASSUME TypeInv, NEW c \in Commands, Failed(c) \/ DisableUnits(c) \/ DeleteFiles(c), ~ Undone',
         Installation(c), pc'[c] # "idle", SameOrder(job'[c], job[c])
  PROVE  Installation(c)'
<1> USE DEF TypeInv
<1> DEFINE before == job[c].before
<1>0. /\ pc \in [Commands -> Labels] /\ job \in [Commands -> JobType] /\ job[c] \in JobType
      /\ before \in HostType /\ job'[c].before = before /\ job[c].predates = {}
      /\ disk \in [Files -> Contents] /\ active \subseteq Units /\ enabled \subseteq Units
  BY DEF CommandTypeOK, HostTypeOK, Installation, SameOrder
<1>1. job' = job /\ UNCHANGED archives
  BY <1>0 DEF Failed, DisableUnits, DeleteFiles, End, Goto, hostVars
<1>2. Recoverable(c) => Recoverable(c)'
  BY <1>0, <1>1, AwayStays
<1>3. PutAway(c) => PutAway(c)'
  BY <1>0, <1>1, AwayStays
<1>4. ~ Fault("undo")
  BY FaultsGrow DEF Command, Install
<1>5. Recoverable(c) /\ job[c].backup # None => PutAway(c)
  BY DEF Recoverable
<1>6. CASE Failed(c)
  <2>1. Stage(c) = "failed" /\ UNCHANGED <<disk, active, enabled>>
    BY <1>6 DEF Failed, Stage, hostVars
  <2>2. Recoverable(c) /\ (job[c].started \/ Cleared)
    BY <2>1 DEF Installation
  <2>3. CASE job[c].started /\ pc'[c] = "disable"
    <3>1. Stage(c)' \in ChangedLabels /\ Stage(c)' # "delete"
      BY <2>3 DEF Stage, ChangedLabels
    <3> QED  BY <1>0, <1>1, <1>2, <2>2, <2>3, <3>1, ArrivesChanged
  <2>4. CASE ~ job[c].started /\ job[c].backup # None /\ pc'[c] = "restore"
    <3>1. Stage(c)' \in BackLabels
      BY <2>4 DEF Stage, BackLabels
    <3>2. Cleared'
      BY <2>1, <2>2, <2>4 DEF Cleared
    <3> QED  BY <1>0, <1>1, <1>3, <1>5, <2>2, <2>4, <3>1, <3>2, ArrivesBack
  <2> QED  BY <1>0, <1>6, <2>3, <2>4 DEF Failed, Continue, Goto, End
<1>7. CASE DisableUnits(c)
  <2>1. Stage(c) \in ChangedLabels /\ pc'[c] = "delete"
    BY <1>0, <1>7 DEF DisableUnits, Stage, ChangedLabels, Continue, Goto
  <2>2. active' = {} /\ enabled' = {}
    BY <1>0, <1>4, <1>7 DEF DisableUnits
  <2>3. Recoverable(c) /\ job[c].started
    BY <2>1 DEF Installation
  <2>4. Stage(c)' \in ChangedLabels
    BY <2>1 DEF Stage, ChangedLabels
  <2> QED  BY <1>0, <1>1, <1>2, <2>2, <2>3, <2>4, ArrivesChanged
<1>8. CASE DeleteFiles(c)
  <2>1. Stage(c) = "delete" /\ Stage(c) \in ChangedLabels /\ UNCHANGED <<active, enabled>>
    BY <1>8 DEF DeleteFiles, Stage, ChangedLabels
  <2>2. Recoverable(c) /\ active = {} /\ enabled = {}
    BY <2>1 DEF Installation
  <2>3. disk' = Remove(FilesRemoved(c) \cup DataRemoved(c))
    BY <1>4, <1>8 DEF DeleteFiles
  <2>4. FilesRemoved(c) \cup DataRemoved(c) = Files
    BY <1>0, FileNames DEF FilesRemoved, DataRemoved, Predates, Files
  <2>5. \A f \in ConflictPaths : disk'[f] = None
    BY <2>3, <2>4 DEF Remove, Files
  <2>6. Cleared'
    BY <2>1, <2>2, <2>5 DEF Cleared
  <2>7. job[c].backup # None /\ pc'[c] = "restore"
    BY <1>0, <1>8 DEF DeleteFiles, Continue, Goto, End
  <2>8. Stage(c)' \in BackLabels
    BY <2>7 DEF Stage, BackLabels
  <2> QED  BY <1>0, <1>1, <1>3, <1>5, <2>2, <2>6, <2>7, <2>8, ArrivesBack
<1> QED  BY <1>6, <1>7, <1>8

LEMMA InstallOwn ==
  ASSUME TypeInv, NEW c \in Commands, Command(c) \/ Crash(c), Answers(c) => Installation(c), Answers(c)'
  PROVE  Installation(c)'
<1> USE DEF TypeInv
<1>0. pc \in [Commands -> Labels] /\ "none" \notin Installing
  BY DEF CommandTypeOK, Installing
<1>1. pc'[c] # "idle" /\ SameOrder(job'[c], job[c])
  BY <1>0, JobMoves DEF Answers, NoJob
<1>2. ~ Undone /\ ~ Undone'
  BY FaultsGrow DEF Answers
<1>3. Answers(c) /\ HasItsUnits(job[c].before)
  BY <1>1, <1>2 DEF Answers, SameOrder, HasItsUnits
<1>4. Installation(c)
  BY <1>3
<1>5. CASE OpenLock(c) \/ AcquireLock(c) \/ Preflight(c)
  BY <1>1, <1>3, <1>4, <1>5, FirstInstall
<1>6. CASE ArchiveConflicts(c) \/ StopPrevious(c) \/ ClearConflicts(c)
  BY <1>1, <1>3, <1>4, <1>6, PutInstall
<1>7. CASE Recheck(c) \/ Capture(c) \/ CheckCandidate(c) \/ InstallCore(c) \/ Initialize(c)
             \/ Prerequisites(c) \/ InstallUnits(c) \/ StartServices(c) \/ CheckHealth(c) \/ WriteMarker(c)
  BY <1>1, <1>4, <1>7, MiddleInstall
<1>8. CASE Failed(c) \/ DisableUnits(c) \/ DeleteFiles(c)
  BY <1>1, <1>2, <1>4, <1>8, BackInstall
<1>9. ~ RestoreArchive(c) /\ ~ Crash(c)
  BY <1>0, <1>1 DEF RestoreArchive, Crash, End, Goto
<1>10. Stage(c) \in InstallLabels
  BY <1>4 DEF Installation
<1>11. /\ ~ Uninstall(c) /\ ~ StopUnits(c) /\ ~ RemoveFiles(c) /\ ~ PurgeData(c) /\ ~ RemoveCore(c)
       /\ ~ CommitMode(c) /\ ~ Reconcile(c) /\ ~ Restart(c)
  <2>1. pc[c] = "wait" \/ pc[c] \in InstallLabels
    BY <1>10 DEF Stage
  <2>2. pc[c] \notin {"uninstall", "purge", "stop units", "remove files", "purge data", "remove",
                      "commit", "revert", "reconcile", "restart"}
    BY <2>1 DEF InstallLabels, FirstLabels, PutLabels, CleanLabels, ChangedLabels, BackLabels
  <2> QED
    BY <2>2 DEF Uninstall, StopUnits, RemoveFiles, PurgeData, RemoveCore, CommitMode, Reconcile, Restart
<1> QED  BY <1>5, <1>6, <1>7, <1>8, <1>9, <1>11 DEF Command, Install

LEMMA InstallBegins ==
  ASSUME TypeInv, NEW c \in Commands, NEW op \in Ops, NEW direct \in BOOLEAN, Begin(c, op, direct),
         Answers(c)'
  PROVE  Installation(c)'
<1> USE DEF TypeInv
<1>1. /\ pc'[c] = op /\ job'[c].op = op /\ job'[c].before = Host /\ job'[c].backup = None
      /\ job'[c].started = FALSE
  BY BeginJobs
<1>2. op \in Installing
  BY <1>1 DEF Answers
<1>3. job'[c].predates = {}
  <2> DEFINE quiet == \A d \in Commands : pc[d] = "idle"
  <2>1. job'[c] = [NoJob EXCEPT !.op = op, !.direct = direct, !.alone = quiet, !.before = Host]
    BY DEF Begin
  <2> HIDE DEF quiet
  <2> QED  BY <2>1 DEF NoJob
<1>4. Host' = Host
  BY DEF Begin, Host, hostVars
<1>5. Host \in HostType
  BY DEF HostTypeOK, HostType, Host
<1>6. Stage(c)' \in {"install", "replace"}
  BY <1>1, <1>2 DEF Stage, Installing
<1>7. /\ Stage(c)' \in FirstLabels /\ Stage(c)' \notin {"prepare", "archive"}
      /\ Stage(c)' \notin PutLabels \cup CleanLabels \cup ChangedLabels \cup BackLabels
                           \cup {"failed", "clear", "delete"}
  BY <1>6, StageNames DEF FirstLabels
<1> QED  BY <1>1, <1>3, <1>4, <1>5, <1>7 DEF Installation, InstallLabels

LEMMA InstallStep ==
  ASSUME TypeInv, AloneInv, InstallInv, [Next]_vars
  PROVE  InstallInv'
<1> USE DEF TypeInv
<1>1. CASE UNCHANGED vars
  <2>1. UNCHANGED <<hostVars, pc, job, faults>>
    BY <1>1 DEF vars, commandVars
  <2>2. ASSUME NEW c \in Commands, Answers(c)' PROVE Installation(c)'
    <3>1. Answers(c)
      BY <2>1, <2>2 DEF Answers, Undone, HasItsUnits
    <3>2. Installation(c)
      BY <3>1 DEF InstallInv
    <3>3. /\ Host' = Host /\ Stage(c)' = Stage(c) /\ Cleared' = Cleared /\ PutAway(c)' = PutAway(c)
      BY <2>1 DEF Host, hostVars, Stage, Cleared, PutAway
    <3>4. Recoverable(c)' = Recoverable(c) /\ Within(job[c].before)' = Within(job[c].before)
      BY <2>1, <3>3 DEF Recoverable, Within, hostVars
    <3>5. UNCHANGED <<job, active, enabled>>
      BY <2>1 DEF hostVars
    <3> QED  BY <3>2, <3>3, <3>4, <3>5 DEF Installation
  <2> QED  BY <2>2 DEF InstallInv
<1>2. ASSUME NEW c \in Commands, NEW op \in Ops, NEW d \in BOOLEAN, Begin(c, op, d)
      PROVE  InstallInv'
  <2>1. \A e \in Commands \ {c} : ~ Answers(e)'
    BY <1>2, BeginJobs DEF Answers
  <2>2. Answers(c)' => Installation(c)'
    BY <1>2, InstallBegins
  <2> QED  BY <2>1, <2>2 DEF InstallInv
<1>3. ASSUME NEW c \in Commands, Command(c) \/ Crash(c)
      PROVE  InstallInv'
  <2>1. Answers(c)' => Installation(c)'
    BY <1>3, InstallOwn DEF InstallInv
  <2>2. ASSUME NEW d \in Commands \ {c} PROVE ~ Answers(d)'
    <3>1. pc[c] # "idle" /\ job'[d] = job[d]
      BY <1>3, Busy, OthersStand
    <3>2. ~ job[d].alone
      BY <3>1 DEF AloneInv
    <3> QED  BY <3>1, <3>2 DEF Answers
  <2> QED  BY <2>1, <2>2 DEF InstallInv
<1> QED  BY <1>1, <1>2, <1>3, StepCases

\* A command ends by a step of its own.
LEMMA EndsItself ==
  ASSUME TypeInv, [Next]_vars, NEW c \in Commands, pc[c] # "idle", pc'[c] = "idle"
  PROVE  Command(c) \/ Crash(c)
<1> USE DEF TypeInv
<1>1. ~ UNCHANGED vars
  BY DEF vars, commandVars
<1>2. ASSUME NEW d \in Commands, NEW op \in Ops, NEW e \in BOOLEAN, Begin(d, op, e) PROVE FALSE
  <2>1. op # "idle"
    BY LifecycleAssumption DEF AllOps
  <2> QED  BY <1>2, <2>1, BeginJobs
<1>3. PICK d \in Commands : Command(d) \/ Crash(d)
  BY <1>1, <1>2, StepCases
<1>4. d = c
  BY <1>3, OthersStand
<1> QED  BY <1>3, <1>4

\* A step after which the host is as it was before a command, but for bin/sbctl.
Restores(h) ==
  /\ \A f \in ConflictPaths : disk'[f] = h.disk[f]
  /\ active' = h.active /\ enabled' = h.enabled
  /\ disk'["config.toml"] # None => mode' = h.mode

\* Nothing is left, and there was nothing.
LEMMA NothingBefore ==
  ASSUME NEW h \in HostType, HasItsUnits(h), Present(h) = {}, Cleared'
  PROVE  Restores(h)
<1>1. h.active = {} /\ h.enabled = {}
  BY UnitsPresent
<1>2. \A f \in ConflictPaths : h.disk[f] = None
  BY DEF Present
<1>3. disk'["config.toml"] = None
  BY FileNames DEF Cleared
<1> QED  BY <1>1, <1>2, <1>3 DEF Restores, Cleared

\* The archive puts back what was put away over what is left of it.
LEMMA ArchiveRestores ==
  ASSUME TypeInv, NEW c \in Commands, RestoreArchive(c), ~ Fault("undo"),
         Installation(c), HasItsUnits(job[c].before)
  PROVE  Restores(job[c].before)
<1> USE DEF TypeInv
<1> DEFINE before == job[c].before
           saved  == job[c].backup
<1>0. /\ pc \in [Commands -> Labels] /\ job \in [Commands -> JobType]
      /\ before \in HostType /\ Present(before) \subseteq ConflictPaths
      /\ disk \in [Files -> Contents] /\ active \subseteq Units /\ enabled \subseteq Units
      /\ \A f \in ConflictPaths : f \in Files
  BY DEF CommandTypeOK, HostTypeOK, Installation, Present, Files
<1>1. Stage(c) \in PutLabels \/ Stage(c) \in BackLabels
  BY DEF RestoreArchive, Stage, PutLabels, BackLabels
<1>2. /\ PutAway(c)
      /\ \A f \in ConflictPaths : disk[f] \in {before.disk[f], None}
      /\ active \subseteq before.active /\ enabled \subseteq before.enabled
      /\ mode = before.mode \/ disk["config.toml"] = None
  <2>1. CASE Stage(c) \in PutLabels
    BY <2>1 DEF Installation, Within
  <2>2. CASE Stage(c) \in BackLabels
    BY <2>2, FileNames DEF Installation, Cleared
  <2> QED  BY <1>1, <2>1, <2>2
<1>3. /\ saved \in archives /\ saved = [f \in Present(before) |-> before.disk[f]]
      /\ job[c].services.active = before.active /\ job[c].services.enabled = before.enabled
      /\ job[c].services.mode = before.mode
  BY <1>2 DEF PutAway
<1>4. Untarred(c, All) /\ ServicesRestored(c, All, All)
  BY <1>3 DEF RestoreArchive, UndoFails
<1>5. /\ DOMAIN saved = Present(before) /\ \A f \in Present(before) : saved[f] = before.disk[f]
      /\ DOMAIN saved \cap UpTo(All) = DOMAIN saved /\ UnitsUpTo(All) = Units
  <2>1. UpTo(All) = ConflictPaths
    BY DEF UpTo, All, ConflictPaths
  <2>2. DOMAIN saved = Present(before) /\ \A f \in Present(before) : saved[f] = before.disk[f]
    BY <1>3
  <2> QED  BY <1>0, <2>1, <2>2, FileNames DEF UnitsUpTo
<1>6. ASSUME NEW f \in ConflictPaths PROVE disk'[f] = before.disk[f]
  <2>1. disk'[f] = IF f \in DOMAIN saved THEN saved[f] ELSE disk[f]
    BY <1>0, <1>4, <1>5 DEF Untarred
  <2>2. f \notin Present(before) => before.disk[f] = None
    BY DEF Present
  <2> QED  BY <1>2, <1>5, <2>1, <2>2
<1>7. active' = before.active /\ enabled' = before.enabled
  <2>1. /\ enabled' = enabled \cup (before.enabled \cap Units)
        /\ active' = active \cup (before.active \cap Units)
    BY <1>3, <1>4, <1>5 DEF ServicesRestored
  <2>2. before.active \subseteq Units /\ before.enabled \subseteq Units
    BY <1>0 DEF HostType
  <2> QED  BY <1>2, <2>1, <2>2
<1>8. disk'["config.toml"] # None => mode' = before.mode
  <2>1. "config.toml" \in ConflictPaths
    BY FileNames
  <2>2. mode' = IF "config.toml" \in DOMAIN saved THEN job[c].services.mode ELSE mode
    BY <1>4, <1>5 DEF Untarred
  <2>3. CASE "config.toml" \in DOMAIN saved
    BY <1>3, <2>2, <2>3
  <2>4. CASE "config.toml" \notin DOMAIN saved
    <3>1. before.disk["config.toml"] = None
      BY <1>5, <2>1, <2>4 DEF Present
    <3> QED  BY <1>6, <2>1, <3>1
  <2> QED  BY <2>3, <2>4
<1> QED  BY <1>6, <1>7, <1>8 DEF Restores

LEMMA InstallEnds ==
  ASSUME TypeInv, InstallInv, [Next]_vars, NEW c \in Commands, Ends(c, Installing),
         outcome'[c] # "installed", outcome'[c] # "crashed", ~ Happened("undo"),
         HasItsUnits(job[c].before)
  PROVE  Restores(job[c].before)
<1> USE DEF TypeInv
<1> DEFINE before == job[c].before
<1>0. /\ pc \in [Commands -> Labels] /\ job \in [Commands -> JobType] /\ outcome \in [Commands -> Outcomes]
      /\ pc[c] # "idle" /\ pc'[c] = "idle"
      /\ disk \in [Files -> Contents] /\ active \subseteq Units /\ enabled \subseteq Units
  BY DEF CommandTypeOK, HostTypeOK, Ends
<1>1. Command(c) \/ Crash(c)
  BY <1>0, EndsItself
<1>2. ~ Undone /\ ~ Fault("undo")
  BY <1>1, FaultsGrow DEF Happened, Undone
<1>3. Installation(c)
  BY <1>2 DEF InstallInv, Answers, Ends
<1>4. before \in HostType /\ job[c].predates = {} /\ Stage(c) \in InstallLabels
  BY <1>3 DEF Installation
<1>5. ASSUME Stage(c) \in FirstLabels, UNCHANGED <<disk, mode, active, enabled>>
      PROVE  Restores(before)
  <2>1. Host = before
    BY <1>3, <1>5 DEF Installation
  <2>2. disk = before.disk /\ mode = before.mode /\ active = before.active /\ enabled = before.enabled
    BY <2>1, FirstHost
  <2> QED  BY <1>5, <2>2 DEF Restores
<1>6. ASSUME Recoverable(c), job[c].backup = None PROVE Present(before) = {}
  <2>1. ~ PutAway(c)
    <3>1. job[c].backup \notin archives
      <4>1. \A a \in archives : \E paths \in SUBSET Files : a \in [paths -> Contents]
        BY DEF HostTypeOK, ArchiveType
      <4> QED  BY <1>6, <4>1, NoneAssumption
    <3> QED  BY <3>1 DEF PutAway
  <2> QED  BY <1>6, <2>1 DEF Recoverable
<1>7. CASE Preflight(c)
  <2>1. Stage(c) \in FirstLabels /\ UNCHANGED <<disk, mode, active, enabled>>
    BY <1>7 DEF Preflight, Stage, FirstLabels, hostVars
  <2> QED  BY <1>5, <2>1
<1>8. CASE ArchiveConflicts(c)
  <2>1. Stage(c) \in FirstLabels /\ UNCHANGED <<disk, mode, active, enabled>>
    BY <1>8 DEF ArchiveConflicts, Stage, FirstLabels
  <2> QED  BY <1>5, <2>1
<1>9. CASE RestoreArchive(c)
  BY <1>2, <1>3, <1>9, ArchiveRestores
<1>10. CASE Failed(c)
  <2>1. /\ Stage(c) = "failed" /\ ~ job[c].started /\ job[c].backup = None
        /\ UNCHANGED <<disk, active, enabled>>
    BY <1>0, <1>10 DEF Failed, Stage, hostVars, Continue, Goto
  <2>2. Recoverable(c) /\ Cleared
    BY <1>3, <2>1 DEF Installation
  <2>3. Cleared'
    BY <2>1, <2>2 DEF Cleared
  <2> QED  BY <1>4, <1>6, <2>1, <2>2, <2>3, NothingBefore
<1>11. CASE DeleteFiles(c)
  <2>1. /\ Stage(c) = "delete" /\ Stage(c) \in ChangedLabels /\ job[c].backup = None
        /\ UNCHANGED <<active, enabled>>
    BY <1>0, <1>11 DEF DeleteFiles, Stage, ChangedLabels, Continue, Goto
  <2>2. Recoverable(c) /\ active = {} /\ enabled = {}
    BY <1>3, <2>1 DEF Installation
  <2>3. disk' = Remove(FilesRemoved(c) \cup DataRemoved(c))
    BY <1>2, <1>11 DEF DeleteFiles
  <2>4. FilesRemoved(c) \cup DataRemoved(c) = Files
    BY <1>4, FileNames DEF FilesRemoved, DataRemoved, Predates, Files
  <2>5. \A f \in ConflictPaths : disk'[f] = None
    BY <2>3, <2>4 DEF Remove, Files
  <2>6. Cleared'
    BY <2>1, <2>2, <2>5 DEF Cleared
  <2> QED  BY <1>4, <1>6, <2>1, <2>2, <2>6, NothingBefore
<1>12. ~ Crash(c) /\ ~ WriteMarker(c)
  BY <1>0 DEF Crash, WriteMarker, End, Continue, Goto
<1>13. ~ OpenLock(c) /\ ~ AcquireLock(c)
  BY <1>0 DEF OpenLock, AcquireLock, Goto, AfterLock, LockPoints, CommandTypeOK
<1>14. /\ ~ StopPrevious(c) /\ ~ ClearConflicts(c) /\ ~ Recheck(c) /\ ~ Capture(c) /\ ~ CheckCandidate(c)
       /\ ~ InstallCore(c) /\ ~ Initialize(c) /\ ~ Prerequisites(c) /\ ~ InstallUnits(c)
       /\ ~ StartServices(c) /\ ~ CheckHealth(c) /\ ~ DisableUnits(c)
  BY <1>0 DEF StopPrevious, ClearConflicts, Recheck, Capture, CheckCandidate, InstallCore, Initialize,
     Prerequisites, InstallUnits, StartServices, CheckHealth, DisableUnits, Continue, Release, Goto
<1>15. /\ ~ Uninstall(c) /\ ~ StopUnits(c) /\ ~ RemoveFiles(c) /\ ~ PurgeData(c) /\ ~ RemoveCore(c)
       /\ ~ CommitMode(c) /\ ~ Reconcile(c) /\ ~ Restart(c)
  <2>1. pc[c] = "wait" \/ pc[c] \in InstallLabels
    BY <1>4 DEF Stage
  <2>2. pc[c] \notin {"uninstall", "purge", "stop units", "remove files", "purge data", "remove",
                      "commit", "revert", "reconcile", "restart"}
    BY <2>1 DEF InstallLabels, FirstLabels, PutLabels, CleanLabels, ChangedLabels, BackLabels
  <2> QED
    BY <2>2 DEF Uninstall, StopUnits, RemoveFiles, PurgeData, RemoveCore, CommitMode, Reconcile, Restart
<1> QED
  BY <1>1, <1>7, <1>8, <1>9, <1>10, <1>11, <1>12, <1>13, <1>14, <1>15 DEF Command, Install

\* An installation that fails with no other command around leaves the host as it found it,
\* files, running and enabled units and mode, wherever it failed and however often; only a
\* failure of the recovery itself is excepted, and a host whose running units lack their files.
THEOREM FailedInstallationRestores == HostSpec => FailedInstallRestores
<1> DEFINE PutBack ==
      \A c \in Commands :
        Ends(c, Installing) /\ outcome'[c] # "installed" /\ outcome'[c] # "crashed"
            /\ ~ Happened("undo") /\ HasItsUnits(job[c].before) =>
          /\ \A f \in ConflictPaths : disk'[f] = job[c].before.disk[f]
          /\ active' = job[c].before.active /\ enabled' = job[c].before.enabled
          /\ disk'["config.toml"] # None => mode' = job[c].before.mode
<1>1. HostInit => InstallInv
  BY HostCommands, InitAlone DEF InstallInv, Answers
<1>2. TypeInv /\ AloneInv /\ InstallInv /\ [HostNext]_<<vars, storageVars>> => InstallInv'
  BY HostCommands, InstallStep
<1>3. TypeInv /\ InstallInv /\ [HostNext]_<<vars, storageVars>> => [PutBack]_vars
  <2> SUFFICES ASSUME TypeInv, InstallInv, [HostNext]_<<vars, storageVars>>, NEW c \in Commands,
                      Ends(c, Installing), outcome'[c] # "installed", outcome'[c] # "crashed",
                      ~ Happened("undo"), HasItsUnits(job[c].before)
               PROVE  /\ \A f \in ConflictPaths : disk'[f] = job[c].before.disk[f]
                      /\ active' = job[c].before.active /\ enabled' = job[c].before.enabled
                      /\ disk'["config.toml"] # None => mode' = job[c].before.mode
    OBVIOUS
  <2>1. Restores(job[c].before)
    BY HostCommands, InstallEnds
  <2> QED  BY <2>1 DEF Restores
<1> HIDE DEF PutBack
<1>4. HostSpec => [][PutBack]_vars
  BY <1>1, <1>2, <1>3, TypesHold, AloneHolds, PTL DEF HostSpec
<1> QED  BY <1>4 DEF PutBack, FailedInstallRestores

-------------------------------------------------------------------------------
(* The paths of a deployment *)

Segments ==
  {"etc", "sbctl", "sing-box", "var", "lib", "config.toml", "config.json", ".operation.lock",
   "state.json", "artifacts", "uri", "certificates", "privkey.pem", "key.pem"} \cup ServerNames

\* The files and directories kept under a name.
Tree(n) == {CertificateDirectory(n), Pinned(n), SelfSigned(n)}
CertificatePaths == {Certificates} \cup UNION {Tree(n) : n \in ServerNames}
ConfigPaths == {Etc, ConfigFile}
DataPaths   == {Data, LockFile, StateFile, Artifacts, Artifact} \cup CertificatePaths
AllPaths    == {VarLib, Core, ActiveConfig} \cup ConfigPaths \cup DataPaths

\* What lies directly in a directory lies in the directories around it, and in it.
LEMMA ParentsOfAppend ==
  ASSUME NEW s \in Seq(Segments), NEW e \in Segments, Len(s) >= 2
  PROVE  /\ Append(s, e) \in Seq(Segments) /\ Len(Append(s, e)) = Len(s) + 1
         /\ Parents(Append(s, e)) = Parents(s) \cup {s}
         /\ Directory(Append(s, e)) = s
<1> DEFINE t == Append(s, e)
<1>1. /\ t \in Seq(Segments) /\ Len(t) = Len(s) + 1 /\ Len(s) \in Nat
      /\ \A i \in 1..Len(s) : t[i] = s[i]
  BY AppendProperties, LenProperties
<1> HIDE DEF t
<1>2. ASSUME NEW n \in 2..Len(s) PROVE SubSeq(t, 1, n) = SubSeq(s, 1, n)
  <2>1. /\ \A i \in 1..n : s[i] \in Segments /\ t[i] = s[i]
        /\ n \in Int
    BY <1>1, ElementOfSeq
  <2>2. /\ SubSeq(s, 1, n) \in Seq(Segments) /\ Len(SubSeq(s, 1, n)) = n
        /\ \A i \in 1..n : SubSeq(s, 1, n)[i] = s[i]
    BY <2>1, SubSeqProperties
  <2>3. /\ SubSeq(t, 1, n) \in Seq(Segments) /\ Len(SubSeq(t, 1, n)) = n
        /\ \A i \in 1..n : SubSeq(t, 1, n)[i] = t[i]
    BY <2>1, SubSeqProperties
  <2> QED  BY <2>1, <2>2, <2>3, SeqEqual
<1>3. SubSeq(t, 1, Len(s)) = s
  BY <1>1, <1>2, SubSeqFull
<1>4. Parents(t) = Parents(s) \cup {s}
  <2>1. Parents(t) = {SubSeq(s, 1, n) : n \in 2..Len(s)}
    BY <1>1, <1>2 DEF Parents
  <2>2. 2..Len(s) = 2..(Len(s) - 1) \cup {Len(s)}
    BY <1>1
  <2> QED  BY <1>3, <1>2, <1>1, <2>1, <2>2 DEF Parents
<1>5. Directory(t) = s
  BY <1>1, <1>3 DEF Directory
<1> QED  BY <1>1, <1>4, <1>5 DEF t

LEMMA RootPaths ==
  \A s \in {VarLib, Etc, Core} : s \in Seq(Segments) /\ Len(s) = 2 /\ Parents(s) = {}
<1>1. \A a, b \in Segments : <<a, b>> \in Seq(Segments) /\ Len(<<a, b>>) = 2
  OBVIOUS
<1>2. /\ "var" \in Segments /\ "lib" \in Segments /\ "etc" \in Segments
      /\ "sbctl" \in Segments /\ "sing-box" \in Segments
  BY DEF Segments
<1>3. \A s \in {VarLib, Etc, Core} : s \in Seq(Segments) /\ Len(s) = 2
  BY <1>1, <1>2 DEF VarLib, Etc, Core
<1>4. 2..(2 - 1) = {}
  OBVIOUS
<1> QED  BY <1>3, <1>4 DEF Parents

\* What a path is made of.
Spelled(p, directory, name) ==
  /\ p = Append(directory, name) /\ name \in Segments /\ p \in Seq(Segments)
  /\ directory \in Seq(Segments)
  /\ Len(p) = Len(directory) + 1 /\ Len(p) \in Nat
  /\ Parents(p) = Parents(directory) \cup {directory}
  /\ Directory(p) = directory

LEMMA PathsSpelled ==
  /\ Spelled(ConfigFile, Etc, "config.toml") /\ Spelled(ActiveConfig, Core, "config.json")
  /\ Spelled(Data, VarLib, "sbctl")
  /\ Spelled(LockFile, Data, ".operation.lock") /\ Spelled(StateFile, Data, "state.json")
  /\ Spelled(Artifacts, Data, "artifacts") /\ Spelled(Certificates, Data, "certificates")
  /\ Spelled(Artifact, Artifacts, "uri")
  /\ \A n \in ServerNames :
       /\ Spelled(CertificateDirectory(n), Certificates, n)
       /\ Spelled(Pinned(n), CertificateDirectory(n), "privkey.pem")
       /\ Spelled(SelfSigned(n), CertificateDirectory(n), "key.pem")
<1>1. ASSUME NEW s \in Seq(Segments), NEW e \in Segments, Len(s) >= 2
      PROVE  Spelled(Append(s, e), s, e)
  BY <1>1, ParentsOfAppend, LenProperties DEF Spelled
<1>2. /\ "config.toml" \in Segments /\ "config.json" \in Segments /\ "sbctl" \in Segments
      /\ ".operation.lock" \in Segments /\ "state.json" \in Segments /\ "artifacts" \in Segments
      /\ "certificates" \in Segments /\ "uri" \in Segments /\ "privkey.pem" \in Segments
      /\ "key.pem" \in Segments
      /\ \A n \in ServerNames : n \in Segments
  BY DEF Segments
<1>3. \A s \in {VarLib, Etc, Core} : s \in Seq(Segments) /\ Len(s) >= 2
  BY RootPaths
<1>4. ASSUME NEW p, NEW s, NEW e, Spelled(p, s, e), Len(s) >= 2, Len(s) \in Nat
      PROVE  p \in Seq(Segments) /\ Len(p) >= 2 /\ Len(p) \in Nat
  BY <1>4 DEF Spelled
<1>5. /\ Spelled(ConfigFile, Etc, "config.toml") /\ Spelled(ActiveConfig, Core, "config.json")
      /\ Spelled(Data, VarLib, "sbctl")
  BY <1>1, <1>2, <1>3 DEF ConfigFile, ActiveConfig, Data
<1>6. Data \in Seq(Segments) /\ Len(Data) >= 2 /\ Len(Data) \in Nat
  BY <1>4, <1>5, RootPaths
<1>7. /\ Spelled(LockFile, Data, ".operation.lock") /\ Spelled(StateFile, Data, "state.json")
      /\ Spelled(Artifacts, Data, "artifacts") /\ Spelled(Certificates, Data, "certificates")
  BY <1>1, <1>2, <1>6 DEF LockFile, StateFile, Artifacts, Certificates
<1>8. \A p \in {Artifacts, Certificates} : p \in Seq(Segments) /\ Len(p) >= 2 /\ Len(p) \in Nat
  BY <1>4, <1>6, <1>7
<1>9. Spelled(Artifact, Artifacts, "uri")
  BY <1>1, <1>2, <1>8 DEF Artifact
<1>10. ASSUME NEW n \in ServerNames
       PROVE  /\ Spelled(CertificateDirectory(n), Certificates, n)
              /\ Spelled(Pinned(n), CertificateDirectory(n), "privkey.pem")
              /\ Spelled(SelfSigned(n), CertificateDirectory(n), "key.pem")
  <2>1. Spelled(CertificateDirectory(n), Certificates, n)
    BY <1>1, <1>2, <1>8 DEF CertificateDirectory
  <2>2. CertificateDirectory(n) \in Seq(Segments) /\ Len(CertificateDirectory(n)) >= 2
    BY <1>4, <1>8, <2>1
  <2> QED  BY <1>1, <1>2, <2>1, <2>2 DEF Pinned, SelfSigned
<1> QED  BY <1>5, <1>7, <1>9, <1>10

\* Where every path lies.
LEMMA PathParents ==
  /\ \A p \in {VarLib, Etc, Core} : Parents(p) = {}
  /\ Parents(ConfigFile) = {Etc} /\ Directory(ConfigFile) = Etc
  /\ Parents(ActiveConfig) = {Core} /\ Directory(ActiveConfig) = Core
  /\ Parents(Data) = {VarLib}
  /\ \A p \in {LockFile, StateFile, Artifacts, Certificates} :
       Parents(p) = {VarLib, Data} /\ Directory(p) = Data
  /\ Parents(Artifact) = {VarLib, Data, Artifacts} /\ Directory(Artifact) = Artifacts
  /\ \A n \in ServerNames :
       /\ Parents(CertificateDirectory(n)) = {VarLib, Data, Certificates}
       /\ \A p \in {Pinned(n), SelfSigned(n)} :
            /\ Parents(p) = {VarLib, Data, Certificates, CertificateDirectory(n)}
            /\ Directory(p) = CertificateDirectory(n)
<1>1. \A p \in {VarLib, Etc, Core} : Parents(p) = {}
  BY RootPaths
<1>2. /\ Parents(ConfigFile) = {Etc} /\ Directory(ConfigFile) = Etc
      /\ Parents(ActiveConfig) = {Core} /\ Directory(ActiveConfig) = Core
      /\ Parents(Data) = {VarLib}
  BY <1>1, PathsSpelled DEF Spelled
<1>3. \A p \in {LockFile, StateFile, Artifacts, Certificates} :
         Parents(p) = {VarLib, Data} /\ Directory(p) = Data
  BY <1>2, PathsSpelled DEF Spelled
<1>4. Parents(Artifact) = {VarLib, Data, Artifacts} /\ Directory(Artifact) = Artifacts
  BY <1>3, PathsSpelled DEF Spelled
<1>5. ASSUME NEW n \in ServerNames
      PROVE  /\ Parents(CertificateDirectory(n)) = {VarLib, Data, Certificates}
             /\ \A p \in {Pinned(n), SelfSigned(n)} :
                  /\ Parents(p) = {VarLib, Data, Certificates, CertificateDirectory(n)}
                  /\ Directory(p) = CertificateDirectory(n)
  <2>1. /\ Spelled(CertificateDirectory(n), Certificates, n)
        /\ Spelled(Pinned(n), CertificateDirectory(n), "privkey.pem")
        /\ Spelled(SelfSigned(n), CertificateDirectory(n), "key.pem")
    BY PathsSpelled
  <2>2. Parents(CertificateDirectory(n)) = {VarLib, Data, Certificates}
    BY <1>3, <2>1 DEF Spelled
  <2> QED  BY <2>1, <2>2 DEF Spelled
<1> QED  BY <1>1, <1>2, <1>3, <1>4, <1>5

\* How deep it lies.
LEMMA PathLengths ==
  /\ Len(VarLib) = 2 /\ Len(Etc) = 2 /\ Len(Core) = 2
  /\ Len(ConfigFile) = 3 /\ Len(ActiveConfig) = 3 /\ Len(Data) = 3
  /\ Len(LockFile) = 4 /\ Len(StateFile) = 4 /\ Len(Artifacts) = 4 /\ Len(Certificates) = 4
  /\ Len(Artifact) = 5
  /\ \A n \in ServerNames :
       Len(CertificateDirectory(n)) = 5 /\ Len(Pinned(n)) = 6 /\ Len(SelfSigned(n)) = 6
<1>1. Len(VarLib) = 2 /\ Len(Etc) = 2 /\ Len(Core) = 2
  BY RootPaths
<1>2. Len(ConfigFile) = 3 /\ Len(ActiveConfig) = 3 /\ Len(Data) = 3
  BY <1>1, PathsSpelled DEF Spelled
<1>3. Len(LockFile) = 4 /\ Len(StateFile) = 4 /\ Len(Artifacts) = 4 /\ Len(Certificates) = 4
  BY <1>2, PathsSpelled DEF Spelled
<1>4. Len(Artifact) = 5
  BY <1>3, PathsSpelled DEF Spelled
<1>5. ASSUME NEW n \in ServerNames
      PROVE  Len(CertificateDirectory(n)) = 5 /\ Len(Pinned(n)) = 6 /\ Len(SelfSigned(n)) = 6
  <2>1. /\ Spelled(CertificateDirectory(n), Certificates, n)
        /\ Spelled(Pinned(n), CertificateDirectory(n), "privkey.pem")
        /\ Spelled(SelfSigned(n), CertificateDirectory(n), "key.pem")
    BY PathsSpelled
  <2> QED  BY <1>3, <2>1 DEF Spelled
<1> QED  BY <1>1, <1>2, <1>3, <1>4, <1>5

LEMMA PathsDiffer ==
  /\ Etc # VarLib /\ Etc # Core /\ VarLib # Core
  /\ ConfigFile # ActiveConfig /\ ConfigFile # Data /\ ActiveConfig # Data
  /\ LockFile # StateFile /\ LockFile # Artifacts /\ LockFile # Certificates
  /\ StateFile # Artifacts /\ StateFile # Certificates /\ Artifacts # Certificates
  /\ \A n \in ServerNames : CertificateDirectory(n) # Artifact
  /\ \A n, m \in ServerNames :
       /\ CertificateDirectory(n) = CertificateDirectory(m) => n = m
       /\ Pinned(n) = Pinned(m) => n = m
       /\ SelfSigned(n) = SelfSigned(m) => n = m
       /\ Pinned(n) # SelfSigned(m)
<1>1. ASSUME NEW p, NEW q, NEW s, NEW t, NEW e, NEW f, Spelled(p, s, e), Spelled(q, t, f)
      PROVE  p = q => s = t /\ e = f
  <2>1. /\ p = Append(s, e) /\ s \in Seq(Segments) /\ e \in Segments
        /\ q = Append(t, f) /\ t \in Seq(Segments) /\ f \in Segments
    BY <1>1 DEF Spelled
  <2>2. SUFFICES ASSUME Append(s, e) = Append(t, f) PROVE s = t /\ e = f
    BY <2>1
  <2> QED  BY <2>1, <2>2, AppendInjective
<1>2. Etc # VarLib /\ Etc # Core /\ VarLib # Core
  BY DEF Etc, VarLib, Core
<1>3. ConfigFile # ActiveConfig /\ ConfigFile # Data /\ ActiveConfig # Data
  BY <1>1, <1>2, PathsSpelled
<1>4. /\ LockFile # StateFile /\ LockFile # Artifacts /\ LockFile # Certificates
      /\ StateFile # Artifacts /\ StateFile # Certificates /\ Artifacts # Certificates
  BY <1>1, PathsSpelled
<1>5. \A n \in ServerNames : CertificateDirectory(n) # Artifact
  BY <1>1, <1>4, PathsSpelled
<1>6. \A n, m \in ServerNames : CertificateDirectory(n) = CertificateDirectory(m) => n = m
  BY <1>1, PathsSpelled
<1>7. \A n, m \in ServerNames : /\ Pinned(n) = Pinned(m) => n = m
                                /\ SelfSigned(n) = SelfSigned(m) => n = m
                                /\ Pinned(n) # SelfSigned(m)
  BY <1>1, <1>6, PathsSpelled
<1> QED  BY <1>2, <1>3, <1>4, <1>5, <1>6, <1>7

\* What lies under which directory.
LEMMA Places ==
  ASSUME NEW p \in AllPaths
  PROVE  /\ Parents(p) \subseteq AllPaths
         /\ Etc \in Parents(p) \cup {p} <=> p \in ConfigPaths
         /\ Data \in Parents(p) \cup {p} <=> p \in DataPaths
         /\ Certificates \in Parents(p) \cup {p} <=> p \in CertificatePaths
         /\ \A n \in ServerNames :
              /\ CertificateDirectory(n) \in Parents(p) \cup {p} <=> p \in Tree(n)
              /\ Pinned(n) \notin Parents(p) /\ SelfSigned(n) \notin Parents(p)
<1>1. CASE p \in {VarLib, Etc, Core}
  BY <1>1, PathParents, PathLengths, PathsDiffer
     DEF AllPaths, ConfigPaths, DataPaths, CertificatePaths, Tree
<1>2. CASE p \in {ConfigFile, ActiveConfig, Data}
  BY <1>2, PathParents, PathLengths, PathsDiffer
     DEF AllPaths, ConfigPaths, DataPaths, CertificatePaths, Tree
<1>3. CASE p \in {LockFile, StateFile, Artifacts, Certificates}
  BY <1>3, PathParents, PathLengths, PathsDiffer
     DEF AllPaths, ConfigPaths, DataPaths, CertificatePaths, Tree
<1>4. CASE p = Artifact
  BY <1>4, PathParents, PathLengths, PathsDiffer
     DEF AllPaths, ConfigPaths, DataPaths, CertificatePaths, Tree
<1>5. ASSUME NEW n \in ServerNames, p = CertificateDirectory(n)
      PROVE  /\ Parents(p) \subseteq AllPaths
             /\ Etc \in Parents(p) \cup {p} <=> p \in ConfigPaths
             /\ Data \in Parents(p) \cup {p} <=> p \in DataPaths
             /\ Certificates \in Parents(p) \cup {p} <=> p \in CertificatePaths
             /\ \A m \in ServerNames :
                  /\ CertificateDirectory(m) \in Parents(p) \cup {p} <=> p \in Tree(m)
                  /\ Pinned(m) \notin Parents(p) /\ SelfSigned(m) \notin Parents(p)
  BY <1>5, PathParents, PathLengths, PathsDiffer
     DEF AllPaths, ConfigPaths, DataPaths, CertificatePaths, Tree
<1>6. ASSUME NEW n \in ServerNames, p \in {Pinned(n), SelfSigned(n)}
      PROVE  /\ Parents(p) \subseteq AllPaths
             /\ Etc \in Parents(p) \cup {p} <=> p \in ConfigPaths
             /\ Data \in Parents(p) \cup {p} <=> p \in DataPaths
             /\ Certificates \in Parents(p) \cup {p} <=> p \in CertificatePaths
             /\ \A m \in ServerNames :
                  /\ CertificateDirectory(m) \in Parents(p) \cup {p} <=> p \in Tree(m)
                  /\ Pinned(m) \notin Parents(p) /\ SelfSigned(m) \notin Parents(p)
  <2>1. Parents(p) = {VarLib, Data, Certificates, CertificateDirectory(n)}
    BY <1>6, PathParents
  <2>2. \A m \in ServerNames : CertificateDirectory(m) \in Parents(p) \cup {p} <=> p \in Tree(m)
    BY <1>6, <2>1, PathLengths, PathsDiffer DEF Tree
  <2> QED
    BY <1>6, <2>1, <2>2, PathLengths, PathsDiffer
       DEF AllPaths, ConfigPaths, DataPaths, CertificatePaths, Tree
<1>7. \/ p \in {VarLib, Etc, Core} \/ p \in {ConfigFile, ActiveConfig, Data}
      \/ p \in {LockFile, StateFile, Artifacts, Certificates} \/ p = Artifact
      \/ \E n \in ServerNames : p = CertificateDirectory(n)
      \/ \E n \in ServerNames : p \in {Pinned(n), SelfSigned(n)}
  BY DEF AllPaths, ConfigPaths, DataPaths, CertificatePaths, Tree
<1> QED  BY <1>1, <1>2, <1>3, <1>4, <1>5, <1>6, <1>7

-------------------------------------------------------------------------------
(* What the commands and the daemon do to owners and modes *)

\* Files that are written by renaming a private one over them.
ManagedFiles == {ConfigFile, ActiveConfig, StateFile, Artifact}

\* Whom a file written by ManagedWrite belongs to.
Given(path) ==
  IF LiveOwner(path).user \in accounts.users THEN LiveOwner(path)
  ELSE Rights("root", "root", Private)

\* A write replaces one file; a directory that was missing is created for it.
LEMMA WriteReplaces ==
  ASSUME NEW a, NEW path \in ManagedFiles
  PROVE  LET b    == ManagedWrite(a, path)
             dir  == Directory(path)
             made == IF dir \in DOMAIN a THEN {} ELSE Parents(dir) \cup {dir} IN
         /\ DOMAIN b = DOMAIN a \cup {path} \cup made
         /\ b[path] = Given(path)
         /\ \A p \in DOMAIN a \ {path} : b[p] = a[p]
         /\ \A p \in made \ DOMAIN a :
              b[p] = Rights("root", "root", IF p = dir THEN Private ELSE ToEveryone)
<1> DEFINE dir  == Directory(path)
           made == IF dir \in DOMAIN a THEN {} ELSE Parents(dir) \cup {dir}
           c == PrivateDirectory(a, dir)
           d == Create(c, path, Private)
           b == ManagedWrite(a, path)
<1>1. path \notin Parents(dir) \cup {dir}
  BY PathParents, PathLengths DEF ManagedFiles
<1>2. /\ DOMAIN c = DOMAIN a \cup made
      /\ \A p \in DOMAIN a : c[p] = a[p]
      /\ \A p \in made \ DOMAIN a :
           c[p] = Rights("root", "root", IF p = dir THEN Private ELSE ToEveryone)
  BY DEF PrivateDirectory, CreateDirectories, Chmod, Rights
<1>3. d = AtomicWrite(a, path)
  BY DEF AtomicWrite
<1> HIDE DEF dir, made, c
<1>4. /\ DOMAIN d = DOMAIN c \cup {path} /\ d[path] = Rights("root", "root", Private)
      /\ \A p \in DOMAIN c \ {path} : d[p] = c[p]
  BY DEF Create
<1> HIDE DEF d
<1>5. /\ DOMAIN b = DOMAIN d /\ b[path] = Given(path)
      /\ \A p \in DOMAIN d \ {path} : b[p] = d[p]
  BY <1>3, <1>4 DEF ManagedWrite, EnforceLiveFileOwner, Given
<1> HIDE DEF b
<1>6. \A p \in made : p # path
  BY <1>1 DEF made
<1>7. /\ DOMAIN b = DOMAIN a \cup {path} \cup made
      /\ b[path] = Given(path)
      /\ \A p \in DOMAIN a \ {path} : b[p] = a[p]
      /\ \A p \in made \ DOMAIN a :
              b[p] = Rights("root", "root", IF p = dir THEN Private ELSE ToEveryone)
  BY <1>2, <1>4, <1>5, <1>6
<1> QED  BY <1>7 DEF dir, made, b

RightsType ==
  [user : {"root"} \cup Services, group : {"root", CertificateGroup} \cup Services,
   to : {Private, ToGroup, ToEveryone}]

\* The files of a host: only those sbctl makes; what must not be read by everyone is not;
\* the core's configuration is the core's; whatever is kept under a name is open to
\* its group, and lies in a directory that exists.
FilesSound(a) ==
  /\ DOMAIN a \subseteq AllPaths
  /\ \A p \in DOMAIN a : a[p] \in RightsType
  /\ \A p \in Secrets \cap DOMAIN a : "others" \notin a[p].to
  /\ VarLib \in DOMAIN a => a[VarLib] = Rights("root", "root", ToEveryone)
  /\ ActiveConfig \in DOMAIN a => a[ActiveConfig].user = "sing-box" /\ Core \in DOMAIN a
  /\ \A p \in CertificatePaths \cap DOMAIN a : "group" \in a[p].to
  /\ \A n \in ServerNames : Tree(n) \cap DOMAIN a # {} => CertificateDirectory(n) \in DOMAIN a
  /\ Certificates \in DOMAIN a => \E n \in ServerNames : CertificateDirectory(n) \in DOMAIN a

LEMMA SecretPaths ==
  /\ Secrets \subseteq AllPaths
  /\ {ConfigFile, ActiveConfig, Artifact, StateFile} \subseteq Secrets
  /\ \A n \in ServerNames : SelfSigned(n) \in Secrets /\ Tree(n) \subseteq CertificatePaths
  /\ \A n \in StorageHosts : Pinned(n) \in Secrets /\ n \in ServerNames
  /\ {VarLib, Core, Etc, Data, Artifacts, LockFile, Certificates} \cap Secrets = {}
  /\ \A n \in ServerNames : CertificateDirectory(n) \notin Secrets
  /\ ({VarLib, Core, Etc, Data, Artifacts, LockFile} \cup ManagedFiles) \cap CertificatePaths = {}
  /\ Certificates \in CertificatePaths
  /\ \A n \in ServerNames :
       ({VarLib, Core, Etc, Data, Artifacts, LockFile, Certificates} \cup ManagedFiles) \cap Tree(n) = {}
  /\ ({VarLib, Core, Etc, Data, Artifacts, LockFile, Certificates} \cup ManagedFiles) \subseteq AllPaths
  /\ CertificatePaths \subseteq AllPaths
<1>1. Secrets = {ConfigFile, ActiveConfig, Artifact, StateFile} \cup
         {Pinned(n) : n \in StorageHosts} \cup {SelfSigned(n) : n \in ServerNames}
  BY DEF Secrets
<1>2. \A n \in StorageHosts : n \in ServerNames
  BY StorageAssumption
<1>3. \A n \in ServerNames : Tree(n) = {CertificateDirectory(n), Pinned(n), SelfSigned(n)}
  BY DEF Tree
<1>4. /\ Secrets \subseteq AllPaths
      /\ \A n \in ServerNames : Tree(n) \subseteq CertificatePaths
      /\ CertificatePaths \subseteq AllPaths /\ Certificates \in CertificatePaths
      /\ ({VarLib, Core, Etc, Data, Artifacts, LockFile, Certificates} \cup ManagedFiles) \subseteq AllPaths
  BY <1>1, <1>2, <1>3 DEF AllPaths, ConfigPaths, DataPaths, CertificatePaths, ManagedFiles
<1>5. /\ {VarLib, Core, Etc, Data, Artifacts, LockFile, Certificates} \cap Secrets = {}
      /\ \A n \in ServerNames : CertificateDirectory(n) \notin Secrets
  <2>1. \A q \in Secrets : \/ q \in {ConfigFile, ActiveConfig, Artifact, StateFile}
                            \/ \E n \in ServerNames : q = Pinned(n) \/ q = SelfSigned(n)
    BY <1>1, <1>2
  <2>2. \A q \in Secrets : Len(q) = 6 \/ q \in {ConfigFile, ActiveConfig, Artifact, StateFile}
    BY <2>1, PathLengths
  <2>3. \A q \in Secrets : q \notin {VarLib, Core, Etc, Data, Artifacts, LockFile, Certificates}
    BY <2>2, PathLengths, PathsDiffer
  <2>4. ASSUME NEW n \in ServerNames PROVE CertificateDirectory(n) \notin Secrets
    BY <2>2, PathLengths, PathsDiffer
  <2> QED  BY <2>3, <2>4
<1>6. /\ ({VarLib, Core, Etc, Data, Artifacts, LockFile} \cup ManagedFiles) \cap CertificatePaths = {}
      /\ \A n \in ServerNames :
       ({VarLib, Core, Etc, Data, Artifacts, LockFile, Certificates} \cup ManagedFiles) \cap Tree(n) = {}
  BY <1>3, PathLengths, PathsDiffer DEF CertificatePaths, ManagedFiles
<1> QED  BY <1>1, <1>2, <1>4, <1>5, <1>6

LEMMA RightsTypes ==
  /\ \A user \in {"root"} \cup Services, group \in {"root", CertificateGroup} \cup Services,
        to \in {Private, ToGroup, ToEveryone} : Rights(user, group, to) \in RightsType
  /\ "group" \in ToGroup /\ "group" \in ToEveryone
  /\ "others" \notin Private /\ "others" \notin ToGroup
  /\ \A r \in RightsType : r = Rights(r.user, r.group, r.to) /\ r.user \in {"root"} \cup Services
       /\ r.group \in {"root", CertificateGroup} \cup Services /\ r.to \in {Private, ToGroup, ToEveryone}
  /\ \A user, group, to : /\ Rights(user, group, to).user = user
                          /\ Rights(user, group, to).group = group /\ Rights(user, group, to).to = to
BY DEF Rights, RightsType, Private, ToGroup, ToEveryone

LEMMA GivenRights ==
  ASSUME NEW path \in ManagedFiles
  PROVE  /\ Given(path) \in RightsType /\ "others" \notin Given(path).to
         /\ accounts.users = Services =>
              Given(path).user = IF path = ActiveConfig THEN "sing-box" ELSE "sbctl"
BY RightsTypes DEF Given, LiveOwner, Services

LEMMA WriteSound ==
  ASSUME NEW a, FilesSound(a), NEW path \in ManagedFiles,
         path = ActiveConfig => accounts.users = Services
  PROVE  FilesSound(ManagedWrite(a, path))
<1> DEFINE b    == ManagedWrite(a, path)
           dir  == Directory(path)
           made == IF dir \in DOMAIN a THEN {} ELSE Parents(dir) \cup {dir}
<1>1. /\ DOMAIN b = DOMAIN a \cup {path} \cup made
      /\ b[path] = Given(path)
      /\ \A p \in DOMAIN a \ {path} : b[p] = a[p]
      /\ \A p \in made \ DOMAIN a :
           b[p] = Rights("root", "root", IF p = dir THEN Private ELSE ToEveryone)
  BY WriteReplaces
<1> HIDE DEF b
<1>2. /\ dir \in {Etc, Core, Data, Artifacts} /\ dir # VarLib
      /\ Parents(dir) \cup {dir} \subseteq {VarLib, Etc, Core, Data, Artifacts}
      /\ path = ActiveConfig => dir = Core
  BY PathParents, PathLengths, PathsDiffer DEF ManagedFiles
<1> HIDE DEF dir
<1>3. made \subseteq {VarLib, Etc, Core, Data, Artifacts}
  BY <1>2
<1>4. path = ActiveConfig => Core \in DOMAIN b
  BY <1>1, <1>2
<1> HIDE DEF made
<1>5. path # VarLib /\ path # Certificates
  BY PathLengths, PathsDiffer DEF ManagedFiles
<1>6. DOMAIN b \subseteq AllPaths
  BY <1>1, <1>3, SecretPaths DEF FilesSound
<1>7. \A p \in DOMAIN b : b[p] \in RightsType
  BY <1>1, GivenRights, RightsTypes DEF FilesSound
<1>8. \A p \in Secrets \cap DOMAIN b : "others" \notin b[p].to
  BY <1>1, <1>3, GivenRights, SecretPaths DEF FilesSound
<1>9. VarLib \in DOMAIN b => b[VarLib] = Rights("root", "root", ToEveryone)
  BY <1>1, <1>2, <1>5 DEF FilesSound
<1>10. ActiveConfig \in DOMAIN b => b[ActiveConfig].user = "sing-box" /\ Core \in DOMAIN b
  BY <1>1, <1>3, <1>4, GivenRights, SecretPaths DEF FilesSound
<1>11. \A p \in CertificatePaths \cap DOMAIN b : p \in DOMAIN a /\ b[p] = a[p]
  BY <1>1, <1>3, SecretPaths
<1>12. \A n \in ServerNames : Tree(n) \cap DOMAIN b # {} => CertificateDirectory(n) \in DOMAIN b
  BY <1>1, <1>11, SecretPaths DEF FilesSound
<1>13. Certificates \in DOMAIN b => \E n \in ServerNames : CertificateDirectory(n) \in DOMAIN b
  BY <1>1, <1>11, SecretPaths DEF FilesSound
<1>14. FilesSound(b)
  BY <1>6, <1>7, <1>8, <1>9, <1>10, <1>11, <1>12, <1>13 DEF FilesSound
<1> QED  BY <1>14 DEF b

LEMMA ChmodSound ==
  ASSUME NEW a, FilesSound(a), NEW paths, NEW to \in {Private, ToGroup, ToEveryone},
         VarLib \notin paths, "others" \in to => paths \cap Secrets = {},
         "group" \in to \/ paths \cap CertificatePaths = {}
  PROVE  /\ FilesSound(Chmod(a, paths, to))
         /\ DOMAIN Chmod(a, paths, to) = DOMAIN a
<1> DEFINE b == Chmod(a, paths, to)
<1>1. /\ DOMAIN b = DOMAIN a
      /\ \A p \in DOMAIN a \ paths : b[p] = a[p]
      /\ \A p \in DOMAIN a \cap paths : b[p] = [a[p] EXCEPT !.to = to]
  BY DEF Chmod
<1>2. \A p \in DOMAIN a \cap paths :
        b[p] \in RightsType /\ b[p].to = to /\ b[p].user = a[p].user
  BY <1>1 DEF FilesSound, RightsType
<1> HIDE DEF b
<1>3. FilesSound(b)
  BY <1>1, <1>2 DEF FilesSound
<1> QED  BY <1>1, <1>3 DEF b

LEMMA ChownSound ==
  ASSUME NEW a, FilesSound(a), NEW paths, NEW user \in {"root"} \cup Services,
         NEW group \in {"root", CertificateGroup} \cup Services,
         VarLib \notin paths, ActiveConfig \in paths => user = "sing-box"
  PROVE  /\ FilesSound(Chown(a, paths, user, group))
         /\ DOMAIN Chown(a, paths, user, group) = DOMAIN a
<1> DEFINE b == Chown(a, paths, user, group)
<1>1. /\ DOMAIN b = DOMAIN a
      /\ \A p \in DOMAIN a \ paths : b[p] = a[p]
      /\ \A p \in DOMAIN a \cap paths : b[p] = Rights(user, group, a[p].to)
  BY DEF Chown
<1> HIDE DEF b
<1>2. \A p \in DOMAIN a \cap paths :
        b[p] \in RightsType /\ b[p].to = a[p].to /\ b[p].user = user
  BY <1>1, RightsTypes DEF FilesSound
<1>3. FilesSound(b)
  BY <1>1, <1>2 DEF FilesSound
<1> QED  BY <1>1, <1>3 DEF b

LEMMA ChgrpSound ==
  ASSUME NEW a, FilesSound(a), NEW paths, VarLib \notin paths
  PROVE  /\ FilesSound(Chgrp(a, paths, CertificateGroup))
         /\ DOMAIN Chgrp(a, paths, CertificateGroup) = DOMAIN a
<1> DEFINE b == Chgrp(a, paths, CertificateGroup)
<1>1. /\ DOMAIN b = DOMAIN a
      /\ \A p \in DOMAIN a \ paths : b[p] = a[p]
      /\ \A p \in DOMAIN a \cap paths : b[p] = [a[p] EXCEPT !.group = CertificateGroup]
  BY DEF Chgrp
<1>2. \A p \in DOMAIN a \cap paths :
        b[p] \in RightsType /\ b[p].to = a[p].to /\ b[p].user = a[p].user
  BY <1>1 DEF FilesSound, RightsType
<1> HIDE DEF b
<1>3. FilesSound(b)
  BY <1>1, <1>2 DEF FilesSound
<1> QED  BY <1>1, <1>3 DEF b

\* The directories that were missing are made.
LEMMA DirectoriesSound ==
  ASSUME NEW a, FilesSound(a),
         NEW path \in {Data} \cup {CertificateDirectory(n) : n \in ServerNames}
  PROVE  LET b == CreateDirectories(a, path) IN
         /\ FilesSound(b)
         /\ DOMAIN b = DOMAIN a \cup Parents(path) \cup {path}
         /\ \A p \in DOMAIN a : b[p] = a[p]
         /\ \A p \in DOMAIN b \ DOMAIN a : b[p] = Rights("root", "root", ToEveryone)
<1> DEFINE b == CreateDirectories(a, path)
<1>1. /\ DOMAIN b = DOMAIN a \cup Parents(path) \cup {path}
      /\ \A p \in DOMAIN a : b[p] = a[p]
      /\ \A p \in DOMAIN b \ DOMAIN a : b[p] = Rights("root", "root", ToEveryone)
  BY DEF CreateDirectories
<1> HIDE DEF b
<1>2. ASSUME path = Data PROVE FilesSound(b)
  <2>1. DOMAIN b = DOMAIN a \cup {VarLib, Data}
    BY <1>1, <1>2, PathParents
  <2>2. \A p \in (CertificatePaths \cup ManagedFiles) \cap DOMAIN b : p \in DOMAIN a
    BY <2>1, SecretPaths, PathLengths DEF ManagedFiles
  <2>3. /\ DOMAIN b \subseteq AllPaths /\ \A p \in DOMAIN b : b[p] \in RightsType
        /\ VarLib \in DOMAIN b => b[VarLib] = Rights("root", "root", ToEveryone)
    BY <1>1, <2>1, RightsTypes, SecretPaths DEF FilesSound
  <2>4. \A p \in Secrets \cap DOMAIN b : p \in DOMAIN a
    BY <2>1, SecretPaths
  <2>5. /\ ActiveConfig \in DOMAIN b => b[ActiveConfig].user = "sing-box" /\ Core \in DOMAIN b
        /\ Certificates \in DOMAIN b => \E m \in ServerNames : CertificateDirectory(m) \in DOMAIN b
    BY <1>1, <2>2, SecretPaths DEF FilesSound, ManagedFiles
  <2>6. \A n \in ServerNames : Tree(n) \cap DOMAIN b # {} => CertificateDirectory(n) \in DOMAIN b
    BY <1>1, <2>2, SecretPaths DEF FilesSound
  <2> QED  BY <1>1, <2>2, <2>3, <2>4, <2>5, <2>6 DEF FilesSound
<1>3. ASSUME NEW n \in ServerNames, path = CertificateDirectory(n) PROVE FilesSound(b)
  <2>1. DOMAIN b = DOMAIN a \cup {VarLib, Data, Certificates, CertificateDirectory(n)}
    BY <1>1, <1>3, PathParents
  <2>2. \A p \in Secrets \cap DOMAIN b : p \in DOMAIN a
    BY <2>1, SecretPaths
  <2>3. \A m \in ServerNames : Tree(m) \cap DOMAIN b # {} => CertificateDirectory(m) \in DOMAIN b
    <3> SUFFICES ASSUME NEW m \in ServerNames, m # n PROVE Tree(m) \cap DOMAIN b = Tree(m) \cap DOMAIN a
      BY <2>1, <1>1 DEF FilesSound
    <3>1. CertificateDirectory(n) \notin Tree(m)
      BY PathLengths, PathsDiffer DEF Tree
    <3> QED  BY <2>1, <3>1, SecretPaths
  <2>4. /\ DOMAIN b \subseteq AllPaths /\ \A p \in DOMAIN b : b[p] \in RightsType
        /\ VarLib \in DOMAIN b => b[VarLib] = Rights("root", "root", ToEveryone)
        /\ \A p \in CertificatePaths \cap DOMAIN b : "group" \in b[p].to
        /\ Certificates \in DOMAIN b => \E m \in ServerNames : CertificateDirectory(m) \in DOMAIN b
    BY <1>1, <2>1, RightsTypes, SecretPaths DEF FilesSound, Tree
  <2>5. ActiveConfig \in DOMAIN b => b[ActiveConfig].user = "sing-box" /\ Core \in DOMAIN b
    BY <1>1, <2>2, SecretPaths DEF FilesSound
  <2> QED  BY <1>1, <2>2, <2>3, <2>4, <2>5 DEF FilesSound
<1>4. FilesSound(b)
  <2>1. path = Data \/ \E n \in ServerNames : path = CertificateDirectory(n)
    OBVIOUS
  <2> QED  BY <1>2, <1>3, <2>1
<1> QED  BY <1>1, <1>4 DEF b

LEMMA CreateSound ==
  ASSUME NEW a, FilesSound(a), NEW path, NEW to \in {Private, ToGroup},
         \/ path = LockFile
         \/ /\ \E n \in ServerNames : /\ path \in {Pinned(n), SelfSigned(n)}
                                      /\ CertificateDirectory(n) \in DOMAIN a
            /\ to = ToGroup
  PROVE  LET b == Create(a, path, to) IN
         /\ FilesSound(b)
         /\ DOMAIN b = DOMAIN a \cup {path} /\ b[path] = Rights("root", "root", to)
         /\ \A p \in DOMAIN a \ {path} : b[p] = a[p]
<1> DEFINE b == Create(a, path, to)
<1>1. /\ DOMAIN b = DOMAIN a \cup {path} /\ b[path] = Rights("root", "root", to)
      /\ \A p \in DOMAIN a \ {path} : b[p] = a[p]
  BY DEF Create
<1> HIDE DEF b
<1>2. /\ path # VarLib /\ path # ActiveConfig /\ path # Certificates /\ path \in AllPaths
      /\ path \in CertificatePaths => to = ToGroup
      /\ \A n \in ServerNames : path \in Tree(n) => CertificateDirectory(n) \in DOMAIN a
  <2>1. CASE path = LockFile
    BY <2>1, PathLengths, PathsDiffer, SecretPaths
  <2>2. ASSUME NEW n \in ServerNames, path \in {Pinned(n), SelfSigned(n)},
               CertificateDirectory(n) \in DOMAIN a, to = ToGroup
        PROVE  /\ path # VarLib /\ path # ActiveConfig /\ path # Certificates /\ path \in AllPaths
               /\ path \in CertificatePaths => to = ToGroup
               /\ \A m \in ServerNames : path \in Tree(m) => CertificateDirectory(m) \in DOMAIN a
    <3>1. path \in Tree(n)
      BY <2>2 DEF Tree
    <3>2. \A m \in ServerNames : path \in Tree(m) => m = n
      BY <2>2, PathLengths, PathsDiffer DEF Tree
    <3> QED  BY <2>2, <3>1, <3>2, SecretPaths, PathLengths
  <2> QED  BY <2>1, <2>2
<1>3. FilesSound(b)
  BY <1>1, <1>2, RightsTypes DEF FilesSound
<1> QED  BY <1>1, <1>3 DEF b

LEMMA UnderPaths ==
  ASSUME NEW a, DOMAIN a \subseteq AllPaths
  PROVE  /\ Under(a, Etc) = ConfigPaths \cap DOMAIN a
         /\ Under(a, Data) = DataPaths \cap DOMAIN a
         /\ Under(a, Certificates) = CertificatePaths \cap DOMAIN a
         /\ \A n \in ServerNames : Under(a, CertificateDirectory(n)) = Tree(n) \cap DOMAIN a
         /\ \A n \in ServerNames : {Pinned(n), SelfSigned(n)} \cap DOMAIN a \subseteq FilesUnder(a, Certificates)
         /\ FilesUnder(a, Certificates) \subseteq CertificatePaths \cap DOMAIN a
         /\ (\E n \in ServerNames : CertificateDirectory(n) \in DOMAIN a) =>
              Certificates \notin FilesUnder(a, Certificates)
<1>1. \A p \in DOMAIN a :
        /\ Etc \in Parents(p) \cup {p} <=> p \in ConfigPaths
        /\ Data \in Parents(p) \cup {p} <=> p \in DataPaths
        /\ Certificates \in Parents(p) \cup {p} <=> p \in CertificatePaths
        /\ \A n \in ServerNames :
             /\ CertificateDirectory(n) \in Parents(p) \cup {p} <=> p \in Tree(n)
             /\ Pinned(n) \notin Parents(p) /\ SelfSigned(n) \notin Parents(p)
  BY Places
<1>2. /\ Under(a, Etc) = ConfigPaths \cap DOMAIN a
      /\ Under(a, Data) = DataPaths \cap DOMAIN a
      /\ Under(a, Certificates) = CertificatePaths \cap DOMAIN a
      /\ \A n \in ServerNames : Under(a, CertificateDirectory(n)) = Tree(n) \cap DOMAIN a
  BY <1>1 DEF Under
<1>3. \A n \in ServerNames : {Pinned(n), SelfSigned(n)} \cap DOMAIN a \subseteq FilesUnder(a, Certificates)
  <2>1. \A n \in ServerNames : {Pinned(n), SelfSigned(n)} \subseteq CertificatePaths
    BY DEF CertificatePaths, Tree
  <2> QED  BY <1>1, <1>2, <2>1 DEF FilesUnder
<1>4. ASSUME NEW n \in ServerNames, CertificateDirectory(n) \in DOMAIN a
      PROVE  Certificates \notin FilesUnder(a, Certificates)
  BY <1>4, PathParents DEF FilesUnder
<1>5. FilesUnder(a, Certificates) \subseteq CertificatePaths \cap DOMAIN a
  BY <1>2 DEF FilesUnder
<1> QED  BY <1>2, <1>3, <1>4, <1>5

LEMMA GeneratedSound ==
  ASSUME NEW a, FilesSound(a), NEW config \in Settings
  PROVE  LET b == SelfSignedEnsured(a, config) IN
         /\ FilesSound(b) /\ DOMAIN a \subseteq DOMAIN b
         /\ DOMAIN b \subseteq DOMAIN a \cup {VarLib, Data} \cup CertificatePaths
         /\ config.certificate = "self-signed" => SelfSigned(config.name) \in DOMAIN b
         /\ config.certificate # "self-signed" \/ SelfSigned(config.name) \in DOMAIN a => b = a
<1> DEFINE n    == config.name
           path == SelfSigned(n)
           dir  == CertificateDirectory(n)
           made == CreateDirectories(a, dir)
           c    == Chmod(made, {dir}, ToGroup)
           b    == SelfSignedEnsured(a, config)
<1>1. n \in ServerNames /\ Directory(path) = dir
  BY PathParents DEF Settings
<1>2. b = IF config.certificate # "self-signed" \/ path \in DOMAIN a THEN a ELSE Create(c, path, ToGroup)
  BY <1>1 DEF SelfSignedEnsured
<1>3. FilesSound(made) /\ DOMAIN made = DOMAIN a \cup {VarLib, Data, Certificates, dir}
  <2>1. dir \in {Data} \cup {CertificateDirectory(m) : m \in ServerNames}
    BY <1>1
  <2>2. Parents(dir) = {VarLib, Data, Certificates}
    BY <1>1, PathParents
  <2> QED  BY <2>1, <2>2, DirectoriesSound
<1> HIDE DEF made
<1>4. FilesSound(c) /\ DOMAIN c = DOMAIN made
  <2>1. dir # VarLib /\ dir \notin Secrets
    BY <1>1, PathLengths, SecretPaths
  <2> QED  BY <1>3, <2>1, ChmodSound DEF ToGroup, Private, ToEveryone
<1> HIDE DEF c
<1>5. FilesSound(Create(c, path, ToGroup)) /\ DOMAIN Create(c, path, ToGroup) = DOMAIN c \cup {path}
  BY <1>1, <1>3, <1>4, CreateSound
<1>6. {Certificates, dir, path} \subseteq CertificatePaths
  BY <1>1 DEF CertificatePaths, Tree
<1> QED  BY <1>2, <1>3, <1>4, <1>5, <1>6

LEMMA LockSound ==
  ASSUME NEW a, FilesSound(a), LockFile \notin DOMAIN a
  PROVE  LET b == LockOpened(a) IN
         /\ FilesSound(b) /\ DOMAIN a \cup {Data, LockFile} \subseteq DOMAIN b
         /\ DOMAIN b \subseteq DOMAIN a \cup {VarLib, Data, LockFile}
<1> DEFINE made == CreateDirectories(a, Data)
           c    == PrivateDirectory(a, Data)
<1>1. FilesSound(made) /\ DOMAIN made = DOMAIN a \cup {VarLib, Data}
  BY DirectoriesSound, PathParents
<1> HIDE DEF made
<1>2. FilesSound(Chmod(made, {Data}, Private)) /\ DOMAIN Chmod(made, {Data}, Private) = DOMAIN made
  <2>1. Data # VarLib /\ Data \notin Secrets /\ Data \notin CertificatePaths
    BY PathLengths, SecretPaths
  <2> QED  BY <1>1, <2>1, ChmodSound
<1>3. /\ FilesSound(c) /\ DOMAIN a \cup {Data} \subseteq DOMAIN c
      /\ DOMAIN c \subseteq DOMAIN a \cup {VarLib, Data}
  BY <1>1, <1>2 DEF PrivateDirectory, made
<1> HIDE DEF c
<1>4. FilesSound(Create(c, LockFile, Private)) /\ DOMAIN Create(c, LockFile, Private) = DOMAIN c \cup {LockFile}
  BY <1>3, CreateSound
<1> QED  BY <1>3, <1>4 DEF LockOpened, c

LEMMA PinSound ==
  ASSUME NEW a, FilesSound(a), NEW n \in ServerNames
  PROVE  /\ FilesSound(PinWritten(a, n)) /\ FilesSound(PinRestricted(a, n)) /\ FilesSound(PinHandedOver(a, n))
         /\ DOMAIN PinWritten(a, n) =
              DOMAIN a \cup {VarLib, Data, Certificates, CertificateDirectory(n), Pinned(n)}
         /\ DOMAIN PinRestricted(a, n) = DOMAIN a /\ DOMAIN PinHandedOver(a, n) = DOMAIN a
<1> DEFINE dir  == CertificateDirectory(n)
           made == CreateDirectories(a, dir)
<1>1. FilesSound(made) /\ DOMAIN made = DOMAIN a \cup {VarLib, Data, Certificates, dir}
  <2>1. dir \in {Data} \cup {CertificateDirectory(m) : m \in ServerNames}
    OBVIOUS
  <2>2. Parents(dir) = {VarLib, Data, Certificates}
    BY PathParents
  <2> QED  BY <2>1, <2>2, DirectoriesSound
<1> HIDE DEF made
<1>2. /\ FilesSound(Create(made, Pinned(n), ToGroup))
      /\ DOMAIN Create(made, Pinned(n), ToGroup) = DOMAIN made \cup {Pinned(n)}
  BY <1>1, CreateSound
<1>3. FilesSound(PinRestricted(a, n)) /\ DOMAIN PinRestricted(a, n) = DOMAIN a
  <2>1. dir # VarLib /\ dir \notin Secrets
    BY PathLengths, SecretPaths
  <2> QED  BY <2>1, ChmodSound DEF PinRestricted, ToGroup, Private, ToEveryone
<1>4. FilesSound(PinHandedOver(a, n)) /\ DOMAIN PinHandedOver(a, n) = DOMAIN a
  <2>1. VarLib \notin Under(a, dir)
    BY UnderPaths, SecretPaths DEF FilesSound
  <2> QED  BY <2>1, ChgrpSound DEF PinHandedOver
<1> QED  BY <1>1, <1>2, <1>3, <1>4 DEF PinWritten, made

LEMMA StepSound ==
  ASSUME NEW a, FilesSound(a), NEW direct \in BOOLEAN, NEW step \in 1..LastStep(direct)
  PROVE  LET b == PrepareDaemonStorage(a, direct, step) IN
         FilesSound(b) /\ DOMAIN b = DOMAIN a
<1> DEFINE files == FilesUnder(a, Certificates)
           b     == PrepareDaemonStorage(a, direct, step)
<1>1. /\ Under(a, Etc) = ConfigPaths \cap DOMAIN a
      /\ Under(a, Data) = DataPaths \cap DOMAIN a
      /\ Under(a, Certificates) = CertificatePaths \cap DOMAIN a
      /\ files \subseteq CertificatePaths
  BY UnderPaths DEF FilesSound
<1>2. /\ VarLib \notin Under(a, Etc) \cup Under(a, Data) \cup Under(a, Certificates)
      /\ ActiveConfig \notin Under(a, Etc) \cup Under(a, Data) \cup Under(a, Certificates)
  BY <1>1, PathLengths, PathsDiffer DEF ConfigPaths, DataPaths, CertificatePaths, Tree
<1>3. /\ VarLib # Core /\ VarLib # ActiveConfig /\ VarLib # Data /\ Core # ActiveConfig
      /\ {Core, Data} \cap Secrets = {}
      /\ {Core, Data, ActiveConfig} \cap CertificatePaths = {}
  BY PathLengths, PathsDiffer, SecretPaths DEF ManagedFiles
<1>4. (Under(a, Certificates) \ files) \cap Secrets = {}
  <2>1. ASSUME NEW p \in Under(a, Certificates), p \in Secrets PROVE p \in files
    <3>1. p \in CertificatePaths /\ p \in DOMAIN a
      BY <1>1, <2>1
    <3>2. p # Certificates /\ \A n \in ServerNames : p # CertificateDirectory(n)
      BY <2>1, SecretPaths
    <3>3. PICK n \in ServerNames : p \in {Pinned(n), SelfSigned(n)}
      BY <3>1, <3>2 DEF CertificatePaths, Tree
    <3> QED  BY <3>1, <3>3, UnderPaths DEF FilesSound
  <2> QED  BY <2>1
<1> HIDE DEF files
<1>5. /\ {Private, ToGroup, ToEveryone} = {Private, ToGroup, ToEveryone}
      /\ "group" \in ToGroup /\ "group" \in ToEveryone /\ "others" \notin ToGroup /\ Services = {"sbctl", "sing-box"}
  BY RightsTypes DEF Services
<1>6. CASE step = 1
  <2>1. b = Chown(a, Under(a, Etc) \cup Under(a, Data), "sbctl", "sbctl")
    BY <1>6 DEF PrepareDaemonStorage, PreparedForServices
  <2> DEFINE paths == Under(a, Etc) \cup Under(a, Data)
  <2>2. VarLib \notin paths /\ ActiveConfig \notin paths
    BY <1>2
  <2>3. "sbctl" \in {"root"} \cup Services /\ "sbctl" \in {"root", CertificateGroup} \cup Services
    BY <1>5
  <2>4. b = Chown(a, paths, "sbctl", "sbctl")
    BY <2>1
  <2> HIDE DEF paths, b
  <2>5. FilesSound(b) /\ DOMAIN b = DOMAIN a
    BY <2>2, <2>3, <2>4, ChownSound
  <2> QED  BY <2>5 DEF b
<1>7. CASE step = 2
  <2>1. b = Chown(a, {Core}, "root", "sing-box")
    BY <1>7 DEF PrepareDaemonStorage, PreparedForServices
  <2> QED  BY <1>3, <1>5, <2>1, ChownSound
<1>8. CASE step = 3
  <2>1. b = Chmod(a, {Core}, ToGroup)
    BY <1>8 DEF PrepareDaemonStorage, PreparedForServices
  <2> QED  BY <1>3, <1>5, <2>1, ChmodSound
<1>9. CASE step = 4
  <2>1. b = Chown(a, {ActiveConfig}, "sing-box", "sing-box")
    BY <1>9 DEF PrepareDaemonStorage, PreparedForServices
  <2> QED  BY <1>3, <1>5, <2>1, ChownSound
<1>10. CASE step = 5
  <2>1. b = Chmod(a, {ActiveConfig}, ToGroup)
    BY <1>10 DEF PrepareDaemonStorage, PreparedForServices
  <2> QED  BY <1>3, <1>5, <2>1, ChmodSound
<1>11. CASE direct /\ step > 5
  <2>1. step \in {6, 7, 8}
    BY <1>11 DEF LastStep
  <2>2. CASE step = 6
    <3>1. b = Chgrp(a, {Data}, CertificateGroup)
      BY <1>11, <2>2 DEF PrepareDaemonStorage, GrantedToBoth
    <3> QED  BY <1>3, <3>1, ChgrpSound
  <2>3. CASE step = 7
    <3>1. b = Chmod(a, {Data}, ToGroup)
      BY <1>11, <2>3 DEF PrepareDaemonStorage, GrantedToBoth
    <3> QED  BY <1>3, <1>5, <3>1, ChmodSound
  <2>4. CASE step = 8
    <3>1. b = Chgrp(a, Under(a, Certificates), CertificateGroup)
      BY <1>11, <2>4 DEF PrepareDaemonStorage, GrantedToBoth
    <3> QED  BY <1>2, <3>1, ChgrpSound
  <2> QED  BY <2>1, <2>2, <2>3, <2>4
<1>12. CASE ~ direct /\ step > 5
  <2>1. step \in {6, 7, 8, 9}
    BY <1>12 DEF LastStep
  <2>2. CASE step = 6
    <3>1. b = Chmod(a, {Data}, ToEveryone)
      BY <1>12, <2>2 DEF PrepareDaemonStorage, GrantedToCore
    <3> QED  BY <1>3, <1>5, <3>1, ChmodSound
  <2>3. CASE step = 7
    <3>1. b = Chown(a, Under(a, Certificates), "root", "sing-box")
      BY <1>12, <2>3 DEF PrepareDaemonStorage, GrantedToCore
    <3> QED  BY <1>2, <1>5, <3>1, ChownSound
  <2>4. CASE step = 8
    <3>1. b = Chmod(a, Under(a, Certificates) \ files, ToEveryone)
      BY <1>12, <2>4 DEF PrepareDaemonStorage, GrantedToCore, files
    <3> QED  BY <1>2, <1>4, <1>5, <3>1, ChmodSound
  <2>5. CASE step = 9
    <3>1. b = Chmod(a, files, ToGroup)
      BY <1>12, <2>5 DEF PrepareDaemonStorage, GrantedToCore, files
    <3>2. VarLib \notin files
      BY <1>1, SecretPaths DEF files
    <3> QED  BY <1>5, <3>1, <3>2, ChmodSound
  <2> QED  BY <2>1, <2>2, <2>3, <2>4, <2>5
<1>13. step \in 1..9
  BY DEF LastStep
<1> QED  BY <1>6, <1>7, <1>8, <1>9, <1>10, <1>11, <1>12, <1>13

-------------------------------------------------------------------------------
(* What a preparation has done so far *)

\* Groups through which the core, under Direct setting the daemon too, reaches a certificate.
Shared(setting) ==
  IF setting = "direct" THEN {CertificateGroup}
  ELSE {"sing-box"} \cup (IF accounts.group THEN {CertificateGroup} ELSE {})

\* The host whose pinned certificate is being replaced.
Pending == IF hook.step \in {"restrict", "hand over"} THEN {hook.host} ELSE {}

\* Everything kept under a name is handed to such a group, but for what a publication
\* is at and, without a certificate group, for what it leaves.
HandedOver(a, setting, pending) ==
  /\ Certificates \in DOMAIN a =>
       a[Certificates].group \in Shared(setting) \/ a[Certificates].to = ToEveryone
  /\ \A n \in ServerNames : SelfSigned(n) \in DOMAIN a =>
       a[CertificateDirectory(n)].group \in Shared(setting) /\ a[SelfSigned(n)].group \in Shared(setting)
  /\ accounts.group => \A n \in StorageHosts \ pending : Pinned(n) \in DOMAIN a =>
       a[CertificateDirectory(n)].group \in Shared(setting) /\ a[Pinned(n)].group \in Shared(setting)

Daemons == {Etc, ConfigFile, Data, LockFile, StateFile, Artifacts, Artifact}

Grouped == accounts.group = TRUE

\* The steps of a preparation before the given one have been done.
ForServices(a, step) ==
  /\ step > 1 => \A p \in Daemons \cap DOMAIN a : a[p].user = "sbctl"
  /\ step > 2 => a[Core].group = "sing-box"
  /\ step > 3 => a[Core].to = ToGroup

ForBoth(a, step, pending) ==
  /\ step > 6 => Grouped /\ a[Data].group = CertificateGroup
  /\ step > 7 => a[Data].to = ToGroup
  /\ step > 8 => HandedOver(a, "direct", pending)

ForCore(a, step, pending) ==
  /\ step > 6 => a[Data].to = ToEveryone
  /\ step > 7 => HandedOver(a, "external", pending)

Prepared(a, setting, step, pending) ==
  /\ ForServices(a, step)
  /\ setting = "direct" => ForBoth(a, step, pending)
  /\ setting = "external" => ForCore(a, step, pending)

LEMMA PreparedStays ==
  ASSUME NEW a, NEW b, NEW setting, NEW step, NEW before, NEW after,
         Prepared(a, setting, step, before), b[Core] = a[Core], b[Data] = a[Data],
         \A p \in Daemons \cap DOMAIN b :
           b[p].user = "sbctl" \/ (p \in DOMAIN a /\ b[p].user = a[p].user),
         HandedOver(a, setting, before) => HandedOver(b, setting, after)
  PROVE  Prepared(b, setting, step, after)
BY DEF Prepared, ForServices, ForBoth, ForCore

LEMMA WriteKeepsPrepared ==
  ASSUME NEW a, FilesSound(a), NEW path \in ManagedFiles, accounts.users = Services,
         {Etc, Core, Data, Artifacts} \subseteq DOMAIN a,
         NEW setting, NEW step, NEW pending, Prepared(a, setting, step, pending)
  PROVE  /\ Prepared(ManagedWrite(a, path), setting, step, pending)
         /\ DOMAIN ManagedWrite(a, path) = DOMAIN a \cup {path}
<1> DEFINE b == ManagedWrite(a, path)
<1>1. Directory(path) \in DOMAIN a
  BY PathParents DEF ManagedFiles
<1>2. /\ DOMAIN b = DOMAIN a \cup {path} /\ b[path] = Given(path)
      /\ \A p \in DOMAIN a \ {path} : b[p] = a[p]
  BY <1>1, WriteReplaces
<1> HIDE DEF b
<1>3. path # Core /\ path # Data /\ path \notin CertificatePaths
  BY PathLengths, PathsDiffer, SecretPaths DEF ManagedFiles
<1>4. \A p \in CertificatePaths : (p \in DOMAIN b <=> p \in DOMAIN a) /\ (p \in DOMAIN a => b[p] = a[p])
  BY <1>2, <1>3
<1>5. HandedOver(a, setting, pending) => HandedOver(b, setting, pending)
  <2>1. /\ Certificates \in CertificatePaths
        /\ \A n \in ServerNames : {CertificateDirectory(n), Pinned(n), SelfSigned(n)} \subseteq CertificatePaths
        /\ \A n \in StorageHosts : n \in ServerNames
    BY SecretPaths, StorageAssumption DEF Tree
  <2>2. \A n \in ServerNames : {Pinned(n), SelfSigned(n)} \cap DOMAIN a # {} => CertificateDirectory(n) \in DOMAIN a
    BY DEF FilesSound, Tree
  <2> QED  BY <1>4, <2>1, <2>2 DEF HandedOver
<1>6. \A p \in Daemons \cap DOMAIN b :
        b[p].user = "sbctl" \/ (p \in DOMAIN a /\ b[p].user = a[p].user)
  <2>1. ActiveConfig \notin Daemons
    BY PathLengths, PathsDiffer DEF Daemons
  <2> QED  BY <1>2, <2>1, GivenRights
<1>7. b[Core] = a[Core] /\ b[Data] = a[Data]
  BY <1>2, <1>3
<1>8. Prepared(b, setting, step, pending)
  BY <1>5, <1>6, <1>7, PreparedStays
<1> QED  BY <1>2, <1>8 DEF b

\* What the daemons own is none of what is kept under a name.
LEMMA CertificatesApart ==
  /\ (Daemons \cup {Core}) \cap CertificatePaths = {}
  /\ Certificates \in CertificatePaths
  /\ \A n \in ServerNames :
       /\ {CertificateDirectory(n), Pinned(n), SelfSigned(n)} \subseteq CertificatePaths
       /\ Certificates \notin Tree(n)
       /\ \A m \in ServerNames \ {n} : Tree(m) \cap Tree(n) = {}
  /\ \A n \in StorageHosts : n \in ServerNames
<1>1. (Daemons \cup {Core}) \cap CertificatePaths = {}
  BY SecretPaths DEF Daemons, ManagedFiles
<1>2. ASSUME NEW n \in ServerNames, NEW m \in ServerNames \ {n} PROVE Tree(m) \cap Tree(n) = {}
  BY PathLengths, PathsDiffer DEF Tree
<1> QED  BY <1>1, <1>2, SecretPaths, StorageAssumption DEF Tree

\* A publication that begins is at the host's copies.
LEMMA PinKeepsPrepared ==
  ASSUME NEW a, FilesSound(a), NEW n \in StorageHosts, {Core, Data} \subseteq DOMAIN a,
         NEW setting, NEW step, NEW pending, Prepared(a, setting, step, pending)
  PROVE  /\ pending = {} => Prepared(PinWritten(a, n), setting, step, {n})
         /\ Prepared(PinRestricted(a, n), setting, step, pending)
         /\ pending \subseteq {n} /\ setting \in {"direct", "external"} =>
              Prepared(PinHandedOver(a, n), setting, step, {})
<1> DEFINE dir == CertificateDirectory(n)
<1>1. /\ n \in ServerNames /\ Parents(dir) = {VarLib, Data, Certificates}
      /\ {Certificates, dir, Pinned(n)} \subseteq CertificatePaths
      /\ (Daemons \cup {Core}) \cap CertificatePaths = {}
      /\ Data \in Daemons
  BY CertificatesApart, PathParents DEF Daemons
<1>2. \A m \in ServerNames : {Pinned(m), SelfSigned(m)} \cap DOMAIN a # {} => CertificateDirectory(m) \in DOMAIN a
  BY DEF FilesSound, Tree
<1>3. ASSUME pending = {} PROVE Prepared(PinWritten(a, n), setting, step, {n})
  <2> DEFINE b == PinWritten(a, n)
  <2>1. /\ DOMAIN b = DOMAIN a \cup {VarLib, Data, Certificates, dir, Pinned(n)}
        /\ b[Pinned(n)] = Rights("root", "root", ToGroup)
        /\ \A p \in DOMAIN a \ {Pinned(n)} : b[p] = a[p]
        /\ \A p \in DOMAIN b \ (DOMAIN a \cup {Pinned(n)}) : b[p] = Rights("root", "root", ToEveryone)
    BY <1>1 DEF PinWritten, CreateDirectories, Create
  <2> HIDE DEF b
  <2>2. \A p \in Daemons \cap DOMAIN b : p \in DOMAIN a /\ b[p] = a[p]
    <3>1. VarLib \notin Daemons
      BY PathLengths, PathsDiffer DEF Daemons
    <3> QED  BY <1>1, <2>1, <3>1
  <2>3. b[Core] = a[Core] /\ b[Data] = a[Data]
    BY <1>1, <2>1
  <2>4. ASSUME HandedOver(a, setting, {}) PROVE HandedOver(b, setting, {n})
    <3>1. Certificates # Pinned(n)
      BY <1>1, PathLengths
    <3>2. Certificates \in DOMAIN b =>
            b[Certificates].group \in Shared(setting) \/ b[Certificates].to = ToEveryone
      BY <2>1, <2>4, <3>1, RightsTypes DEF HandedOver
    <3>3. ASSUME NEW m \in ServerNames, SelfSigned(m) \in DOMAIN b
          PROVE  b[CertificateDirectory(m)].group \in Shared(setting) /\ b[SelfSigned(m)].group \in Shared(setting)
      <4>1. SelfSigned(m) \in DOMAIN a /\ SelfSigned(m) # Pinned(n) /\ CertificateDirectory(m) # Pinned(n)
        BY <1>1, <2>1, <3>3, PathLengths, PathsDiffer
      <4>2. CertificateDirectory(m) \in DOMAIN a
        BY <1>2, <4>1
      <4> QED  BY <2>1, <2>4, <4>1, <4>2 DEF HandedOver
    <3>4. ASSUME accounts.group, NEW m \in StorageHosts \ {n}, Pinned(m) \in DOMAIN b
          PROVE  b[CertificateDirectory(m)].group \in Shared(setting) /\ b[Pinned(m)].group \in Shared(setting)
      <4>1. Pinned(m) \in DOMAIN a /\ Pinned(m) # Pinned(n) /\ CertificateDirectory(m) # Pinned(n)
            /\ m \in ServerNames
        BY <1>1, <2>1, <3>4, PathLengths, PathsDiffer, StorageAssumption
      <4>2. CertificateDirectory(m) \in DOMAIN a
        BY <1>2, <4>1
      <4> QED  BY <2>1, <2>4, <3>4, <4>1, <4>2 DEF HandedOver
    <3> QED  BY <3>2, <3>3, <3>4 DEF HandedOver
  <2>5. Prepared(b, setting, step, {n})
    BY <1>3, <2>2, <2>3, <2>4, PreparedStays
  <2> QED  BY <2>5 DEF b
<1>4. Prepared(PinRestricted(a, n), setting, step, pending)
  <2> DEFINE b == PinRestricted(a, n)
  <2>1. /\ DOMAIN b = DOMAIN a /\ \A p \in DOMAIN a \ {dir} : b[p] = a[p]
        /\ dir \in DOMAIN a => b[dir] = [a[dir] EXCEPT !.to = ToGroup]
    BY DEF PinRestricted, Chmod
  <2>2. /\ \A p \in DOMAIN a : b[p].group = a[p].group /\ b[p].user = a[p].user
        /\ Certificates # dir
    BY <1>1, <2>1, PathLengths DEF FilesSound, RightsType
  <2> HIDE DEF b
  <2>3. b[Core] = a[Core] /\ b[Data] = a[Data]
    BY <1>1, <2>1
  <2>4. HandedOver(a, setting, pending) => HandedOver(b, setting, pending)
    BY <1>2, <2>1, <2>2, StorageAssumption DEF HandedOver
  <2>5. Prepared(b, setting, step, pending)
    BY <2>1, <2>2, <2>3, <2>4, PreparedStays
  <2> QED  BY <2>5 DEF b
<1>5. ASSUME pending \subseteq {n}, setting \in {"direct", "external"}
      PROVE  Prepared(PinHandedOver(a, n), setting, step, {})
  <2> DEFINE b == PinHandedOver(a, n)
  <2>1. CASE ~ accounts.group
    <3>1. b = a
      BY <2>1 DEF PinHandedOver
    <3>2. HandedOver(a, setting, pending) => HandedOver(a, setting, {})
      BY <2>1 DEF HandedOver
    <3> QED  BY <3>1, <3>2, PreparedStays
  <2>2. CASE accounts.group
    <3>1. /\ DOMAIN b = DOMAIN a /\ \A p \in DOMAIN a \ Tree(n) : b[p] = a[p]
          /\ \A p \in DOMAIN a \cap Tree(n) : b[p] = [a[p] EXCEPT !.group = CertificateGroup]
      BY <1>1, <2>2, UnderPaths DEF PinHandedOver, Chgrp, FilesSound
    <3>2. \A p \in DOMAIN a \cap Tree(n) : b[p].group = CertificateGroup /\ b[p].user = a[p].user
      BY <3>1 DEF FilesSound, RightsType
    <3> HIDE DEF b
    <3>3. CertificateGroup \in Shared(setting)
      BY <1>5, <2>2 DEF Shared
    <3>4. Core \notin Tree(n) /\ Data \notin Tree(n) /\ Certificates \notin Tree(n)
      BY <1>1, CertificatesApart DEF Tree
    <3>5. b[Core] = a[Core] /\ b[Data] = a[Data]
      BY <3>1, <3>4
    <3>6. ASSUME HandedOver(a, setting, pending) PROVE HandedOver(b, setting, {})
      <4>1. \A m \in ServerNames \ {n} : {CertificateDirectory(m), Pinned(m), SelfSigned(m)} \cap Tree(n) = {}
        BY <1>1, CertificatesApart DEF Tree
      <4>2. {CertificateDirectory(n), Pinned(n), SelfSigned(n)} = Tree(n)
        BY DEF Tree
      <4>3. Certificates \in DOMAIN b =>
              b[Certificates].group \in Shared(setting) \/ b[Certificates].to = ToEveryone
        BY <3>1, <3>4, <3>6 DEF HandedOver
      <4>4. ASSUME NEW m \in ServerNames, SelfSigned(m) \in DOMAIN b
            PROVE  b[CertificateDirectory(m)].group \in Shared(setting) /\ b[SelfSigned(m)].group \in Shared(setting)
        <5>1. SelfSigned(m) \in DOMAIN a /\ CertificateDirectory(m) \in DOMAIN a
          BY <1>2, <3>1, <4>4
        <5>2. CASE m = n
          BY <3>2, <3>3, <4>2, <5>1, <5>2
        <5>3. CASE m # n
          BY <3>1, <3>6, <4>1, <5>1, <5>3 DEF HandedOver
        <5> QED  BY <5>2, <5>3
      <4>5. ASSUME NEW m \in StorageHosts, Pinned(m) \in DOMAIN b
            PROVE  b[CertificateDirectory(m)].group \in Shared(setting) /\ b[Pinned(m)].group \in Shared(setting)
        <5>1. Pinned(m) \in DOMAIN a /\ CertificateDirectory(m) \in DOMAIN a /\ m \in ServerNames
          BY <1>2, <3>1, <4>5, StorageAssumption
        <5>2. CASE m = n
          BY <3>2, <3>3, <4>2, <5>1, <5>2
        <5>3. CASE m # n
          BY <1>5, <2>2, <3>1, <3>6, <4>1, <5>1, <5>3 DEF HandedOver
        <5> QED  BY <5>2, <5>3
      <4> QED  BY <4>3, <4>4, <4>5 DEF HandedOver
    <3>7. \A p \in Daemons \cap DOMAIN b : p \in DOMAIN a /\ b[p].user = a[p].user
      BY <3>1, <3>2
    <3>8. Prepared(b, setting, step, {})
      BY <3>5, <3>6, <3>7, PreparedStays
    <3> QED  BY <3>8 DEF b
  <2> QED  BY <2>1, <2>2
<1> QED  BY <1>3, <1>4, <1>5

\* Every step of the preparation does its part and undoes none before it.
LEMMA StepPrepares ==
  ASSUME NEW a, FilesSound(a), {Core, Data} \subseteq DOMAIN a,
         NEW direct \in BOOLEAN, NEW step \in 1..LastStep(direct), Grantable(direct, step),
         NEW pending, Prepared(a, IF direct THEN "direct" ELSE "external", step, pending)
  PROVE  Prepared(PrepareDaemonStorage(a, direct, step), IF direct THEN "direct" ELSE "external",
                  step + 1, pending)
<1> DEFINE setting  == IF direct THEN "direct" ELSE "external"
           files == FilesUnder(a, Certificates)
           b     == PrepareDaemonStorage(a, direct, step)
<1>1. /\ Under(a, Etc) = ConfigPaths \cap DOMAIN a
      /\ Under(a, Data) = DataPaths \cap DOMAIN a
      /\ Under(a, Certificates) = CertificatePaths \cap DOMAIN a
      /\ files \subseteq CertificatePaths /\ Certificates \notin files
  BY UnderPaths DEF FilesSound
<1> SUFFICES Prepared(b, setting, step + 1, pending)
  OBVIOUS
<1>0. Prepared(a, setting, step, pending)
  OBVIOUS
<1>2. /\ Core \notin ConfigPaths \cup DataPaths /\ Daemons \subseteq ConfigPaths \cup DataPaths
      /\ (Daemons \cup {Core}) \cap CertificatePaths = {} /\ Core \notin Daemons /\ Data \in Daemons
      /\ ActiveConfig \notin Daemons \cup {Core, Data} /\ ActiveConfig \notin CertificatePaths
      /\ Certificates \notin {Core, Data, ActiveConfig} /\ Certificates \in CertificatePaths
  <2>1. Core \notin ConfigPaths \cup DataPaths
    BY PathLengths, PathsDiffer DEF ConfigPaths, DataPaths, CertificatePaths, Tree
  <2>2. Daemons \subseteq ConfigPaths \cup DataPaths /\ Data \in Daemons
    BY DEF Daemons, ConfigPaths, DataPaths
  <2>3. Core \notin Daemons /\ ActiveConfig \notin Daemons \cup {Core, Data}
    BY PathLengths, PathsDiffer DEF Daemons
  <2>4. ActiveConfig \notin CertificatePaths /\ Certificates \notin {Core, Data, ActiveConfig}
    BY PathLengths, SecretPaths DEF ManagedFiles
  <2> QED  BY <2>1, <2>2, <2>3, <2>4, CertificatesApart
<1>3. /\ \A p \in DOMAIN a : a[p] \in RightsType
      /\ \A n \in ServerNames : {Pinned(n), SelfSigned(n)} \cap DOMAIN a # {} => CertificateDirectory(n) \in DOMAIN a
  BY DEF FilesSound, Tree
<1>4. \A n \in ServerNames : {CertificateDirectory(n), Pinned(n), SelfSigned(n)} \subseteq CertificatePaths
  BY CertificatesApart
<1>5. setting \in {"direct", "external"} /\ (setting = "direct" <=> direct) /\ step \in 1..9
  BY DEF LastStep
<1> HIDE DEF setting, files
<1>0a. ForServices(a, step) /\ (direct => ForBoth(a, step, pending)) /\ (~ direct => ForCore(a, step, pending))
  BY <1>0, <1>5 DEF Prepared
<1>0b. SUFFICES /\ ForServices(b, step + 1)
                /\ direct => ForBoth(b, step + 1, pending)
                /\ ~ direct => ForCore(b, step + 1, pending)
  BY <1>5 DEF Prepared
<1>0c. step < 6 => ForBoth(b, step + 1, pending) /\ ForCore(b, step + 1, pending)
  BY <1>5 DEF ForBoth, ForCore
<1>6. CASE step = 1
  <2>1. b = Chown(a, Under(a, Etc) \cup Under(a, Data), "sbctl", "sbctl")
    BY <1>6 DEF PrepareDaemonStorage, PreparedForServices
  <2>2. \A p \in Daemons \cap DOMAIN b : b[p].user = "sbctl"
    BY <1>1, <1>2, <2>1, RightsTypes DEF Chown
  <2> QED  BY <1>0c, <1>6, <2>2 DEF ForServices
<1>7. CASE step = 2
  <2>1. b = Chown(a, {Core}, "root", "sing-box")
    BY <1>7 DEF PrepareDaemonStorage, PreparedForServices
  <2>2. /\ DOMAIN b = DOMAIN a /\ b[Core].group = "sing-box"
        /\ \A p \in DOMAIN a \ {Core} : b[p] = a[p]
    BY <2>1, RightsTypes DEF Chown
  <2> QED  BY <1>0a, <1>0c, <1>2, <1>7, <2>2 DEF ForServices
<1>8. CASE step = 3
  <2>1. b = Chmod(a, {Core}, ToGroup)
    BY <1>8 DEF PrepareDaemonStorage, PreparedForServices
  <2>2. /\ DOMAIN b = DOMAIN a /\ b[Core] = [a[Core] EXCEPT !.to = ToGroup]
        /\ \A p \in DOMAIN a \ {Core} : b[p] = a[p]
    BY <2>1 DEF Chmod
  <2>3. b[Core].to = ToGroup /\ b[Core].group = a[Core].group
    BY <1>3, <2>2 DEF RightsType
  <2> QED  BY <1>0a, <1>0c, <1>2, <1>8, <2>2, <2>3 DEF ForServices
<1>9. CASE step \in {4, 5}
  <2>1. b = Chown(a, {ActiveConfig}, "sing-box", "sing-box") \/ b = Chmod(a, {ActiveConfig}, ToGroup)
    BY <1>9 DEF PrepareDaemonStorage, PreparedForServices
  <2>2. DOMAIN b = DOMAIN a /\ \A p \in DOMAIN a \ {ActiveConfig} : b[p] = a[p]
    BY <2>1 DEF Chmod, Chown
  <2> QED  BY <1>0a, <1>0c, <1>2, <1>9, <2>2 DEF ForServices
<1>10. CASE direct /\ step = 6
  <2>0. direct /\ step = 6 /\ step + 1 = 7
    BY <1>10
  <2>0a. step = 6 /\ step + 1 = 7
    BY <1>10
  <2>0b. ForServices(a, step) /\ ForBoth(a, step, pending)
    BY <1>0a, <2>0, Zenon
  <2>1. b = Chgrp(a, {Data}, CertificateGroup)
    BY <2>0 DEF PrepareDaemonStorage, GrantedToBoth
  <2>2. /\ DOMAIN b = DOMAIN a /\ b[Data] = [a[Data] EXCEPT !.group = CertificateGroup]
        /\ \A p \in DOMAIN a \ {Data} : b[p] = a[p]
    BY <2>1 DEF Chgrp
  <2>3. b[Data].group = CertificateGroup /\ b[Data].user = a[Data].user
    BY <1>3, <2>2 DEF RightsType
  <2>4. Grouped
    BY <2>0 DEF Grantable, Grouped
  <2>5. ForServices(b, step + 1)
    BY <2>0b, <1>2, <2>0a, <2>2, <2>3 DEF ForServices
  <2>6. ForBoth(b, step + 1, pending)
    <3>1. ForBoth(b, 7, pending)
      BY <2>3, <2>4 DEF ForBoth
    <3> QED  BY <2>0, <3>1
  <2> QED  BY <2>0, <2>5, <2>6
<1>11. CASE direct /\ step = 7
  <2>0. direct /\ step = 7 /\ step + 1 = 8
    BY <1>11
  <2>0a. step = 7 /\ step + 1 = 8
    BY <1>11
  <2>0b. ForServices(a, step) /\ ForBoth(a, step, pending)
    BY <1>0a, <2>0, Zenon
  <2>1. b = Chmod(a, {Data}, ToGroup)
    BY <2>0 DEF PrepareDaemonStorage, GrantedToBoth
  <2>2. /\ DOMAIN b = DOMAIN a /\ b[Data] = [a[Data] EXCEPT !.to = ToGroup]
        /\ \A p \in DOMAIN a \ {Data} : b[p] = a[p]
    BY <2>1 DEF Chmod
  <2>3. b[Data].to = ToGroup /\ b[Data].group = a[Data].group /\ b[Data].user = a[Data].user
    BY <1>3, <2>2 DEF RightsType
  <2>4. ForServices(b, step + 1)
    BY <2>0b, <1>2, <2>0a, <2>2, <2>3 DEF ForServices
  <2>5. Grouped /\ b[Data].group = CertificateGroup
    BY <2>0b, <2>0a, <2>3 DEF ForBoth
  <2>6. ForBoth(b, 8, pending)
    BY <2>3, <2>5 DEF ForBoth
  <2> QED  BY <2>0, <2>4, <2>6
<1>12. CASE direct /\ step = 8
  <2>0. direct /\ step = 8 /\ step + 1 = 9
    BY <1>12
  <2>0a. step = 8 /\ step + 1 = 9
    BY <1>12
  <2>0b. ForServices(a, step) /\ ForBoth(a, step, pending)
    BY <1>0a, <2>0, Zenon
  <2>1. b = Chgrp(a, Under(a, Certificates), CertificateGroup)
    BY <2>0 DEF PrepareDaemonStorage, GrantedToBoth
  <2>2. /\ DOMAIN b = DOMAIN a
        /\ \A p \in DOMAIN a \cap CertificatePaths : b[p] = [a[p] EXCEPT !.group = CertificateGroup]
        /\ \A p \in DOMAIN a \ CertificatePaths : b[p] = a[p]
    BY <1>1, <2>1 DEF Chgrp
  <2>3. \A p \in DOMAIN a \cap CertificatePaths : b[p].group = CertificateGroup
    BY <1>3, <2>2 DEF RightsType
  <2>4. HandedOver(b, "direct", pending)
    BY <1>2, <1>3, <1>4, <2>2, <2>3, StorageAssumption DEF HandedOver, Shared
  <2>5. ForServices(b, step + 1)
    BY <2>0b, <1>2, <2>0a, <2>2 DEF ForServices
  <2>6. Grouped /\ b[Data].group = CertificateGroup /\ b[Data].to = ToGroup
    BY <2>0b, <1>2, <2>0a, <2>2 DEF ForBoth
  <2>7. ForBoth(b, 9, pending)
    BY <2>4, <2>6 DEF ForBoth
  <2> QED  BY <2>0, <2>5, <2>7
<1>13. CASE ~ direct /\ step = 6
  <2>0. ~ direct /\ step = 6 /\ step + 1 = 7
    BY <1>13
  <2>1. b = Chmod(a, {Data}, ToEveryone)
    BY <2>0 DEF PrepareDaemonStorage, GrantedToCore
  <2>2. /\ DOMAIN b = DOMAIN a /\ b[Data] = [a[Data] EXCEPT !.to = ToEveryone]
        /\ \A p \in DOMAIN a \ {Data} : b[p] = a[p]
    BY <2>1 DEF Chmod
  <2>3. b[Data].to = ToEveryone /\ b[Data].user = a[Data].user
    BY <1>3, <2>2 DEF RightsType
  <2>4. ForServices(b, step + 1)
    BY <1>0a, <1>2, <2>0, <2>2, <2>3 DEF ForServices
  <2>5. ForCore(b, 7, pending)
    BY <2>3 DEF ForCore
  <2> QED  BY <2>0, <2>4, <2>5
<1>14. CASE ~ direct /\ step = 7
  <2>0. ~ direct /\ step = 7 /\ step + 1 = 8
    BY <1>14
  <2>1. b = Chown(a, Under(a, Certificates), "root", "sing-box")
    BY <2>0 DEF PrepareDaemonStorage, GrantedToCore
  <2>2. /\ DOMAIN b = DOMAIN a
        /\ \A p \in DOMAIN a \cap CertificatePaths : b[p].group = "sing-box"
        /\ \A p \in DOMAIN a \ CertificatePaths : b[p] = a[p]
    BY <1>1, <2>1, RightsTypes DEF Chown
  <2>3. HandedOver(b, "external", pending)
    BY <1>2, <1>3, <1>4, <2>2, StorageAssumption DEF HandedOver, Shared
  <2>4. ForServices(b, step + 1)
    BY <1>0a, <1>2, <2>0, <2>2 DEF ForServices
  <2>5. ForCore(b, 8, pending)
    BY <1>0a, <1>2, <2>0, <2>2, <2>3 DEF ForCore
  <2> QED  BY <2>0, <2>4, <2>5
<1>15. CASE ~ direct /\ step \in {8, 9}
  <2>0. ~ direct /\ step \in {8, 9}
    BY <1>15
  <2>1. \/ b = Chmod(a, Under(a, Certificates) \ files, ToEveryone)
        \/ b = Chmod(a, files, ToGroup)
    BY <2>0 DEF PrepareDaemonStorage, GrantedToCore, files
  <2>2. /\ DOMAIN b = DOMAIN a
        /\ \A p \in DOMAIN a \cap CertificatePaths :
             b[p] = a[p] \/ b[p] = [a[p] EXCEPT !.to = ToEveryone] \/ b[p] = [a[p] EXCEPT !.to = ToGroup]
        /\ \A p \in DOMAIN a \ CertificatePaths : b[p] = a[p]
    BY <1>1, <2>1 DEF Chmod
  <2>3. \A p \in DOMAIN a \cap CertificatePaths : b[p].group = a[p].group
    BY <1>3, <2>2 DEF RightsType
  <2>4. Certificates \in DOMAIN a => b[Certificates].to \in {a[Certificates].to, ToEveryone}
    BY <1>1, <1>3, <2>1 DEF Chmod, RightsType
  <2>5. HandedOver(a, "external", pending)
    BY <1>0a, <2>0 DEF ForCore
  <2>6. HandedOver(b, "external", pending)
    BY <1>2, <1>3, <1>4, <2>2, <2>3, <2>4, <2>5, StorageAssumption DEF HandedOver
  <2>7. ForServices(b, step + 1)
    BY <1>0a, <1>2, <2>0, <2>2 DEF ForServices
  <2>8. ForCore(b, step + 1, pending)
    BY <1>0a, <1>2, <2>0, <2>2, <2>6 DEF ForCore
  <2> QED  BY <2>0, <2>7, <2>8
<1>16. \/ step = 1 \/ step = 2 \/ step = 3 \/ step \in {4, 5}
       \/ direct /\ (step = 6 \/ step = 7 \/ step = 8)
       \/ ~ direct /\ (step = 6 \/ step = 7 \/ step \in {8, 9})
  BY DEF LastStep
<1> QED
  BY <1>6, <1>7, <1>8, <1>9, <1>10, <1>11, <1>12, <1>13, <1>14, <1>15, <1>16

\* Past the last step there is nothing more to do.
LEMMA LastStepPrepares ==
  ASSUME NEW a, NEW direct \in BOOLEAN, NEW pending,
         Prepared(a, IF direct THEN "direct" ELSE "external", LastStep(direct) + 1, pending)
  PROVE  Prepared(a, IF direct THEN "direct" ELSE "external", 10, pending)
BY DEF Prepared, LastStep, ForServices, ForBoth, ForCore

LEMMA NothingPrepared ==
  ASSUME NEW a, NEW setting, NEW pending
  PROVE  Prepared(a, setting, 1, pending)
BY DEF Prepared, ForServices, ForBoth, ForCore

-------------------------------------------------------------------------------
(* The invariant *)

CommandSteps == {"none", "accounts", "units", "storage", "restart"}

StorageTypes ==
  /\ accounts \in [users : {{}, Services}, group : BOOLEAN, certificate : SUBSET Services]
  /\ settled \in Settings \cup {Absent}
  /\ command \in [step : CommandSteps, at : Nat, from : Settings \cup {Absent},
                  to : Settings \cup {Absent}]
  /\ hook \in [step : {"none", "write", "restrict", "hand over"}, host : StorageHosts \cup {Absent}]
  /\ hook.step # "none" => hook.host \in StorageHosts
  /\ readied \in {"none", "direct", "external"}

\* How far a command has come.
CommandInv ==
  /\ command.step # "none" => command.to \in Settings /\ settled = command.to
  /\ command.step = "accounts" => readied = "none"
  /\ command.step = "units" => command.from = Absent /\ readied = "none" /\ accounts.users = Services
  /\ command.step = "storage" => command.at \in 1..LastStep(command.to.direct)
  /\ command.step = "storage" /\ command.at > 1 => readied = "none"
  /\ command.step = "restart" => command.from # Absent
  /\ command.step \in {"storage", "restart"} \/ command.from # Absent \/ readied # "none" =>
       ActiveConfig \in DOMAIN access

SelfSignedOf(config) ==
  config # Absent /\ config.certificate = "self-signed" => SelfSigned(config.name) \in DOMAIN access

KeptFiles == {Etc, ConfigFile, Data, LockFile, Artifacts, Artifact}

\* What there is once sbctl is installed, and for the configurations a command is between.
InstalledInv ==
  /\ settled # Absent => KeptFiles \subseteq DOMAIN access
  /\ settled = Absent => DOMAIN access = {} /\ command = Idle /\ hook.step = "none"
  /\ ActiveConfig \in DOMAIN access => accounts.users = Services
  /\ SelfSignedOf(settled) /\ SelfSignedOf(command.from) /\ SelfSignedOf(command.to)

\* What the last preparation did is kept, by the commands and by publications after it.
PreparedInv ==
  /\ readied # "none" => Prepared(access, readied, 10, Pending)
  /\ command.step = "storage" => Prepared(access, Mode(command.to), command.at, Pending)

StorageInv == StorageTypes /\ FilesSound(access) /\ CommandInv /\ InstalledInv /\ PreparedInv

LEMMA StorageInitially ==
  ASSUME NEW changes \in Nat, NEW publications \in Nat, NEW failures \in Nat,
         NEW existing \in SUBSET EarlierAccounts, StorageInit(existing, changes, publications, failures)
  PROVE  StorageInv
<1>1. /\ settled = Absent /\ command = Idle /\ readied = "none" /\ accounts \in EarlierAccounts
      /\ hook = [step |-> "none", host |-> Absent] /\ DOMAIN access = {}
  BY DEF StorageInit
<1>2. /\ command.step = "none" /\ command.from = Absent /\ command.to = Absent /\ command.at = 0
      /\ hook.step = "none"
  BY <1>1 DEF Idle
<1>3. EarlierAccounts \subseteq [users : {{}, Services}, group : BOOLEAN, certificate : SUBSET Services]
  BY DEF EarlierAccounts, NoAccounts, Services
<1>4. StorageTypes
  BY <1>1, <1>2, <1>3 DEF StorageTypes, Idle, CommandSteps
<1>5. FilesSound(access)
  BY <1>1 DEF FilesSound
<1>6. CommandInv /\ InstalledInv /\ PreparedInv
  BY <1>1, <1>2 DEF CommandInv, InstalledInv, PreparedInv, SelfSignedOf
<1> QED  BY <1>4, <1>5, <1>6 DEF StorageInv

\* A write adds the file and its directory.
LEMMA WriteDomain ==
  ASSUME NEW a, NEW path \in ManagedFiles
  PROVE  LET b == ManagedWrite(a, path) IN
         /\ DOMAIN a \cup {path, Directory(path)} \subseteq DOMAIN b
         /\ path # ActiveConfig /\ ActiveConfig \in DOMAIN b => ActiveConfig \in DOMAIN a
<1> DEFINE dir == Directory(path)
           made == IF dir \in DOMAIN a THEN {} ELSE Parents(dir) \cup {dir}
<1>1. DOMAIN ManagedWrite(a, path) = DOMAIN a \cup {path} \cup made
  BY WriteReplaces
<1>2. ActiveConfig \notin Parents(dir) \cup {dir}
  BY PathParents, PathLengths, PathsDiffer DEF ManagedFiles
<1> QED  BY <1>1, <1>2

\* A deployment's files written again, in the order of a transaction.
LEMMA RewrittenSound ==
  ASSUME NEW a, FilesSound(a), accounts.users = Services
  PROVE  LET b == ManagedWrite(ManagedWrite(ManagedWrite(a, Artifact), ActiveConfig), ConfigFile) IN
         FilesSound(b) /\ DOMAIN a \cup {ActiveConfig} \subseteq DOMAIN b
<1> DEFINE b1 == ManagedWrite(a, Artifact)
           b2 == ManagedWrite(b1, ActiveConfig)
<1>0. {Artifact, ActiveConfig, ConfigFile} \subseteq ManagedFiles
  BY DEF ManagedFiles
<1>1. FilesSound(b1) /\ DOMAIN a \subseteq DOMAIN b1
  BY <1>0, WriteSound, WriteDomain
<1> HIDE DEF b1
<1>2. FilesSound(b2) /\ DOMAIN b1 \cup {ActiveConfig} \subseteq DOMAIN b2
  BY <1>0, <1>1, WriteSound, WriteDomain
<1> HIDE DEF b2
<1>3. FilesSound(ManagedWrite(b2, ConfigFile)) /\ DOMAIN b2 \subseteq DOMAIN ManagedWrite(b2, ConfigFile)
  BY <1>0, <1>2, WriteSound, WriteDomain
<1> QED  BY <1>1, <1>2, <1>3 DEF b1, b2

LEMMA RewrittenKeepsPrepared ==
  ASSUME NEW a, FilesSound(a), accounts.users = Services, {Etc, Core, Data, Artifacts} \subseteq DOMAIN a,
         NEW setting, NEW step, NEW pending, Prepared(a, setting, step, pending)
  PROVE  LET b == ManagedWrite(ManagedWrite(ManagedWrite(a, Artifact), ActiveConfig), ConfigFile) IN
         Prepared(b, setting, step, pending)
<1> DEFINE b1 == ManagedWrite(a, Artifact)
           b2 == ManagedWrite(b1, ActiveConfig)
           There == {Etc, Core, Data, Artifacts}
<1>0. {Artifact, ActiveConfig, ConfigFile} \subseteq ManagedFiles
  BY DEF ManagedFiles
<1>1. FilesSound(b1) /\ There \subseteq DOMAIN b1 /\ Prepared(b1, setting, step, pending)
  BY <1>0, WriteSound, WriteKeepsPrepared
<1> HIDE DEF b1
<1>2. FilesSound(b2) /\ There \subseteq DOMAIN b2 /\ Prepared(b2, setting, step, pending)
  BY <1>0, <1>1, WriteSound, WriteKeepsPrepared
<1> HIDE DEF b2
<1>3. Prepared(ManagedWrite(b2, ConfigFile), setting, step, pending)
  BY <1>0, <1>2, WriteKeepsPrepared
<1> QED  BY <1>3 DEF b1, b2

\* The next state's invariant, for an action that leaves the accounts alone.
LEMMA PreparedNext ==
  ASSUME accounts' = accounts,
         readied' # "none" => Prepared(access', readied', 10, Pending'),
         command'.step = "storage" => Prepared(access', Mode(command'.to), command'.at, Pending')
  PROVE  PreparedInv'
BY DEF PreparedInv, Prepared, ForServices, ForBoth, ForCore, HandedOver, Shared, Grouped, Mode

LEMMA InstallFilesKeeps ==
  ASSUME StorageInv, NEW config \in Settings, InstallFiles(config)
  PROVE  StorageInv'
<1> DEFINE a1 == SelfSignedEnsured(access, config)
           a2 == LockOpened(a1)
           a3 == ManagedWrite(a2, Artifact)
           a4 == ManagedWrite(a3, ConfigFile)
<1>1. /\ settled = Absent /\ command = Idle /\ settled' = config /\ access' = a4
      /\ accounts' = accounts /\ hook' = hook /\ readied' = readied
      /\ command' = [step |-> "accounts", at |-> 0, from |-> Absent, to |-> config]
  BY DEF InstallFiles
<1>2. /\ FilesSound(access) /\ DOMAIN access = {} /\ hook.step = "none" /\ readied = "none"
  BY <1>1 DEF StorageInv, InstalledInv, CommandInv
<1>3. /\ FilesSound(a1) /\ DOMAIN a1 \subseteq {VarLib, Data} \cup CertificatePaths
      /\ config.certificate = "self-signed" => SelfSigned(config.name) \in DOMAIN a1
  BY <1>2, GeneratedSound
<1>4. ({VarLib, Data} \cup CertificatePaths) \cap {LockFile, ActiveConfig} = {}
  BY PathLengths, PathsDiffer, SecretPaths DEF ManagedFiles
<1> HIDE DEF a1
<1>5. /\ FilesSound(a2) /\ DOMAIN a1 \cup {Data, LockFile} \subseteq DOMAIN a2
      /\ ActiveConfig \notin DOMAIN a2
  <2>1. LockFile \notin DOMAIN a1
    BY <1>3, <1>4
  <2>2. ActiveConfig \notin {VarLib, Data, LockFile}
    BY <1>4, PathLengths, PathsDiffer
  <2> QED  BY <1>3, <1>4, <2>1, <2>2, LockSound
<1> HIDE DEF a2
<1>6. {Artifact, ConfigFile} \subseteq ManagedFiles /\ ActiveConfig \notin {Artifact, ConfigFile}
      /\ Directory(Artifact) = Artifacts /\ Directory(ConfigFile) = Etc
  BY PathLengths, PathsDiffer, PathParents DEF ManagedFiles
<1>7. /\ FilesSound(a3) /\ DOMAIN a2 \cup {Artifact, Artifacts} \subseteq DOMAIN a3
      /\ ActiveConfig \notin DOMAIN a3
  BY <1>5, <1>6, WriteSound, WriteDomain
<1> HIDE DEF a3
<1>8. /\ FilesSound(a4) /\ DOMAIN a3 \cup {ConfigFile, Etc} \subseteq DOMAIN a4
      /\ ActiveConfig \notin DOMAIN a4
  BY <1>6, <1>7, WriteSound, WriteDomain
<1> HIDE DEF a4
<1>9. StorageTypes'
  BY <1>1 DEF StorageInv, StorageTypes, CommandSteps
<1>10. CommandInv'
  BY <1>1, <1>2 DEF CommandInv
<1>11. config # Absent
  BY StorageAssumption
<1>12. InstalledInv'
  BY <1>1, <1>3, <1>5, <1>7, <1>8, <1>11 DEF InstalledInv, SelfSignedOf, KeptFiles
<1>13. PreparedInv'
  BY <1>1, <1>2 DEF PreparedInv
<1> QED  BY <1>1, <1>8, <1>9, <1>10, <1>12, <1>13 DEF StorageInv

\* What an installed deployment has.
LEMMA InstalledHas ==
  ASSUME StorageInv, ActiveConfig \in DOMAIN access
  PROVE  /\ settled \in Settings /\ settled # Absent /\ accounts.users = Services
         /\ KeptFiles \cup {Core} \subseteq DOMAIN access /\ FilesSound(access)
BY DEF StorageInv, InstalledInv, StorageTypes, FilesSound

LEMMA ApplyConfigKeeps ==
  ASSUME StorageInv, NEW config \in Settings, ApplyConfig(config)
  PROVE  StorageInv'
<1> DEFINE a1 == SelfSignedEnsured(access, config)
           a2 == ManagedWrite(ManagedWrite(ManagedWrite(a1, Artifact), ActiveConfig), ConfigFile)
<1>1. /\ ActiveConfig \in DOMAIN access /\ command = Idle /\ settled' = config /\ access' = a2
      /\ accounts' = accounts /\ hook' = hook
      /\ readied' = IF config = settled THEN readied ELSE "none"
      /\ command' = [step |-> IF config = settled THEN "storage" ELSE "accounts", at |-> 1,
                     from |-> settled, to |-> config]
  BY DEF ApplyConfig, Installed
<1>2. /\ settled \in Settings /\ accounts.users = Services
      /\ KeptFiles \cup {Core} \subseteq DOMAIN access /\ FilesSound(access)
  BY <1>1, InstalledHas
<1>3. /\ FilesSound(a1) /\ DOMAIN access \subseteq DOMAIN a1
      /\ config.certificate = "self-signed" => SelfSigned(config.name) \in DOMAIN a1
      /\ config = settled => a1 = access
  BY <1>2, GeneratedSound, StorageAssumption DEF StorageInv, InstalledInv, SelfSignedOf
<1> HIDE DEF a1
<1>4. FilesSound(a2) /\ DOMAIN a1 \cup {ActiveConfig} \subseteq DOMAIN a2
  BY <1>2, <1>3, RewrittenSound
<1>5. config # Absent /\ settled # Absent
  BY <1>2, StorageAssumption
<1>6. StorageTypes'
  BY <1>1, <1>2 DEF StorageInv, StorageTypes, CommandSteps
<1>7. CommandInv'
  BY <1>1, <1>4 DEF CommandInv, LastStep
<1>8. InstalledInv'
  BY <1>1, <1>2, <1>3, <1>4, <1>5 DEF StorageInv, InstalledInv, SelfSignedOf
<1>9. PreparedInv'
  <2>1. Pending' = Pending
    BY <1>1 DEF Pending
  <2>2. CASE config # settled
    <3>1. readied' = "none" /\ command'.step # "storage"
      BY <1>1, <2>2
    <3> QED  BY <3>1 DEF PreparedInv
  <2>3. CASE config = settled
    <3>1. readied' = readied /\ command'.at = 1
      BY <1>1, <2>3
    <3>2. readied # "none" => Prepared(a2, readied, 10, Pending)
      BY <1>2, <1>3, <2>3, RewrittenKeepsPrepared DEF StorageInv, PreparedInv, KeptFiles
    <3>3. Prepared(access', Mode(command'.to), command'.at, Pending')
      BY <3>1, NothingPrepared
    <3> HIDE DEF a2
    <3> QED  BY <1>1, <2>1, <3>1, <3>2, <3>3, PreparedNext
  <2> QED  BY <2>2, <2>3
<1> QED  BY <1>1, <1>4, <1>6, <1>7, <1>8, <1>9 DEF StorageInv

\* The accounts, whether all of them were made.
AccountsMade ==
  {accounts, DaemonAccounts} \cup {CertificateGroupWith(some) : some \in {{}, {"sbctl"}, Services}}

LEMMA AccountsMadeTypes ==
  ASSUME StorageTypes, NEW made \in AccountsMade
  PROVE  /\ made \in [users : {{}, Services}, group : BOOLEAN, certificate : SUBSET Services]
         /\ accounts.users = Services => made.users = Services
         /\ made # accounts => made.users = Services
<1> DEFINE T == [users : {{}, Services}, group : BOOLEAN, certificate : SUBSET Services]
<1>1. accounts \in T
  BY DEF StorageTypes
<1>2. CASE made = accounts
  BY <1>1, <1>2
<1>3. CASE made = DaemonAccounts
  BY <1>1, <1>3 DEF DaemonAccounts
<1>4. CASE \E some \in {{}, {"sbctl"}, Services} : made = CertificateGroupWith(some)
  <2>1. PICK some \in {{}, {"sbctl"}, Services} : made = CertificateGroupWith(some)
    BY <1>4
  <2>2. accounts.certificate \cup some \in SUBSET Services
    BY <1>1 DEF Services
  <2> QED  BY <1>1, <2>1, <2>2 DEF CertificateGroupWith
<1> QED  BY <1>2, <1>3, <1>4 DEF AccountsMade

LEMMA AccountsKeeps ==
  ASSUME StorageInv, Accounts
  PROVE  StorageInv'
<1>1. /\ command.step = "accounts" /\ accounts' = AccountsEnsured(command.to.direct)
      /\ command' = [command EXCEPT !.step = IF command.from = Absent THEN "units" ELSE "storage", !.at = 1]
      /\ access' = access /\ settled' = settled /\ hook' = hook /\ readied' = readied
  BY DEF Accounts
<1>2. /\ command.to \in Settings /\ settled = command.to /\ readied = "none" /\ StorageTypes
  BY <1>1 DEF StorageInv, CommandInv
<1>3. /\ command'.step = (IF command.from = Absent THEN "units" ELSE "storage") /\ command'.at = 1
      /\ command'.from = command.from /\ command'.to = command.to
      /\ command' \in [step : CommandSteps, at : Nat, from : Settings \cup {Absent}, to : Settings \cup {Absent}]
  BY <1>1, <1>2 DEF StorageTypes, CommandSteps
<1>4. accounts' \in AccountsMade /\ accounts'.users = Services
  BY <1>1, <1>2, AccountsMadeTypes DEF AccountsMade, AccountsEnsured, StorageTypes, DaemonAccounts, CertificateGroupWith
<1>5. StorageTypes'
  BY <1>1, <1>2, <1>3, <1>4, AccountsMadeTypes DEF StorageTypes
<1>6. CommandInv'
  <2>1. 1 \in 1..LastStep(command.to.direct)
    BY DEF LastStep
  <2> QED  BY <1>1, <1>2, <1>3, <1>4, <2>1 DEF StorageInv, CommandInv
<1>7. InstalledInv'
  BY <1>1, <1>2, <1>3, <1>4, StorageAssumption DEF StorageInv, InstalledInv, SelfSignedOf
<1>8. PreparedInv'
  BY <1>1, <1>2, <1>3 DEF PreparedInv, Prepared, ForServices, ForBoth, ForCore
<1> QED  BY <1>1, <1>5, <1>6, <1>7, <1>8 DEF StorageInv

LEMMA InstallPinnedKeeps ==
  ASSUME StorageInv, InstallPinned
  PROVE  StorageInv'
<1> DEFINE host == command.to.host
           handed == PinHandedOver(PinRestricted(PinWritten(access, host), host), host)
<1>1. PICK issued \in {command.to.direct, FALSE} :
        access' = ManagedWrite(ManagedWrite(IF issued THEN handed ELSE access, StateFile), ActiveConfig)
  BY DEF InstallPinned
<1>2. /\ command.step = "units" /\ command' = [command EXCEPT !.step = "storage", !.at = 1]
      /\ accounts' = accounts /\ settled' = settled /\ hook' = hook /\ readied' = readied
  BY DEF InstallPinned
<1>3. /\ command.to \in Settings /\ settled = command.to /\ readied = "none" /\ StorageTypes
      /\ accounts.users = Services /\ FilesSound(access)
  BY <1>2 DEF StorageInv, CommandInv
<1>4. /\ command'.step = "storage" /\ command'.at = 1
      /\ command'.from = command.from /\ command'.to = command.to
      /\ command' \in [step : CommandSteps, at : Nat, from : Settings \cup {Absent}, to : Settings \cup {Absent}]
  BY <1>2, <1>3 DEF StorageTypes, CommandSteps
<1>5. host \in ServerNames
  BY <1>3, StorageAssumption DEF Settings
<1>6. FilesSound(handed) /\ DOMAIN access \subseteq DOMAIN handed
  <2> DEFINE p1 == PinWritten(access, host)
             p2 == PinRestricted(p1, host)
  <2> HIDE DEF host
  <2>1. FilesSound(p1) /\ DOMAIN access \subseteq DOMAIN p1
    BY <1>3, <1>5, PinSound
  <2> HIDE DEF p1
  <2>2. FilesSound(p2) /\ DOMAIN p2 = DOMAIN p1
    BY <1>5, <2>1, PinSound
  <2> HIDE DEF p2
  <2>3. FilesSound(PinHandedOver(p2, host)) /\ DOMAIN PinHandedOver(p2, host) = DOMAIN p2
    BY <1>5, <2>2, PinSound
  <2> QED  BY <2>1, <2>2, <2>3 DEF p1, p2
<1> HIDE DEF handed
<1> DEFINE a1 == IF issued THEN handed ELSE access
           a2 == ManagedWrite(a1, StateFile)
<1>7. FilesSound(a1) /\ DOMAIN access \subseteq DOMAIN a1
  BY <1>3, <1>6
<1>8. {StateFile, ActiveConfig} \subseteq ManagedFiles
  BY DEF ManagedFiles
<1> HIDE DEF a1
<1>9. FilesSound(a2) /\ DOMAIN a1 \subseteq DOMAIN a2
  BY <1>3, <1>7, <1>8, WriteSound, WriteDomain
<1>10. access' = ManagedWrite(a2, ActiveConfig)
  BY <1>1 DEF a1
<1> HIDE DEF a2
<1>11. FilesSound(access') /\ DOMAIN access \cup {ActiveConfig} \subseteq DOMAIN access'
  BY <1>3, <1>7, <1>8, <1>9, <1>10, WriteSound, WriteDomain
<1>12. StorageTypes'
  BY <1>2, <1>3, <1>4 DEF StorageTypes
<1>13. CommandInv'
  BY <1>2, <1>3, <1>4, <1>11 DEF CommandInv, LastStep
<1>14. InstalledInv'
  BY <1>2, <1>3, <1>4, <1>11, StorageAssumption DEF StorageInv, InstalledInv, SelfSignedOf
<1>15. PreparedInv'
  BY <1>2, <1>3, <1>4, NothingPrepared, PreparedNext
<1> QED  BY <1>11, <1>12, <1>13, <1>14, <1>15 DEF StorageInv

LEMMA StorageKeeps ==
  ASSUME StorageInv, Storage
  PROVE  StorageInv'
<1> DEFINE direct == command.to.direct
           at     == command.at
           setting   == Mode(command.to)
<1>1. /\ command.step = "storage" /\ Grantable(direct, at)
      /\ access' = PrepareDaemonStorage(access, direct, at)
      /\ accounts' = accounts /\ settled' = settled /\ hook' = hook
      /\ IF at < LastStep(direct)
         THEN command' = [command EXCEPT !.at = @ + 1] /\ readied' = "none"
         ELSE /\ readied' = setting
              /\ command' = IF command.from \in {Absent, command.to} THEN Idle
                            ELSE [command EXCEPT !.step = "restart"]
  BY DEF Storage
<1>2. /\ command.to \in Settings /\ settled = command.to /\ StorageTypes /\ at \in 1..LastStep(direct)
      /\ ActiveConfig \in DOMAIN access
  BY <1>1 DEF StorageInv, CommandInv
<1>3. /\ FilesSound(access) /\ accounts.users = Services /\ KeptFiles \cup {Core} \subseteq DOMAIN access
      /\ settled # Absent
  BY <1>2, InstalledHas
<1>4. direct \in BOOLEAN /\ LastStep(direct) \in {8, 9} /\ at \in Nat
  BY <1>2 DEF Settings, LastStep
<1>5. FilesSound(access') /\ DOMAIN access' = DOMAIN access
  <2> HIDE DEF direct, at
  <2> QED  BY <1>1, <1>2, <1>3, <1>4, StepSound
<1>6. setting = IF direct THEN "direct" ELSE "external"
  BY DEF Mode
<1>7. Prepared(access, setting, at, Pending)
  BY <1>1 DEF StorageInv, PreparedInv
<1>8. Prepared(access', setting, at + 1, Pending)
  <2>1. {Core, Data} \subseteq DOMAIN access
    BY <1>3 DEF KeptFiles
  <2> DEFINE pending == Pending
  <2>2. Prepared(access, IF direct THEN "direct" ELSE "external", at, pending)
    BY <1>6, <1>7
  <2> HIDE DEF direct, at, pending, setting
  <2>3. Prepared(PrepareDaemonStorage(access, direct, at), IF direct THEN "direct" ELSE "external", at + 1, pending)
    BY <1>1, <1>2, <1>3, <1>4, <2>1, <2>2, StepPrepares
  <2> QED  BY <1>1, <1>6, <2>3 DEF pending
<1>9. Pending' = Pending
  BY <1>1 DEF Pending
<1>10. CASE at < LastStep(direct)
  <2>1. /\ command'.step = "storage" /\ command'.at = at + 1 /\ readied' = "none"
        /\ command'.from = command.from /\ command'.to = command.to
        /\ command' \in [step : CommandSteps, at : Nat, from : Settings \cup {Absent}, to : Settings \cup {Absent}]
    <3>1. command' = [command EXCEPT !.at = command.at + 1] /\ readied' = "none"
      BY <1>1, <1>10
    <3>2. /\ command \in [step : CommandSteps, at : Nat, from : Settings \cup {Absent}, to : Settings \cup {Absent}]
          /\ command.at + 1 \in Nat /\ command.step = "storage"
      <4>1. command.at \in Nat
        BY <1>4
      <4>2. command.at + 1 \in Nat
        BY <4>1
      <4>3. command \in [step : CommandSteps, at : Nat, from : Settings \cup {Absent}, to : Settings \cup {Absent}]
        BY <1>2 DEF StorageTypes
      <4> QED  BY <1>1, <4>2, <4>3
    <3> QED  BY <3>1, <3>2
  <2>2. at + 1 \in 1..LastStep(direct)
    BY <1>2, <1>4, <1>10
  <2>3. StorageTypes'
    BY <1>1, <1>2, <2>1 DEF StorageTypes
  <2>4. CommandInv'
    BY <1>1, <1>2, <1>5, <2>1, <2>2 DEF CommandInv
  <2>5. InstalledInv'
    BY <1>1, <1>3, <1>5, <2>1 DEF StorageInv, InstalledInv, SelfSignedOf
  <2>6. Mode(command'.to) = setting
    BY <2>1
  <2>7. Prepared(access', Mode(command'.to), command'.at, Pending')
    BY <1>8, <1>9, <2>1, <2>6
  <2>8. PreparedInv'
    BY <1>1, <2>1, <2>7, PreparedNext
  <2> QED  BY <1>5, <2>3, <2>4, <2>5, <2>8 DEF StorageInv
<1>11. CASE at = LastStep(direct)
  <2>0. ~ (at < LastStep(direct))
    BY <1>4, <1>11
  <2>1. /\ readied' = setting
        /\ command' = IF command.from \in {Absent, command.to} THEN Idle
                      ELSE [command EXCEPT !.step = "restart"]
    BY <1>1, <2>0
  <2>3. /\ command' \in [step : CommandSteps, at : Nat, from : Settings \cup {Absent}, to : Settings \cup {Absent}]
        /\ command'.step \in {"none", "restart"}
        /\ command'.step = "restart" => command'.from # Absent /\ command'.to = command.to
        /\ command'.from \in {Absent, command.from} /\ command'.to \in {Absent, command.to}
    <3>1. CASE command.from \in {Absent, command.to}
      BY <2>1, <3>1 DEF Idle, CommandSteps
    <3>2. CASE command.from \notin {Absent, command.to}
      <4>1. command' = [command EXCEPT !.step = "restart"]
        BY <2>1, <3>2
      <4> QED  BY <1>2, <3>2, <4>1 DEF StorageTypes, CommandSteps
    <3> QED  BY <3>1, <3>2
  <2>4. StorageTypes'
    BY <1>1, <1>2, <1>6, <2>1, <2>3 DEF StorageTypes
  <2>5. CommandInv'
    BY <1>1, <1>2, <1>5, <2>1, <2>3 DEF CommandInv
  <2>6. InstalledInv'
    BY <1>1, <1>3, <1>5, <2>3 DEF StorageInv, InstalledInv, SelfSignedOf
  <2>7. Prepared(access', setting, 10, Pending')
    <3> DEFINE pending == Pending
    <3>1. Prepared(access', IF direct THEN "direct" ELSE "external", LastStep(direct) + 1, pending)
      BY <1>6, <1>8, <1>11
    <3> HIDE DEF direct, pending
    <3>2. Prepared(access', IF direct THEN "direct" ELSE "external", 10, pending)
      BY <1>4, <3>1, LastStepPrepares
    <3> QED  BY <1>6, <1>9, <3>2 DEF pending
  <2>8. PreparedInv'
    BY <1>1, <2>1, <2>3, <2>7, PreparedNext
  <2> QED  BY <1>5, <2>4, <2>5, <2>6, <2>8 DEF StorageInv
<1> QED  BY <1>2, <1>4, <1>10, <1>11

LEMMA StorageFailsKeeps ==
  ASSUME StorageInv, StorageFails
  PROVE  StorageInv'
<1>1. /\ command.from # Absent /\ command' = Idle /\ readied' = "none"
      /\ access' = access /\ settled' = settled /\ hook' = hook
  BY DEF StorageFails
<1>2. accounts' \in AccountsMade
  BY DEF StorageFails, AccountsMade
<1>3. StorageTypes
  BY DEF StorageInv
<1>4. /\ accounts' \in [users : {{}, Services}, group : BOOLEAN, certificate : SUBSET Services]
      /\ accounts.users = Services => accounts'.users = Services
  BY <1>2, <1>3, AccountsMadeTypes
<1>5. command'.step = "none" /\ command'.from = Absent /\ command'.to = Absent /\ command'.at = 0
  BY <1>1 DEF Idle
<1>6. StorageTypes'
  BY <1>1, <1>3, <1>4 DEF StorageTypes, Idle, CommandSteps
<1>7. CommandInv'
  BY <1>1, <1>5 DEF CommandInv
<1>8. InstalledInv'
  BY <1>1, <1>4, <1>5 DEF StorageInv, InstalledInv, SelfSignedOf
<1>9. PreparedInv'
  BY <1>1, <1>5 DEF PreparedInv
<1> QED  BY <1>1, <1>6, <1>7, <1>8, <1>9 DEF StorageInv

LEMMA RestartServicesKeeps ==
  ASSUME StorageInv, RestartServices
  PROVE  StorageInv'
<1>1. /\ command.step = "restart" /\ command' = Idle /\ readied' = readied /\ accounts' = accounts
      /\ access' = access /\ settled' = settled /\ hook' = hook
  BY DEF RestartServices
<1>2. command'.step = "none" /\ command'.from = Absent /\ command'.to = Absent
  BY <1>1 DEF Idle
<1>3. StorageTypes'
  BY <1>1 DEF StorageInv, StorageTypes, Idle, CommandSteps
<1>4. ActiveConfig \in DOMAIN access
  BY <1>1 DEF StorageInv, CommandInv
<1>5. CommandInv' /\ InstalledInv'
  BY <1>1, <1>2, <1>4, InstalledHas DEF StorageInv, CommandInv, InstalledInv, SelfSignedOf
<1>6. PreparedInv'
  BY <1>1, <1>2, PreparedNext DEF StorageInv, PreparedInv, Pending
<1> QED  BY <1>1, <1>3, <1>5, <1>6 DEF StorageInv

LEMMA RestartServicesFailsKeeps ==
  ASSUME StorageInv, RestartServicesFails
  PROVE  StorageInv'
<1>1. /\ command.step = "restart" /\ command' = Idle /\ readied' = readied /\ accounts' = accounts
      /\ settled' = command.from /\ hook' = hook
      /\ access' = ManagedWrite(ManagedWrite(ManagedWrite(access, Artifact), ActiveConfig), ConfigFile)
  BY DEF RestartServicesFails
<1>2. command'.step = "none" /\ command'.from = Absent /\ command'.to = Absent
  BY <1>1 DEF Idle
<1>3. ActiveConfig \in DOMAIN access /\ command.from \in Settings /\ command.from # Absent
  BY <1>1 DEF StorageInv, CommandInv, StorageTypes
<1>4. /\ accounts.users = Services /\ KeptFiles \cup {Core} \subseteq DOMAIN access /\ FilesSound(access)
  BY <1>3, InstalledHas
<1>5. FilesSound(access') /\ DOMAIN access \subseteq DOMAIN access'
  BY <1>1, <1>4, RewrittenSound
<1>6. StorageTypes'
  BY <1>1, <1>3 DEF StorageInv, StorageTypes, Idle, CommandSteps
<1>7. CommandInv' /\ InstalledInv'
  BY <1>1, <1>2, <1>3, <1>4, <1>5 DEF StorageInv, CommandInv, InstalledInv, SelfSignedOf
<1>8. readied # "none" => Prepared(access', readied, 10, Pending)
  <2> DEFINE pending == Pending
  <2>1. readied # "none" => Prepared(access, readied, 10, pending)
    BY DEF StorageInv, PreparedInv
  <2> HIDE DEF pending
  <2>2. readied # "none" => Prepared(access', readied, 10, pending)
    BY <1>1, <1>4, <2>1, RewrittenKeepsPrepared DEF KeptFiles
  <2> QED  BY <2>2 DEF pending
<1>9. PreparedInv'
  BY <1>1, <1>2, <1>8, PreparedNext DEF Pending
<1> QED  BY <1>5, <1>6, <1>7, <1>9 DEF StorageInv

\* Steps beside the command: the daemon's write, and a publication.
LEMMA BesideCommand ==
  ASSUME StorageInv, settled # Absent,
         accounts' = accounts, settled' = settled, command' = command, readied' = readied,
         FilesSound(access'), DOMAIN access \subseteq DOMAIN access',
         ActiveConfig \in DOMAIN access' => ActiveConfig \in DOMAIN access,
         hook' \in [step : {"none", "write", "restrict", "hand over"}, host : StorageHosts \cup {Absent}],
         hook'.step # "none" => hook'.host \in StorageHosts,
         readied # "none" => Prepared(access', readied, 10, Pending'),
         command.step = "storage" => Prepared(access', Mode(command.to), command.at, Pending')
  PROVE  StorageInv'
<1>1. StorageTypes'
  BY DEF StorageInv, StorageTypes
<1>2. CommandInv' /\ InstalledInv'
  BY DEF StorageInv, CommandInv, InstalledInv, SelfSignedOf
<1>3. PreparedInv'
  BY PreparedNext
<1> QED  BY <1>1, <1>2, <1>3 DEF StorageInv

LEMMA WriteStateKeeps ==
  ASSUME StorageInv, WriteState
  PROVE  StorageInv'
<1>1. /\ ActiveConfig \in DOMAIN access /\ StateFile \in DOMAIN access
      /\ access' = ManagedWrite(access, StateFile)
      /\ accounts' = accounts /\ settled' = settled /\ command' = command /\ readied' = readied
      /\ hook' = hook
  BY DEF WriteState, Installed
<1>2. /\ settled # Absent /\ accounts.users = Services
      /\ {Etc, Core, Data, Artifacts} \subseteq DOMAIN access /\ FilesSound(access)
      /\ StateFile \in ManagedFiles
  BY <1>1, InstalledHas DEF KeptFiles, ManagedFiles
<1>3. FilesSound(access') /\ DOMAIN access \subseteq DOMAIN access'
  BY <1>1, <1>2, WriteSound, WriteDomain
<1> DEFINE pending == Pending
<1>4. /\ readied # "none" => Prepared(access, readied, 10, pending)
      /\ command.step = "storage" => Prepared(access, Mode(command.to), command.at, pending)
  BY DEF StorageInv, PreparedInv
<1>5. pending' = pending
  BY <1>1 DEF Pending
<1> HIDE DEF pending
<1>6. /\ readied # "none" => Prepared(access', readied, 10, pending)
      /\ command.step = "storage" => Prepared(access', Mode(command.to), command.at, pending)
  BY <1>1, <1>2, <1>4, WriteKeepsPrepared
<1>7. StorageTypes
  BY DEF StorageInv
<1> QED  BY <1>1, <1>2, <1>3, <1>5, <1>6, <1>7, BesideCommand DEF pending, StorageTypes

LEMMA PublishKeeps ==
  ASSUME StorageInv, Publish, UNCHANGED <<accounts, settled, command, readied>>
  PROVE  StorageInv'
<1>1. StorageTypes /\ settled # Absent /\ FilesSound(access)
  <2>1. hook.step # "none" \/ Installed
    BY DEF Publish
  <2> QED  BY <2>1 DEF StorageInv, InstalledInv, Installed
<1>2. /\ readied # "none" => Prepared(access, readied, 10, Pending) /\ readied \in {"direct", "external"}
      /\ command.step = "storage" => Prepared(access, Mode(command.to), command.at, Pending)
      /\ Mode(command.to) \in {"direct", "external"}
  BY <1>1 DEF StorageInv, PreparedInv, StorageTypes, Mode
<1>3. readied # "none" \/ command.step = "storage" => {Core, Data} \subseteq DOMAIN access
  BY InstalledHas DEF StorageInv, CommandInv, KeptFiles
<1>4. CASE hook.step = "none" /\ hook' = [step |-> "write", host |-> settled.host] /\ access' = access
  <2>1. hook'.step = "write" /\ settled.host \in StorageHosts /\ hook'.host = settled.host
    BY <1>1, <1>4 DEF StorageTypes, Settings
  <2>2. Pending' = Pending
    BY <1>4, <2>1 DEF Pending
  <2> QED  BY <1>1, <1>2, <1>4, <2>1, <2>2, BesideCommand
<1> DEFINE host == hook.host
<1>5. ASSUME hook.step # "none"
      PROVE  host \in StorageHosts /\ host \in ServerNames
  BY <1>1, <1>5, StorageAssumption DEF StorageTypes
<1>6. ActiveConfig \notin {VarLib, Data, Certificates}
      /\ \A n \in ServerNames : ActiveConfig \notin Tree(n)
  BY PathLengths, PathsDiffer, SecretPaths DEF ManagedFiles
<1>7. CASE hook.step = "write" /\ access' = PinWritten(access, hook.host)
           /\ hook' = [hook EXCEPT !.step = "restrict"]
  <2>1. /\ hook' \in [step : {"none", "write", "restrict", "hand over"}, host : StorageHosts \cup {Absent}]
        /\ hook'.step = "restrict" /\ hook'.host = host
    BY <1>1, <1>7 DEF StorageTypes
  <2>2. Pending = {} /\ Pending' = {host}
    BY <1>7, <2>1 DEF Pending
  <2>3. /\ FilesSound(access') /\ DOMAIN access \subseteq DOMAIN access'
        /\ ActiveConfig \in DOMAIN access' => ActiveConfig \in DOMAIN access
    <3>1. /\ FilesSound(access')
          /\ DOMAIN access' = DOMAIN access \cup {VarLib, Data, Certificates, CertificateDirectory(host), Pinned(host)}
      BY <1>1, <1>5, <1>7, PinSound
    <3>2. ActiveConfig \notin {CertificateDirectory(host), Pinned(host)}
      BY <1>5, <1>6, <1>7 DEF Tree
    <3> QED  BY <1>6, <3>1, <3>2
  <2> HIDE DEF host
  <2>4. /\ readied # "none" => Prepared(access', readied, 10, {host})
        /\ command.step = "storage" => Prepared(access', Mode(command.to), command.at, {host})
    BY <1>1, <1>2, <1>3, <1>5, <1>7, <2>2, PinKeepsPrepared DEF host
  <2> QED  BY <1>1, <1>5, <1>7, <2>1, <2>2, <2>3, <2>4, BesideCommand
<1>8. CASE hook.step = "restrict" /\ access' = PinRestricted(access, hook.host)
           /\ hook' = [hook EXCEPT !.step = "hand over"]
  <2>1. /\ hook' \in [step : {"none", "write", "restrict", "hand over"}, host : StorageHosts \cup {Absent}]
        /\ hook'.step = "hand over" /\ hook'.host = host
    BY <1>1, <1>8 DEF StorageTypes
  <2>2. Pending = {host} /\ Pending' = {host}
    BY <1>8, <2>1 DEF Pending
  <2>3. FilesSound(access') /\ DOMAIN access = DOMAIN access'
    BY <1>1, <1>5, <1>8, PinSound
  <2> HIDE DEF host
  <2>4. /\ readied # "none" => Prepared(access', readied, 10, {host})
        /\ command.step = "storage" => Prepared(access', Mode(command.to), command.at, {host})
    BY <1>1, <1>2, <1>3, <1>5, <1>8, <2>2, PinKeepsPrepared DEF host
  <2> QED  BY <1>1, <1>5, <1>8, <2>1, <2>2, <2>3, <2>4, BesideCommand
<1>9. CASE hook.step = "hand over" /\ access' = PinHandedOver(access, hook.host)
           /\ hook' = [step |-> "none", host |-> Absent]
  <2>1. /\ hook' \in [step : {"none", "write", "restrict", "hand over"}, host : StorageHosts \cup {Absent}]
        /\ hook'.step = "none"
    BY <1>9
  <2>2. Pending = {host} /\ Pending' = {}
    BY <1>9, <2>1 DEF Pending
  <2>3. FilesSound(access') /\ DOMAIN access = DOMAIN access'
    BY <1>1, <1>5, <1>9, PinSound
  <2> HIDE DEF host
  <2>4. /\ readied # "none" => Prepared(access', readied, 10, {})
        /\ command.step = "storage" => Prepared(access', Mode(command.to), command.at, {})
    BY <1>1, <1>2, <1>3, <1>5, <1>9, <2>2, PinKeepsPrepared DEF host
  <2> QED  BY <1>1, <1>5, <1>9, <2>1, <2>2, <2>3, <2>4, BesideCommand
<1> QED  BY <1>4, <1>7, <1>8, <1>9 DEF Publish

-------------------------------------------------------------------------------
(* Who reads what *)

\* An account reads a path when each part of it admits the account.
LEMMA Reads ==
  ASSUME NEW s, NEW p, NEW parents, Parents(p) = parents,
         \A q \in parents \cup {p} : q \in DOMAIN access => Admits(access[q], s, GroupsOf(s))
  PROVE  CanRead(s, p)
BY DEF CanRead

\* The parts of a path that a preparation has opened to a service.
LEMMA Opens ==
  ASSUME StorageInv, AtRest, readied # "none", GroupComplete
  PROVE  /\ \A q \in Daemons \cap DOMAIN access : Admits(access[q], "sbctl", GroupsOf("sbctl"))
         /\ \A s \in Services : \A q \in {VarLib, Certificates} \cap DOMAIN access :
              s = "sing-box" \/ q = VarLib \/ readied = "direct" => Admits(access[q], s, GroupsOf(s))
         /\ \A q \in {Core, ActiveConfig, Data} : Admits(access[q], "sing-box", GroupsOf("sing-box"))
         /\ \A n \in ServerNames : SelfSigned(n) \in DOMAIN access =>
              \A q \in {CertificateDirectory(n), SelfSigned(n)} :
                Admits(access[q], "sing-box", GroupsOf("sing-box"))
         /\ \A n \in StorageHosts : Pinned(n) \in DOMAIN access /\ accounts.group =>
              \A s \in Services, q \in {CertificateDirectory(n), Pinned(n)} :
                s = "sing-box" \/ readied = "direct" => Admits(access[q], s, GroupsOf(s))
<1>1. /\ StorageTypes /\ FilesSound(access) /\ readied \in {"direct", "external"}
      /\ {Core, ActiveConfig, Data, Certificates} \subseteq AllPaths
      /\ {Core, ActiveConfig, Data} \subseteq DOMAIN access
      /\ Prepared(access, readied, 10, {})
  <2>1. ActiveConfig \in DOMAIN access /\ Pending = {}
    BY DEF AtRest, Installed, Pending
  <2> QED  BY <2>1, InstalledHas, SecretPaths DEF StorageInv, StorageTypes, PreparedInv, KeptFiles, ManagedFiles
<1>2. /\ \A p \in Daemons \cap DOMAIN access : access[p].user = "sbctl"
      /\ access[Core].group = "sing-box" /\ access[Core].to = ToGroup
      /\ HandedOver(access, readied, {})
  BY <1>1 DEF Prepared, ForServices, ForBoth, ForCore
<1>3. /\ readied = "direct" => accounts.group /\ access[Data].group = CertificateGroup /\ access[Data].to = ToGroup
      /\ readied = "external" => access[Data].to = ToEveryone
  BY <1>1 DEF Prepared, ForBoth, ForCore, Grouped
<1>4. accounts.group => accounts.certificate = Services
  BY DEF GroupComplete
<1>5. /\ \A s \in Services : s \in GroupsOf(s)
      /\ accounts.group => \A s \in Services : CertificateGroup \in GroupsOf(s)
  BY <1>4 DEF GroupsOf
<1>6. \A g \in Shared(readied) : g \in GroupsOf("sing-box")
  BY <1>1, <1>3, <1>5 DEF Shared, Services
<1>7. readied = "direct" => \A s \in Services : \A g \in Shared(readied) : g \in GroupsOf(s)
  BY <1>3, <1>5 DEF Shared
<1>8. \A p \in CertificatePaths \cap DOMAIN access : "group" \in access[p].to
  BY <1>1 DEF FilesSound
<1>9. ASSUME NEW s \in Services, NEW rights, "group" \in rights.to, rights.group \in GroupsOf(s)
      PROVE  Admits(rights, s, GroupsOf(s))
  BY <1>9 DEF Admits
<1>10. ASSUME NEW s, NEW rights, rights.to = ToEveryone
       PROVE  Admits(rights, s, GroupsOf(s))
  BY <1>10 DEF Admits, ToEveryone
<1>11. ASSUME NEW s \in Services, NEW q \in CertificatePaths \cap DOMAIN access,
              s = "sing-box" \/ readied = "direct",
              access[q].group \in Shared(readied) \/ access[q].to = ToEveryone
       PROVE  Admits(access[q], s, GroupsOf(s))
  BY <1>6, <1>7, <1>8, <1>9, <1>10, <1>11
<1>12. \A q \in Daemons \cap DOMAIN access : Admits(access[q], "sbctl", GroupsOf("sbctl"))
  BY <1>2 DEF Admits
<1>13. \A s \in Services : \A q \in {VarLib, Certificates} \cap DOMAIN access :
         s = "sing-box" \/ q = VarLib \/ readied = "direct" => Admits(access[q], s, GroupsOf(s))
  <2>1. VarLib \in DOMAIN access => access[VarLib].to = ToEveryone
    BY <1>1, RightsTypes DEF FilesSound
  <2>2. Certificates \in DOMAIN access =>
          access[Certificates].group \in Shared(readied) \/ access[Certificates].to = ToEveryone
    BY <1>2 DEF HandedOver
  <2> QED  BY <1>10, <1>11, <2>1, <2>2, SecretPaths
<1>14. \A q \in {Core, ActiveConfig, Data} : Admits(access[q], "sing-box", GroupsOf("sing-box"))
  <2>1. Admits(access[Core], "sing-box", GroupsOf("sing-box"))
    BY <1>2, <1>5, <1>9, RightsTypes DEF Services
  <2>2. Admits(access[ActiveConfig], "sing-box", GroupsOf("sing-box"))
    BY <1>1 DEF FilesSound, Admits
  <2>3. Admits(access[Data], "sing-box", GroupsOf("sing-box"))
    BY <1>1, <1>3, <1>5, <1>9, <1>10, RightsTypes DEF Services
  <2> QED  BY <2>1, <2>2, <2>3
<1>15. ASSUME NEW n \in ServerNames, SelfSigned(n) \in DOMAIN access
       PROVE  \A q \in {CertificateDirectory(n), SelfSigned(n)} :
                Admits(access[q], "sing-box", GroupsOf("sing-box"))
  <2>1. {CertificateDirectory(n), SelfSigned(n)} \subseteq CertificatePaths \cap DOMAIN access
    BY <1>1, <1>15, CertificatesApart DEF FilesSound, Tree
  <2>2. \A q \in {CertificateDirectory(n), SelfSigned(n)} : access[q].group \in Shared(readied)
    BY <1>2, <1>15 DEF HandedOver
  <2> QED  BY <1>11, <2>1, <2>2 DEF Services
<1>16. ASSUME NEW n \in StorageHosts, Pinned(n) \in DOMAIN access, accounts.group
       PROVE  \A s \in Services, q \in {CertificateDirectory(n), Pinned(n)} :
                s = "sing-box" \/ readied = "direct" => Admits(access[q], s, GroupsOf(s))
  <2>1. {CertificateDirectory(n), Pinned(n)} \subseteq CertificatePaths \cap DOMAIN access
    BY <1>1, <1>16, CertificatesApart, StorageAssumption DEF FilesSound, Tree
  <2>2. \A q \in {CertificateDirectory(n), Pinned(n)} : access[q].group \in Shared(readied)
    BY <1>2, <1>16 DEF HandedOver
  <2> QED  BY <1>11, <2>1, <2>2
<1> QED  BY <1>12, <1>13, <1>14, <1>15, <1>16

LEMMA ServicesAreAdmitted ==
  ASSUME StorageInv, AtRest, readied # "none", GroupComplete,
         NEW s \in Services, NEW p \in Opened(s, settled) \cap DOMAIN access
  PROVE  CanRead(s, p) \/ (s = "sbctl" /\ p = Pinned(settled.host) /\ readied = "external")
<1>1. /\ settled \in Settings /\ settled.host \in StorageHosts /\ settled.host \in ServerNames
      /\ settled.name \in ServerNames /\ settled.direct \in BOOLEAN
      /\ KeptFiles \cup {Core, ActiveConfig} \subseteq DOMAIN access
  BY InstalledHas, StorageAssumption DEF AtRest, Installed, Settings
<1>2. settled.direct => accounts.group
  BY DEF GroupComplete
<1>3. readied \in {"direct", "external"}
  BY DEF StorageInv, StorageTypes
<1>4. s \in {"sbctl", "sing-box"}
  BY DEF Services
<1>5. CASE s = "sbctl" /\ p \in {ConfigFile, Artifact, StateFile, LockFile}
  <2>1. Parents(p) \cup {p} \subseteq Daemons \cup {VarLib}
    BY <1>5, PathParents DEF Daemons
  <2> QED  BY <1>4, <1>5, <2>1, Opens DEF CanRead
<1>6. CASE p = Pinned(settled.host) /\ settled.direct /\ (s = "sing-box" \/ readied = "direct")
  <2>1. Parents(p) = {VarLib, Data, Certificates, CertificateDirectory(settled.host)}
    BY <1>1, <1>6, PathParents
  <2>2. Data \in Daemons
    BY DEF Daemons
  <2>3. \A q \in Parents(p) \cup {p} : q \in DOMAIN access => Admits(access[q], s, GroupsOf(s))
    BY <1>1, <1>2, <1>4, <1>6, <2>1, <2>2, Opens
  <2> QED  BY <2>3 DEF CanRead
<1>7. CASE s = "sing-box" /\ p = ActiveConfig
  <2>1. Parents(p) = {Core}
    BY <1>7, PathParents
  <2> QED  BY <1>7, <2>1, Opens DEF CanRead
<1>8. CASE s = "sing-box" /\ p = SelfSigned(settled.name)
  <2>1. Parents(p) = {VarLib, Data, Certificates, CertificateDirectory(settled.name)}
    BY <1>1, <1>8, PathParents
  <2> QED  BY <1>1, <1>4, <1>8, <2>1, Opens DEF CanRead
<1>9. \/ s = "sbctl" /\ p \in {ConfigFile, Artifact, StateFile, LockFile}
      \/ p = Pinned(settled.host) /\ settled.direct
      \/ s = "sing-box" /\ p = ActiveConfig
      \/ s = "sing-box" /\ p = SelfSigned(settled.name)
  BY <1>4 DEF Opened
<1> QED  BY <1>3, <1>4, <1>5, <1>6, <1>7, <1>8, <1>9

LEMMA OthersAreNot ==
  ASSUME StorageInv, NEW p \in Secrets \cap DOMAIN access
  PROVE  ~ CanRead("nobody", p)
<1>1. access[p] \in RightsType /\ "others" \notin access[p].to /\ accounts.certificate \subseteq Services
  BY DEF StorageInv, FilesSound, StorageTypes
<1>2. GroupsOf("nobody") = {"nobody"}
  BY <1>1 DEF GroupsOf, Services
<1>3. access[p].user # "nobody" /\ access[p].group # "nobody"
  BY <1>1 DEF RightsType, Services, CertificateGroup
<1> QED  BY <1>1, <1>2, <1>3 DEF CanRead, Admits

LEMMA StorageInvSuffices ==
  ASSUME StorageInv PROVE OnlyServicesRead
BY ServicesAreAdmitted, OthersAreNot DEF OnlyServicesRead

LEMMA StorageStep ==
  ASSUME StorageInv, StorageNext PROVE StorageInv'
BY InstallFilesKeeps, ApplyConfigKeeps, AccountsKeeps, InstallPinnedKeeps, StorageKeeps, StorageFailsKeeps,
   RestartServicesKeeps, RestartServicesFailsKeeps, WriteStateKeeps, PublishKeeps DEF StorageNext

LEMMA StorageStutters ==
  ASSUME StorageInv, UNCHANGED storageVars PROVE StorageInv'
<1>1. /\ access' = access /\ accounts' = accounts /\ settled' = settled /\ command' = command
      /\ hook' = hook /\ readied' = readied
  BY DEF storageVars
<1>2. StorageTypes'
  BY <1>1 DEF StorageInv, StorageTypes
<1>2a. CommandInv' /\ InstalledInv'
  BY <1>1 DEF StorageInv, CommandInv, InstalledInv, SelfSignedOf
<1>3. PreparedInv'
  BY <1>1, PreparedNext DEF StorageInv, PreparedInv, Pending
<1> QED  BY <1>1, <1>2, <1>2a, <1>3 DEF StorageInv

\* Each service reads what it has to open under the committed configuration once the
\* preparation of its storage has gone through, whatever publications and changes came
\* before and after; nobody else ever reads credentials, keys or the state.
THEOREM ServicesAloneRead == HostSpec => []OnlyServicesRead
<1>1. HostInit => StorageInv
  <2>1. {NoAccounts} \in SUBSET EarlierAccounts /\ EarlierAccounts \in SUBSET EarlierAccounts
    BY DEF EarlierAccounts
  <2> QED  BY <2>1, StorageInitially, HostFilesAssumption DEF HostInit
<1>2. StorageInv /\ [HostNext]_<<vars, storageVars>> => StorageInv'
  <2>1. ASSUME [HostNext]_<<vars, storageVars>> PROVE StorageNext \/ UNCHANGED storageVars
    BY <2>1 DEF HostNext
  <2> QED  BY <2>1, StorageStep, StorageStutters
<1>3. StorageInv => OnlyServicesRead
  BY StorageInvSuffices
<1> QED  BY <1>1, <1>2, <1>3, PTL DEF HostSpec
===============================================================================
