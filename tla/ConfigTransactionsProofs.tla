----------------------- MODULE ConfigTransactionsProofs -----------------------
(***************************************************************************)
(* Proofs about ConfigTransactions for every set of commands, node models, *)
(* faults and bounds: the type invariant, mutual exclusion of the critical *)
(* sections, that a transaction about to succeed has a complete generation *)
(* on disk and that a failing one puts its files back, that a credential   *)
(* whose rotation was reported stays revoked, and that wizard commits      *)
(* implement AtomicDeployment.  The last three need hypotheses, defined    *)
(* beside them: without, the code does not keep them.                      *)
(***************************************************************************)
EXTENDS ConfigTransactions, TLAPS

\* The operation kinds that reach each label of the critical section.
OpInv(p) ==
  /\ pc[p] \in {"check", "write", "active", "undo", "prune"} =>
       op[p] \in {"wizard", "regenerate"}
  /\ pc[p] = "config" => op[p] = "wizard"

\* What is on disk while p writes the new generation.
DiskInv(p) ==
  /\ pc[p] = "write" => \A f \in done[p] : artifacts[f] = new[p].nodes
  /\ (Critical(p) /\ op[p] = "wizard" /\ pc[p] \in {"check", "write"}) =>
       snap[p].active = active
  /\ (pc[p] = "check" /\ op[p] = "wizard") => done[p] = {}
  /\ pc[p] \in {"active", "config", "prune"} =>
       \A f \in Generated(new[p].nodes) : artifacts[f] = new[p].nodes
  /\ pc[p] \in {"config", "prune"} => active \in {None, new[p].nodes}
  /\ (pc[p] = "prune" /\ op[p] = "regenerate") => active = new[p].nodes
  /\ (pc[p] = "prune" /\ op[p] = "wizard") => config = new[p]

IInv ==
  /\ TypeOK
  /\ MutualExclusion
  /\ \A p \in Procs : OpInv(p) /\ DiskInv(p)

-------------------------------------------------------------------------------
(* Typing *)

LEMMA CurrentFilesType ==
  ASSUME TypeOK PROVE CurrentFiles \in Snapshots
BY DEF TypeOK, CurrentFiles, Snapshots

LEMMA GeneratedFilesType ==
  ASSUME NEW n, n \in Nodes
  PROVE  GeneratedFiles(n) \in [Files -> Nodes \cup {None}]
BY DEF GeneratedFiles

LEMMA InitTypes == Init => TypeOK
<1> SUFFICES ASSUME Init PROVE TypeOK
  OBVIOUS
<1> USE ConstantsAssumption
<1>1. InitialConfig.nodes \in Nodes /\ InitialConfig.cred \in Creds
  BY DEF Configs
<1>2. artifacts \in [Files -> Nodes \cup {None}]
  BY <1>1, GeneratedFilesType DEF Init
<1>3. active \in Nodes \cup {None}
  BY <1>1 DEF Init
<1>4. CurrentFiles \in Snapshots
  BY <1>2, <1>3 DEF Init, CurrentFiles, Snapshots
<1>5. QED
  BY <1>1, <1>2, <1>3, <1>4 DEF Init, TypeOK, PCs, OpKinds

\* The parts of the type invariant that only a few actions touch.
LEMMA BeginTypes ==
  ASSUME TypeOK, NEW p \in Procs, Begin(p) PROVE TypeOK'
<1> USE ConstantsAssumption DEF TypeOK, Goto, disk, running, locals, history
<1>1. CASE BeginWizard(p)
  BY <1>1 DEF BeginWizard, Load, PCs, OpKinds
<1>2. CASE BeginRotate(p)
  <2>1. PICK c \in Creds \ issued :
          /\ issued' = issued \cup {c}
          /\ new' = [new EXCEPT ![p] = [config EXCEPT !.cred = c]]
    BY <1>2 DEF BeginRotate
  <2>2. [config EXCEPT !.cred = c] \in Configs
    BY <2>1 DEF Configs
  <2>3. QED
    BY <1>2, <2>1, <2>2 DEF BeginRotate, Load, PCs, OpKinds
<1>3. CASE BeginSwitch(p)
  <2>1. PICK m \in Modes : new' = [new EXCEPT ![p] = [config EXCEPT !.mode = m]]
    BY <1>3 DEF BeginSwitch
  <2>2. [config EXCEPT !.mode = m] \in Configs
    BY <2>1 DEF Configs
  <2>3. QED
    BY <1>3, <2>1, <2>2 DEF BeginSwitch, Load, PCs, OpKinds
<1>4. CASE BeginRegenerate(p)
  BY <1>4 DEF BeginRegenerate, Load, PCs, OpKinds
<1>5. CASE Confirm(p)
  BY <1>5 DEF Confirm, PCs
<1>6. CASE Cancel(p)
  BY <1>6 DEF Cancel, PCs
<1>7. QED
  BY <1>1, <1>2, <1>3, <1>4, <1>5, <1>6 DEF Begin

LEMMA TransactionTypes ==
  ASSUME TypeOK, NEW p \in Procs, Transaction(p) PROVE TypeOK'
<1> USE ConstantsAssumption
    DEF TypeOK, Goto, Finish, Fail, NoFault, disk, running, locals, history
<1>0. new[p] \in Configs /\ new[p].nodes \in Nodes /\ snap[p] \in Snapshots
      /\ snap[p].artifacts \in [Files -> Nodes \cup {None}]
      /\ snap[p].active \in Nodes \cup {None}
  BY DEF Configs, Snapshots
<1>1. CASE Replace(p)
  BY <1>0, <1>1 DEF Replace, AfterReplace, PCs
<1>2. CASE AcquireLock(p)
  <2>1. CurrentFiles \in Snapshots
    BY CurrentFilesType
  <2>2. QED
    BY <1>0, <1>2, <2>1 DEF AcquireLock, PCs
<1>3. CASE Check(p)
  BY <1>0, <1>3 DEF Check, PCs
<1>4. CASE WriteArtifact(p)
  <2>1. PICK f \in Pending(p) :
       \/ /\ artifacts' = [artifacts EXCEPT ![f] = new[p].nodes]
          /\ done' = [done EXCEPT ![p] = @ \cup {f}]
          /\ Goto(p, IF Pending(p) # {f} THEN "write"
                     ELSE IF NeedActiveSync(op[p], new[p].nodes, snap[p])
                          THEN "active" ELSE "config")
          /\ NoFault
       \/ UNCHANGED <<artifacts, done>> /\ Goto(p, "undo") /\ Fail("write")
       \/ /\ artifacts' = [artifacts EXCEPT ![f] = new[p].nodes]
          /\ UNCHANGED done
          /\ Goto(p, "undo")
          /\ Fail("owner")
    BY <1>4 DEF WriteArtifact
  <2>2. f \in Files
    BY DEF Pending, Generated, Files
  <2>3. artifacts' \in [Files -> Nodes \cup {None}] /\ done' \in [Procs -> SUBSET Files]
        /\ faults' \in Nat
    BY <1>0, <2>1, <2>2
  <2>4. pc' \in [Procs -> PCs]
    BY <2>1 DEF PCs
  <2>5. QED
    BY <1>4, <2>3, <2>4 DEF WriteArtifact
<1>5. CASE WriteActive(p)
  BY <1>0, <1>5 DEF WriteActive, PCs
<1>6. CASE WriteConfig(p)
  BY <1>0, <1>6 DEF WriteConfig, PCs
<1>7. CASE Undo(p)
  <2>1. artifacts' \in [Files -> Nodes \cup {None}]
    BY <1>0, <1>7 DEF Undo, PriorActive
  <2>2. active' \in Nodes \cup {None}
    BY <1>0, <1>7 DEF Undo, PriorActive
  <2>3. QED
    BY <1>7, <2>1, <2>2 DEF Undo, PriorActive, PCs
<1>8. CASE Prune(p)
  <2>1. artifacts' \in [Files -> Nodes \cup {None}]
    BY <1>8 DEF Prune
  <2>2. QED
    BY <1>8, <2>1 DEF Prune, PCs
<1>9. QED
  BY <1>1, <1>2, <1>3, <1>4, <1>5, <1>6, <1>7, <1>8 DEF Transaction

LEMMA AfterCommitTypes ==
  ASSUME TypeOK, NEW p \in Procs, AfterCommit(p) PROVE TypeOK'
<1> USE ConstantsAssumption
    DEF TypeOK, Goto, Finish, Fail, NoFault, disk, running, locals, history
<1>0. new[p] \in Configs /\ snap[p] \in Snapshots
      /\ base[p].cred \in Creds /\ base[p] \in Configs
      /\ snap[p].artifacts \in [Files -> Nodes \cup {None}]
      /\ snap[p].active \in Nodes \cup {None}
      /\ snap[p].config \in Configs
  BY DEF Configs, Snapshots
<1>1. CASE PrepareStorage(p)
  BY <1>1 DEF PrepareStorage, PCs
<1>2. CASE RestartCore(p)
  BY <1>2 DEF RestartCore, PCs
<1>3. CASE RestartDaemon(p)
  BY <1>0, <1>3 DEF RestartDaemon, PCs
<1>4. CASE RestoreSnapshot(p)
  <2>1. artifacts' \in [Files -> Nodes \cup {None}]
    BY <1>0, <1>4 DEF RestoreSnapshot, PriorActive
  <2>2. active' \in Nodes \cup {None} /\ config' \in Configs
    BY <1>0, <1>4 DEF RestoreSnapshot, PriorActive
  <2>3. QED
    BY <1>4, <2>1, <2>2 DEF RestoreSnapshot, PriorActive, PCs
<1>5. CASE RestoreCredential(p)
  <2>1. [new[p] EXCEPT !.cred = base[p].cred] \in Configs
    BY <1>0 DEF Configs
  <2>2. QED
    BY <1>5, <2>1 DEF RestoreCredential, PCs
<1>6. CASE RestartCoreAgain(p)
  BY <1>6 DEF RestartCoreAgain, PCs
<1>7. CASE RestartDaemonAgain(p)
  BY <1>7 DEF RestartDaemonAgain, PCs
<1>8. QED
  BY <1>1, <1>2, <1>3, <1>4, <1>5, <1>6, <1>7 DEF AfterCommit

LEMMA StepTypes == TypeOK /\ [Next]_vars => TypeOK'
<1> SUFFICES ASSUME TypeOK, [Next]_vars PROVE TypeOK'
  OBVIOUS
<1>1. ASSUME NEW p \in Procs, Crash(p) PROVE TypeOK'
  BY <1>1, ConstantsAssumption
  DEF TypeOK, Crash, Finish, Goto, Fail, disk, running, locals, history, PCs
<1>2. CASE CoreReload
  BY <1>2 DEF TypeOK, CoreReload, disk, running, locals, history
<1>3. CASE DaemonReload
  BY <1>3 DEF TypeOK, DaemonReload, disk, running, locals, history
<1>4. CASE UNCHANGED vars
  BY <1>4 DEF TypeOK, vars
<1>5. QED
  BY <1>1, <1>2, <1>3, <1>4, BeginTypes, TransactionTypes, AfterCommitTypes DEF Next

\* Every variable keeps its type.
THEOREM TypeCorrect == Spec => []TypeOK
BY InitTypes, StepTypes, PTL DEF Spec

-------------------------------------------------------------------------------
(* The inductive invariant *)

\* A step that leaves the local state of q alone and does not touch the disk
\* while q is in its critical section keeps what q knows.
LEMMA Frame ==
  ASSUME NEW q \in Procs, OpInv(q), DiskInv(q),
         pc'[q] = pc[q], op'[q] = op[q], new'[q] = new[q], snap'[q] = snap[q],
         done'[q] = done[q],
         ~Critical(q) \/ UNCHANGED disk
  PROVE  OpInv(q)' /\ DiskInv(q)'
<1>1. OpInv(q)'
  BY DEF OpInv
<1>2. CASE UNCHANGED disk
  BY <1>1, <1>2 DEF DiskInv, Critical, disk
<1>3. CASE ~Critical(q)
  BY <1>1, <1>3 DEF DiskInv, Critical, OpInv
<1>4. QED
  BY <1>2, <1>3, <1>1

\* A step of p that changes neither the other commands nor, inside the critical
\* section of another, the disk.
LEMMA OthersFrame ==
  ASSUME IInv, NEW p \in Procs, NEW q \in Procs \ {p},
         pc'[q] = pc[q], op'[q] = op[q], new'[q] = new[q], snap'[q] = snap[q],
         done'[q] = done[q],
         lock \in {None, p} \/ UNCHANGED disk
  PROVE  OpInv(q)' /\ DiskInv(q)'
<1>1. ~Critical(q) \/ UNCHANGED disk
  BY ConstantsAssumption DEF IInv, MutualExclusion
<1>2. OpInv(q) /\ DiskInv(q)
  BY DEF IInv
<1>3. QED
  BY <1>1, <1>2, Frame

LEMMA InitIInv == Init => IInv
<1> SUFFICES ASSUME Init PROVE IInv
  OBVIOUS
<1>1. TypeOK
  BY InitTypes
<1>2. MutualExclusion
  BY ConstantsAssumption DEF Init, MutualExclusion, Critical
<1>3. ASSUME NEW p \in Procs PROVE OpInv(p) /\ DiskInv(p)
  BY DEF Init, OpInv, DiskInv, Critical
<1>4. QED
  BY <1>1, <1>2, <1>3 DEF IInv

\* A step of p that leaves the critical sections as they are keeps exclusion.
LEMMA SameSections ==
  ASSUME MutualExclusion, lock' = lock, \A q \in Procs : Critical(q)' <=> Critical(q)
  PROVE  MutualExclusion'
BY DEF MutualExclusion

LEMMA BeginStep ==
  ASSUME IInv, TypeOK', NEW p \in Procs, Begin(p) PROVE IInv'
<1> USE DEF Goto
<1>0. TypeOK
  BY DEF IInv
<1>1. /\ pc[p] \in {"idle", "editing"}
      /\ pc'[p] \in {"idle", "editing", "ready", "check"}
      /\ pc'[p] = "check" => op'[p] = "regenerate"
      /\ \A q \in Procs \ {p} : pc'[q] = pc[q] /\ op'[q] = op[q] /\ new'[q] = new[q]
      /\ snap' = snap /\ done' = done /\ lock' = lock
      /\ UNCHANGED disk
  BY <1>0 DEF Begin, BeginWizard, BeginRotate, BeginSwitch, BeginRegenerate, Load,
     Confirm, Cancel, TypeOK, locals
<1>2. \A q \in Procs : Critical(q)' <=> Critical(q)
  BY <1>1 DEF Critical
<1>3. MutualExclusion'
  BY <1>1, <1>2, SameSections DEF IInv
<1>4. OpInv(p)' /\ DiskInv(p)'
  BY <1>1 DEF OpInv, DiskInv, Critical
<1>5. ASSUME NEW q \in Procs \ {p} PROVE OpInv(q)' /\ DiskInv(q)'
  BY <1>1, OthersFrame
<1>6. QED
  BY <1>3, <1>4, <1>5 DEF IInv

\* One step of the critical section of p, seen from the other commands.
LEMMA TransactionOthers ==
  ASSUME IInv, NEW p \in Procs, Transaction(p)
  PROVE  /\ lock \in {None, p} \/ UNCHANGED disk
         /\ \A q \in Procs \ {p} : /\ pc'[q] = pc[q] /\ op'[q] = op[q]
                                   /\ new'[q] = new[q] /\ snap'[q] = snap[q]
                                   /\ done'[q] = done[q]
<1> USE DEF Goto, Finish, AfterReplace
<1>0. TypeOK /\ (Critical(p) <=> lock = p)
  BY DEF IInv, MutualExclusion
<1>1. CASE Replace(p)
  BY <1>0, <1>1 DEF Replace, locals, TypeOK
<1>2. CASE AcquireLock(p)
  BY <1>0, <1>2 DEF AcquireLock, TypeOK
<1>3. CASE Check(p)
  BY <1>0, <1>3 DEF Check, locals, TypeOK
<1>4. CASE WriteArtifact(p)
  BY <1>0, <1>4 DEF WriteArtifact, TypeOK, Critical
<1>5. CASE WriteActive(p)
  BY <1>0, <1>5 DEF WriteActive, locals, TypeOK, Critical
<1>6. CASE WriteConfig(p)
  BY <1>0, <1>6 DEF WriteConfig, locals, TypeOK, Critical
<1>7. CASE Undo(p)
  BY <1>0, <1>7 DEF Undo, PriorActive, locals, TypeOK, Critical
<1>8. CASE Prune(p)
  BY <1>0, <1>8 DEF Prune, locals, TypeOK, Critical
<1>9. QED
  BY <1>1, <1>2, <1>3, <1>4, <1>5, <1>6, <1>7, <1>8 DEF Transaction

\* The critical section follows the lock.
LEMMA TransactionSections ==
  ASSUME IInv, NEW p \in Procs, Transaction(p)
  PROVE  MutualExclusion'
<1> USE ConstantsAssumption DEF Goto, Finish, AfterReplace
<1>0. TypeOK /\ OpInv(p) /\ (\A q \in Procs : Critical(q) <=> lock = q)
  BY DEF IInv, MutualExclusion
<1>1. \A q \in Procs \ {p} : Critical(q)' <=> Critical(q)
  BY TransactionOthers DEF Critical
<1>2. (lock \in {None, p} /\ lock' \in {None, p}) \/ lock' = lock
  BY DEF Transaction, Replace, AcquireLock, Check, WriteArtifact, WriteActive,
     WriteConfig, Undo, Prune, IInv, MutualExclusion, Critical
<1>3. Critical(p)' <=> lock' = p
  <2>1. CASE Replace(p)
    BY <1>0, <2>1 DEF Replace, locals, TypeOK, Critical
  <2>2. CASE AcquireLock(p)
    BY <1>0, <2>2 DEF AcquireLock, TypeOK, Critical
  <2>3. CASE Check(p)
    BY <1>0, <2>3 DEF Check, locals, TypeOK, Critical, OpInv
  <2>4. CASE WriteArtifact(p)
    BY <1>0, <2>4 DEF WriteArtifact, TypeOK, Critical
  <2>5. CASE WriteActive(p)
    BY <1>0, <2>5 DEF WriteActive, locals, TypeOK, Critical
  <2>6. CASE WriteConfig(p)
    BY <1>0, <2>6 DEF WriteConfig, locals, TypeOK, Critical
  <2>7. CASE Undo(p)
    BY <1>0, <2>7 DEF Undo, PriorActive, locals, TypeOK, Critical
  <2>8. CASE Prune(p)
    BY <1>0, <2>8 DEF Prune, locals, TypeOK, Critical
  <2>9. QED
    BY <2>1, <2>2, <2>3, <2>4, <2>5, <2>6, <2>7, <2>8 DEF Transaction
<1>4. \A q \in Procs \ {p} : Critical(q)' <=> lock' = q
  BY <1>0, <1>1, <1>2
<1>5. QED
  BY <1>3, <1>4 DEF MutualExclusion

\* One step of the critical section of p keeps what p knows of the disk.
LEMMA TransactionOwn ==
  ASSUME IInv, TypeOK', NEW p \in Procs, Transaction(p)
  PROVE  OpInv(p)' /\ DiskInv(p)'
<1> USE ConstantsAssumption DEF Goto, Finish, AfterReplace
<1>0. TypeOK /\ OpInv(p) /\ DiskInv(p) /\ (Critical(p) <=> lock = p)
  BY DEF IInv, MutualExclusion
<1>1. CASE Replace(p)
  <2>1. pc'[p] \in {"core", "idle"}
    BY <1>0, <1>1 DEF Replace, TypeOK
  <2>2. QED
    BY <2>1 DEF OpInv, DiskInv, Critical
<1>2. CASE AcquireLock(p)
  <2>1. op[p] \in {"wizard", "regenerate"} /\ op' = op /\ new' = new /\ UNCHANGED disk
        /\ snap'[p] = CurrentFiles /\ done'[p] = {}
    BY <1>0, <1>2 DEF AcquireLock, TypeOK
  <2>2. CASE pc'[p] \in {"write", "check"}
    <3>1. snap'[p].active = active' /\ new'[p] = new[p] /\ op'[p] = op[p]
      BY <2>1 DEF CurrentFiles, disk
    <3>2. OpInv(p)'
      BY <2>1, <2>2, <3>1 DEF OpInv
    <3>3. DiskInv(p)'
      BY <2>1, <2>2, <3>1 DEF DiskInv
    <3>4. QED
      BY <3>2, <3>3
  <2>3. CASE pc'[p] = "config"
    <3>1. op[p] = "wizard" /\ ~ArtifactsChanged(new[p].nodes, CurrentFiles)
          /\ ~NeedActiveSync("wizard", new[p].nodes, CurrentFiles)
      BY <1>0, <1>2, <2>3 DEF AcquireLock, TypeOK
    <3>2. /\ \A f \in Generated(new[p].nodes) : artifacts[f] = new[p].nodes
          /\ active \in {None, new[p].nodes}
      BY <3>1 DEF ArtifactsChanged, NeedActiveSync, CurrentFiles
    <3>3. QED
      BY <2>1, <2>3, <3>1, <3>2 DEF OpInv, DiskInv, Critical, disk
  <2>4. pc'[p] \in {"write", "check", "config"}
    BY <1>0, <1>2 DEF AcquireLock, TypeOK
  <2>5. QED
    BY <2>2, <2>3, <2>4
<1>3. CASE Check(p)
  <2>1. /\ op' = op /\ new' = new /\ snap' = snap /\ done' = done /\ UNCHANGED disk
        /\ pc[p] = "check"
        /\ pc'[p] \in {"ready", "write", "idle"}
        /\ pc'[p] = "write" => op[p] # "regenerate"
    BY <1>0, <1>3 DEF Check, locals, TypeOK
  <2>2. QED
    BY <1>0, <2>1 DEF OpInv, DiskInv, Critical, disk
<1>4. CASE WriteArtifact(p)
  <2>1. op' = op /\ new' = new /\ snap' = snap /\ config' = config /\ active' = active
        /\ pc[p] = "write" /\ op[p] \in {"wizard", "regenerate"}
    BY <1>0, <1>4 DEF WriteArtifact, OpInv
  <2>2. CASE pc'[p] = "undo"
    BY <2>1, <2>2 DEF OpInv, DiskInv, Critical
  <2>3. CASE pc'[p] # "undo"
    <3>1. PICK f \in Pending(p) :
            /\ artifacts' = [artifacts EXCEPT ![f] = new[p].nodes]
            /\ done' = [done EXCEPT ![p] = @ \cup {f}]
            /\ Goto(p, IF Pending(p) # {f} THEN "write"
                       ELSE IF NeedActiveSync(op[p], new[p].nodes, snap[p])
                            THEN "active" ELSE "config")
      BY <1>0, <1>4, <2>3 DEF WriteArtifact, TypeOK
    <3>2. f \in Files
      BY DEF Pending, Generated, Files
    <3>3. done'[p] = done[p] \cup {f} /\ \A g \in done'[p] : artifacts'[g] = new[p].nodes
      BY <1>0, <2>1, <3>1, <3>2 DEF DiskInv, TypeOK
    <3>4. pc'[p] = IF Pending(p) # {f} THEN "write"
                   ELSE IF NeedActiveSync(op[p], new[p].nodes, snap[p])
                        THEN "active" ELSE "config"
      BY <1>0, <3>1 DEF TypeOK
    <3>5. CASE Pending(p) # {f}
      BY <1>0, <2>1, <3>3, <3>4, <3>5 DEF OpInv, DiskInv, Critical
    <3>6. CASE Pending(p) = {f}
      <4>1. \A g \in Generated(new[p].nodes) : artifacts'[g] = new[p].nodes
        BY <3>3, <3>6 DEF Pending
      <4>2. CASE NeedActiveSync(op[p], new[p].nodes, snap[p])
        BY <2>1, <3>4, <3>6, <4>1, <4>2 DEF OpInv, DiskInv, Critical
      <4>3. CASE ~NeedActiveSync(op[p], new[p].nodes, snap[p])
        <5>1. op[p] = "wizard" /\ snap[p].active = active
          BY <1>0, <2>1, <4>3 DEF NeedActiveSync, DiskInv, Critical
        <5>2. active \in {None, new[p].nodes}
          BY <4>3, <5>1 DEF NeedActiveSync
        <5>3. QED
          BY <2>1, <3>4, <3>6, <4>1, <4>3, <5>1, <5>2 DEF OpInv, DiskInv, Critical
      <4>4. QED
        BY <4>2, <4>3
    <3>7. QED
      BY <3>5, <3>6
  <2>4. QED
    BY <2>2, <2>3
<1>5. CASE WriteActive(p)
  <2>1. op' = op /\ new' = new /\ snap' = snap /\ config' = config
        /\ artifacts' = artifacts /\ op[p] \in {"wizard", "regenerate"}
        /\ pc[p] = "active"
        /\ (pc'[p] = "undo" \/ (/\ active' = new[p].nodes
                                /\ pc'[p] = IF op[p] = "regenerate" THEN "prune" ELSE "config"))
    BY <1>0, <1>5 DEF WriteActive, locals, TypeOK, OpInv
  <2>2. QED
    BY <1>0, <2>1 DEF OpInv, DiskInv, Critical
<1>6. CASE WriteConfig(p)
  <2>1. op' = op /\ new' = new /\ active' = active /\ artifacts' = artifacts
        /\ op[p] = "wizard" /\ pc[p] = "config"
        /\ (pc'[p] = "undo" \/ (config' = new[p] /\ pc'[p] = "prune"))
    BY <1>0, <1>6 DEF WriteConfig, locals, TypeOK, OpInv
  <2>2. QED
    BY <1>0, <2>1 DEF OpInv, DiskInv, Critical
<1>7. CASE Undo(p)
  <2>1. pc'[p] = "idle"
    BY <1>0, <1>7 DEF Undo, PriorActive, TypeOK
  <2>2. QED
    BY <2>1 DEF OpInv, DiskInv, Critical
<1>8. CASE Prune(p)
  <2>1. pc'[p] \in {"idle", "storage"}
    BY <1>0, <1>8 DEF Prune, TypeOK
  <2>2. QED
    BY <2>1 DEF OpInv, DiskInv, Critical
<1>9. QED
  BY <1>1, <1>2, <1>3, <1>4, <1>5, <1>6, <1>7, <1>8 DEF Transaction

LEMMA TransactionStep ==
  ASSUME IInv, TypeOK', NEW p \in Procs, Transaction(p) PROVE IInv'
<1>1. MutualExclusion'
  BY TransactionSections
<1>2. OpInv(p)' /\ DiskInv(p)'
  BY TransactionOwn
<1>3. ASSUME NEW q \in Procs \ {p} PROVE OpInv(q)' /\ DiskInv(q)'
  BY TransactionOthers, OthersFrame
<1>4. QED
  BY <1>1, <1>2, <1>3 DEF IInv

\* Outside the critical section the disk changes only while the lock is free.
LEMMA AfterCommitStep ==
  ASSUME IInv, TypeOK', NEW p \in Procs, AfterCommit(p) PROVE IInv'
<1> USE DEF Goto, Finish
<1>0. TypeOK
  BY DEF IInv
<1>1. /\ pc[p] \in {"storage", "core", "daemon", "rollback", "coreAgain", "daemonAgain"}
      /\ pc'[p] \in {"idle", "core", "daemon", "rollback", "coreAgain", "daemonAgain"}
      /\ \A q \in Procs \ {p} : pc'[q] = pc[q]
      /\ op' = op /\ new' = new /\ snap' = snap /\ done' = done /\ lock' = lock
      /\ lock = None \/ UNCHANGED disk
  BY <1>0 DEF AfterCommit, PrepareStorage, RestartCore, RestartDaemon, RestoreSnapshot,
     RestoreCredential, RestartCoreAgain, RestartDaemonAgain, TypeOK, locals
<1>2. \A q \in Procs : Critical(q)' <=> Critical(q)
  BY <1>1 DEF Critical
<1>3. MutualExclusion'
  BY <1>1, <1>2, SameSections DEF IInv
<1>4. OpInv(p)' /\ DiskInv(p)'
  BY <1>1 DEF OpInv, DiskInv, Critical
<1>5. ASSUME NEW q \in Procs \ {p} PROVE OpInv(q)' /\ DiskInv(q)'
  BY <1>1, OthersFrame
<1>6. QED
  BY <1>3, <1>4, <1>5 DEF IInv

LEMMA CrashStep ==
  ASSUME IInv, TypeOK', NEW p \in Procs, Crash(p) PROVE IInv'
<1> USE DEF Goto, Finish
<1>0. TypeOK /\ \A q \in Procs : Critical(q) <=> lock = q
  BY DEF IInv, MutualExclusion
<1>1. /\ pc'[p] = "idle"
      /\ \A q \in Procs \ {p} : pc'[q] = pc[q]
      /\ op' = op /\ new' = new /\ snap' = snap /\ done' = done
      /\ lock' = IF lock = p THEN None ELSE lock
      /\ UNCHANGED disk
  BY <1>0 DEF Crash, TypeOK, locals
<1>2. \A q \in Procs \ {p} : Critical(q)' <=> Critical(q)
  BY <1>1 DEF Critical
<1>3. ~Critical(p)' /\ lock' # p
  BY <1>1, ConstantsAssumption DEF Critical
<1>4. MutualExclusion'
  BY <1>0, <1>1, <1>2, <1>3, ConstantsAssumption DEF MutualExclusion
<1>5. OpInv(p)' /\ DiskInv(p)'
  BY <1>1 DEF OpInv, DiskInv, Critical
<1>6. ASSUME NEW q \in Procs \ {p} PROVE OpInv(q)' /\ DiskInv(q)'
  BY <1>1, OthersFrame
<1>7. QED
  BY <1>4, <1>5, <1>6 DEF IInv

\* A step that touches neither the disk nor a command.
LEMMA IdleStep ==
  ASSUME IInv, TypeOK', UNCHANGED <<disk, lock, pc, locals>> PROVE IInv'
<1>1. MutualExclusion'
  BY DEF IInv, MutualExclusion, Critical, locals
<1>2. ASSUME NEW q \in Procs PROVE OpInv(q)' /\ DiskInv(q)'
  BY Frame DEF IInv, locals
<1>3. QED
  BY <1>1, <1>2 DEF IInv

LEMMA StepIInv == IInv /\ [Next]_vars => IInv'
<1> SUFFICES ASSUME IInv, [Next]_vars PROVE IInv'
  OBVIOUS
<1>0. TypeOK'
  BY StepTypes DEF IInv
<1>1. CASE CoreReload
  BY <1>0, <1>1, IdleStep DEF CoreReload
<1>2. CASE DaemonReload
  BY <1>0, <1>2, IdleStep DEF DaemonReload
<1>3. CASE UNCHANGED vars
  BY <1>0, <1>3, IdleStep DEF vars, disk, locals
<1>4. QED
  BY <1>0, <1>1, <1>2, <1>3, BeginStep, TransactionStep, AfterCommitStep, CrashStep
  DEF Next

LEMMA InvariantHolds == Spec => []IInv
BY InitIInv, StepIInv, PTL DEF Spec

\* Only the holder of the operation lock is in a multi-file critical section,
\* for any number of commands, crashes and faults.
THEOREM CriticalSectionsExclude == Spec => []MutualExclusion
<1>1. IInv => MutualExclusion
  BY DEF IInv
<1>2. QED
  BY <1>1, InvariantHolds, PTL

\* A transaction about to succeed has its complete generation on disk, whatever
\* crashes, failed rollbacks and drift came before.
THEOREM CommitsAreComplete == Spec => []CommittedBundle
<1>1. IInv => CommittedBundle
  BY DEF IInv, OpInv, DiskInv, CommittedBundle
<1>2. QED
  BY <1>1, InvariantHolds, PTL

-------------------------------------------------------------------------------
(* A transaction that fails puts its files back *)

\* No write that leaves a file behind although it is reported as failed, and no
\* restoration of a file that fails.
WritesAreClean == FaultKinds \cap {"owner", "undo"} = {}

\* How far the files differ from those the transaction of p found.
RestoreInv(p) ==
  /\ pc[p] # "prune" =>
       /\ config = snap[p].config
       /\ \A f \in Files \ Generated(new[p].nodes) : artifacts[f] = snap[p].artifacts[f]
  /\ pc[p] = "check" => artifacts = snap[p].artifacts
  /\ pc[p] \in {"check", "write", "active"} => active = snap[p].active
  /\ (pc[p] = "active" /\ op[p] = "wizard") => snap[p].active # None
  /\ pc[p] \in {"config", "undo"} => (snap[p].active # None \/ active = snap[p].active)

RestoreIInv == IInv /\ \A p \in Procs : lock = p => RestoreInv(p)

\* The files only change under the lock or while nobody holds it, and a holder
\* keeps what it works with.
LEMMA HolderFrame ==
  ASSUME IInv, [Next]_vars, NEW p \in Procs, lock = p, ~ Transaction(p)
  PROVE  \/ Crash(p)
         \/ /\ UNCHANGED disk
            /\ pc'[p] = pc[p] /\ op'[p] = op[p] /\ new'[p] = new[p] /\ snap'[p] = snap[p]
<1>0. /\ TypeOK /\ Critical(p) /\ p # None /\ lock # None
      /\ pc[p] \notin {"idle", "editing", "storage", "core", "daemon", "rollback",
                       "coreAgain", "daemonAgain"}
  BY ConstantsAssumption DEF IInv, MutualExclusion, Critical
<1>1. ASSUME NEW q \in Procs, Begin(q) PROVE UNCHANGED disk /\ q # p
             /\ pc'[p] = pc[p] /\ op'[p] = op[p] /\ new'[p] = new[p] /\ snap'[p] = snap[p]
  BY <1>0, <1>1 DEF Begin, BeginWizard, BeginRotate, BeginSwitch, BeginRegenerate, Load,
     Confirm, Cancel, Goto, TypeOK, locals
<1>2. ASSUME NEW q \in Procs, Transaction(q)
      PROVE  /\ UNCHANGED disk
             /\ pc'[p] = pc[p] /\ op'[p] = op[p] /\ new'[p] = new[p] /\ snap'[p] = snap[p]
  <2>1. q # p
    BY <1>2
  <2> QED  BY <1>0, <1>2, <2>1, TransactionOthers
<1>3. ASSUME NEW q \in Procs, AfterCommit(q)
      PROVE  /\ UNCHANGED disk
             /\ pc'[p] = pc[p] /\ op'[p] = op[p] /\ new'[p] = new[p] /\ snap'[p] = snap[p]
  BY <1>0, <1>3 DEF AfterCommit, PrepareStorage, RestartCore, RestartDaemon, RestoreSnapshot,
     RestoreCredential, RestartCoreAgain, RestartDaemonAgain, Goto, Finish, TypeOK, locals
<1>4. ASSUME NEW q \in Procs, Crash(q)
      PROVE  \/ Crash(p)
             \/ /\ UNCHANGED disk
                /\ pc'[p] = pc[p] /\ op'[p] = op[p] /\ new'[p] = new[p] /\ snap'[p] = snap[p]
  BY <1>0, <1>4 DEF Crash, Goto, Finish, TypeOK, locals
<1>5. CASE CoreReload \/ DaemonReload
  BY <1>5 DEF CoreReload, DaemonReload, locals
<1>6. CASE UNCHANGED vars
  BY <1>6 DEF vars, disk
<1> QED  BY <1>1, <1>2, <1>3, <1>4, <1>5, <1>6 DEF Next

\* A step of the transaction that holds the lock, or takes it.
LEMMA TransactionRestore ==
  ASSUME WritesAreClean, IInv, IInv', NEW p \in Procs, Transaction(p),
         lock = p => RestoreInv(p), lock' = p
  PROVE  RestoreInv(p)'
<1> USE DEF Goto, Finish
<1>0. /\ TypeOK /\ OpInv(p) /\ (Critical(p) <=> lock = p) /\ p # None
      /\ snap[p] \in Snapshots /\ snap[p].artifacts \in [Files -> Nodes \cup {None}]
  BY ConstantsAssumption DEF IInv, MutualExclusion, TypeOK, Snapshots
<1>1. CASE Replace(p)
  BY <1>0, <1>1 DEF Replace
<1>2. CASE AcquireLock(p)
  <2>1. /\ snap'[p] = CurrentFiles /\ UNCHANGED disk /\ op' = op /\ new' = new
        /\ pc'[p] \in {"write", "check", "config"}
        /\ pc'[p] = "config" => ~ NeedActiveSync("wizard", new[p].nodes, CurrentFiles)
    BY <1>0, <1>2 DEF AcquireLock, TypeOK
  <2> QED  BY <2>1 DEF RestoreInv, CurrentFiles, disk
<1>3. CASE Check(p)
  <2>1. /\ op' = op /\ new' = new /\ snap' = snap /\ UNCHANGED disk /\ pc[p] = "check"
        /\ lock = p /\ pc'[p] \in {"ready", "write", "idle"}
        /\ lock' = p => pc'[p] = "write"
    BY <1>0, <1>3, ConstantsAssumption DEF Check, locals, TypeOK, Critical, OpInv
  <2> QED  BY <2>1 DEF RestoreInv, disk
<1>4. CASE WriteArtifact(p)
  <2>1. /\ op' = op /\ new' = new /\ snap' = snap /\ config' = config /\ active' = active
        /\ lock = p /\ pc[p] = "write" /\ op[p] \in {"wizard", "regenerate"}
        /\ pc'[p] \in {"write", "active", "config", "undo"}
        /\ \A f \in Files \ Generated(new[p].nodes) : artifacts'[f] = artifacts[f]
    BY <1>0, <1>4 DEF WriteArtifact, OpInv, TypeOK, Pending
  <2>2. pc'[p] = "active" => NeedActiveSync(op[p], new[p].nodes, snap[p])
    BY <1>0, <1>4 DEF WriteArtifact, TypeOK
  <2>3. (pc'[p] = "active" /\ op[p] = "wizard") => snap[p].active # None
    BY <2>2 DEF NeedActiveSync
  <2> QED  BY <2>1, <2>3 DEF RestoreInv
<1>5. CASE WriteActive(p)
  <2>1. /\ op' = op /\ new' = new /\ snap' = snap /\ config' = config /\ artifacts' = artifacts
        /\ lock = p /\ pc[p] = "active" /\ op[p] \in {"wizard", "regenerate"}
        /\ \/ pc'[p] = "undo" /\ active' = active
           \/ pc'[p] = IF op[p] = "regenerate" THEN "prune" ELSE "config"
    BY <1>0, <1>5 DEF WriteActive, locals, TypeOK, OpInv, Fail, WritesAreClean
  <2> QED  BY <2>1 DEF RestoreInv
<1>6. CASE WriteConfig(p)
  <2>1. /\ new' = new /\ snap' = snap /\ active' = active /\ artifacts' = artifacts
        /\ lock = p /\ pc[p] = "config"
        /\ \/ pc'[p] = "undo" /\ config' = config
           \/ pc'[p] = "prune"
    BY <1>0, <1>6 DEF WriteConfig, locals, TypeOK, OpInv, Fail, WritesAreClean
  <2> QED  BY <2>1 DEF RestoreInv
<1>7. CASE Undo(p)
  BY <1>0, <1>7 DEF Undo, PriorActive
<1>8. CASE Prune(p)
  BY <1>0, <1>8 DEF Prune
<1>9. QED
  BY <1>1, <1>2, <1>3, <1>4, <1>5, <1>6, <1>7, <1>8 DEF Transaction

LEMMA StepRestore ==
  ASSUME WritesAreClean, RestoreIInv, [Next]_vars
  PROVE  RestoreIInv'
<1>1. IInv /\ IInv'
  BY StepIInv DEF RestoreIInv
<1>2. ASSUME NEW p \in Procs, lock' = p, lock # p
      PROVE  Transaction(p)
  <2>0. TypeOK /\ p # None
    BY <1>1, ConstantsAssumption DEF IInv
  <2>1. CASE \E q \in Procs : Transaction(q)
    BY <1>2, <2>0, <2>1 DEF Transaction, Replace, AcquireLock, Check, WriteArtifact, WriteActive,
       WriteConfig, Undo, Prune
  <2>2. CASE \E q \in Procs : Begin(q) \/ AfterCommit(q) \/ Crash(q)
    BY <1>2, <2>0, <2>2 DEF Begin, BeginWizard, BeginRotate, BeginSwitch, BeginRegenerate, Load,
       Confirm, Cancel, AfterCommit, PrepareStorage, RestartCore, RestartDaemon, RestoreSnapshot,
       RestoreCredential, RestartCoreAgain, RestartDaemonAgain, Crash
  <2>3. CASE CoreReload \/ DaemonReload \/ UNCHANGED vars
    BY <1>2, <2>0, <2>3 DEF CoreReload, DaemonReload, vars
  <2> QED  BY <2>1, <2>2, <2>3 DEF Next
<1>3. ASSUME NEW p \in Procs, lock' = p PROVE RestoreInv(p)'
  <2>1. CASE Transaction(p)
    BY <1>1, <1>3, <2>1, TransactionRestore DEF RestoreIInv
  <2>2. CASE ~ Transaction(p)
    <3>1. lock = p /\ RestoreInv(p)
      BY <1>2, <1>3, <2>2 DEF RestoreIInv
    <3>2. /\ UNCHANGED disk
          /\ pc'[p] = pc[p] /\ op'[p] = op[p] /\ new'[p] = new[p] /\ snap'[p] = snap[p]
      <4>1. ~ Crash(p)
        BY <1>3, <3>1, ConstantsAssumption DEF Crash
      <4> QED  BY <1>1, <2>2, <3>1, <4>1, HolderFrame
    <3> QED  BY <3>1, <3>2 DEF RestoreInv, disk
  <2> QED  BY <2>1, <2>2
<1> QED  BY <1>1, <1>3 DEF RestoreIInv

\* What the holder of the lock leaves when its command ends in failure.
LEMMA FailureStep ==
  ASSUME WritesAreClean, RestoreIInv, [Next]_vars, NEW p \in Procs,
         lock = p, outcome'[p] = "failed", pc'[p] = "idle"
  PROVE  /\ config' = snap[p].config
         /\ active' = snap[p].active
         /\ \A f \in Files : snap[p].artifacts[f] # None =>
                               artifacts'[f] = snap[p].artifacts[f]
<1> USE DEF Goto, Finish
<1>0. /\ IInv /\ TypeOK /\ OpInv(p) /\ Critical(p) /\ RestoreInv(p)
      /\ pc[p] \notin {"idle", "editing", "ready", "storage", "core", "daemon", "rollback",
                       "coreAgain", "daemonAgain"}
  BY DEF RestoreIInv, IInv, MutualExclusion, Critical
<1>1. CASE Check(p)
  BY <1>0, <1>1 DEF Check, locals, RestoreInv, disk
<1>2. CASE Undo(p)
  <2>1. pc[p] = "undo"
    BY <1>2 DEF Undo
  <2>2. /\ artifacts' = [f \in Files |->
             IF f \in {g \in Generated(new[p].nodes) : snap[p].artifacts[g] # None}
             THEN snap[p].artifacts[f] ELSE artifacts[f]]
        /\ active' = PriorActive(p)
        /\ config' = config
    BY <1>2 DEF Undo, Fail, WritesAreClean
  <2>3. config' = snap[p].config /\ active' = snap[p].active
    BY <1>0, <2>1, <2>2 DEF RestoreInv, PriorActive
  <2>4. ASSUME NEW f \in Files, snap[p].artifacts[f] # None
        PROVE  artifacts'[f] = snap[p].artifacts[f]
    BY <1>0, <2>1, <2>2, <2>4 DEF RestoreInv
  <2> QED  BY <2>3, <2>4
<1>3. CASE Prune(p)
  BY <1>0, <1>3, ConstantsAssumption DEF Prune, TypeOK
<1>4. CASE Replace(p) \/ AcquireLock(p) \/ WriteArtifact(p) \/ WriteActive(p) \/ WriteConfig(p)
  BY <1>0, <1>4, ConstantsAssumption
  DEF Replace, AcquireLock, WriteArtifact, WriteActive, WriteConfig, TypeOK
<1>5. CASE ~ Transaction(p)
  <2>1. CASE Crash(p)
    BY <1>0, <2>1 DEF Crash, TypeOK
  <2>2. CASE ~ Crash(p)
    BY <1>0, <1>5, <2>2, HolderFrame
  <2> QED  BY <2>1, <2>2
<1> QED  BY <1>1, <1>2, <1>3, <1>4, <1>5 DEF Transaction

\* A transaction that fails before it commits puts back config.toml, the active
\* configuration and every artifact that existed before it, whatever the other
\* commands did meanwhile; assumed is only that a failed replacement leaves the
\* old file and that the restoration itself does not fail.
THEOREM FailurePutsBack ==
  ASSUME WritesAreClean
  PROVE  Spec => FailedTransactionRestores
<1>1. Init => RestoreIInv
  BY InitIInv, ConstantsAssumption DEF RestoreIInv, Init
<1>2. RestoreIInv /\ [Next]_vars =>
        [\A p \in Procs :
           (lock = p /\ outcome'[p] = "failed" /\ pc'[p] = "idle") =>
             /\ config' = snap[p].config
             /\ active' = snap[p].active
             /\ \A f \in Files : snap[p].artifacts[f] # None =>
                                   artifacts'[f] = snap[p].artifacts[f]]_vars
  BY FailureStep
<1>3. RestoreIInv /\ [Next]_vars => RestoreIInv'
  BY StepRestore
<1> QED  BY <1>1, <1>2, <1>3, PTL DEF Spec, FailedTransactionRestores

-------------------------------------------------------------------------------
(* A revoked credential never authorises again *)

\* One administrator publishes; beside them artifacts are only regenerated.
SinglePublisher ==
  \E a \in Procs : \A p \in Procs \ {a} : OpsOf[p] \subseteq {"regenerate"}

Publishes(p) == pc[p] # "idle" /\ op[p] # "regenerate"

Valid(c) == c.cred \in issued \ revoked

\* The credentials a command works with.
CredInv(p) ==
  /\ pc[p] # "idle" => op[p] \in OpsOf[p]
  /\ Publishes(p) => Valid(base[p])
  /\ (Publishes(p) /\ pc[p] # "editing") => Valid(new[p])
  /\ (Publishes(p) /\ op[p] = "wizard" /\ pc[p] \notin {"editing", "ready"}) =>
       Valid(snap[p].config)
  /\ (Publishes(p) /\ op[p] = "rotate") => new[p].cred # base[p].cred
  /\ (op[p] = "rotate" /\ pc[p] \in {"core", "daemon"}) => config = new[p]
  /\ pc[p] \in {"editing", "storage"} => op[p] = "wizard"

RevokedInv ==
  /\ IInv
  /\ revoked \subseteq issued
  /\ Valid(config)
  /\ served # None => Valid(served)
  /\ \A p \in Procs : CredInv(p)

LEMMA OnePublishes ==
  ASSUME SinglePublisher, RevokedInv, NEW p \in Procs, NEW q \in Procs,
         Publishes(p), Publishes(q)
  PROVE  p = q
BY DEF SinglePublisher, RevokedInv, CredInv, Publishes

LEMMA InitRevoked == Init => RevokedInv
<1> SUFFICES ASSUME Init PROVE RevokedInv
  OBVIOUS
<1>1. IInv
  BY InitIInv
<1> QED  BY <1>1 DEF Init, RevokedInv, Valid, CredInv, Publishes

\* The local variables of the other commands, and what a command does to the
\* credentials, step by step.
LEMMA OthersKept ==
  ASSUME TypeOK, NEW p \in Procs, Begin(p) \/ Transaction(p) \/ AfterCommit(p) \/ Crash(p),
         NEW q \in Procs \ {p}
  PROVE  /\ pc'[q] = pc[q] /\ op'[q] = op[q] /\ new'[q] = new[q] /\ base'[q] = base[q]
         /\ snap'[q] = snap[q]
<1> USE DEF TypeOK, Goto, Finish, AfterReplace, locals
<1>1. CASE Begin(p)
  BY <1>1 DEF Begin, BeginWizard, BeginRotate, BeginSwitch, BeginRegenerate, Load, Confirm, Cancel
<1>2. CASE Transaction(p)
  BY <1>2 DEF Transaction, Replace, AcquireLock, Check, WriteArtifact, WriteActive, WriteConfig,
     Undo, Prune
<1>3. CASE AfterCommit(p)
  BY <1>3 DEF AfterCommit, PrepareStorage, RestartCore, RestartDaemon, RestoreSnapshot,
     RestoreCredential, RestartCoreAgain, RestartDaemonAgain
<1>4. CASE Crash(p)
  BY <1>4 DEF Crash
<1> QED  BY <1>1, <1>2, <1>3, <1>4

\* A step of p that only publishes valid credentials and revokes none.
LEMMA KeptCred ==
  ASSUME RevokedInv, SinglePublisher, IInv', NEW p \in Procs,
         Begin(p) \/ Transaction(p) \/ AfterCommit(p) \/ Crash(p),
         issued \subseteq issued', revoked' = revoked,
         Valid(config)', served' # None => Valid(served)', CredInv(p)',
         config' = config \/ Publishes(p)
  PROVE  RevokedInv'
<1>0. TypeOK
  BY DEF RevokedInv, IInv
<1>1. ASSUME NEW q \in Procs \ {p} PROVE CredInv(q)'
  <2>1. /\ pc'[q] = pc[q] /\ op'[q] = op[q] /\ new'[q] = new[q] /\ base'[q] = base[q]
        /\ snap'[q] = snap[q] /\ CredInv(q)
    BY <1>0, OthersKept DEF RevokedInv
  <2>2. Publishes(q)' = Publishes(q)
    BY <2>1 DEF Publishes
  <2>3. Publishes(q) => config' = config
    BY OnePublishes
  <2>4. (op[q] = "rotate" /\ pc[q] \in {"core", "daemon"}) => config' = config
    BY <2>3 DEF Publishes
  <2> QED  BY <2>1, <2>2, <2>4 DEF CredInv, Valid
<1> QED  BY <1>1 DEF RevokedInv

LEMMA BeginCred ==
  ASSUME SinglePublisher, RevokedInv, IInv', NEW p \in Procs, Begin(p)
  PROVE  RevokedInv'
<1> USE DEF Goto
<1>0. TypeOK /\ CredInv(p) /\ TypeOK'
  BY DEF RevokedInv, IInv
<1>1. /\ revoked' = revoked /\ config' = config /\ served' = served
      /\ issued \subseteq issued'
  BY DEF Begin, BeginWizard, BeginRotate, BeginSwitch, BeginRegenerate, Load, Confirm, Cancel,
     disk, running, history
<1>2. Valid(config)' /\ (served' # None => Valid(served)')
  BY <1>1 DEF RevokedInv, Valid
<1>3. CredInv(p)'
  <2>1. CASE BeginWizard(p)
    BY <1>0, <1>1, <2>1 DEF BeginWizard, Load, CredInv, Publishes, Valid, RevokedInv, TypeOK
  <2>2. CASE BeginRotate(p)
    <3>1. PICK c \in Creds \ issued : /\ issued' = issued \cup {c}
                                      /\ new' = [new EXCEPT ![p] = [config EXCEPT !.cred = c]]
      BY <2>2 DEF BeginRotate
    <3>2. new'[p].cred = c /\ base'[p] = config /\ config.cred \in issued /\ c \notin revoked
      BY <1>0, <2>2, <3>1 DEF BeginRotate, Load, TypeOK, Configs, RevokedInv, Valid
    <3>3. /\ pc'[p] = "ready" /\ op'[p] = "rotate" /\ "rotate" \in OpsOf[p]
      BY <1>0, <2>2 DEF BeginRotate, Load, TypeOK
    <3>4. Valid(base[p])' /\ Valid(new[p])' /\ new'[p].cred # base'[p].cred
      BY <1>1, <3>1, <3>2 DEF Valid, RevokedInv
    <3> QED  BY <3>3, <3>4 DEF CredInv, Publishes
  <2>3. CASE BeginSwitch(p)
    <3>1. PICK m \in Modes : new' = [new EXCEPT ![p] = [config EXCEPT !.mode = m]]
      BY <2>3 DEF BeginSwitch
    <3>2. new'[p].cred = config.cred /\ base'[p] = config
      BY <1>0, <2>3, <3>1 DEF BeginSwitch, Load, TypeOK, Configs
    <3>3. /\ pc'[p] = "ready" /\ op'[p] = "switch" /\ "switch" \in OpsOf[p]
      BY <1>0, <2>3 DEF BeginSwitch, Load, TypeOK
    <3>4. Valid(base[p])' /\ Valid(new[p])'
      BY <1>1, <3>1, <3>2 DEF Valid, RevokedInv
    <3> QED  BY <3>3, <3>4 DEF CredInv, Publishes
  <2>4. CASE BeginRegenerate(p)
    BY <1>0, <1>1, <2>4 DEF BeginRegenerate, Load, CredInv, Publishes, Valid, RevokedInv, TypeOK
  <2>5. CASE Confirm(p)
    <3>1. PICK c \in Configs : c.cred = base[p].cred /\ new' = [new EXCEPT ![p] = c]
      BY <2>5 DEF Confirm
    <3>2. /\ new'[p].cred = base[p].cred /\ base'[p] = base[p] /\ op'[p] = op[p]
          /\ pc[p] = "editing" /\ pc'[p] = "ready" /\ issued' = issued
      BY <1>0, <2>5, <3>1 DEF Confirm, TypeOK, history
    <3> QED  BY <1>0, <1>1, <3>2 DEF CredInv, Publishes, Valid
  <2>6. CASE Cancel(p)
    BY <1>0, <1>1, <2>6 DEF Cancel, CredInv, Publishes, TypeOK, locals
  <2> QED  BY <2>1, <2>2, <2>3, <2>4, <2>5, <2>6 DEF Begin
<1> QED  BY <1>1, <1>2, <1>3, KeptCred

LEMMA TransactionCred ==
  ASSUME SinglePublisher, RevokedInv, IInv', NEW p \in Procs, Transaction(p)
  PROVE  RevokedInv'
<1> USE DEF Goto, Finish, AfterReplace
<1>0. TypeOK /\ CredInv(p) /\ OpInv(p) /\ TypeOK'
  BY DEF RevokedInv, IInv
<1>1. /\ revoked' = revoked /\ issued' = issued /\ served' = served
      /\ op' = op /\ new' = new /\ base' = base
  BY DEF Transaction, Replace, AcquireLock, Check, WriteArtifact, WriteActive, WriteConfig, Undo,
     Prune, running, history, locals
<1>2. config' = config \/ (config' = new[p] /\ pc[p] \in {"ready", "config"}
                           /\ op[p] \in {"wizard", "rotate", "switch"})
  BY <1>0 DEF Transaction, Replace, AcquireLock, Check, WriteArtifact, WriteActive, WriteConfig,
     Undo, Prune, disk, OpInv
<1>3. config' = config \/ (Publishes(p) /\ Valid(config)')
  BY <1>0, <1>1, <1>2 DEF Publishes, CredInv, Valid
<1>4. Valid(config)' /\ (served' # None => Valid(served)')
  BY <1>1, <1>3 DEF RevokedInv, Valid
<1>5. CredInv(p)'
  <2>1. /\ pc[p] \in {"ready", "check", "write", "active", "config", "undo", "prune"}
        /\ snap'[p].config = snap[p].config \/ snap'[p].config = config
        /\ pc[p] = "ready" \/ snap'[p] = snap[p]
    BY <1>0 DEF Transaction, Replace, AcquireLock, Check, WriteArtifact, WriteActive, WriteConfig,
       Undo, Prune, locals, TypeOK, CurrentFiles
  <2>2. /\ pc'[p] \notin {"editing", "daemon"}
        /\ pc'[p] = "core" => (op[p] = "rotate" /\ config' = new[p])
        /\ pc[p] = "ready" => pc'[p] = "idle" \/ pc'[p] = "core" \/ snap'[p].config = config
        /\ (pc[p] = "check" /\ pc'[p] = "ready") => op[p] = "regenerate"
        /\ pc'[p] = "storage" => op[p] = "wizard"
    BY <1>0 DEF Transaction, Replace, AcquireLock, Check, WriteArtifact, WriteActive, WriteConfig,
       Undo, Prune, locals, TypeOK, CurrentFiles, OpInv
  <2>3. (Publishes(p)' /\ op[p] = "wizard" /\ pc'[p] \notin {"editing", "ready"}) =>
          Valid(snap[p].config)'
    BY <1>0, <1>1, <2>1, <2>2 DEF CredInv, Publishes, Valid, RevokedInv
  <2> QED  BY <1>0, <1>1, <2>1, <2>2, <2>3 DEF CredInv, Publishes, Valid
<1> QED  BY <1>1, <1>3, <1>4, <1>5, KeptCred

\* The rotation that succeeds revokes the credential it replaced; no other command
\* works with one then.
LEMMA RotationCred ==
  ASSUME SinglePublisher, RevokedInv, IInv', NEW p \in Procs, RestartDaemon(p),
         op[p] = "rotate", revoked' # revoked
  PROVE  RevokedInv'
<1> USE DEF Goto, Finish
<1>0. TypeOK /\ CredInv(p) /\ TypeOK'
  BY DEF RevokedInv, IInv
<1>1. /\ served' = config /\ pc[p] = "daemon" /\ pc'[p] = "idle"
      /\ revoked' = revoked \cup {base[p].cred}
      /\ issued' = issued /\ config' = config /\ op' = op /\ new' = new /\ base' = base
      /\ snap' = snap
  BY <1>0 DEF RestartDaemon, TypeOK, disk, locals
<1>2. config = new[p] /\ new[p].cred # base[p].cred /\ base[p].cred \in issued
  BY <1>0, <1>1 DEF CredInv, Publishes, Valid
<1>3. Valid(config)' /\ Valid(served)' /\ revoked' \subseteq issued'
  BY <1>1, <1>2 DEF RevokedInv, Valid
<1>4. ASSUME NEW q \in Procs PROVE CredInv(q)'
  <2>1. CASE q = p
    BY <1>0, <1>1, <2>1 DEF CredInv, Publishes
  <2>2. CASE q # p
    <3>1. pc'[q] = pc[q] /\ ~ Publishes(q)
      BY <1>0, <1>1, <2>2, OnePublishes DEF RestartDaemon, TypeOK, Publishes
    <3>2. CredInv(q)
      BY DEF RevokedInv
    <3> QED  BY <1>1, <3>1, <3>2 DEF CredInv, Publishes
  <2> QED  BY <2>1, <2>2
<1> QED  BY <1>3, <1>4 DEF RevokedInv

LEMMA AfterCommitCred ==
  ASSUME SinglePublisher, RevokedInv, IInv', NEW p \in Procs, AfterCommit(p)
  PROVE  RevokedInv'
<1> USE DEF Goto, Finish
<1>0. TypeOK /\ CredInv(p) /\ TypeOK'
  BY DEF RevokedInv, IInv
<1>1. /\ issued' = issued /\ op' = op /\ new' = new /\ base' = base /\ snap' = snap
      /\ served' \in {served, config, None}
      /\ pc[p] \in {"storage", "core", "daemon", "rollback", "coreAgain", "daemonAgain"}
      /\ pc'[p] \notin {"editing", "storage"}
      /\ pc'[p] \in {"core", "daemon"} => (config' = config /\ pc[p] \in {"storage", "core"})
      /\ revoked' = revoked \/ (op[p] = "rotate" /\ RestartDaemon(p))
  BY <1>0 DEF AfterCommit, PrepareStorage, RestartCore, RestartDaemon, RestoreSnapshot,
     RestoreCredential, RestartCoreAgain, RestartDaemonAgain, TypeOK, disk, running, locals, history
<1>2. \/ config' = config
      \/ pc[p] = "rollback" /\ op[p] = "wizard" /\ config' = snap[p].config
      \/ pc[p] = "rollback" /\ op[p] = "rotate" /\ config' = [new[p] EXCEPT !.cred = base[p].cred]
  BY DEF AfterCommit, PrepareStorage, RestartCore, RestartDaemon, RestoreSnapshot,
     RestoreCredential, RestartCoreAgain, RestartDaemonAgain, disk
<1>3. config' = config \/ (Publishes(p) /\ config'.cred \in issued \ revoked)
  <2>1. [new[p] EXCEPT !.cred = base[p].cred].cred = base[p].cred
    BY <1>0 DEF TypeOK, Configs
  <2> QED  BY <1>0, <1>2, <2>1 DEF CredInv, Publishes, Valid
<1>4. CASE revoked' = revoked
  <2>1. Valid(config)' /\ (served' # None => Valid(served)')
    BY <1>1, <1>3, <1>4 DEF RevokedInv, Valid
  <2>2. (op'[p] = "rotate" /\ pc'[p] \in {"core", "daemon"}) => config' = new'[p]
    <3> SUFFICES ASSUME op'[p] = "rotate", pc'[p] \in {"core", "daemon"}
                 PROVE  config' = new'[p]
      OBVIOUS
    <3>1. /\ op[p] = "rotate" /\ pc[p] \in {"storage", "core"}
          /\ config' = config /\ new' = new
      BY <1>1
    <3>2. pc[p] # "storage" /\ (pc[p] = "core" => config = new[p])
      BY <1>0, <3>1 DEF CredInv
    <3> QED  BY <3>1, <3>2
  <2>3. /\ pc[p] \notin {"idle", "editing", "ready"}
        /\ Publishes(p)' => Publishes(p)
        /\ \A c : Valid(c)' = Valid(c)
    BY <1>1, <1>4 DEF Publishes, Valid
  <2>4. CredInv(p)'
    BY <1>0, <1>1, <2>2, <2>3 DEF CredInv
  <2> QED  BY <1>1, <1>3, <1>4, <2>1, <2>4, KeptCred
<1>5. CASE revoked' # revoked
  BY <1>1, <1>5, RotationCred
<1> QED  BY <1>4, <1>5

LEMMA StepRevoked ==
  ASSUME SinglePublisher, RevokedInv, [Next]_vars
  PROVE  RevokedInv'
<1>0. IInv /\ IInv' /\ TypeOK
  BY StepIInv DEF RevokedInv, IInv
<1>1. ASSUME NEW p \in Procs, Crash(p) PROVE RevokedInv'
  <2>1. /\ pc'[p] = "idle" /\ op' = op /\ config' = config /\ served' = served
        /\ issued' = issued /\ revoked' = revoked
    BY <1>0, <1>1 DEF Crash, Finish, Goto, TypeOK, disk, running, locals, history
  <2>2. CredInv(p)'
    BY <2>1 DEF CredInv, Publishes
  <2> QED  BY <1>0, <1>1, <2>1, <2>2, KeptCred DEF RevokedInv, Valid
<1>2. CASE CoreReload \/ DaemonReload \/ UNCHANGED vars
  BY <1>0, <1>2 DEF CoreReload, DaemonReload, vars, disk, running, locals, history, RevokedInv, CredInv,
     Publishes, Valid
<1> QED  BY <1>0, <1>1, <1>2, BeginCred, TransactionCred, AfterCommitCred DEF Next

\* As long as one administrator at a time publishes, a credential whose rotation
\* was reported as done never authorises again: neither the running daemon nor
\* config.toml holds it, whatever fails or crashes in between and however often
\* artifacts are regenerated beside it.
THEOREM RevokedStaysRevoked ==
  ASSUME SinglePublisher
  PROVE  Spec => []RevokedNeverServed
<1>1. RevokedInv => RevokedNeverServed
  BY DEF RevokedInv, RevokedNeverServed, Valid
<1>2. RevokedInv /\ [Next]_vars => RevokedInv'
  BY StepRevoked
<1> QED  BY <1>1, <1>2, InitRevoked, PTL DEF Spec

-------------------------------------------------------------------------------
(* Wizard commits and their rollbacks are atomic *)

\* Wizards on an installed deployment, of which none is killed and whose
\* restorations do not fail.
WizardsOnly ==
  /\ \A p \in Procs : OpsOf[p] \subseteq {"wizard"}
  /\ Installations \subseteq {TRUE}
  /\ FaultKinds \cap {"owner", "undo", "rollback", "crash"} = {}

\* Every configuration a command holds has the credential of the deployment, and
\* every snapshot is of one generation; so are the files while nobody works on them.
AtomicInv ==
  /\ RestoreIInv
  /\ active # None
  /\ config.cred = InitialConfig.cred
  /\ lock = None => active = config.nodes
  /\ \A p \in Procs :
       /\ pc[p] # "idle" => op[p] = "wizard"
       /\ base[p].cred = InitialConfig.cred
       /\ new[p].cred = InitialConfig.cred
       /\ snap[p].config.cred = InitialConfig.cred
       /\ snap[p].active = snap[p].config.nodes

LEMMA WizardsAreClean == WizardsOnly => WritesAreClean
BY DEF WizardsOnly, WritesAreClean

LEMMA NodesAreNotNone == \A c \in Configs : c.nodes # None /\ c.nodes \in Nodes
BY ConstantsAssumption DEF Configs

LEMMA InitAtomic ==
  ASSUME WizardsOnly, Init PROVE AtomicInv
<1>1. RestoreIInv
  BY InitIInv, ConstantsAssumption DEF RestoreIInv, Init
<1>2. active = InitialConfig.nodes /\ active # None
  BY NodesAreNotNone, ConstantsAssumption DEF Init, WizardsOnly
<1> QED  BY <1>1, <1>2 DEF Init, AtomicInv, CurrentFiles

\* What a step does to the files and to what the commands hold, when nobody is
\* in a critical section.
LEMMA FreeStep ==
  ASSUME WizardsOnly, AtomicInv, [Next]_vars, lock = None
  PROVE  \/ /\ lock' = None
            /\ UNCHANGED <<config, active, snap>>
         \/ /\ lock' \in Procs
            /\ UNCHANGED disk
            /\ snap' = [snap EXCEPT ![lock'] = CurrentFiles]
         \/ /\ lock' = None
            /\ snap' = snap
            /\ \E p \in Procs : config' = snap[p].config /\ active' = snap[p].active
<1>0. /\ IInv /\ TypeOK
      /\ \A p \in Procs : pc[p] # "idle" => op[p] = "wizard"
      /\ \A p \in Procs : ~ Critical(p) /\ snap[p] \in Snapshots
      /\ \A p \in Procs : snap[p].active # None
  <2>1. IInv /\ TypeOK /\ MutualExclusion
    BY DEF AtomicInv, RestoreIInv, IInv
  <2>2. ASSUME NEW p \in Procs
        PROVE  ~ Critical(p) /\ snap[p] \in Snapshots /\ snap[p].active # None
    <3>1. ~ Critical(p)
      BY <2>1, ConstantsAssumption DEF MutualExclusion
    <3>2. snap[p] \in Snapshots /\ snap[p].config \in Configs
      BY <2>1 DEF TypeOK, Snapshots
    <3>3. snap[p].active = snap[p].config.nodes
      BY DEF AtomicInv
    <3> QED  BY <3>1, <3>2, <3>3, NodesAreNotNone
  <2> QED  BY <2>1, <2>2 DEF AtomicInv
<1>1. ASSUME NEW p \in Procs, Begin(p) PROVE UNCHANGED <<config, active, lock, snap>>
  BY <1>1 DEF Begin, BeginWizard, BeginRotate, BeginSwitch, BeginRegenerate, Load, Confirm, Cancel,
     disk, locals
<1>2. ASSUME NEW p \in Procs, Transaction(p)
      PROVE  \/ UNCHANGED <<config, active, lock, snap>>
             \/ lock' = p /\ UNCHANGED disk /\ snap' = [snap EXCEPT ![p] = CurrentFiles]
  <2>1. CASE AcquireLock(p)
    BY <2>1 DEF AcquireLock
  <2>2. CASE Check(p)
    BY <1>0, <2>2 DEF Check, disk, locals, Critical
  <2>3. CASE Replace(p) \/ WriteArtifact(p) \/ WriteActive(p) \/ WriteConfig(p) \/ Undo(p) \/ Prune(p)
    BY <1>0, <2>3 DEF Replace, WriteArtifact, WriteActive, WriteConfig, Undo, Prune, Critical,
       locals
  <2> QED  BY <1>2, <2>1, <2>2, <2>3 DEF Transaction
<1>3. ASSUME NEW p \in Procs, AfterCommit(p)
      PROVE  /\ lock' = None /\ snap' = snap
             /\ \/ UNCHANGED <<config, active>>
                \/ config' = snap[p].config /\ active' = snap[p].active
  <2>1. CASE RestoreSnapshot(p)
    BY <1>0, <2>1 DEF RestoreSnapshot, PriorActive, Fail, WizardsOnly, locals
  <2>2. CASE RestoreCredential(p)
    BY <1>0, <2>2 DEF RestoreCredential, locals
  <2>3. CASE PrepareStorage(p) \/ RestartCore(p) \/ RestartDaemon(p) \/ RestartCoreAgain(p)
             \/ RestartDaemonAgain(p)
    BY <2>3 DEF PrepareStorage, RestartCore, RestartDaemon, RestartCoreAgain,
       RestartDaemonAgain, disk, locals
  <2> QED  BY <1>3, <2>1, <2>2, <2>3 DEF AfterCommit
<1>4. ASSUME NEW p \in Procs, Crash(p) PROVE FALSE
  BY <1>4 DEF Crash, Fail, WizardsOnly
<1>5. CASE CoreReload \/ DaemonReload \/ UNCHANGED vars
  BY <1>5 DEF CoreReload, DaemonReload, vars, disk, locals
<1> QED  BY <1>1, <1>2, <1>3, <1>4, <1>5 DEF Next

\* What a step does while p is in its critical section: p keeps the lock and its
\* snapshot, or it ends with the files restored or its new generation published.
LEMMA HeldStep ==
  ASSUME WizardsOnly, AtomicInv, [Next]_vars, NEW p \in Procs, lock = p
  PROVE  /\ active' # None
         /\ \/ lock' = p /\ snap' = snap /\ config' \in {config, new[p]}
            \/ lock' = None /\ snap' = snap /\ config' = snap[p].config /\ active' = snap[p].active
            \/ lock' = None /\ snap' = snap /\ config' = new[p] /\ active' = new[p].nodes
<1> USE DEF Goto, Finish
<1>0. /\ IInv /\ TypeOK /\ Critical(p) /\ RestoreInv(p) /\ DiskInv(p) /\ op[p] = "wizard"
      /\ \A q \in Procs \ {p} : ~ Critical(q)
      /\ p # None /\ new[p].nodes # None /\ new[p].nodes \in Nodes /\ snap[p].active # None
      /\ active # None /\ WritesAreClean
  BY NodesAreNotNone, WizardsAreClean, ConstantsAssumption
  DEF AtomicInv, RestoreIInv, IInv, MutualExclusion, Critical, TypeOK, Snapshots
<1>1. CASE Transaction(p)
  <2>1. CASE Replace(p) \/ AcquireLock(p)
    BY <1>0, <2>1 DEF Replace, AcquireLock
  <2>2. CASE Check(p)
    BY <1>0, <2>2 DEF Check, locals, RestoreInv, disk
  <2>3. CASE WriteArtifact(p)
    BY <1>0, <2>3 DEF WriteArtifact
  <2>4. CASE WriteActive(p)
    BY <1>0, <2>4 DEF WriteActive, locals
  <2>5. CASE WriteConfig(p)
    BY <1>0, <2>5 DEF WriteConfig, locals
  <2>6. CASE Undo(p)
    <3>1. /\ lock' = None /\ snap' = snap /\ outcome'[p] = "failed" /\ pc'[p] = "idle"
      BY <1>0, <2>6 DEF Undo, locals, TypeOK
    <3> QED  BY <1>0, <3>1, FailureStep DEF AtomicInv
  <2>7. CASE Prune(p)
    BY <1>0, <2>7 DEF Prune, locals, DiskInv
  <2> QED  BY <1>1, <2>1, <2>2, <2>3, <2>4, <2>5, <2>6, <2>7 DEF Transaction
<1>2. ASSUME NEW q \in Procs, Begin(q) PROVE UNCHANGED <<config, active, lock, snap>>
  BY <1>2 DEF Begin, BeginWizard, BeginRotate, BeginSwitch, BeginRegenerate, Load, Confirm, Cancel,
     disk, locals
<1>3. ASSUME NEW q \in Procs \ {p}, Transaction(q) PROVE UNCHANGED <<config, active, lock, snap>>
  BY <1>0, <1>3 DEF Transaction, Replace, AcquireLock, Check, WriteArtifact, WriteActive,
     WriteConfig, Undo, Prune, Critical, disk, locals, AtomicInv
<1>4. ASSUME NEW q \in Procs, AfterCommit(q) PROVE UNCHANGED <<config, active, lock, snap>>
  BY <1>0, <1>4 DEF AfterCommit, PrepareStorage, RestartCore, RestartDaemon, RestoreSnapshot,
     RestoreCredential, RestartCoreAgain, RestartDaemonAgain, disk, locals
<1>5. ASSUME NEW q \in Procs, Crash(q) PROVE FALSE
  BY <1>5 DEF Crash, Fail, WizardsOnly
<1>6. CASE CoreReload \/ DaemonReload \/ UNCHANGED vars
  BY <1>0, <1>6 DEF CoreReload, DaemonReload, vars, disk, locals
<1> QED  BY <1>0, <1>1, <1>2, <1>3, <1>4, <1>5, <1>6 DEF Next

\* What the commands keep in memory: only wizards run, with the one credential.
LEMMA LocalAtomic ==
  ASSUME WizardsOnly, AtomicInv, [Next]_vars, NEW p \in Procs
  PROVE  /\ pc'[p] # "idle" => op'[p] = "wizard"
         /\ base'[p].cred = InitialConfig.cred
         /\ new'[p].cred = InitialConfig.cred
<1>0. /\ TypeOK /\ config.cred = InitialConfig.cred
      /\ pc[p] # "idle" => op[p] = "wizard"
      /\ base[p].cred = InitialConfig.cred /\ new[p].cred = InitialConfig.cred
  BY DEF AtomicInv, RestoreIInv, IInv
<1>1. ASSUME NEW q \in Procs, Begin(q)
      PROVE  /\ pc'[p] # "idle" => op'[p] = "wizard"
             /\ base'[p].cred = InitialConfig.cred
             /\ new'[p].cred = InitialConfig.cred
  <2>1. CASE BeginWizard(q)
    BY <1>0, <2>1 DEF BeginWizard, Load, Goto, TypeOK
  <2>2. CASE BeginRotate(q) \/ BeginSwitch(q) \/ BeginRegenerate(q)
    BY <1>0, <2>2 DEF BeginRotate, BeginSwitch, BeginRegenerate, Load, WizardsOnly
  <2>3. CASE Confirm(q)
    <3>1. PICK c \in Configs : c.cred = base[q].cred /\ new' = [new EXCEPT ![q] = c]
      BY <2>3 DEF Confirm
    <3>2. new'[p] = new[p] \/ (q = p /\ new'[p] = c)
      BY <1>0, <3>1 DEF TypeOK
    <3>3. UNCHANGED <<op, base>> /\ pc[q] = "editing" /\ (pc'[p] = pc[p] \/ q = p)
      BY <1>0, <2>3 DEF Confirm, Goto, TypeOK
    <3> QED  BY <1>0, <3>1, <3>2, <3>3
  <2>4. CASE Cancel(q)
    BY <1>0, <2>4 DEF Cancel, Goto, TypeOK, locals
  <2> QED  BY <1>1, <2>1, <2>2, <2>3, <2>4 DEF Begin
<1>2. ASSUME NEW q \in Procs, Transaction(q) \/ AfterCommit(q) \/ Crash(q)
      PROVE  /\ UNCHANGED <<op, base, new>>
             /\ pc[q] # "idle"
  BY <1>2 DEF Transaction, Replace, AcquireLock, Check, WriteArtifact, WriteActive, WriteConfig,
     Undo, Prune, AfterCommit, PrepareStorage, RestartCore, RestartDaemon, RestoreSnapshot,
     RestoreCredential, RestartCoreAgain, RestartDaemonAgain, Crash, locals
<1>3. ASSUME NEW q \in Procs, Transaction(q) \/ AfterCommit(q) \/ Crash(q)
      PROVE  pc'[p] # "idle" => op'[p] = "wizard"
  BY <1>0, <1>2, <1>3, OthersKept
<1>4. CASE CoreReload \/ DaemonReload \/ UNCHANGED vars
  BY <1>0, <1>4 DEF CoreReload, DaemonReload, vars, locals
<1> QED  BY <1>0, <1>1, <1>2, <1>3, <1>4 DEF Next

LEMMA StepAtomic ==
  ASSUME WizardsOnly, AtomicInv, [Next]_vars
  PROVE  /\ AtomicInv'
         /\ [Atomic!Next]_<<Visible.config, Visible.active>>
<1>0. /\ TypeOK /\ RestoreIInv /\ RestoreIInv' /\ TypeOK' /\ lock \in Procs \cup {None}
  <2>1. RestoreIInv /\ TypeOK
    BY DEF AtomicInv, RestoreIInv, IInv
  <2>2. RestoreIInv'
    BY <2>1, StepRestore, WizardsAreClean
  <2> QED  BY <2>1, <2>2 DEF RestoreIInv, IInv, TypeOK
<1>1. ASSUME NEW p \in Procs
      PROVE  /\ pc'[p] # "idle" => op'[p] = "wizard"
             /\ base'[p].cred = InitialConfig.cred
             /\ new'[p].cred = InitialConfig.cred
  BY LocalAtomic
<1>2. SUFFICES /\ active' # None
               /\ config'.cred = InitialConfig.cred
               /\ lock' = None => active' = config'.nodes
               /\ \A p \in Procs : /\ snap'[p].config.cred = InitialConfig.cred
                                   /\ snap'[p].active = snap'[p].config.nodes
               /\ [Atomic!Next]_<<Visible.config, Visible.active>>
  BY <1>0, <1>1 DEF AtomicInv
<1>3. /\ active # None /\ config.cred = InitialConfig.cred
      /\ config \in Configs
      /\ \A p \in Procs : /\ snap[p].config.cred = InitialConfig.cred
                          /\ snap[p].active = snap[p].config.nodes
                          /\ new[p].cred = InitialConfig.cred /\ new[p] \in Configs
                          /\ snap[p].config \in Configs
  BY <1>0 DEF AtomicInv, TypeOK, Snapshots
<1>c. ASSUME NEW c \in Configs, c.cred = Visible.config.cred,
             Visible.config' = c, Visible.active' = c.nodes
      PROVE  Atomic!Next
  BY <1>c DEF Atomic!Next, Atomic!Commit
<1>4. CASE lock = None
  <2>1. active = config.nodes /\ Visible = CurrentFiles
    BY <1>4 DEF AtomicInv, Visible
  <2>2. CASE lock' = None /\ UNCHANGED <<config, active, snap>>
    <3>1. Visible.config' = Visible.config /\ Visible.active' = Visible.active
      BY <2>1, <2>2 DEF Visible, CurrentFiles
    <3> QED  BY <1>3, <2>1, <2>2, <3>1
  <2>3. CASE /\ lock' \in Procs
             /\ UNCHANGED disk
             /\ snap' = [snap EXCEPT ![lock'] = CurrentFiles]
    <3>1. lock' # None
      BY <2>3, ConstantsAssumption
    <3>2. Visible' = CurrentFiles
      BY <1>0, <2>3, <3>1 DEF Visible, TypeOK
    <3>3. config' = config /\ active' = active
      BY <2>3 DEF disk
    <3>4. ASSUME NEW p \in Procs
          PROVE  /\ snap'[p].config.cred = InitialConfig.cred
                 /\ snap'[p].active = snap'[p].config.nodes
      <4>1. snap'[p] = snap[p] \/ snap'[p] = CurrentFiles
        BY <1>0, <2>3 DEF TypeOK
      <4> QED  BY <1>3, <2>1, <4>1 DEF CurrentFiles
    <3> QED  BY <1>3, <2>1, <3>1, <3>2, <3>3, <3>4
  <2>4. CASE /\ lock' = None
             /\ snap' = snap
             /\ \E p \in Procs : config' = snap[p].config /\ active' = snap[p].active
    <3>1. PICK p \in Procs : config' = snap[p].config /\ active' = snap[p].active
      BY <2>4
    <3>2. Visible.config' = snap[p].config /\ Visible.active' = snap[p].config.nodes
      BY <1>3, <2>4, <3>1 DEF Visible, CurrentFiles
    <3>3. snap[p].config.cred = Visible.config.cred
      BY <1>3, <2>1 DEF CurrentFiles
    <3>4. Atomic!Next
      BY <1>3, <1>c, <3>2, <3>3
    <3>5. snap[p].config.nodes # None
      BY <1>3, NodesAreNotNone
    <3> QED  BY <1>3, <2>4, <3>1, <3>4, <3>5
  <2> QED  BY <1>4, <2>2, <2>3, <2>4, FreeStep
<1>5. ASSUME NEW p \in Procs, lock = p
      PROVE  /\ active' # None
             /\ config'.cred = InitialConfig.cred
             /\ lock' = None => active' = config'.nodes
             /\ snap' = snap
             /\ [Atomic!Next]_<<Visible.config, Visible.active>>
  <2>1. /\ active' # None
        /\ \/ lock' = p /\ snap' = snap /\ config' \in {config, new[p]}
           \/ lock' = None /\ snap' = snap /\ config' = snap[p].config /\ active' = snap[p].active
           \/ lock' = None /\ snap' = snap /\ config' = new[p] /\ active' = new[p].nodes
    BY <1>5, HeldStep
  <2>2. p # None /\ Visible = snap[p]
    BY <1>5, ConstantsAssumption DEF Visible
  <2>3. CASE lock' = p /\ snap' = snap /\ config' \in {config, new[p]}
    <3>1. Visible' = snap[p]
      BY <2>2, <2>3 DEF Visible
    <3> QED  BY <1>3, <2>1, <2>2, <2>3, <3>1
  <2>4. CASE lock' = None /\ snap' = snap /\ config' = snap[p].config /\ active' = snap[p].active
    <3>1. Visible.config' = snap[p].config /\ Visible.active' = snap[p].active
      BY <2>4 DEF Visible, CurrentFiles
    <3> QED  BY <1>3, <2>1, <2>2, <2>4, <3>1
  <2>5. CASE lock' = None /\ snap' = snap /\ config' = new[p] /\ active' = new[p].nodes
    <3>1. Visible.config' = new[p] /\ Visible.active' = new[p].nodes
      BY <2>5 DEF Visible, CurrentFiles
    <3>2. Atomic!Next
      BY <1>3, <1>c, <2>2, <3>1
    <3> QED  BY <1>3, <2>1, <2>5, <3>2
  <2> QED  BY <2>1, <2>3, <2>4, <2>5
<1> QED  BY <1>0, <1>3, <1>4, <1>5

\* Seen by whoever takes the operation lock, every history of wizard commits,
\* failures and rollbacks is one of single-step replacements of a configuration
\* together with the generation published from it.  The hypothesis is needed: a
\* killed wizard leaves the files half replaced with the lock released.
THEOREM WizardsAreAtomic ==
  ASSUME WizardsOnly
  PROVE  Spec => AtomicCommit
<1>1. Init => Atomic!Init
  <2>1. ASSUME Init PROVE Atomic!Init
    <3>1. Visible = CurrentFiles /\ config = InitialConfig /\ active = InitialConfig.nodes
      BY <2>1, ConstantsAssumption DEF Init, Visible, WizardsOnly
    <3> QED  BY <3>1, ConstantsAssumption DEF Atomic!Init, CurrentFiles
  <2> QED  BY <2>1
<1>2. AtomicInv /\ [Next]_vars => AtomicInv' /\ [Atomic!Next]_<<Visible.config, Visible.active>>
  BY StepAtomic
<1>3. Init => AtomicInv
  BY InitAtomic
<1> QED  BY <1>1, <1>2, <1>3, PTL DEF Spec, AtomicCommit, Atomic!Spec
===============================================================================
