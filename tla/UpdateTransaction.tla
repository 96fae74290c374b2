--------------------------- MODULE UpdateTransaction ---------------------------
(***************************************************************************)
(* sbctl update and sbctl sing-box update on a Direct deployment: under    *)
(* the operation lock every managed path is copied into a rollback point,  *)
(* the binaries are replaced, the services restarted and observed, and a   *)
(* failure writes every path back.  Other commands write managed data when *)
(* they hold the lock, restart the services without it, and the deploy     *)
(* hook replaces the pinned certificate without it (PinnedCertificate).    *)
(*                                                                         *)
(* Binaries are numbered by their release.  "data" stands for the managed  *)
(* files only lock holders write: configuration, artifacts, accounting     *)
(* state and units.                                                        *)
(***************************************************************************)
EXTENDS PinnedCertificate, Sequences, FiniteSets

CONSTANTS
  Updaters,     \* concurrent update commands
  Releases,     \* releases an update may install
  Installed,    \* the release installed at first
  Candidates,   \* the releases offered
  Broken,       \* releases that pass their checks and exit once started
  CoreReadsPair, \* whether the nodes of sing-box use the pinned pair
  Kept,         \* ROLLBACK_GENERATIONS_KEPT
  Names,        \* names of rollback points: times, which sort as numbers
  Histories,    \* the rollback points there may be at first
  FaultKinds,   \* failures the environment may inject
  MaxFaults, MaxUpdates, MaxOthers   \* bounds

OpKinds   == {"update", "sing-box"}
AllFaults == {"check", "copy", "write", "owner", "undo", "restart", "prune", "crash"}

ASSUME UpdateAssumption ==
  /\ Installed \in Releases \ Broken
  /\ Candidates \subseteq Releases
  /\ None \notin Releases \cup Updaters
  /\ CoreReadsPair \in BOOLEAN
  /\ Kept \in Nat \ {0}
  /\ Names \subseteq Nat \ {0}
  /\ Histories \subseteq {h \in SUBSET Names : Cardinality(h) <= Kept + 1}
  /\ FaultKinds \subseteq AllFaults
  /\ {MaxFaults, MaxUpdates, MaxOthers} \subseteq Nat

VARIABLES
  lock,     \* holder of the operation lock
  binary,   \* the release of usr/local/bin/sbctl and sing-box
  exec,     \* the binaries that are executable
  data,     \* version of the managed data
  core,     \* the release sing-box.service runs
  daemon,   \* the release sbctl.service runs
  points,   \* rollback points: the paths copied into each
  pc, job,  \* the update commands
  outcome,  \* how the last one that held the lock ended
  updates, others, faults   \* bounds

Binaries == {"sbctl", "sing-box"}

\* rollback_paths, in the order backup and restore go through them.
Paths == <<"sbctl", "sing-box", "data", "fullchain", "privkey">>

hostVars   == <<binary, exec, data>>
updateVars == <<lock, hostVars, core, daemon, points, pc, job, outcome, updates, others, faults>>
vars       == <<certVars, updateVars>>

AllPaths == {Paths[i] : i \in 1..Len(Paths)}

Content(path) ==
  IF path \in Binaries THEN binary[path] ELSE IF path = "data" THEN data ELSE pinned[path]

Contents == Releases \cup Versions

NoJob == [op |-> "update", release |-> Installed, point |-> 0, copied |-> <<>>,
          undone |-> 0, again |-> FALSE]

\* A running update: its rollback point, the backup it holds in memory, how many
\* entries of it are written back, and whether this is the restart after that.
Jobs == [op : OpKinds, release : Releases, point : Names \cup {0}, copied : Seq(Contents),
         undone : 0..Len(Paths), again : BOOLEAN]

Labels == {"idle", "lock", "check", "point", "backup", "sbctl", "sing-box",
           "restart", "daemon", "observe", "undo", "undo_only"}

\* A healthy deployment, with rollback points of earlier updates.
Init ==
  /\ CertInit
  /\ CoreReadsPair => live = 0
  /\ lock = None
  /\ binary = [b \in Binaries |-> Installed] /\ exec = Binaries
  /\ data = 0
  /\ core = Installed /\ daemon = Installed
  /\ \E h \in Histories : points = [n \in h |-> AllPaths]
  /\ pc = [u \in Updaters |-> "idle"]
  /\ job = [u \in Updaters |-> NoJob]
  /\ outcome = "none"
  /\ updates = 0 /\ others = 0 /\ faults = <<>>

-------------------------------------------------------------------------------
Goto(u, label) == pc' = [pc EXCEPT ![u] = label]

Fault(kind) ==
  /\ kind \in FaultKinds
  /\ Len(faults) < MaxFaults
  /\ faults' = Append(faults, kind)

\* The command ends and its guard drops the lock.
End(u, result) ==
  /\ Goto(u, "idle")
  /\ lock' = None
  /\ job' = [job EXCEPT ![u] = NoJob]
  /\ outcome' = result

Continue(u, label) ==
  Goto(u, label) /\ UNCHANGED <<lock, outcome>>

\* Signature, digests and the candidate's own check, before the lock.
Begin(u, o, r) ==
  /\ pc[u] = "idle"
  /\ updates < MaxUpdates
  /\ updates' = updates + 1
  /\ job' = [job EXCEPT ![u].op = o, ![u].release = r]
  /\ Goto(u, "lock")
  /\ UNCHANGED <<certVars, lock, hostVars, core, daemon, points, outcome, others, faults>>

AcquireLock(u) ==
  /\ pc[u] = "lock"
  /\ lock = None
  /\ lock' = u
  /\ outcome' = "none"
  /\ Goto(u, "check")
  /\ UNCHANGED <<certVars, hostVars, core, daemon, points, job, updates, others, faults>>

\* The configuration loads and the candidate accepts the server artifact.
Check(u) ==
  /\ pc[u] = "check"
  /\ \/ Continue(u, "point") /\ UNCHANGED <<job, faults>>
     \/ Fault("check") /\ End(u, "failed")
  /\ UNCHANGED <<certVars, hostVars, core, daemon, points, updates, others>>

\* Mutant: the kept number and the length are exchanged, nothing is ever removed.
PrunedNever(names) == names

\* The points that stay when the oldest names beyond the kept ones are removed.
Pruned(names) ==
  {n \in names : Cardinality({m \in names : m > n}) < Kept}

\* rollback_directory: named by a clock that may have been set back, then pruned.  A
\* directory that cannot be made private stays behind, empty, and nothing is pruned.
CreatePoint(u) ==
  /\ pc[u] = "point"
  /\ \/ \E n \in Names \ DOMAIN points :
          LET all == [m \in DOMAIN points \cup {n} |-> IF m = n THEN {} ELSE points[m]] IN
          \/ /\ job' = [job EXCEPT ![u].point = n]
             /\ \/ points' = [m \in Pruned(DOMAIN all) |-> all[m]] /\ UNCHANGED faults
                \/ points' = all /\ Fault("prune")
             /\ Continue(u, "backup")
          \/ points' = all /\ Fault("prune") /\ End(u, "failed")
     \/ Fault("copy") /\ End(u, "failed") /\ UNCHANGED points
  /\ UNCHANGED <<certVars, hostVars, core, daemon, updates, others>>

\* Mutant: a file is copied only into a directory that is still there.
CopiedIfThere(n, path) ==
  [m \in DOMAIN points |-> points[m] \cup (IF m = n THEN {path} ELSE {})]

\* A copied file creates the directories above it again.
Copied(n, path) ==
  [m \in DOMAIN points \cup {n} |->
     (IF m \in DOMAIN points THEN points[m] ELSE {}) \cup (IF m = n THEN {path} ELSE {})]

\* backup: one path after the other, read once and copied.
BackUp(u) ==
  LET j == job[u]
      i == Len(j.copied) + 1
  IN
  /\ pc[u] = "backup"
  /\ \/ /\ i <= Len(Paths)
        /\ \/ /\ job' = [job EXCEPT ![u].copied = Append(@, Content(Paths[i]))]
              /\ \/ Content(Paths[i]) = None /\ UNCHANGED points
                 \/ Content(Paths[i]) # None /\ points' = Copied(j.point, Paths[i])
              /\ UNCHANGED <<pc, lock, outcome, faults>>
           \/ Fault("copy") /\ End(u, "failed") /\ UNCHANGED points
     \/ /\ i > Len(Paths)
        /\ Continue(u, IF j.op = "update" THEN "sbctl" ELSE "sing-box")
        /\ UNCHANGED <<job, points, faults>>
  /\ UNCHANGED <<certVars, hostVars, core, daemon, updates, others>>

\* write_managed_binary: replaced by a rename, then made executable.
PutBinary(b, r) ==
  /\ binary' = [binary EXCEPT ![b] = r]
  /\ exec' = exec \cup {b}

BinaryFails(b, r) ==
  \/ Fault("write") /\ UNCHANGED <<binary, exec>>
  \/ /\ Fault("owner")
     /\ binary' = [binary EXCEPT ![b] = r]
     /\ exec' = exec \ {b}

\* The first binary: its failure is returned at once.
WriteSbctl(u) ==
  /\ pc[u] = "sbctl"
  /\ \/ /\ PutBinary("sbctl", job[u].release)
        /\ Continue(u, "sing-box")
        /\ UNCHANGED <<job, faults>>
     \/ BinaryFails("sbctl", job[u].release) /\ End(u, "failed")
  /\ UNCHANGED <<certVars, data, core, daemon, points, updates, others>>

\* The second binary: its failure undoes the first; alone it is returned at once.
WriteSingBox(u) ==
  /\ pc[u] = "sing-box"
  /\ \/ /\ PutBinary("sing-box", job[u].release)
        /\ Continue(u, "restart")
        /\ UNCHANGED <<job, faults>>
     \/ /\ BinaryFails("sing-box", job[u].release)
        /\ \/ job[u].op = "update" /\ Continue(u, "undo_only") /\ UNCHANGED job
           \/ job[u].op = "sing-box" /\ End(u, "failed")
  /\ UNCHANGED <<certVars, data, core, daemon, points, updates, others>>

-------------------------------------------------------------------------------
(* Services *)

\* sing-box exits when it cannot load a certificate its nodes use.
CorePair ==
  CoreReadsPair => \A f \in PairFiles :
                     /\ pinned[f] # None /\ pinned[f] = pinned["fullchain"]
                     /\ access[f] = "services"

\* What a service runs after a restart: nothing if its binary cannot run or exits.
Started(b) ==
  IF b \in exec /\ binary[b] \notin Broken /\ (b = "sing-box" => CorePair)
  THEN binary[b] ELSE None

\* Mutant: the listener of the stopped daemon goes on.
StartDaemonKeepsListener ==
  daemon' = Started("sbctl") /\ UNCHANGED listenerVars

StartDaemon ==
  /\ daemon' = Started("sbctl")
  /\ ListenerStarts(Started("sbctl") # None)

StopDaemon == daemon' = None /\ ListenerStarts(FALSE)

\* Mutant: a failed restart is only reported.
RestartFailsReported(u) == End(u, "failed")

\* A restart that fails: the first one is undone, the second only reported.
RestartFails(u) ==
  \/ ~ job[u].again /\ Continue(u, "undo") /\ UNCHANGED job
  \/ job[u].again /\ End(u, "failed")

RestartCore(u) ==
  /\ pc[u] = "restart"
  /\ \/ /\ core' = Started("sing-box")
        /\ Continue(u, IF job[u].op = "update" THEN "daemon" ELSE "observe")
        /\ UNCHANGED <<job, faults>>
     \/ Fault("restart") /\ RestartFails(u) /\ UNCHANGED core
  /\ UNCHANGED <<certVars, hostVars, daemon, points, updates, others>>

\* The daemon is stopped and its socket started by a connection.
RestartDaemon(u) ==
  /\ pc[u] = "daemon"
  /\ \/ /\ StartDaemon
        /\ Continue(u, "observe")
        /\ UNCHANGED <<job, faults>>
     \/ /\ Fault("restart")
        /\ RestartFails(u)
        /\ StopDaemon \/ UNCHANGED <<daemon, listenerVars>>
  /\ UNCHANGED <<hookVars, pairVars, hostVars, core, points, updates, others>>

\* Mutant: a unit that was started is taken for healthy.
HealthyAtOnce(o) == o \in OpKinds

Healthy(o) == core # None /\ (o = "update" => daemon # None)

\* wait_for_stable_activation of every restarted unit.
Observe(u) ==
  /\ pc[u] = "observe"
  /\ \/ /\ Healthy(job[u].op)
        /\ End(u, IF job[u].again THEN "failed" ELSE "updated")
        /\ UNCHANGED faults
     \/ ~ Healthy(job[u].op) /\ RestartFails(u) /\ UNCHANGED faults
     \/ Fault("restart") /\ RestartFails(u)
  /\ UNCHANGED <<certVars, hostVars, core, daemon, points, updates, others>>

\* One entry of the backup written back, the daemon's alone unless it is a binary
\* (enforce_live_file_owner); a path that was missing is removed.
PutBack(path, content) ==
  \/ /\ path \in Binaries
     /\ PutBinary(path, content)
     /\ UNCHANGED <<data, pairVars>>
  \/ path = "data" /\ data' = content /\ UNCHANGED <<binary, exec, pairVars>>
  \/ /\ path \in PairFiles
     /\ IF content # None THEN PutFile(path, content, "sbctl") ELSE RemoveFile(path)
     /\ UNCHANGED hostVars

\* restore stops at its first error.
Undo(u) ==
  LET j == job[u]
      i == j.undone + 1
  IN
  /\ pc[u] \in {"undo", "undo_only"}
  /\ \/ /\ i <= Len(Paths)
        /\ PutBack(Paths[i], j.copied[i])
        /\ job' = [job EXCEPT ![u].undone = i]
        /\ UNCHANGED <<pc, lock, outcome, faults>>
     \/ /\ i <= Len(Paths)
        /\ Fault("undo")
        /\ End(u, "failed")
        /\ UNCHANGED <<pairVars, hostVars>>
     \/ /\ i > Len(Paths)
        /\ \/ /\ pc[u] = "undo"
              /\ job' = [job EXCEPT ![u].again = TRUE]
              /\ Continue(u, "restart")
           \/ pc[u] = "undo_only" /\ End(u, "failed")
        /\ UNCHANGED <<pairVars, hostVars, faults>>
  /\ UNCHANGED <<hookVars, listenerVars, core, daemon, points, updates, others>>

\* The process is killed: the lock is free, the files stay as they are.
Crash(u) ==
  /\ lock = u
  /\ Fault("crash")
  /\ End(u, "crashed")
  /\ UNCHANGED <<certVars, hostVars, core, daemon, points, updates, others>>

-------------------------------------------------------------------------------
(* Other commands *)

Other == others < MaxOthers /\ others' = others + 1

\* A locked write: a configuration commit, a correction, an accounting reset.
LockedWrite ==
  /\ lock = None
  /\ Other
  /\ data' = data + 1
  /\ UNCHANGED <<certVars, lock, binary, exec, core, daemon, points, pc, job, outcome,
                 updates, faults>>

\* A configuration command prepares the daemon's storage and restarts both services
\* after it has released the lock.
RestartElsewhere ==
  /\ Other
  /\ Granted
  /\ core' = Started("sing-box")
  /\ StartDaemon
  /\ UNCHANGED <<hookVars, pinned, mtime, writes, lock, hostVars, points, pc, job, outcome, updates, faults>>

-------------------------------------------------------------------------------
Update(u) ==
  \/ \E o \in OpKinds, r \in Candidates : Begin(u, o, r)
  \/ AcquireLock(u) \/ Check(u) \/ CreatePoint(u) \/ BackUp(u)
  \/ WriteSbctl(u) \/ WriteSingBox(u)
  \/ RestartCore(u) \/ RestartDaemon(u) \/ Observe(u) \/ Undo(u)
  \/ Crash(u)

Next ==
  \/ \E u \in Updaters : Update(u)
  \/ (Hook \/ Listener) /\ UNCHANGED updateVars
  \/ LockedWrite
  \/ RestartElsewhere

Spec == Init /\ [][Next]_vars

-------------------------------------------------------------------------------
(* Properties *)

TypeOK ==
  /\ CertTypeOK
  /\ lock \in Updaters \cup {None}
  /\ binary \in [Binaries -> Releases]
  /\ exec \subseteq Binaries
  /\ data \in Nat
  /\ core \in Releases \cup {None}
  /\ daemon \in Releases \cup {None}
  /\ DOMAIN points \subseteq Names
  /\ \A n \in DOMAIN points : points[n] \subseteq AllPaths
  /\ pc \in [Updaters -> Labels]
  /\ job \in [Updaters -> Jobs]
  /\ outcome \in {"none", "updated", "failed", "crashed"}
  /\ {updates, others} \subseteq Nat
  /\ faults \in Seq(AllFaults)
  /\ \A u \in Updaters : lock = u <=> pc[u] \notin {"idle", "lock"}
  /\ listener = None <=> daemon = None

Happened(kinds) == \E i \in 1..Len(faults) : faults[i] \in kinds

Ends(u, result) == lock = u /\ lock' # u /\ outcome' = result

\* The binaries a command found, which it holds in memory from the backup on.
Found(u) ==
  [b \in Binaries |-> IF Len(job[u].copied) < 2 THEN binary[b]
                     ELSE IF b = "sbctl" THEN job[u].copied[1] ELSE job[u].copied[2]]

\* "Restore the old version on failure": an update that ends with an error leaves
\* the binaries it found, executable, and where it had restarted the services they
\* run those again; unless it was killed, a write of the failure handling failed, or
\* the error came after a binary's rename (update::apply, restore).
FailedUpdateRestores ==
  [][\A u \in Updaters :
       (Ends(u, "failed") /\ ~ Happened({"owner", "undo", "crash"})') =>
         /\ binary' = Found(u)
         /\ exec' = Binaries
         /\ pc[u] = "observe" =>
              /\ core' = binary'["sing-box"]
              /\ job[u].op = "update" => daemon' = binary'["sbctl"]]_vars

\* A successful update has replaced what it names and nothing else, and what it
\* replaced has been seen running (update::apply, install_candidate_sing_box).
SucceededUpdateRuns ==
  [][\A u \in Updaters :
       Ends(u, "updated") =>
         LET r == job[u].release IN
         /\ binary'["sing-box"] = r /\ core' = r
         /\ IF job[u].op = "update" THEN binary'["sbctl"] = r /\ daemon' = r
            ELSE binary'["sbctl"] = Found(u)["sbctl"]]_vars

\* An update never takes back what another command has written under the lock: the
\* managed data never return to an older version (update::restore, which runs
\* before the lock is dropped).
DataNeverGoesBack == [][data' >= data]_vars

\* A successful update leaves a rollback point with every path that existed, even
\* if its clock went back and pruning took its directory for the oldest one
\* (rollback_directory, backup).
RollbackPointComplete ==
  [][\A u \in Updaters :
       Ends(u, "updated") =>
         LET j == job[u] IN
         /\ j.point \in DOMAIN points
         /\ {Paths[i] : i \in {k \in 1..Len(Paths) : j.copied[k] # None}} \subseteq points[j.point]]_vars

\* Rollback points do not fill the disk: while pruning is reached and works there are
\* never more than the kept ones and the one in use (prune_rollback_history).
HistoryBounded ==
  ~ Happened({"prune"}) => Cardinality(DOMAIN points) <= Kept + 1

-------------------------------------------------------------------------------
(* Liveness *)

\* Clients keep connecting; the daemon's loop handles a connection to its end.
Fairness ==
  WF_vars(Listener /\ UNCHANGED updateVars)

FairSpec == Spec /\ Fairness
=============================================================================
