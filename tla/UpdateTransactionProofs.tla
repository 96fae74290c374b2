------------------------ MODULE UpdateTransactionProofs ------------------------
(***************************************************************************)
(* What is proved of UpdateTransaction, for any number of update commands, *)
(* releases, rollback points, renewals and failures.                       *)
(***************************************************************************)
EXTENDS UpdateTransaction, TLAPS

-------------------------------------------------------------------------------
(* The pinned pair and the listener *)

PairTypes ==
  /\ pinned \in [PairFiles -> Versions]
  /\ access \in [PairFiles -> Accounts]
  /\ mtime \in Stamps
  /\ writes \in Nat

ListenerTypes ==
  /\ listener \in ListenerStates \cup {None}
  /\ seen \in Stamps
  /\ chain \in Versions
  /\ tls \in Versions
  /\ tlsStamp \in Stamps \cup {None}

HookTypes ==
  /\ live \in Versions
  /\ hook \in HookStates
  /\ publications \in Nat

\* No stamp is from the future, so the next rename gives one nobody has seen.
StampsPast ==
  /\ \A f \in PairFiles : mtime[f] # None => mtime[f] <= writes
  /\ \A f \in PairFiles : seen[f] # None => seen[f] <= writes
  /\ \A f \in PairFiles : tlsStamp # None /\ tlsStamp[f] # None => tlsStamp[f] <= writes

\* While the stamp of the certificate file still stands, so does what was read.
ChainStands ==
  (/\ listener = "privkey"
   /\ mtime["fullchain"] # None
   /\ seen["fullchain"] = mtime["fullchain"]) => chain = pinned["fullchain"]

\* A cached stamp that still stands is that of the content served.
PairCached ==
  tlsStamp # None =>
    \A f \in PairFiles : mtime[f] # None /\ tlsStamp[f] = mtime[f] => tls = pinned[f]

PairInv == PairTypes /\ ListenerTypes /\ StampsPast /\ ChainStands /\ PairCached

LEMMA InitPair ==
  ASSUME CertInit
  PROVE  PairInv /\ HookTypes
<1>1. live \in Versions
  BY DEF CertInit, Versions
<1>2. PairTypes /\ ListenerTypes /\ HookTypes
  BY <1>1 DEF CertInit, PairTypes, ListenerTypes, HookTypes, NoStamp, Stamps, Versions, Accounts,
       HookStates, ListenerStates
<1>3. StampsPast /\ ChainStands /\ PairCached
  BY DEF CertInit, StampsPast, ChainStands, PairCached, NoStamp
<1> QED  BY <1>2, <1>3 DEF PairInv

LEMMA PairWritten ==
  ASSUME PairInv, UNCHANGED listenerVars,
         NEW f \in PairFiles, NEW v \in Versions, NEW account \in Accounts,
         PutFile(f, v, account) \/ RemoveFile(f)
  PROVE  PairInv'
<1> USE DEF PairInv, listenerVars
<1>1. CASE PutFile(f, v, account)
  <2>1. PairTypes' /\ ListenerTypes'
    BY <1>1 DEF PutFile, PairTypes, ListenerTypes, Stamps, Versions
  <2>2. \A g \in PairFiles : mtime'[g] = IF g = f THEN writes + 1 ELSE mtime[g]
    BY <1>1 DEF PutFile, PairTypes, Stamps
  <2>3. \A g \in PairFiles : pinned'[g] = IF g = f THEN v ELSE pinned[g]
    BY <1>1 DEF PutFile, PairTypes
  <2>4. writes' = writes + 1 /\ writes \in Nat
    BY <1>1 DEF PutFile, PairTypes
  <2>5. /\ \A g \in PairFiles : mtime[g] \in Nat \cup {None} /\ seen[g] \in Nat \cup {None}
        /\ \A g \in PairFiles : tlsStamp # None => tlsStamp[g] \in Nat \cup {None}
    BY DEF PairTypes, ListenerTypes, Stamps, Versions
  <2>6. StampsPast'
    BY <2>2, <2>4, <2>5 DEF StampsPast
  <2>7. ChainStands'
    BY <2>2, <2>3, <2>4, <2>5 DEF ChainStands, StampsPast, PairFiles
  <2>8. PairCached'
    BY <2>2, <2>3, <2>4, <2>5 DEF PairCached, StampsPast
  <2> QED  BY <2>1, <2>6, <2>7, <2>8
<1>2. CASE RemoveFile(f)
  <2>1. PairTypes' /\ ListenerTypes'
    BY <1>2 DEF RemoveFile, PairTypes, ListenerTypes, Stamps, Versions
  <2>2. \A g \in PairFiles : mtime'[g] = IF g = f THEN None ELSE mtime[g]
    BY <1>2 DEF RemoveFile, PairTypes, Stamps
  <2>3. \A g \in PairFiles : pinned'[g] = IF g = f THEN None ELSE pinned[g]
    BY <1>2 DEF RemoveFile, PairTypes
  <2>4. writes' = writes
    BY <1>2 DEF RemoveFile
  <2>5. StampsPast' /\ ChainStands' /\ PairCached'
    BY <2>2, <2>3, <2>4 DEF StampsPast, ChainStands, PairCached, PairFiles
  <2> QED  BY <2>1, <2>5
<1> QED  BY <1>1, <1>2

LEMMA PairGranted ==
  ASSUME PairInv, Granted, UNCHANGED <<pinned, mtime, writes>>, UNCHANGED listenerVars
  PROVE  PairInv'
BY DEF PairInv, Granted, listenerVars, PairTypes, ListenerTypes, StampsPast, ChainStands, PairCached,
       Accounts

LEMMA SamePair ==
  ASSUME PairInv, UNCHANGED pairVars, UNCHANGED listenerVars
  PROVE  PairInv'
BY DEF PairInv, pairVars, listenerVars, PairTypes, ListenerTypes, StampsPast, ChainStands, PairCached

LEMMA DaemonStarts ==
  ASSUME PairInv, NEW running \in BOOLEAN, ListenerStarts(running),
         access' \in [PairFiles -> Accounts], UNCHANGED <<pinned, mtime, writes>>
  PROVE  PairInv'
<1> USE DEF PairInv, ListenerStarts
<1>1. PairTypes'
  BY DEF PairTypes
<1>2. ListenerTypes'
  <2>1. listener' \in ListenerStates \cup {None}
    BY DEF ListenerStates
  <2>2. seen' \in Stamps
    BY DEF NoStamp, Stamps, Versions
  <2> QED  BY <2>1, <2>2 DEF ListenerTypes, Versions
<1>3. StampsPast'
  BY DEF StampsPast, NoStamp
<1>4. ChainStands'
  <2>1. listener' # "privkey"
    BY NoneAssumption DEF ListenerStates
  <2> QED  BY <2>1 DEF ChainStands
<1>5. PairCached'
  BY DEF PairCached
<1> QED  BY <1>1, <1>2, <1>3, <1>4, <1>5

\* A load that ends, successfully or not, leaves the loop at accept.
LEMMA LoadFailsKeeps ==
  ASSUME PairInv, LoadFails, UNCHANGED pairVars
  PROVE  PairInv' /\ listener' # None
<1> USE DEF PairInv, LoadFails, pairVars
<1>1. PairTypes'
  BY DEF PairTypes
<1>2. ListenerTypes'
  <2>1. seen' \in Stamps
    BY DEF NoStamp, Stamps, Versions
  <2> QED  BY <2>1 DEF ListenerTypes, Versions, ListenerStates
<1>3. StampsPast' /\ ChainStands' /\ PairCached'
  BY DEF StampsPast, ChainStands, PairCached, NoStamp
<1>4. listener' # None
  BY NoneAssumption DEF ListenerStates
<1> QED  BY <1>1, <1>2, <1>3, <1>4

LEMMA ListenerKeeps ==
  ASSUME PairInv, Listener
  PROVE  /\ PairInv'
         /\ listener # None /\ listener' # None
         /\ UNCHANGED <<hookVars, pairVars>>
<1> USE DEF PairInv
<1>0. /\ None \notin ListenerStates
      /\ \A f \in PairFiles : mtime[f] \in Versions /\ seen[f] \in Versions /\ pinned[f] \in Versions
      /\ "fullchain" \in PairFiles /\ "privkey" \in PairFiles
  BY NoneAssumption DEF PairTypes, ListenerTypes, Stamps, PairFiles
<1>1. CASE Accept
  <2>1. UNCHANGED <<hookVars, pairVars, chain, tls, tlsStamp>> /\ listener' = "stamp"
        /\ listener = "accept"
    BY <1>1 DEF Accept
  <2>2. seen' = [seen EXCEPT !["fullchain"] = mtime["fullchain"]]
    BY <1>1 DEF Accept
  <2>3. \A f \in PairFiles : seen'[f] = IF f = "fullchain" THEN mtime["fullchain"] ELSE seen[f]
    BY <2>2 DEF ListenerTypes, Stamps
  <2>4. seen' \in Stamps
    BY <1>0, <2>2 DEF ListenerTypes, Stamps
  <2>5. PairTypes' /\ ListenerTypes'
    BY <2>1, <2>4 DEF pairVars, PairTypes, ListenerTypes, ListenerStates
  <2>6. StampsPast' /\ ChainStands' /\ PairCached'
    BY <1>0, <2>1, <2>3 DEF pairVars, StampsPast, ChainStands, PairCached
  <2> QED  BY <1>0, <2>1, <2>5, <2>6 DEF ListenerStates
<1>2. CASE Compare
  <2> DEFINE stamp == [seen EXCEPT !["privkey"] = mtime["privkey"]]
  <2>1. UNCHANGED <<hookVars, pairVars, chain, tls, tlsStamp>>
        /\ listener' \in {"fullchain", "accept"} /\ listener = "stamp"
    BY <1>2 DEF Compare
  <2>2. seen' = stamp \/ seen' = NoStamp
    BY <1>2 DEF Compare
  <2>3. \A f \in PairFiles : seen'[f] \in {None, mtime[f], seen[f]}
    BY <1>0, <2>2 DEF ListenerTypes, Stamps, NoStamp
  <2>4. seen' \in Stamps
    BY <1>0, <2>2 DEF ListenerTypes, Stamps, NoStamp, Versions
  <2>5. PairTypes' /\ ListenerTypes'
    BY <2>1, <2>4 DEF pairVars, PairTypes, ListenerTypes, ListenerStates
  <2>6. StampsPast' /\ ChainStands' /\ PairCached'
    BY <1>0, <2>1, <2>3 DEF pairVars, StampsPast, ChainStands, PairCached
  <2> QED  BY <1>0, <2>1, <2>5, <2>6 DEF ListenerStates
<1>3. CASE LoadChain
  <2>1. UNCHANGED <<hookVars, pairVars>> /\ listener = "fullchain"
    BY <1>3 DEF LoadChain
  <2>2. CASE LoadFails
    BY <1>0, <2>1, <2>2, LoadFailsKeeps DEF ListenerStates
  <2>3. CASE /\ listener' = "privkey" /\ chain' = pinned["fullchain"]
             /\ UNCHANGED <<seen, tls, tlsStamp>>
    <3>1. PairTypes' /\ ListenerTypes'
      BY <1>0, <2>1, <2>3 DEF pairVars, PairTypes, ListenerTypes, ListenerStates
    <3>2. StampsPast' /\ ChainStands' /\ PairCached'
      BY <2>1, <2>3 DEF pairVars, StampsPast, ChainStands, PairCached
    <3> QED  BY <1>0, <2>1, <2>3, <3>1, <3>2 DEF ListenerStates
  <2> QED  BY <1>3, <2>2, <2>3 DEF LoadChain
<1>4. CASE LoadKey
  <2>1. UNCHANGED <<hookVars, pairVars>> /\ listener = "privkey"
    BY <1>4 DEF LoadKey
  <2>2. CASE LoadFails
    BY <1>0, <2>1, <2>2, LoadFailsKeeps DEF ListenerStates
  <2>3. CASE /\ pinned["privkey"] = chain
             /\ listener' = "accept" /\ tls' = chain /\ tlsStamp' = seen
             /\ seen' = NoStamp /\ chain' = None
    <3>1. PairTypes' /\ ListenerTypes'
      BY <2>1, <2>3 DEF pairVars, PairTypes, ListenerTypes, ListenerStates, NoStamp, Stamps, Versions
    <3>2. StampsPast' /\ ChainStands'
      BY <2>1, <2>3 DEF pairVars, StampsPast, ChainStands, NoStamp
    <3>3. PairCached'
      <4>1. \A f \in PairFiles : mtime[f] # None /\ seen[f] = mtime[f] => chain = pinned[f]
        BY <2>1, <2>3 DEF ChainStands, PairFiles
      <4> QED  BY <2>1, <2>3, <4>1 DEF pairVars, PairCached
    <3> QED  BY <1>0, <2>1, <2>3, <3>1, <3>2, <3>3 DEF ListenerStates
  <2> QED  BY <1>4, <2>2, <2>3 DEF LoadKey
<1> QED  BY <1>1, <1>2, <1>3, <1>4 DEF Listener

LEMMA HookKeeps ==
  ASSUME PairInv, HookTypes, Hook
  PROVE  PairInv' /\ HookTypes' /\ UNCHANGED listenerVars
<1>0. live \in Versions /\ "root" \in Accounts
      /\ "fullchain" \in PairFiles /\ "privkey" \in PairFiles
  BY DEF HookTypes, Accounts, PairFiles
<1>1. CASE Renew \/ Publish
  <2>1. UNCHANGED <<pairVars, listenerVars>>
    BY <1>1 DEF Renew, Publish, PublishBegins
  <2>2. HookTypes'
    <3>1. live' \in Versions
      BY <1>1 DEF Renew, Publish, HookTypes, Versions
    <3> QED  BY <1>1, <3>1 DEF Renew, Publish, PublishBegins, HookTypes, HookStates
  <2> QED  BY <2>1, <2>2, SamePair
<1>2. CASE PinChain
  <2>1. HookTypes' /\ UNCHANGED listenerVars
    BY <1>2 DEF PinChain, HookTypes, HookStates
  <2>2. PutFile("fullchain", live, "root") \/ UNCHANGED pairVars
    BY <1>2 DEF PinChain
  <2> QED  BY <1>0, <2>1, <2>2, PairWritten, SamePair
<1>3. CASE PinKey
  <2>1. HookTypes' /\ UNCHANGED listenerVars
    BY <1>3 DEF PinKey, HookTypes, HookStates
  <2>2. PutFile("privkey", live, "root") \/ UNCHANGED pairVars
    BY <1>3 DEF PinKey
  <2> QED  BY <1>0, <2>1, <2>2, PairWritten, SamePair
<1>4. CASE Grant
  <2>1. HookTypes' /\ UNCHANGED listenerVars /\ UNCHANGED <<pinned, mtime, writes>>
    BY <1>4 DEF Grant, HookTypes, HookStates
  <2>2. Granted \/ UNCHANGED pairVars
    BY <1>4 DEF Grant, pairVars
  <2> QED  BY <2>1, <2>2, PairGranted, SamePair
<1> QED  BY <1>1, <1>2, <1>3, <1>4 DEF Hook

-------------------------------------------------------------------------------
(* The invariant *)

HostTypes ==
  /\ binary \in [Binaries -> Releases]
  /\ exec \subseteq Binaries
  /\ data \in Nat
  /\ core \in Releases \cup {None}
  /\ daemon \in Releases \cup {None}

PointTypes ==
  /\ DOMAIN points \subseteq Names
  /\ \A n \in DOMAIN points : points[n] \subseteq AllPaths

CountTypes ==
  /\ outcome \in {"none", "updated", "failed", "crashed"}
  /\ updates \in Nat /\ others \in Nat
  /\ faults \in Seq(AllFaults)

World ==
  /\ PairInv /\ HookTypes
  /\ HostTypes /\ PointTypes /\ CountTypes
  /\ listener = None <=> daemon = None

Free == {"idle", "lock"}

CommandTypes ==
  /\ lock \in Updaters \cup {None}
  /\ pc \in [Updaters -> Labels]
  /\ job \in [Updaters -> Jobs]
  /\ \A u \in Updaters : lock = u <=> pc[u] \notin Free

\* What the backup may hold of the i-th path.
Of(i) == IF i <= 2 THEN Releases ELSE IF i = 3 THEN Nat ELSE Versions

Early   == {"idle", "lock", "check", "point"}
Undoing == {"undo", "undo_only"}
Ending  == {"restart", "daemon", "observe"}

\* The backup is taken path after path and complete before anything is replaced;
\* it is written back once.
Shape(l, j) ==
  /\ l \in Early => j.copied = <<>>
  /\ l \notin Early => j.point \in Names
  /\ l \notin Early \cup {"backup"} => Len(j.copied) = 5
  /\ Len(j.copied) <= 5
  /\ \A i \in 1..Len(j.copied) : j.copied[i] \in Of(i)
  /\ l \notin Undoing /\ ~ j.again => j.undone = 0
  /\ j.again => l \in Ending
  /\ l \in {"sbctl", "daemon", "undo_only"} => j.op = "update"

\* No one else writes managed data while the lock is held.
DataKept(j) == Len(j.copied) >= 3 => j.copied[3] = data

\* What has been read is in the rollback point.
Filled(j) ==
  \A i \in 1..Len(j.copied) :
    j.copied[i] # None => j.point \in DOMAIN points /\ Paths[i] \in points[j.point]

OldSbctl(j)   == Len(j.copied) >= 1 /\ binary["sbctl"] = j.copied[1]
OldSingBox(j) == Len(j.copied) >= 2 /\ binary["sing-box"] = j.copied[2]

\* Which of the two binaries are the old ones, at each step.
BinariesAt(l, j) ==
  /\ l = "backup" => /\ Len(j.copied) >= 1 => OldSbctl(j)
                     /\ Len(j.copied) >= 2 => OldSingBox(j)
  /\ l = "sbctl" \/ j.again => OldSbctl(j)
  /\ l \in {"sbctl", "sing-box"} \/ j.again => OldSingBox(j)
  /\ l \in {"sing-box"} \cup Ending /\ ~ j.again =>
       IF j.op = "update" THEN binary["sbctl"] = j.release ELSE OldSbctl(j)
  /\ l \in Ending /\ ~ j.again => binary["sing-box"] = j.release
  /\ j.undone >= 1 => OldSbctl(j)
  /\ j.undone >= 2 => OldSingBox(j)

\* A service that runs runs the binary that is there, and one that does not exit.
Runs(r, b) == r # None => r = binary[b] /\ r \notin Broken

ServicesAt(l, j) ==
  /\ l \in {"daemon", "observe"} => Runs(core, "sing-box")
  /\ l = "observe" /\ j.op = "update" => Runs(daemon, "sbctl")

\* Nothing went wrong after a rename, in the rollback or by a kill.
Clean == ~ Happened({"owner", "undo", "crash"})

GoodHost == \A b \in Binaries : binary[b] \notin Broken

\* The old binaries are good.
GoodAt(l, j) ==
  /\ l \in Early \cup {"backup"} => GoodHost
  /\ \A i \in {1, 2} : i <= Len(j.copied) => j.copied[i] \notin Broken

\* The services that have been restarted after the rollback run.
RunAgain(l, j) ==
  /\ j.again /\ l \in {"daemon", "observe"} => core = binary["sing-box"]
  /\ j.again /\ l = "observe" /\ j.op = "update" => daemon = binary["sbctl"]

Holder(l, j) ==
  /\ DataKept(j)
  /\ Filled(j)
  /\ BinariesAt(l, j)
  /\ ServicesAt(l, j)
  /\ Clean => GoodAt(l, j)
  /\ Clean /\ ~ CoreReadsPair => RunAgain(l, j)

Rested == Clean => exec = Binaries /\ (lock = None => GoodHost)

IInv ==
  /\ World
  /\ CommandTypes
  /\ \A u \in Updaters : Shape(pc[u], job[u])
  /\ \A u \in Updaters : lock = u => Holder(pc[u], job[u])
  /\ Rested

-------------------------------------------------------------------------------
(* Facts about the definitions *)

LEMMA PathFacts ==
  /\ Len(Paths) = 5
  /\ Paths[1] = "sbctl" /\ Paths[2] = "sing-box" /\ Paths[3] = "data"
  /\ Paths[4] = "fullchain" /\ Paths[5] = "privkey"
  /\ \A i \in 1..5 : Paths[i] \in AllPaths
<1>1. /\ Len(Paths) = 5
      /\ Paths[1] = "sbctl" /\ Paths[2] = "sing-box" /\ Paths[3] = "data"
      /\ Paths[4] = "fullchain" /\ Paths[5] = "privkey"
  BY DEF Paths
<1> QED  BY <1>1 DEF AllPaths

LEMMA ContentType ==
  ASSUME World, NEW i \in 1..5
  PROVE  Content(Paths[i]) \in Of(i) /\ Content(Paths[i]) \in Contents
<1>1. i \in {1, 2, 3, 4, 5}
  OBVIOUS
<1>2. binary["sbctl"] \in Releases /\ binary["sing-box"] \in Releases /\ data \in Nat
      /\ pinned["fullchain"] \in Versions /\ pinned["privkey"] \in Versions
  BY DEF World, HostTypes, Binaries, PairInv, PairTypes, PairFiles
<1> QED  BY <1>1, <1>2, PathFacts DEF Content, Of, Contents, Binaries, Versions

LEMMA TypesImplied ==
  ASSUME World, CommandTypes
  PROVE  TypeOK
<1>1. CertTypeOK
  BY DEF World, PairInv, PairTypes, ListenerTypes, HookTypes, CertTypeOK
<1>2. {updates, others} \subseteq Nat
  BY DEF World, CountTypes
<1> QED  BY <1>1, <1>2 DEF World, HostTypes, PointTypes, CountTypes, CommandTypes, TypeOK, Free

LEMMA JobType ==
  ASSUME CommandTypes, NEW u \in Updaters
  PROVE  /\ job[u] \in Jobs /\ pc[u] \in Labels
         /\ job[u].op \in OpKinds /\ job[u].release \in Releases
         /\ job[u].point \in Names \cup {0} /\ job[u].copied \in Seq(Contents)
         /\ job[u].undone \in 0..5 /\ job[u].again \in BOOLEAN
BY PathFacts DEF CommandTypes, Jobs

LEMMA NoJobType ==
  /\ NoJob \in Jobs
  /\ NoJob.copied = <<>> /\ NoJob.undone = 0 /\ ~ NoJob.again
<1>1. Installed \in Releases
  BY UpdateAssumption
<1> QED  BY <1>1, PathFacts DEF NoJob, Jobs, OpKinds

LEMMA FreeShape ==
  ASSUME NEW l \in Free, NEW j, j.copied = <<>>, j.undone = 0, ~ j.again
  PROVE  Shape(l, j)
BY DEF Shape, Free, Early, Undoing, Ending

LEMMA FaultStep ==
  ASSUME World, NEW kind, Fault(kind)
  PROVE  /\ faults' \in Seq(AllFaults)
         /\ Clean' => Clean
         /\ kind \in {"owner", "undo", "crash"} => ~ Clean'
<1>1. faults \in Seq(AllFaults) /\ kind \in AllFaults /\ faults' = Append(faults, kind)
  BY UpdateAssumption DEF World, CountTypes, Fault
<1>2. /\ Len(faults') = Len(faults) + 1
      /\ faults'[Len(faults) + 1] = kind
      /\ \A i \in 1..Len(faults) : faults'[i] = faults[i]
      /\ Len(faults) \in Nat
  BY <1>1
<1> QED  BY <1>1, <1>2 DEF Clean, Happened

LEMMA SameFaults ==
  ASSUME World, UNCHANGED faults
  PROVE  faults' \in Seq(AllFaults) /\ Clean' = Clean
BY DEF World, CountTypes, Clean, Happened

-------------------------------------------------------------------------------
(* A step of the holder *)

LEMMA ContinueKeeps ==
  ASSUME IInv, World', NEW u \in Updaters, lock = u, UNCHANGED lock,
         NEW l \in Labels \ Free, NEW j \in Jobs,
         pc' = [pc EXCEPT ![u] = l], job' = [job EXCEPT ![u] = j],
         Shape(l, j), Holder(l, j)', Clean' => exec' = Binaries
  PROVE  IInv'
<1>1. /\ pc' \in [Updaters -> Labels] /\ job' \in [Updaters -> Jobs]
      /\ pc'[u] = l /\ job'[u] = j
      /\ \A v \in Updaters \ {u} : pc'[v] = pc[v] /\ job'[v] = job[v]
  BY DEF IInv, CommandTypes
<1>2. CommandTypes'
  BY <1>1 DEF IInv, CommandTypes
<1>3. \A v \in Updaters : Shape(pc'[v], job'[v])
  BY <1>1 DEF IInv
<1>4. \A v \in Updaters : lock' = v => Holder(pc[v], job[v])'
  BY <1>1
<1>5. Rested'
  BY UpdateAssumption DEF Rested
<1> QED  BY <1>2, <1>3, <1>4, <1>5 DEF IInv

LEMMA EndKeeps ==
  ASSUME IInv, World', NEW u \in Updaters, lock = u, NEW result, End(u, result),
         Clean' => exec' = Binaries /\ GoodHost'
  PROVE  IInv'
<1>0. u # None /\ None \notin Updaters /\ "idle" \in Labels \cap Free
  BY UpdateAssumption DEF Labels, Free
<1>1. /\ pc' \in [Updaters -> Labels] /\ job' \in [Updaters -> Jobs]
      /\ pc'[u] = "idle" /\ job'[u] = NoJob /\ lock' = None
      /\ \A v \in Updaters \ {u} : pc'[v] = pc[v] /\ job'[v] = job[v]
  BY <1>0, NoJobType DEF IInv, CommandTypes, End, Goto
<1>2. CommandTypes'
  BY <1>0, <1>1 DEF IInv, CommandTypes
<1>3. \A v \in Updaters : Shape(pc'[v], job'[v])
  BY <1>0, <1>1, NoJobType, FreeShape DEF IInv
<1>4. \A v \in Updaters : lock' = v => Holder(pc[v], job[v])'
  BY <1>0, <1>1
<1>5. Rested'
  BY DEF Rested
<1> QED  BY <1>2, <1>3, <1>4, <1>5 DEF IInv

\* What an action of the lock holder starts from.
LEMMA HolderFacts ==
  ASSUME IInv, NEW u \in Updaters, pc[u] \notin Free
  PROVE  /\ World /\ CommandTypes
         /\ lock = u
         /\ Shape(pc[u], job[u]) /\ Holder(pc[u], job[u])
         /\ Clean => exec = Binaries
         /\ job[u] \in Jobs
         /\ job = [job EXCEPT ![u] = job[u]]
BY JobType DEF IInv, CommandTypes, Rested

LEMMA CertSame ==
  ASSUME World, UNCHANGED certVars
  PROVE  PairInv' /\ HookTypes' /\ listener' = listener
<1>1. PairInv'
  BY SamePair DEF World, certVars
<1>2. HookTypes'
  BY DEF World, certVars, hookVars, HookTypes
<1> QED  BY <1>1, <1>2 DEF certVars, listenerVars

LEMMA EndTypes ==
  ASSUME NEW u \in Updaters, NEW result \in {"updated", "failed", "crashed"}, End(u, result)
  PROVE  outcome' \in {"none", "updated", "failed", "crashed"} /\ lock' = None
BY DEF End

LEMMA OldIsGood ==
  ASSUME NEW l, NEW j, GoodAt(l, j), OldSbctl(j), OldSingBox(j)
  PROVE  GoodHost
BY DEF GoodAt, OldSbctl, OldSingBox, GoodHost, Binaries

LEMMA SameHost ==
  ASSUME World, UNCHANGED <<hostVars, core, daemon>>
  PROVE  HostTypes' /\ (GoodHost' <=> GoodHost)
BY DEF World, HostTypes, hostVars, GoodHost

LEMMA CheckKeeps ==
  ASSUME IInv, NEW u \in Updaters, Check(u)
  PROVE  IInv'
<1>0. /\ pc[u] = "check" /\ "check" \notin Free
      /\ UNCHANGED <<certVars, hostVars, core, daemon, points, updates, others>>
  BY DEF Check, Free
<1>1. /\ World /\ lock = u /\ Shape("check", job[u]) /\ Holder("check", job[u])
      /\ Clean => exec = Binaries
      /\ job[u] \in Jobs /\ job = [job EXCEPT ![u] = job[u]]
  BY <1>0, HolderFacts
<1>2. CASE Continue(u, "point") /\ UNCHANGED <<job, faults>>
  <2>1. World'
    BY <1>0, <1>1, <1>2, CertSame, SameHost, SameFaults
       DEF World, PointTypes, CountTypes, Continue
  <2>2. Clean' = Clean
    BY <1>1, <1>2, SameFaults
  <2>3. Shape("point", job[u])
    BY <1>1 DEF Shape, Early, Undoing, Ending
  <2>4. Holder("point", job[u])'
    BY <1>0, <1>1, <1>2, <2>2
       DEF Shape, Holder, DataKept, Filled, BinariesAt, ServicesAt, GoodAt, GoodHost, RunAgain,
           Early, Undoing, Ending, hostVars, OldSbctl, OldSingBox
  <2> QED  BY <1>0, <1>1, <1>2, <2>1, <2>2, <2>3, <2>4, ContinueKeeps
        DEF Continue, Goto, Labels, Free, hostVars
<1>3. CASE Fault("check") /\ End(u, "failed")
  <2>1. World'
    BY <1>0, <1>1, <1>3, CertSame, SameHost, FaultStep, EndTypes
       DEF World, PointTypes, CountTypes
  <2>2. Clean' => Clean
    BY <1>1, <1>3, FaultStep
  <2>3. Clean' => exec' = Binaries /\ GoodHost'
    BY <1>0, <1>1, <2>2, SameHost DEF Holder, GoodAt, Early, hostVars
  <2> QED  BY <1>1, <1>3, <2>1, <2>3, EndKeeps
<1> QED  BY <1>2, <1>3 DEF Check

LEMMA CreatePointKeeps ==
  ASSUME IInv, NEW u \in Updaters, CreatePoint(u)
  PROVE  IInv'
<1>0. /\ pc[u] = "point" /\ "point" \notin Free
      /\ UNCHANGED <<certVars, hostVars, core, daemon, updates, others>>
  BY DEF CreatePoint, Free
<1>1. /\ World /\ CommandTypes /\ lock = u /\ Shape("point", job[u]) /\ Holder("point", job[u])
      /\ Clean => exec = Binaries
      /\ job[u] \in Jobs /\ job = [job EXCEPT ![u] = job[u]]
  BY <1>0, HolderFacts
<1>2. ASSUME NEW n \in Names \ DOMAIN points,
             job' = [job EXCEPT ![u].point = n],
             NEW all, all = [m \in DOMAIN points \cup {n} |-> IF m = n THEN {} ELSE points[m]],
             \/ points' = [m \in Pruned(DOMAIN all) |-> all[m]] /\ UNCHANGED faults
             \/ points' = all /\ Fault("prune"),
             Continue(u, "backup")
      PROVE  IInv'
  <2>j. PICK j \in Jobs : j = [job[u] EXCEPT !.point = n]
    BY <1>1 DEF Jobs
  <2>1. /\ j \in Jobs /\ j.point = n /\ j.copied = job[u].copied /\ j.undone = job[u].undone
        /\ j.again = job[u].again /\ j.op = job[u].op /\ j.release = job[u].release
    BY <1>1, <2>j DEF Jobs
  <2>2. job' = [job EXCEPT ![u] = j]
    BY <1>2, <2>j
  <2>3. PointTypes'
    <3>1. Pruned(DOMAIN all) \subseteq DOMAIN all /\ DOMAIN all = DOMAIN points \cup {n}
      BY <1>2 DEF Pruned
    <3>2. \A m \in DOMAIN all : all[m] \subseteq AllPaths
      BY <1>1, <1>2 DEF World, PointTypes
    <3> QED  BY <1>1, <1>2, <3>1, <3>2 DEF World, PointTypes
  <2>4. Clean' => Clean
    BY <1>1, <1>2, FaultStep, SameFaults
  <2>5. faults' \in Seq(AllFaults)
    BY <1>1, <1>2, FaultStep, SameFaults
  <2>6. World'
    BY <1>0, <1>1, <1>2, <2>3, <2>5, CertSame, SameHost
       DEF World, CountTypes, Continue
  <2>7. j.copied = <<>> /\ Len(j.copied) = 0 /\ j.undone = 0 /\ ~ j.again
    BY <1>1, <2>1 DEF Shape, Early, Undoing, Ending
  <2>8. Shape("backup", j)
    BY <2>1, <2>7 DEF Shape, Early, Undoing, Ending
  <2>9. Holder("backup", j)'
    <3>1. Clean => GoodHost
      BY <1>1 DEF Holder, GoodAt, Early
    <3> QED
      BY <1>0, <2>4, <2>7, <3>1, <1>1, SameHost
         DEF Holder, DataKept, Filled, BinariesAt, ServicesAt, GoodAt, RunAgain, Early, Ending
  <2>10. "backup" \in Labels \ Free /\ pc' = [pc EXCEPT ![u] = "backup"] /\ UNCHANGED lock
    BY <1>2 DEF Continue, Goto, Labels, Free
  <2>11. Clean' => exec' = Binaries
    BY <1>0, <1>1, <2>4 DEF hostVars
  <2> QED  BY <1>1, <2>1, <2>2, <2>6, <2>8, <2>9, <2>10, <2>11, ContinueKeeps
<1>3. ASSUME NEW kind, Fault(kind), End(u, "failed"), PointTypes'
      PROVE  IInv'
  <2>1. World'
    BY <1>0, <1>1, <1>3, CertSame, SameHost, FaultStep, EndTypes
       DEF World, PointTypes, CountTypes
  <2>2. Clean' => exec' = Binaries /\ GoodHost'
    BY <1>0, <1>1, <1>3, SameHost, FaultStep DEF Holder, GoodAt, Early, hostVars
  <2> QED  BY <1>1, <1>3, <2>1, <2>2, EndKeeps
<1>4. CASE Fault("copy") /\ End(u, "failed") /\ UNCHANGED points
  <2>1. PointTypes'
    BY <1>1, <1>4 DEF World, PointTypes
  <2> QED  BY <1>3, <1>4, <2>1
<1>5. ASSUME NEW n \in Names \ DOMAIN points,
             points' = [m \in DOMAIN points \cup {n} |-> IF m = n THEN {} ELSE points[m]],
             Fault("prune"), End(u, "failed")
      PROVE  IInv'
  <2>1. PointTypes'
    BY <1>1, <1>5 DEF World, PointTypes
  <2> QED  BY <1>3, <1>5, <2>1
<1> QED  BY <1>0, <1>2, <1>4, <1>5 DEF CreatePoint

LEMMA CopiedFacts ==
  ASSUME PointTypes, NEW n \in Names, NEW path \in AllPaths, points' = Copied(n, path)
  PROVE  /\ PointTypes'
         /\ n \in DOMAIN points' /\ path \in points'[n]
         /\ \A m \in DOMAIN points : m \in DOMAIN points' /\ points[m] \subseteq points'[m]
BY DEF PointTypes, Copied

LEMMA LenOf ==
  ASSUME NEW S, NEW s \in Seq(S), Len(s) <= 5
  PROVE  Len(s) \in 0..5
<1>1. PICK n \in Nat : n = Len(s)
  OBVIOUS
<1>2. n <= 5
  BY <1>1
<1>3. n \in 0..5
  BY <1>2
<1> QED  BY <1>1, <1>3

LEMMA AppendOf ==
  ASSUME NEW S, NEW s \in Seq(S), NEW c \in S
  PROVE  /\ Append(s, c) \in Seq(S)
         /\ Len(Append(s, c)) = Len(s) + 1
         /\ Append(s, c)[Len(s) + 1] = c
         /\ \A i \in 1..Len(s) : Append(s, c)[i] = s[i]
OBVIOUS

LEMMA BackUpKeeps ==
  ASSUME IInv, NEW u \in Updaters, BackUp(u)
  PROVE  IInv'
<1>0. /\ pc[u] = "backup" /\ "backup" \notin Free
      /\ UNCHANGED <<certVars, hostVars, core, daemon, updates, others>>
  BY DEF BackUp, Free
<1>1. /\ World /\ CommandTypes /\ lock = u /\ Shape("backup", job[u]) /\ Holder("backup", job[u])
      /\ Clean => exec = Binaries
      /\ job[u] \in Jobs /\ job = [job EXCEPT ![u] = job[u]]
  BY <1>0, HolderFacts
<1>2. /\ Len(job[u].copied) \in 0..5 /\ job[u].copied \in Seq(Contents)
      /\ job[u].undone = 0 /\ ~ job[u].again /\ job[u].point \in Names
  <2>1. Len(job[u].copied) <= 5 /\ job[u].undone = 0 /\ ~ job[u].again /\ job[u].point \in Names
    BY <1>1, JobType DEF Shape, Early, Undoing, Ending
  <2>2. job[u].copied \in Seq(Contents)
    BY <1>1, JobType
  <2>3. Len(job[u].copied) \in 0..5
    BY <2>1, <2>2, LenOf
  <2> QED  BY <2>1, <2>2, <2>3
<1>n. PICK n \in 0..5 : n = Len(job[u].copied)
  BY <1>2
<1>3. CASE /\ n + 1 <= 5
           /\ job' = [job EXCEPT ![u].copied = Append(@, Content(Paths[n + 1]))]
           /\ \/ Content(Paths[n + 1]) = None /\ UNCHANGED points
              \/ Content(Paths[n + 1]) # None /\ points' = Copied(job[u].point, Paths[n + 1])
           /\ UNCHANGED <<pc, lock, outcome, faults>>
  <2>1. /\ n + 1 \in 1..5 /\ Paths[n + 1] \in AllPaths
        /\ Content(Paths[n + 1]) \in Of(n + 1) /\ Content(Paths[n + 1]) \in Contents
    BY <1>1, <1>2, <1>n, <1>3, ContentType, PathFacts
  <2>c. PICK c \in Contents : c = Content(Paths[n + 1])
    BY <2>1
  <2>s. PICK s \in Seq(Contents) : s = Append(job[u].copied, c)
    BY <1>2, AppendOf
  <2>t. Len(s) = n + 1 /\ s[n + 1] = c /\ \A i \in 1..n : s[i] = job[u].copied[i]
    BY <1>2, <1>n, <2>s, AppendOf
  <2>j. PICK j \in Jobs : j = [job[u] EXCEPT !.copied = s]
    BY <1>1 DEF Jobs
  <2>2. /\ j.copied = s /\ j.point = job[u].point /\ j.undone = 0 /\ ~ j.again
        /\ j.op = job[u].op /\ j.release = job[u].release
    BY <1>1, <1>2, <2>j DEF Jobs
  <2>3. job' = [job EXCEPT ![u] = j]
    BY <1>3, <1>n, <2>c, <2>s, <2>j
  <2>4. PointTypes' /\ (c # None => job[u].point \in DOMAIN points' /\ Paths[n + 1] \in points'[job[u].point])
        /\ \A m \in DOMAIN points : m \in DOMAIN points' /\ points[m] \subseteq points'[m]
    BY <1>1, <1>2, <1>n, <1>3, <2>1, <2>c, CopiedFacts DEF World, PointTypes
  <2>5. Clean' = Clean /\ faults' \in Seq(AllFaults)
    BY <1>1, <1>3, SameFaults
  <2>6. World'
    BY <1>0, <1>1, <1>3, <2>4, <2>5, CertSame, SameHost DEF World, CountTypes
  <2>7. Shape("backup", j)
    BY <1>1, <1>2, <1>n, <2>1, <2>c, <2>t, <2>2 DEF Shape, Early, Undoing, Ending
  <2>8. Holder("backup", j)'
    <3> USE DEF Holder
    <3>1. DataKept(j)'
      <4>1. n + 1 = 3 => c = data
        BY <2>c, PathFacts DEF Content, Binaries
      <4> QED  BY <1>0, <1>1, <1>2, <1>n, <2>2, <2>t, <4>1 DEF DataKept, hostVars
    <3>2. Filled(j)'
      BY <1>1, <1>2, <1>n, <2>2, <2>t, <2>4 DEF Filled
    <3>3. /\ n + 1 = 1 => c = binary["sbctl"]
          /\ n + 1 = 2 => c = binary["sing-box"]
      BY <2>c, PathFacts DEF Content, Binaries
    <3>n. /\ Len(s) >= 1
          /\ n = 0 => ~ (Len(s) >= 2) /\ s[1] = c
          /\ n >= 1 => Len(job[u].copied) >= 1 /\ s[1] = job[u].copied[1]
          /\ n = 1 => s[2] = c
          /\ n >= 2 => Len(job[u].copied) >= 2 /\ s[2] = job[u].copied[2]
          /\ n = 0 \/ n = 1 \/ n >= 2
      <4>1. CASE n = 0
        BY <2>t, <4>1
      <4>2. CASE n = 1
        BY <1>n, <2>t, <4>2
      <4>3. CASE n >= 2
        <5>1. 1 \in 1..n /\ 2 \in 1..n
          BY <4>3
        <5> QED  BY <1>n, <2>t, <4>3, <5>1
      <4>4. n = 0 \/ n = 1 \/ n >= 2
        OBVIOUS
      <4> QED  BY <4>1, <4>2, <4>3, <4>4
    <3>4. BinariesAt("backup", j)'
      <4>1. /\ s[1] = binary["sbctl"]
            /\ Len(s) >= 2 => s[2] = binary["sing-box"]
        BY <1>1, <3>3, <3>n DEF BinariesAt, OldSbctl, OldSingBox
      <4>2. OldSbctl(j)' /\ (Len(s) >= 2 => OldSingBox(j)')
        BY <1>0, <2>2, <3>n, <4>1 DEF OldSbctl, OldSingBox, hostVars
      <4> QED  BY <2>2, <4>2 DEF BinariesAt, Ending
    <3>5. Clean' => GoodAt("backup", j)'
      <4>1. Clean => GoodHost /\ GoodHost'
        BY <1>0, <1>1, SameHost DEF GoodAt
      <4>2. Clean => (n + 1 \in {1, 2} => c \notin Broken)
        BY <3>3, <4>1 DEF GoodHost, Binaries
      <4>3. Clean => s[1] \notin Broken /\ (2 <= Len(s) => s[2] \notin Broken)
        BY <1>1, <1>n, <3>n, <4>2 DEF GoodAt
      <4> QED  BY <2>2, <2>5, <4>1, <4>3 DEF GoodAt
    <3>6. ServicesAt("backup", j)' /\ RunAgain("backup", j)'
      BY DEF ServicesAt, RunAgain
    <3> QED  BY <3>1, <3>2, <3>4, <3>5, <3>6
  <2>9. "backup" \in Labels \ Free /\ pc' = [pc EXCEPT ![u] = "backup"] /\ UNCHANGED lock
    BY <1>0, <1>1, <1>3 DEF CommandTypes, Labels, Free
  <2>10. Clean' => exec' = Binaries
    BY <1>0, <1>1, <2>5 DEF hostVars
  <2> QED  BY <1>1, <2>2, <2>3, <2>6, <2>7, <2>8, <2>9, <2>10, ContinueKeeps
<1>4. CASE Fault("copy") /\ End(u, "failed") /\ UNCHANGED points
  <2>1. World'
    BY <1>0, <1>1, <1>4, CertSame, SameHost, FaultStep, EndTypes
       DEF World, PointTypes, CountTypes
  <2>2. Clean' => exec' = Binaries /\ GoodHost'
    BY <1>0, <1>1, <1>4, SameHost, FaultStep DEF Holder, GoodAt, hostVars
  <2> QED  BY <1>1, <1>4, <2>1, <2>2, EndKeeps
<1>5. ASSUME n + 1 > 5, NEW l, l = (IF job[u].op = "update" THEN "sbctl" ELSE "sing-box"),
             Continue(u, l), UNCHANGED <<job, points, faults>>
      PROVE  IInv'
  <2>1. n = 5
    BY <1>5
  <2>2. Clean' = Clean /\ faults' \in Seq(AllFaults)
    BY <1>1, <1>5, SameFaults
  <2>3. World'
    BY <1>0, <1>1, <1>5, <2>2, CertSame, SameHost DEF World, PointTypes, CountTypes, Continue
  <2>4. Shape(l, job[u])
    BY <1>1, <1>2, <1>n, <1>5, <2>1 DEF Shape, Early, Undoing, Ending
  <2>5. Holder(l, job[u])'
    <3> USE DEF Holder
    <3>1. DataKept(job[u])' /\ Filled(job[u])'
      BY <1>0, <1>1, <1>5 DEF DataKept, Filled, hostVars
    <3>2. BinariesAt(l, job[u])'
      BY <1>0, <1>1, <1>2, <1>n, <1>5, <2>1 DEF BinariesAt, OldSbctl, OldSingBox, hostVars, Ending
    <3>3. ServicesAt(l, job[u])' /\ RunAgain(l, job[u])'
      BY <1>5 DEF ServicesAt, RunAgain
    <3>4. Clean' => GoodAt(l, job[u])'
      BY <1>1, <1>5, <2>2 DEF GoodAt, Early
    <3> QED  BY <1>5, <3>1, <3>2, <3>3, <3>4
  <2>6. l \in Labels \ Free /\ pc' = [pc EXCEPT ![u] = l] /\ UNCHANGED lock
        /\ job' = [job EXCEPT ![u] = job[u]]
    BY <1>1, <1>5 DEF Continue, Goto, Labels, Free
  <2>7. Clean' => exec' = Binaries
    BY <1>0, <1>1, <2>2 DEF hostVars
  <2> QED  BY <1>1, <2>3, <2>4, <2>5, <2>6, <2>7, ContinueKeeps
<1> QED  BY <1>n, <1>3, <1>4, <1>5, PathFacts DEF BackUp

LEMMA PutBinaryFacts ==
  ASSUME HostTypes, NEW b \in Binaries, NEW r \in Releases, PutBinary(b, r),
         UNCHANGED <<data, core, daemon>>
  PROVE  /\ HostTypes'
         /\ binary'[b] = r /\ \A other \in Binaries \ {b} : binary'[other] = binary[other]
         /\ exec = Binaries => exec' = Binaries
BY DEF HostTypes, PutBinary

\* A write that fails has replaced nothing, unless the owner could not be set.
LEMMA BinaryFailsFacts ==
  ASSUME World, NEW b \in Binaries, NEW r \in Releases, BinaryFails(b, r),
         UNCHANGED <<data, core, daemon>>
  PROVE  /\ HostTypes' /\ faults' \in Seq(AllFaults)
         /\ Clean' => Clean /\ UNCHANGED <<binary, exec>>
<1>1. CASE Fault("write") /\ UNCHANGED <<binary, exec>>
  BY <1>1, FaultStep DEF World, HostTypes
<1>2. CASE /\ Fault("owner") /\ binary' = [binary EXCEPT ![b] = r] /\ exec' = exec \ {b}
  BY <1>2, FaultStep DEF World, HostTypes
<1> QED  BY <1>1, <1>2 DEF BinaryFails

LEMMA WriteSbctlKeeps ==
  ASSUME IInv, NEW u \in Updaters, WriteSbctl(u)
  PROVE  IInv'
<1>0. /\ pc[u] = "sbctl" /\ "sbctl" \notin Free /\ "sbctl" \in Binaries
      /\ UNCHANGED <<certVars, data, core, daemon, points, updates, others>>
  BY DEF WriteSbctl, Free, Binaries
<1>1. /\ World /\ CommandTypes /\ lock = u /\ Shape("sbctl", job[u]) /\ Holder("sbctl", job[u])
      /\ Clean => exec = Binaries
      /\ job[u] \in Jobs /\ job = [job EXCEPT ![u] = job[u]]
  BY <1>0, HolderFacts
<1>2. job[u].release \in Releases /\ job[u].op = "update" /\ ~ job[u].again /\ job[u].undone = 0
  BY <1>1, JobType DEF Shape, Undoing, Ending
<1>3. CASE /\ PutBinary("sbctl", job[u].release)
           /\ Continue(u, "sing-box") /\ UNCHANGED <<job, faults>>
  <2>1. /\ HostTypes' /\ binary'["sbctl"] = job[u].release /\ binary'["sing-box"] = binary["sing-box"]
        /\ exec = Binaries => exec' = Binaries
    BY <1>0, <1>1, <1>2, <1>3, PutBinaryFacts DEF World, Binaries
  <2>2. Clean' = Clean /\ faults' \in Seq(AllFaults)
    BY <1>1, <1>3, SameFaults
  <2>3. World'
    BY <1>0, <1>1, <1>3, <2>1, <2>2, CertSame DEF World, PointTypes, CountTypes, Continue
  <2>4. Shape("sing-box", job[u])
    BY <1>1, <1>2 DEF Shape, Early, Undoing, Ending
  <2>5. Holder("sing-box", job[u])'
    <3> USE DEF Holder
    <3>1. DataKept(job[u])' /\ Filled(job[u])'
      BY <1>0, <1>1, <1>3 DEF DataKept, Filled
    <3>2. BinariesAt("sing-box", job[u])'
      BY <1>1, <1>2, <1>3, <2>1 DEF BinariesAt, OldSingBox, Ending
    <3>3. ServicesAt("sing-box", job[u])' /\ RunAgain("sing-box", job[u])'
      BY DEF ServicesAt, RunAgain
    <3>4. Clean' => GoodAt("sing-box", job[u])'
      BY <1>1, <1>3, <2>2 DEF GoodAt, Early
    <3> QED  BY <1>3, <3>1, <3>2, <3>3, <3>4
  <2>6. "sing-box" \in Labels \ Free /\ pc' = [pc EXCEPT ![u] = "sing-box"] /\ UNCHANGED lock
        /\ job' = [job EXCEPT ![u] = job[u]]
    BY <1>1, <1>3 DEF Continue, Goto, Labels, Free
  <2> QED  BY <1>1, <2>1, <2>2, <2>3, <2>4, <2>5, <2>6, ContinueKeeps
<1>4. CASE BinaryFails("sbctl", job[u].release) /\ End(u, "failed")
  <2>1. HostTypes' /\ faults' \in Seq(AllFaults) /\ (Clean' => Clean /\ UNCHANGED <<binary, exec>>)
    BY <1>0, <1>1, <1>2, <1>4, BinaryFailsFacts
  <2>2. World'
    BY <1>0, <1>1, <1>4, <2>1, CertSame, EndTypes DEF World, PointTypes, CountTypes
  <2>3. Clean => GoodHost
    BY <1>1, OldIsGood DEF Holder, BinariesAt
  <2>4. Clean' => exec' = Binaries /\ GoodHost'
    BY <1>1, <2>1, <2>3 DEF GoodHost
  <2> QED  BY <1>1, <1>4, <2>2, <2>4, EndKeeps
<1> QED  BY <1>3, <1>4 DEF WriteSbctl

LEMMA WriteSingBoxKeeps ==
  ASSUME IInv, NEW u \in Updaters, WriteSingBox(u)
  PROVE  IInv'
<1>0. /\ pc[u] = "sing-box" /\ "sing-box" \notin Free /\ "sing-box" \in Binaries
      /\ UNCHANGED <<certVars, data, core, daemon, points, updates, others>>
  BY DEF WriteSingBox, Free, Binaries
<1>1. /\ World /\ CommandTypes /\ lock = u /\ Shape("sing-box", job[u]) /\ Holder("sing-box", job[u])
      /\ Clean => exec = Binaries
      /\ job[u] \in Jobs /\ job = [job EXCEPT ![u] = job[u]]
  BY <1>0, HolderFacts
<1>2. job[u].release \in Releases /\ ~ job[u].again /\ job[u].undone = 0
  BY <1>1, JobType DEF Shape, Undoing, Ending
<1>3. CASE /\ PutBinary("sing-box", job[u].release)
           /\ Continue(u, "restart") /\ UNCHANGED <<job, faults>>
  <2>1. /\ HostTypes' /\ binary'["sing-box"] = job[u].release /\ binary'["sbctl"] = binary["sbctl"]
        /\ exec = Binaries => exec' = Binaries
    BY <1>0, <1>1, <1>2, <1>3, PutBinaryFacts DEF World, Binaries
  <2>2. Clean' = Clean /\ faults' \in Seq(AllFaults)
    BY <1>1, <1>3, SameFaults
  <2>3. World'
    BY <1>0, <1>1, <1>3, <2>1, <2>2, CertSame DEF World, PointTypes, CountTypes, Continue
  <2>4. Shape("restart", job[u])
    BY <1>1, <1>2 DEF Shape, Early, Undoing, Ending
  <2>5. Holder("restart", job[u])'
    <3> USE DEF Holder
    <3>1. DataKept(job[u])' /\ Filled(job[u])'
      BY <1>0, <1>1, <1>3 DEF DataKept, Filled
    <3>2. BinariesAt("restart", job[u])'
      BY <1>1, <1>2, <1>3, <2>1 DEF BinariesAt, OldSbctl, Ending
    <3>3. ServicesAt("restart", job[u])' /\ RunAgain("restart", job[u])'
      BY DEF ServicesAt, RunAgain
    <3>4. Clean' => GoodAt("restart", job[u])'
      BY <1>1, <1>3, <2>2 DEF GoodAt, Early
    <3> QED  BY <1>3, <3>1, <3>2, <3>3, <3>4
  <2>6. "restart" \in Labels \ Free /\ pc' = [pc EXCEPT ![u] = "restart"] /\ UNCHANGED lock
        /\ job' = [job EXCEPT ![u] = job[u]]
    BY <1>1, <1>3 DEF Continue, Goto, Labels, Free
  <2> QED  BY <1>1, <2>1, <2>2, <2>3, <2>4, <2>5, <2>6, ContinueKeeps
<1>4. ASSUME BinaryFails("sing-box", job[u].release)
      PROVE  HostTypes' /\ faults' \in Seq(AllFaults) /\ (Clean' => Clean /\ UNCHANGED <<binary, exec>>)
  BY <1>0, <1>1, <1>2, <1>4, BinaryFailsFacts
<1>5. CASE /\ BinaryFails("sing-box", job[u].release) /\ job[u].op = "update"
           /\ Continue(u, "undo_only") /\ UNCHANGED job
  <2>1. World'
    BY <1>0, <1>1, <1>4, <1>5, CertSame DEF World, PointTypes, CountTypes, Continue
  <2>2. Shape("undo_only", job[u])
    BY <1>1, <1>2, <1>5 DEF Shape, Early, Undoing, Ending
  <2>3. Holder("undo_only", job[u])'
    <3> USE DEF Holder
    <3>1. DataKept(job[u])' /\ Filled(job[u])'
      BY <1>0, <1>1, <1>5 DEF DataKept, Filled
    <3>2. BinariesAt("undo_only", job[u])' /\ ServicesAt("undo_only", job[u])'
          /\ RunAgain("undo_only", job[u])'
      BY <1>2, <1>5 DEF BinariesAt, ServicesAt, RunAgain, Ending
    <3>3. Clean' => GoodAt("undo_only", job[u])'
      BY <1>1, <1>4, <1>5 DEF GoodAt, Early
    <3> QED  BY <1>5, <3>1, <3>2, <3>3
  <2>4. "undo_only" \in Labels \ Free /\ pc' = [pc EXCEPT ![u] = "undo_only"] /\ UNCHANGED lock
        /\ job' = [job EXCEPT ![u] = job[u]]
    BY <1>1, <1>5 DEF Continue, Goto, Labels, Free
  <2>5. Clean' => exec' = Binaries
    BY <1>1, <1>4, <1>5
  <2> QED  BY <1>1, <2>1, <2>2, <2>3, <2>4, <2>5, ContinueKeeps
<1>6. CASE /\ BinaryFails("sing-box", job[u].release) /\ job[u].op = "sing-box"
           /\ End(u, "failed")
  <2>1. World'
    BY <1>0, <1>1, <1>4, <1>6, CertSame, EndTypes DEF World, PointTypes, CountTypes
  <2>2. Clean => GoodHost
    <3>1. OldSbctl(job[u]) /\ OldSingBox(job[u])
      BY <1>1, <1>2, <1>6 DEF Holder, BinariesAt
    <3> QED  BY <1>1, <3>1, OldIsGood DEF Holder
  <2>3. Clean' => exec' = Binaries /\ GoodHost'
    BY <1>1, <1>4, <1>6, <2>2 DEF GoodHost
  <2> QED  BY <1>1, <1>6, <2>1, <2>3, EndKeeps
<1> QED  BY <1>3, <1>5, <1>6 DEF WriteSingBox

-------------------------------------------------------------------------------
(* Services *)

LEMMA StartedRuns ==
  ASSUME HostTypes, NEW b \in Binaries
  PROVE  Started(b) \in Releases \cup {None} /\ Runs(Started(b), b)
BY UpdateAssumption DEF Started, Runs, HostTypes

LEMMA StartDaemonFacts ==
  ASSUME World, StartDaemon \/ StopDaemon,
         access' \in [PairFiles -> Accounts], UNCHANGED <<pinned, mtime, writes>>
  PROVE  /\ PairInv' /\ (listener' = None <=> daemon' = None)
         /\ daemon' \in Releases \cup {None} /\ Runs(daemon', "sbctl")
         /\ StartDaemon => daemon' = Started("sbctl")
<1>1. Started("sbctl") \in Releases \cup {None} /\ Runs(Started("sbctl"), "sbctl")
  BY StartedRuns DEF World, Binaries
<1>2. "accept" # None
  BY NoneAssumption DEF ListenerStates
<1>3. CASE StartDaemon
  <2>1. PICK running \in BOOLEAN : running = (Started("sbctl") # None)
    OBVIOUS
  <2>2. ListenerStarts(running)
    BY <1>3, <2>1 DEF StartDaemon
  <2>3. PairInv'
    BY <2>2, DaemonStarts DEF World
  <2>4. daemon' = Started("sbctl") /\ listener' = IF running THEN "accept" ELSE None
    BY <1>3, <2>2 DEF StartDaemon, ListenerStarts
  <2> QED  BY <1>1, <1>2, <2>1, <2>3, <2>4
<1>4. CASE StopDaemon /\ ~ StartDaemon
  <2>1. PairInv'
    BY <1>4, DaemonStarts DEF World, StopDaemon
  <2> QED  BY <1>4, <2>1 DEF StopDaemon, ListenerStarts, Runs
<1> QED  BY <1>3, <1>4

LEMMA RestartFailsKeeps ==
  ASSUME IInv, World', NEW u \in Updaters, pc[u] \in Ending, RestartFails(u),
         UNCHANGED <<hostVars, points>>, Clean' => Clean
  PROVE  IInv'
<1>0. pc[u] \notin Free /\ pc[u] \notin Early \cup {"backup"}
  BY DEF Ending, Free, Early
<1>1. /\ World /\ CommandTypes /\ lock = u /\ Shape(pc[u], job[u]) /\ Holder(pc[u], job[u])
      /\ Clean => exec = Binaries
      /\ job[u] \in Jobs /\ job = [job EXCEPT ![u] = job[u]]
  BY <1>0, HolderFacts
<1>2. CASE ~ job[u].again /\ Continue(u, "undo") /\ UNCHANGED job
  <2>1. job[u].undone = 0
    BY <1>1, <1>2 DEF Shape, Undoing, Ending
  <2>2. Shape("undo", job[u])
    BY <1>0, <1>1, <1>2 DEF Shape, Early, Undoing, Ending
  <2>3. Holder("undo", job[u])'
    <3> USE DEF Holder
    <3>1. DataKept(job[u])' /\ Filled(job[u])'
      BY <1>1, <1>2 DEF DataKept, Filled, hostVars
    <3>2. BinariesAt("undo", job[u])' /\ ServicesAt("undo", job[u])' /\ RunAgain("undo", job[u])'
      BY <1>2, <2>1 DEF BinariesAt, ServicesAt, RunAgain, Ending
    <3>3. Clean' => GoodAt("undo", job[u])'
      BY <1>1, <1>2 DEF GoodAt, Early
    <3> QED  BY <1>2, <3>1, <3>2, <3>3
  <2>4. "undo" \in Labels \ Free /\ pc' = [pc EXCEPT ![u] = "undo"] /\ UNCHANGED lock
        /\ job' = [job EXCEPT ![u] = job[u]]
    BY <1>1, <1>2 DEF Continue, Goto, Labels, Free
  <2>5. Clean' => exec' = Binaries
    BY <1>1 DEF hostVars
  <2> QED  BY <1>1, <2>2, <2>3, <2>4, <2>5, ContinueKeeps
<1>3. CASE job[u].again /\ End(u, "failed")
  <2>1. Clean => GoodHost
    BY <1>1, <1>3, OldIsGood DEF Holder, BinariesAt
  <2>2. Clean' => exec' = Binaries /\ GoodHost'
    BY <1>1, <2>1 DEF hostVars, GoodHost
  <2> QED  BY <1>1, <1>3, <2>2, EndKeeps
<1> QED  BY <1>2, <1>3 DEF RestartFails

\* The binaries are the same ones at each step of the restarts.
LEMMA RestartGoesOn ==
  ASSUME IInv, World', NEW u \in Updaters, pc[u] \in Ending,
         NEW l \in Ending, Continue(u, l), UNCHANGED <<hostVars, points, job, faults>>,
         l = "daemon" => job[u].op = "update",
         ServicesAt(l, job[u])',
         Clean /\ ~ CoreReadsPair => RunAgain(l, job[u])'
  PROVE  IInv'
<1>0. pc[u] \notin Free /\ pc[u] \notin Early \cup {"backup"} \cup Undoing
      /\ l \notin Early \cup {"backup", "sbctl", "sing-box", "undo_only"} \cup Undoing
  BY DEF Ending, Free, Early, Undoing
<1>1. /\ World /\ CommandTypes /\ lock = u /\ Shape(pc[u], job[u]) /\ Holder(pc[u], job[u])
      /\ Clean => exec = Binaries
      /\ job[u] \in Jobs /\ job = [job EXCEPT ![u] = job[u]]
  BY <1>0, HolderFacts
<1>2. Clean' = Clean
  BY <1>1, SameFaults
<1>3. Shape(l, job[u])
  BY <1>0, <1>1 DEF Shape, Early, Undoing, Ending
<1>4. Holder(l, job[u])'
  <2> USE DEF Holder
  <2>1. DataKept(job[u])' /\ Filled(job[u])'
    BY <1>1 DEF DataKept, Filled, hostVars
  <2>2. BinariesAt(l, job[u])'
    BY <1>0, <1>1 DEF BinariesAt, OldSbctl, OldSingBox, hostVars
  <2>3. Clean' => GoodAt(l, job[u])'
    BY <1>0, <1>1, <1>2 DEF GoodAt
  <2> QED  BY <1>2, <2>1, <2>2, <2>3
<1>5. l \in Labels \ Free /\ pc' = [pc EXCEPT ![u] = l] /\ UNCHANGED lock
      /\ job' = [job EXCEPT ![u] = job[u]]
  BY <1>1 DEF Continue, Goto, Labels, Free, Ending
<1>6. Clean' => exec' = Binaries
  BY <1>1, <1>2 DEF hostVars
<1> QED  BY <1>1, <1>3, <1>4, <1>5, <1>6, ContinueKeeps

\* After the rollback both binaries are the old ones, which run.
LEMMA OldStarts ==
  ASSUME World, NEW l, NEW j, j.again, Holder(l, j), Clean, exec = Binaries
  PROVE  /\ Started("sbctl") = binary["sbctl"]
         /\ ~ CoreReadsPair => Started("sing-box") = binary["sing-box"]
<1>1. GoodHost
  BY OldIsGood DEF Holder, BinariesAt
<1> QED  BY <1>1 DEF Started, GoodHost, CorePair, Binaries

LEMMA RestartCoreKeeps ==
  ASSUME IInv, NEW u \in Updaters, RestartCore(u)
  PROVE  IInv'
<1>0. /\ pc[u] = "restart" /\ "restart" \notin Free /\ "restart" \in Ending
      /\ UNCHANGED <<certVars, hostVars, daemon, points, updates, others>>
  BY DEF RestartCore, Free, Ending
<1>1. /\ World /\ CommandTypes /\ lock = u /\ Shape("restart", job[u]) /\ Holder("restart", job[u])
      /\ Clean => exec = Binaries
      /\ job[u] \in Jobs
  BY <1>0, HolderFacts
<1>2. ASSUME core' = Started("sing-box"),
             NEW l, l = (IF job[u].op = "update" THEN "daemon" ELSE "observe"),
             Continue(u, l), UNCHANGED <<job, faults>>
      PROVE  IInv'
  <2>1. core' \in Releases \cup {None} /\ Runs(core', "sing-box")
    BY <1>1, <1>2, StartedRuns DEF World, Binaries
  <2>2. Clean' = Clean /\ faults' \in Seq(AllFaults)
    BY <1>1, <1>2, SameFaults
  <2>3. HostTypes'
    BY <1>0, <1>1, <2>1 DEF World, HostTypes, hostVars
  <2>4. World'
    BY <1>0, <1>1, <1>2, <2>2, <2>3, CertSame DEF World, PointTypes, CountTypes, Continue
  <2>5. ServicesAt(l, job[u])'
    BY <1>0, <1>2, <2>1 DEF ServicesAt, Runs, hostVars
  <2>6. Clean /\ ~ CoreReadsPair => RunAgain(l, job[u])'
    BY <1>0, <1>1, <1>2, OldStarts DEF RunAgain, hostVars
  <2>7. l \in Ending /\ (l = "daemon" => job[u].op = "update")
    BY <1>2 DEF Ending
  <2> QED  BY <1>0, <1>2, <2>4, <2>5, <2>6, <2>7, RestartGoesOn
<1>3. CASE Fault("restart") /\ RestartFails(u) /\ UNCHANGED core
  <2>1. Clean' => Clean
    BY <1>1, <1>3, FaultStep
  <2>2. World'
    BY <1>0, <1>1, <1>3, CertSame, SameHost, FaultStep, EndTypes
       DEF World, PointTypes, CountTypes, RestartFails, Continue
  <2> QED  BY <1>0, <1>3, <2>1, <2>2, RestartFailsKeeps
<1> QED  BY <1>2, <1>3 DEF RestartCore

LEMMA RestartDaemonKeeps ==
  ASSUME IInv, NEW u \in Updaters, RestartDaemon(u)
  PROVE  IInv'
<1>0. /\ pc[u] = "daemon" /\ "daemon" \notin Free /\ "daemon" \in Ending
      /\ UNCHANGED <<hookVars, pairVars, hostVars, core, points, updates, others>>
  BY DEF RestartDaemon, Free, Ending
<1>1. /\ World /\ CommandTypes /\ lock = u /\ Shape("daemon", job[u]) /\ Holder("daemon", job[u])
      /\ Clean => exec = Binaries
      /\ job[u] \in Jobs
  BY <1>0, HolderFacts
<1>2. job[u].op = "update"
  BY <1>1 DEF Shape
<1>3. access' \in [PairFiles -> Accounts] /\ UNCHANGED <<pinned, mtime, writes>>
  BY <1>0, <1>1 DEF World, PairInv, PairTypes, pairVars
<1>4. HookTypes' /\ PointTypes'
  BY <1>0, <1>1 DEF World, HookTypes, hookVars, PointTypes
<1>5. CASE StartDaemon /\ Continue(u, "observe") /\ UNCHANGED <<job, faults>>
  <2>1. /\ PairInv' /\ (listener' = None <=> daemon' = None)
        /\ daemon' \in Releases \cup {None} /\ Runs(daemon', "sbctl")
        /\ daemon' = Started("sbctl")
    BY <1>1, <1>3, <1>5, StartDaemonFacts
  <2>2. Clean' = Clean /\ faults' \in Seq(AllFaults)
    BY <1>1, <1>5, SameFaults
  <2>3. HostTypes'
    BY <1>0, <1>1, <2>1 DEF World, HostTypes, hostVars
  <2>4. World'
    BY <1>0, <1>1, <1>4, <1>5, <2>1, <2>2, <2>3 DEF World, CountTypes, Continue
  <2>5. ServicesAt("observe", job[u])'
    BY <1>0, <1>1, <1>5, <2>1 DEF Holder, ServicesAt, Runs, hostVars
  <2>6. Clean /\ ~ CoreReadsPair => RunAgain("observe", job[u])'
    <3>1. Clean /\ job[u].again => daemon' = binary["sbctl"]
      BY <1>1, <2>1, OldStarts
    <3> QED  BY <1>0, <1>1, <1>5, <3>1 DEF Holder, RunAgain, hostVars
  <2>7. "observe" \in Ending
    BY DEF Ending
  <2> QED  BY <1>0, <1>5, <2>4, <2>5, <2>6, <2>7, RestartGoesOn
<1>6. CASE /\ Fault("restart") /\ RestartFails(u)
           /\ StopDaemon \/ UNCHANGED <<daemon, listenerVars>>
  <2>1. (Clean' => Clean) /\ faults' \in Seq(AllFaults)
    BY <1>1, <1>6, FaultStep
  <2>2. /\ PairInv' /\ (listener' = None <=> daemon' = None) /\ daemon' \in Releases \cup {None}
    <3>1. CASE StopDaemon
      BY <1>1, <1>3, <3>1, StartDaemonFacts
    <3>2. CASE UNCHANGED <<daemon, listenerVars>>
      BY <1>0, <1>1, <3>2, SamePair DEF World, HostTypes, listenerVars
    <3> QED  BY <1>6, <3>1, <3>2
  <2>3. HostTypes'
    BY <1>0, <1>1, <2>2 DEF World, HostTypes, hostVars
  <2>4. World'
    BY <1>0, <1>1, <1>4, <1>6, <2>1, <2>2, <2>3, EndTypes
       DEF World, CountTypes, RestartFails, Continue
  <2> QED  BY <1>0, <1>6, <2>1, <2>4, RestartFailsKeeps
<1> QED  BY <1>5, <1>6 DEF RestartDaemon

LEMMA ObserveKeeps ==
  ASSUME IInv, NEW u \in Updaters, Observe(u)
  PROVE  IInv'
<1>0. /\ pc[u] = "observe" /\ "observe" \notin Free /\ "observe" \in Ending
      /\ UNCHANGED <<certVars, hostVars, core, daemon, points, updates, others>>
  BY DEF Observe, Free, Ending
<1>1. /\ World /\ CommandTypes /\ lock = u /\ Shape("observe", job[u]) /\ Holder("observe", job[u])
      /\ Clean => exec = Binaries
      /\ job[u] \in Jobs
  BY <1>0, HolderFacts
<1>2. ASSUME Healthy(job[u].op), UNCHANGED faults,
             NEW result \in {"failed", "updated"}, End(u, result)
      PROVE  IInv'
  <2>1. Clean' = Clean /\ faults' \in Seq(AllFaults)
    BY <1>1, <1>2, SameFaults
  <2>2. World'
    BY <1>0, <1>1, <1>2, <2>1, CertSame, SameHost, EndTypes DEF World, PointTypes, CountTypes
  <2>3. Clean => GoodHost
    <3>1. binary["sing-box"] \notin Broken
      BY <1>1, <1>2 DEF Healthy, Holder, ServicesAt, Runs
    <3>2. Clean => binary["sbctl"] \notin Broken
      <4>1. CASE job[u].op = "update"
        BY <1>1, <1>2, <4>1 DEF Healthy, Holder, ServicesAt, Runs
      <4>2. CASE job[u].op # "update"
        <5>1. OldSbctl(job[u])
          BY <1>0, <1>1, <4>2 DEF Holder, BinariesAt
        <5> QED  BY <1>1, <5>1 DEF Holder, GoodAt, OldSbctl
      <4> QED  BY <4>1, <4>2
    <3> QED  BY <3>1, <3>2 DEF GoodHost, Binaries
  <2>4. Clean' => exec' = Binaries /\ GoodHost'
    BY <1>0, <1>1, <2>1, <2>3 DEF hostVars, GoodHost
  <2> QED  BY <1>1, <1>2, <2>2, <2>4, EndKeeps
<1>3. CASE RestartFails(u) /\ (UNCHANGED faults \/ Fault("restart"))
  <2>1. (Clean' => Clean) /\ faults' \in Seq(AllFaults)
    BY <1>1, <1>3, FaultStep, SameFaults
  <2>2. World'
    BY <1>0, <1>1, <1>3, <2>1, CertSame, SameHost, EndTypes
       DEF World, PointTypes, CountTypes, RestartFails, Continue
  <2> QED  BY <1>0, <1>3, <2>1, <2>2, RestartFailsKeeps
<1> QED  BY <1>2, <1>3 DEF Observe

-------------------------------------------------------------------------------
(* The rollback *)

\* What writing the i-th entry of a complete backup does.
LEMMA PutBackFacts ==
  ASSUME World, NEW i \in 1..5, NEW c \in Of(i), PutBack(Paths[i], c),
         UNCHANGED <<core, daemon, hookVars, listenerVars>>
  PROVE  /\ PairInv' /\ HostTypes'
         /\ i = 1 => binary'["sbctl"] = c
         /\ i = 2 => binary'["sing-box"] = c
         /\ i # 1 => binary'["sbctl"] = binary["sbctl"]
         /\ i # 2 => binary'["sing-box"] = binary["sing-box"]
         /\ data' = IF i = 3 THEN c ELSE data
         /\ exec = Binaries => exec' = Binaries
<1>0. i \in {1, 2, 3, 4, 5}
  OBVIOUS
<1>1. ASSUME NEW b \in Binaries, Paths[i] = b, i = IF b = "sbctl" THEN 1 ELSE 2
      PROVE  /\ PairInv' /\ HostTypes' /\ binary'[b] = c
             /\ \A other \in Binaries \ {b} : binary'[other] = binary[other]
             /\ data' = data /\ (exec = Binaries => exec' = Binaries)
  <2>1. PutBinary(b, c) /\ UNCHANGED <<data, pairVars>>
    BY <1>1 DEF PutBack, Binaries, PairFiles
  <2>2. c \in Releases
    BY <1>1 DEF Of
  <2>3. PairInv'
    BY <2>1, SamePair DEF World
  <2> QED  BY <2>1, <2>2, <2>3, PutBinaryFacts DEF World
<1>2. CASE i = 1
  <2>1. Paths[i] = "sbctl" /\ "sbctl" \in Binaries
    BY <1>2, PathFacts DEF Binaries
  <2> QED  BY <1>2, <2>1, <1>1 DEF Binaries
<1>3. CASE i = 2
  <2>1. Paths[i] = "sing-box" /\ "sing-box" \in Binaries
    BY <1>3, PathFacts DEF Binaries
  <2> QED  BY <1>3, <2>1, <1>1 DEF Binaries
<1>4. CASE i = 3
  <2>1. Paths[i] = "data"
    BY <1>4, PathFacts
  <2>2. data' = c /\ UNCHANGED <<binary, exec, pairVars>>
    BY <2>1 DEF PutBack, Binaries, PairFiles
  <2>3. c \in Nat
    BY <1>4 DEF Of
  <2>4. PairInv'
    BY <2>2, SamePair DEF World
  <2> QED  BY <1>4, <2>2, <2>3, <2>4 DEF World, HostTypes
<1>5. CASE i \in {4, 5}
  <2>1. Paths[i] \in PairFiles /\ Paths[i] \notin Binaries /\ Paths[i] # "data"
    BY <1>5, PathFacts DEF PairFiles, Binaries
  <2>2. UNCHANGED hostVars /\ (PutFile(Paths[i], c, "sbctl") \/ RemoveFile(Paths[i]))
    BY <2>1 DEF PutBack
  <2>3. c \in Versions /\ "sbctl" \in Accounts
    BY <1>5 DEF Of, Accounts
  <2>4. PairInv'
    BY <2>1, <2>2, <2>3, PairWritten DEF World
  <2> QED  BY <1>5, <2>2, <2>4 DEF World, HostTypes, hostVars
<1> QED  BY <1>0, <1>2, <1>3, <1>4, <1>5

LEMMA UndoKeeps ==
  ASSUME IInv, NEW u \in Updaters, Undo(u)
  PROVE  IInv'
<1>l. PICK l \in Undoing : l = pc[u]
  BY DEF Undo, Undoing
<1>0. /\ l \notin Free /\ l \notin Early \cup {"backup", "sbctl", "sing-box"} \cup Ending
      /\ UNCHANGED <<hookVars, listenerVars, core, daemon, points, updates, others>>
  BY <1>l DEF Undo, Undoing, Free, Early, Ending
<1>1. /\ World /\ CommandTypes /\ lock = u /\ Shape(l, job[u]) /\ Holder(l, job[u])
      /\ Clean => exec = Binaries
      /\ job[u] \in Jobs /\ job = [job EXCEPT ![u] = job[u]]
  BY <1>0, <1>l, HolderFacts
<1>2. /\ Len(job[u].copied) = 5 /\ job[u].copied \in Seq(Contents) /\ job[u].undone \in 0..5
      /\ ~ job[u].again /\ job[u].point \in Names
      /\ \A i \in 1..5 : job[u].copied[i] \in Of(i)
  BY <1>0, <1>1, JobType DEF Shape
<1>n. PICK n \in 0..5 : n = job[u].undone
  BY <1>2
<1>3. HookTypes' /\ PointTypes'
  BY <1>0, <1>1 DEF World, HookTypes, hookVars, PointTypes
<1>4. CASE /\ n + 1 <= 5
           /\ PutBack(Paths[n + 1], job[u].copied[n + 1])
           /\ job' = [job EXCEPT ![u].undone = n + 1]
           /\ UNCHANGED <<pc, lock, outcome, faults>>
  <2>1. n + 1 \in 1..5 /\ job[u].copied[n + 1] \in Of(n + 1)
    BY <1>2, <1>4
  <2>2. /\ PairInv' /\ HostTypes'
        /\ n = 0 => binary'["sbctl"] = job[u].copied[1]
        /\ n = 1 => binary'["sing-box"] = job[u].copied[2]
        /\ n # 0 => binary'["sbctl"] = binary["sbctl"]
        /\ n # 1 => binary'["sing-box"] = binary["sing-box"]
        /\ data' = IF n = 2 THEN job[u].copied[3] ELSE data
        /\ exec = Binaries => exec' = Binaries
    BY <1>0, <1>1, <1>4, <2>1, PutBackFacts
  <2>u. PICK k \in 0..Len(Paths) : k = n + 1
    BY <2>1, PathFacts
  <2>v. [job[u] EXCEPT !.undone = k] \in Jobs
    BY <1>1 DEF Jobs
  <2>j. PICK j \in Jobs : j = [job[u] EXCEPT !.undone = n + 1]
    BY <2>u, <2>v
  <2>3. /\ j.copied = job[u].copied /\ j.point = job[u].point /\ j.undone = n + 1 /\ ~ j.again
        /\ j.op = job[u].op /\ j.release = job[u].release
    BY <1>1, <1>2, <2>j DEF Jobs
  <2>4. job' = [job EXCEPT ![u] = j]
    BY <1>4, <2>j
  <2>5. Clean' = Clean /\ faults' \in Seq(AllFaults)
    BY <1>1, <1>4, SameFaults
  <2>6. World'
    BY <1>0, <1>1, <1>3, <1>4, <2>2, <2>5 DEF World, CountTypes, listenerVars
  <2>7. Shape(l, j)
    BY <1>0, <1>1, <1>2, <2>3 DEF Shape
  <2>8. Holder(l, j)'
    <3> USE DEF Holder
    <3>1. DataKept(j)' /\ Filled(j)'
      BY <1>0, <1>1, <1>2, <2>2, <2>3 DEF DataKept, Filled
    <3>2. BinariesAt(l, j)'
      <4>0. /\ j.copied = job[u].copied /\ Len(j.copied) >= 2
            /\ n >= 1 => binary["sbctl"] = j.copied[1]
            /\ n >= 2 => binary["sing-box"] = j.copied[2]
        BY <1>1, <1>2, <1>n, <2>3 DEF Holder, BinariesAt, OldSbctl, OldSingBox
      <4>a. binary'["sbctl"] = j.copied[1]
        BY <2>2, <4>0
      <4>b. n + 1 >= 2 => binary'["sing-box"] = j.copied[2]
        BY <2>2, <4>0
      <4>1. OldSbctl(j)'
        BY <4>0, <4>a DEF OldSbctl
      <4>2. n + 1 >= 2 => OldSingBox(j)'
        BY <4>0, <4>b DEF OldSingBox
      <4> QED  BY <1>0, <2>3, <4>1, <4>2 DEF BinariesAt, Ending
    <3>3. ServicesAt(l, j)' /\ RunAgain(l, j)'
      BY <1>0, <2>3 DEF ServicesAt, RunAgain, Ending
    <3>4. Clean' => GoodAt(l, j)'
      BY <1>0, <1>1, <2>3, <2>5 DEF GoodAt
    <3> QED  BY <3>1, <3>2, <3>3, <3>4
  <2>9. l \in Labels \ Free /\ pc' = [pc EXCEPT ![u] = l] /\ UNCHANGED lock
    BY <1>0, <1>l, <1>1, <1>4 DEF CommandTypes
  <2>10. Clean' => exec' = Binaries
    BY <1>1, <2>2, <2>5
  <2> QED  BY <1>1, <2>4, <2>6, <2>7, <2>8, <2>9, <2>10, ContinueKeeps
<1>5. CASE Fault("undo") /\ End(u, "failed") /\ UNCHANGED <<pairVars, hostVars>>
  <2>1. ~ Clean' /\ faults' \in Seq(AllFaults)
    BY <1>1, <1>5, FaultStep
  <2>2. PairInv'
    BY <1>0, <1>1, <1>5, SamePair DEF World
  <2>3. World'
    BY <1>0, <1>1, <1>3, <1>5, <2>1, <2>2, SameHost, EndTypes DEF World, CountTypes, listenerVars
  <2> QED  BY <1>1, <1>5, <2>1, <2>3, EndKeeps
<1>6. ASSUME n + 1 > 5, UNCHANGED <<pairVars, hostVars, faults>>
      PROVE  /\ PairInv' /\ HostTypes' /\ faults' \in Seq(AllFaults) /\ Clean' = Clean
             /\ n = 5 /\ OldSbctl(job[u]) /\ OldSingBox(job[u])
             /\ Clean => GoodHost /\ GoodHost'
  <2>1. PairInv' /\ Clean' = Clean /\ faults' \in Seq(AllFaults)
    BY <1>0, <1>1, <1>6, SamePair, SameFaults DEF World
  <2>2. n = 5
    BY <1>6
  <2>3. OldSbctl(job[u]) /\ OldSingBox(job[u])
    BY <1>1, <1>n, <2>2 DEF Holder, BinariesAt
  <2>4. Clean => GoodHost
    BY <1>1, <2>3, OldIsGood DEF Holder
  <2> QED  BY <1>0, <1>1, <1>6, <2>1, <2>2, <2>3, <2>4, SameHost
<1>7. CASE /\ n + 1 > 5 /\ UNCHANGED <<pairVars, hostVars, faults>>
           /\ job' = [job EXCEPT ![u].again = TRUE] /\ Continue(u, "restart")
  <2>1. /\ PairInv' /\ HostTypes' /\ faults' \in Seq(AllFaults) /\ Clean' = Clean
        /\ OldSbctl(job[u]) /\ OldSingBox(job[u])
    BY <1>6, <1>7
  <2>j. PICK j \in Jobs : j = [job[u] EXCEPT !.again = TRUE]
    BY <1>1 DEF Jobs
  <2>3. /\ j.copied = job[u].copied /\ j.point = job[u].point /\ j.undone = job[u].undone /\ j.again
        /\ j.op = job[u].op /\ j.release = job[u].release
    BY <1>1, <2>j DEF Jobs
  <2>4. job' = [job EXCEPT ![u] = j]
    BY <1>7, <2>j
  <2>5. World'
    BY <1>0, <1>1, <1>3, <1>7, <2>1 DEF World, CountTypes, listenerVars, Continue
  <2>6. Shape("restart", j)
    BY <1>1, <1>2, <2>3 DEF Shape, Early, Undoing, Ending
  <2>7. OldSbctl(j)' /\ OldSingBox(j)'
    BY <1>7, <2>1, <2>3 DEF OldSbctl, OldSingBox, hostVars
  <2>8. Holder("restart", j)'
    <3> USE DEF Holder
    <3>1. DataKept(j)' /\ Filled(j)'
      BY <1>0, <1>1, <1>7, <2>3 DEF DataKept, Filled, hostVars
    <3>2. BinariesAt("restart", j)' /\ ServicesAt("restart", j)' /\ RunAgain("restart", j)'
      BY <2>3, <2>7 DEF BinariesAt, ServicesAt, RunAgain, Ending
    <3>3. Clean' => GoodAt("restart", j)'
      BY <1>1, <2>1, <2>3 DEF GoodAt, Early
    <3> QED  BY <3>1, <3>2, <3>3
  <2>9. "restart" \in Labels \ Free /\ pc' = [pc EXCEPT ![u] = "restart"] /\ UNCHANGED lock
    BY <1>7 DEF Continue, Goto, Labels, Free
  <2>10. Clean' => exec' = Binaries
    BY <1>1, <1>7, <2>1 DEF hostVars
  <2> QED  BY <1>1, <2>4, <2>5, <2>6, <2>8, <2>9, <2>10, ContinueKeeps
<1>8. CASE n + 1 > 5 /\ UNCHANGED <<pairVars, hostVars, faults>> /\ End(u, "failed")
  <2>1. World'
    BY <1>0, <1>1, <1>3, <1>6, <1>8, EndTypes DEF World, CountTypes, listenerVars
  <2>2. Clean' => exec' = Binaries /\ GoodHost'
    BY <1>1, <1>6, <1>8 DEF hostVars
  <2> QED  BY <1>1, <1>8, <2>1, <2>2, EndKeeps
<1>9. \/ /\ n + 1 <= 5 /\ PutBack(Paths[n + 1], job[u].copied[n + 1])
         /\ job' = [job EXCEPT ![u].undone = n + 1] /\ UNCHANGED <<pc, lock, outcome, faults>>
      \/ Fault("undo") /\ End(u, "failed") /\ UNCHANGED <<pairVars, hostVars>>
      \/ /\ n + 1 > 5 /\ UNCHANGED <<pairVars, hostVars, faults>>
         /\ job' = [job EXCEPT ![u].again = TRUE] /\ Continue(u, "restart")
      \/ n + 1 > 5 /\ UNCHANGED <<pairVars, hostVars, faults>> /\ End(u, "failed")
  BY <1>n, PathFacts DEF Undo
<1> QED  BY <1>4, <1>5, <1>7, <1>8, <1>9

LEMMA CrashKeeps ==
  ASSUME IInv, NEW u \in Updaters, Crash(u)
  PROVE  IInv'
<1>1. /\ World /\ lock = u /\ Fault("crash") /\ End(u, "crashed")
      /\ UNCHANGED <<certVars, hostVars, core, daemon, points, updates, others>>
  BY DEF Crash, IInv
<1>2. ~ Clean' /\ faults' \in Seq(AllFaults)
  BY <1>1, FaultStep
<1>3. World'
  BY <1>1, <1>2, CertSame, SameHost, EndTypes DEF World, PointTypes, CountTypes
<1> QED  BY <1>1, <1>2, <1>3, EndKeeps

-------------------------------------------------------------------------------
(* Steps of no lock holder *)

\* A command that has not got the lock keeps the shape of an idle one.
LEMMA FreeKeeps ==
  ASSUME IInv, World', NEW u \in Updaters, pc[u] \in Free, UNCHANGED <<lock, hostVars, core, daemon,
           points, faults>>,
         NEW l \in Free, NEW j \in Jobs, j.copied = <<>>, j.undone = 0, ~ j.again,
         pc' = [pc EXCEPT ![u] = l], job' = [job EXCEPT ![u] = j]
  PROVE  IInv'
<1>1. /\ pc' \in [Updaters -> Labels] /\ job' \in [Updaters -> Jobs]
      /\ pc'[u] = l /\ job'[u] = j
      /\ \A v \in Updaters \ {u} : pc'[v] = pc[v] /\ job'[v] = job[v]
  BY DEF IInv, CommandTypes, Free, Labels
<1>2. CommandTypes'
  BY <1>1 DEF IInv, CommandTypes
<1>3. \A v \in Updaters : Shape(pc'[v], job'[v])
  BY <1>1, FreeShape DEF IInv
<1>4. Clean' = Clean
  BY SameFaults DEF IInv
<1>5. lock # u
  BY DEF IInv, CommandTypes
<1>6. ASSUME NEW v \in Updaters, lock' = v
      PROVE  Holder(pc[v], job[v])'
  <2>1. v # u /\ pc'[v] = pc[v] /\ job'[v] = job[v] /\ Holder(pc[v], job[v])
    BY <1>1, <1>5, <1>6 DEF IInv
  <2> QED
    BY <1>4, <2>1 DEF Holder, DataKept, Filled, BinariesAt, ServicesAt, GoodAt, GoodHost, RunAgain,
         OldSbctl, OldSingBox, Runs, hostVars
<1>7. Rested'
  BY <1>4 DEF IInv, Rested, GoodHost, hostVars
<1> QED  BY <1>2, <1>3, <1>6, <1>7 DEF IInv

LEMMA BeginKeeps ==
  ASSUME IInv, NEW u \in Updaters, NEW o \in OpKinds, NEW r \in Candidates, Begin(u, o, r)
  PROVE  IInv'
<1>1. /\ pc[u] = "idle" /\ pc[u] \in Free /\ "lock" \in Free
      /\ job' = [job EXCEPT ![u].op = o, ![u].release = r]
      /\ pc' = [pc EXCEPT ![u] = "lock"] /\ updates' = updates + 1
      /\ UNCHANGED <<certVars, lock, hostVars, core, daemon, points, outcome, others, faults>>
  BY DEF Begin, Goto, Free
<1>2. World /\ job[u] \in Jobs /\ Shape("idle", job[u]) /\ r \in Releases
  BY <1>1, JobType, UpdateAssumption DEF IInv
<1>3. PICK j \in Jobs : j = [job[u] EXCEPT !.op = o, !.release = r]
  BY <1>2 DEF Jobs
<1>4. job' = [job EXCEPT ![u] = j]
  BY <1>1, <1>3
<1>5. j.copied = <<>> /\ j.undone = 0 /\ ~ j.again
  BY <1>2, <1>3 DEF Shape, Early, Undoing, Ending, Jobs
<1>6. World'
  BY <1>1, <1>2, CertSame, SameHost DEF World, PointTypes, CountTypes
<1> QED  BY <1>1, <1>4, <1>5, <1>6, FreeKeeps

LEMMA AcquireLockKeeps ==
  ASSUME IInv, NEW u \in Updaters, AcquireLock(u)
  PROVE  IInv'
<1>1. /\ pc[u] = "lock" /\ lock = None /\ lock' = u /\ outcome' = "none"
      /\ pc' = [pc EXCEPT ![u] = "check"] /\ UNCHANGED job
      /\ UNCHANGED <<certVars, hostVars, core, daemon, points, updates, others, faults>>
  BY DEF AcquireLock, Goto
<1>2. World /\ CommandTypes /\ Shape("lock", job[u]) /\ Rested /\ job[u] \in Jobs
  BY <1>1, JobType DEF IInv
<1>3. job[u].copied = <<>> /\ Len(job[u].copied) = 0 /\ job[u].undone = 0 /\ ~ job[u].again
  BY <1>2 DEF Shape, Early, Undoing, Ending
<1>4. Clean' = Clean
  BY <1>1, <1>2, SameFaults
<1>5. World'
  BY <1>1, <1>2, CertSame, SameHost DEF World, PointTypes, CountTypes
<1>6. /\ pc' \in [Updaters -> Labels] /\ pc'[u] = "check"
      /\ \A v \in Updaters \ {u} : pc'[v] = pc[v]
  BY <1>1, <1>2 DEF CommandTypes, Labels
<1>7. CommandTypes'
  BY <1>1, <1>2, <1>6, UpdateAssumption DEF CommandTypes, Free
<1>8. \A v \in Updaters : Shape(pc'[v], job'[v])
  <2>1. Shape("check", job[u])
    BY <1>3 DEF Shape, Early, Undoing, Ending
  <2> QED  BY <1>1, <1>6, <2>1 DEF IInv
<1>9. Holder("check", job[u])'
  <2>1. Clean => GoodHost /\ GoodHost'
    BY <1>1, <1>2 DEF Rested, GoodHost, hostVars
  <2> QED  BY <1>1, <1>3, <1>4, <2>1
    DEF Holder, DataKept, Filled, BinariesAt, ServicesAt, GoodAt, RunAgain, Early, Ending
<1>10. \A v \in Updaters : lock' = v => Holder(pc[v], job[v])'
  BY <1>1, <1>6, <1>9
<1>11. Rested'
  BY <1>1, <1>2, <1>4, UpdateAssumption DEF Rested, hostVars
<1> QED  BY <1>5, <1>7, <1>8, <1>10, <1>11 DEF IInv

LEMMA LockedWriteKeeps ==
  ASSUME IInv, LockedWrite
  PROVE  IInv'
<1>1. /\ lock = None /\ data' = data + 1 /\ others' = others + 1
      /\ UNCHANGED <<certVars, lock, binary, exec, core, daemon, points, pc, job, outcome,
                     updates, faults>>
  BY DEF LockedWrite, Other
<1>2. World /\ CommandTypes /\ Rested
  BY DEF IInv
<1>3. Clean' = Clean
  BY <1>1, <1>2, SameFaults
<1>4. World'
  BY <1>1, <1>2, CertSame DEF World, HostTypes, PointTypes, CountTypes
<1>5. CommandTypes' /\ Rested'
  BY <1>1, <1>2, <1>3 DEF CommandTypes, Rested, GoodHost
<1>6. \A v \in Updaters : lock' # v
  BY <1>1, UpdateAssumption
<1> QED  BY <1>1, <1>4, <1>5, <1>6 DEF IInv

\* What neither the hook nor the listener changes is all a command's state is about.
LEMMA OthersKeep ==
  ASSUME IInv, World', UNCHANGED <<lock, hostVars, points, pc, job, faults>>,
         \/ UNCHANGED <<core, daemon>>
         \/ core' = Started("sing-box") /\ daemon' = Started("sbctl")
  PROVE  IInv'
<1>1. CommandTypes' /\ World
  BY DEF IInv, CommandTypes
<1>2. Clean' = Clean
  BY <1>1, SameFaults
<1>3. Rested'
  BY <1>2 DEF IInv, Rested, GoodHost, hostVars
<1>4. ASSUME NEW v \in Updaters, lock' = v
      PROVE  Holder(pc[v], job[v])'
  <2>1. Holder(pc[v], job[v]) /\ (Clean => exec = Binaries)
    BY <1>4 DEF IInv, Rested
  <2>2. UNCHANGED <<pc[v], job[v]>>
    OBVIOUS
  <2>3. DataKept(job[v])' /\ Filled(job[v])' /\ BinariesAt(pc[v], job[v])'
        /\ (Clean' => GoodAt(pc[v], job[v])')
    BY <1>2, <2>1 DEF Holder, DataKept, Filled, BinariesAt, GoodAt, GoodHost,
         OldSbctl, OldSingBox, hostVars
  <2>4. ServicesAt(pc[v], job[v])' /\ (Clean' /\ ~ CoreReadsPair => RunAgain(pc[v], job[v])')
    <3>1. CASE UNCHANGED <<core, daemon>>
      BY <1>2, <2>1, <3>1 DEF Holder, ServicesAt, RunAgain, Runs, hostVars
    <3>2. CASE core' = Started("sing-box") /\ daemon' = Started("sbctl")
      <4>1. Runs(core', "sing-box") /\ Runs(daemon', "sbctl")
        BY <1>1, <3>2, StartedRuns DEF World, Binaries
      <4>2. Clean /\ job[v].again =>
              /\ daemon' = binary["sbctl"]
              /\ ~ CoreReadsPair => core' = binary["sing-box"]
        BY <1>1, <2>1, <3>2, OldStarts
      <4> QED  BY <1>2, <4>1, <4>2 DEF ServicesAt, RunAgain, Runs, hostVars
    <3> QED  BY <3>1, <3>2
  <2> QED  BY <2>3, <2>4 DEF Holder
<1> QED  BY <1>1, <1>3, <1>4 DEF IInv

LEMMA RestartElsewhereKeeps ==
  ASSUME IInv, RestartElsewhere
  PROVE  IInv'
<1>1. /\ others' = others + 1 /\ Granted /\ core' = Started("sing-box") /\ StartDaemon
      /\ UNCHANGED <<hookVars, pinned, mtime, writes, lock, hostVars, points, pc, job, outcome,
                     updates, faults>>
  BY DEF RestartElsewhere, Other
<1>2. World /\ access' \in [PairFiles -> Accounts]
  BY <1>1 DEF IInv, World, PairInv, PairTypes, Granted, Accounts
<1>3. /\ PairInv' /\ (listener' = None <=> daemon' = None)
      /\ daemon' \in Releases \cup {None} /\ daemon' = Started("sbctl")
  BY <1>1, <1>2, StartDaemonFacts
<1>4. core' \in Releases \cup {None}
  BY <1>1, <1>2, StartedRuns DEF World, Binaries
<1>5. HostTypes' /\ HookTypes' /\ PointTypes' /\ CountTypes'
  BY <1>1, <1>2, <1>3, <1>4 DEF World, HostTypes, HookTypes, PointTypes, CountTypes, hostVars, hookVars
<1>6. World'
  BY <1>3, <1>5 DEF World
<1> QED  BY <1>1, <1>3, <1>6, OthersKeep

LEMMA CertificateKeeps ==
  ASSUME IInv, Hook \/ Listener, UNCHANGED updateVars
  PROVE  IInv'
<1>1. World /\ UNCHANGED <<lock, hostVars, core, daemon, points, pc, job, outcome, updates, others, faults>>
  BY DEF IInv, updateVars
<1>2. /\ PairInv' /\ HookTypes'
      /\ listener = None <=> listener' = None
  <2>1. CASE Hook
    BY <1>1, <2>1, HookKeeps DEF World, listenerVars
  <2>2. CASE Listener
    BY <1>1, <2>2, ListenerKeeps DEF World, hookVars, HookTypes
  <2> QED  BY <2>1, <2>2
<1>3. World'
  BY <1>1, <1>2, SameHost DEF World, PointTypes, CountTypes
<1> QED  BY <1>1, <1>3, OthersKeep

LEMMA StutterKeeps ==
  ASSUME IInv, UNCHANGED vars
  PROVE  IInv'
<1>1. World /\ UNCHANGED <<certVars, updateVars>>
  BY DEF vars, IInv
<1>2. World'
  BY <1>1, CertSame, SameHost DEF World, PointTypes, CountTypes, updateVars
<1> QED  BY <1>1, <1>2, OthersKeep DEF updateVars

LEMMA InitIInv ==
  ASSUME Init
  PROVE  IInv
<1>0. Installed \in Releases \ Broken /\ None \notin Updaters
  BY UpdateAssumption
<1>1. PairInv /\ HookTypes
  BY InitPair DEF Init
<1>2. HostTypes /\ GoodHost
  BY <1>0 DEF Init, HostTypes, GoodHost
<1>3. PointTypes
  <2>1. PICK h \in Histories : points = [n \in h |-> AllPaths]
    BY DEF Init
  <2>2. h \subseteq Names
    BY UpdateAssumption
  <2> QED  BY <2>1, <2>2 DEF PointTypes
<1>4. CountTypes
  BY DEF Init, CountTypes
<1>5. listener # None /\ daemon # None
  <2>1. "accept" # None /\ Installed # None
    BY <1>0, NoneAssumption, UpdateAssumption DEF ListenerStates
  <2> QED  BY <2>1 DEF Init, CertInit
<1>6. CommandTypes
  BY <1>0, NoJobType DEF Init, CommandTypes, Labels, Free
<1>7. \A u \in Updaters : Shape(pc[u], job[u])
  BY NoJobType, FreeShape DEF Init, Free
<1>8. \A u \in Updaters : lock # u
  BY <1>0 DEF Init
<1>9. Rested
  BY <1>2 DEF Init, Rested
<1> QED  BY <1>1, <1>2, <1>3, <1>4, <1>5, <1>6, <1>7, <1>8, <1>9 DEF IInv, World

LEMMA NextKeeps ==
  ASSUME IInv, [Next]_vars
  PROVE  IInv'
<1>1. ASSUME NEW u \in Updaters, Update(u)
      PROVE  IInv'
  BY <1>1, BeginKeeps, AcquireLockKeeps, CheckKeeps, CreatePointKeeps, BackUpKeeps, WriteSbctlKeeps,
     WriteSingBoxKeeps, RestartCoreKeeps, RestartDaemonKeeps, ObserveKeeps, UndoKeeps, CrashKeeps
     DEF Update
<1> QED
  BY <1>1, CertificateKeeps, LockedWriteKeeps, RestartElsewhereKeeps, StutterKeeps DEF Next

-------------------------------------------------------------------------------
(* Theorems *)

\* The invariant holds in every reachable state.
THEOREM Invariance == Spec => []IInv
<1>1. Init => IInv
  BY InitIInv
<1>2. IInv /\ [Next]_vars => IInv'
  BY NextKeeps
<1> QED  BY <1>1, <1>2, PTL DEF Spec

\* Every variable keeps its type, the lock is held exactly by the command between
\* its acquisition and its end, and the listener runs exactly while the daemon does
\* (update::apply, install_candidate_sing_box, serve_tls_listener).
THEOREM Types == Spec => []TypeOK
<1>1. IInv => TypeOK
  BY TypesImplied DEF IInv
<1> QED  BY <1>1, Invariance, PTL

\* A listener whose cached stamp still matches both files serves the pinned pair,
\* for any number of renewals, rollbacks and connections (serve_tls_listener).
THEOREM Coherence == Spec => []CacheCoherent
<1>1. IInv => CacheCoherent
  <2>1. ASSUME IInv, tlsStamp = mtime, None \notin {mtime[f] : f \in PairFiles}, NEW f \in PairFiles
        PROVE  pinned[f] = tls
    <3>1. mtime \in Stamps /\ PairCached
      BY <2>1 DEF IInv, World, PairInv, PairTypes
    <3>2. tlsStamp # None
      BY <2>1, <3>1, NoneAssumption
    <3> QED  BY <2>1, <3>1, <3>2 DEF PairCached
  <2> QED  BY <2>1 DEF CacheCoherent
<1> QED  BY <1>1, Invariance, PTL

\* The step formulas of the action properties.
NoLoss == data' >= data

HasPoint(u) ==
  Ends(u, "updated") =>
    LET j == job[u] IN
    /\ j.point \in DOMAIN points
    /\ {Paths[i] : i \in {k \in 1..Len(Paths) : j.copied[k] # None}} \subseteq points[j.point]

\* Only the rollback writes managed data of another time, and while it does no one
\* else has written them: the version put back is the one that is there.
LEMMA DataStep ==
  ASSUME IInv, [Next]_vars
  PROVE  NoLoss
<1>1. data \in Nat
  BY DEF IInv, World, HostTypes
<1>2. ASSUME NEW u \in Updaters, Undo(u)
      PROVE  data' = data
  <2>1. pc[u] \in Undoing /\ pc[u] \notin Free
    BY <1>2 DEF Undo, Undoing, Free
  <2>2. lock = u /\ World /\ Shape(pc[u], job[u]) /\ Holder(pc[u], job[u]) /\ CommandTypes
    BY <2>1, HolderFacts
  <2>3. Len(job[u].copied) = 5 /\ job[u].copied[3] = data
        /\ \A i \in 1..5 : job[u].copied[i] \in Of(i)
    BY <2>1, <2>2 DEF Shape, Holder, DataKept, Undoing, Early
  <2>4. job[u].undone \in 0..5
    BY <2>2, JobType
  <2>n. PICK n \in 0..5 : n = job[u].undone
    BY <2>4
  <2>5. CASE n + 1 <= 5 /\ PutBack(Paths[n + 1], job[u].copied[n + 1])
    <3>1. n + 1 \in 1..5
      BY <2>5
    <3>2. UNCHANGED <<core, daemon, hookVars, listenerVars>>
      BY <1>2 DEF Undo
    <3>3. data' = IF n + 1 = 3 THEN job[u].copied[n + 1] ELSE data
      BY <2>2, <2>3, <2>5, <3>1, <3>2, PutBackFacts
    <3> QED  BY <2>3, <3>3
  <2>6. CASE UNCHANGED hostVars
    BY <2>6 DEF hostVars
  <2> QED  BY <1>2, <2>n, <2>5, <2>6, PathFacts DEF Undo
<1>3. ASSUME NEW u \in Updaters, Update(u), ~ Undo(u)
      PROVE  data' = data
  BY <1>3 DEF Update, Begin, AcquireLock, Check, CreatePoint, BackUp, WriteSbctl, WriteSingBox,
     RestartCore, RestartDaemon, Observe, Crash, hostVars
<1>4. CASE LockedWrite \/ RestartElsewhere
  BY <1>1, <1>4 DEF LockedWrite, RestartElsewhere, hostVars, NoLoss
<1>5. CASE UNCHANGED updateVars \/ UNCHANGED vars
  BY <1>1, <1>5 DEF vars, updateVars, hostVars, NoLoss
<1> QED  BY <1>1, <1>2, <1>3, <1>4, <1>5 DEF Next, NoLoss

\* An update never takes the managed data back to an older version, whatever other
\* commands write around it and wherever it fails (update::restore).
THEOREM NoDataLost == Spec => DataNeverGoesBack
<1>1. IInv /\ [Next]_vars => [data' >= data]_vars
  BY DataStep DEF NoLoss
<1> QED  BY <1>1, Invariance, PTL DEF Spec, DataNeverGoesBack

\* A command that had the lock is ended by a step of its own.
LEMMA EnderStep ==
  ASSUME IInv, [Next]_vars, NEW u \in Updaters, NEW result \in {"updated", "failed"}, Ends(u, result)
  PROVE  /\ lock = u /\ lock' # u /\ outcome' = result /\ CommandTypes /\ pc[u] \notin Free
         /\ \/ Check(u) \/ CreatePoint(u) \/ BackUp(u) \/ WriteSbctl(u) \/ WriteSingBox(u)
            \/ RestartCore(u) \/ RestartDaemon(u) \/ Observe(u) \/ Undo(u)
<1>0. /\ lock = u /\ lock' # u /\ outcome' = result
      /\ CommandTypes /\ pc[u] \notin Free /\ u # None
  BY UpdateAssumption DEF Ends, IInv, CommandTypes
<1>1. ASSUME NEW v \in Updaters, Update(v)
      PROVE  v = u /\ Update(u)
  <2>1. v # u => pc[v] \in Free
    BY <1>0 DEF CommandTypes
  <2> QED  BY <1>0, <1>1, <2>1 DEF Update, Begin, AcquireLock, Check, CreatePoint, BackUp,
       WriteSbctl, WriteSingBox, RestartCore, RestartDaemon, Observe, Undo, Crash, Free
<1>2. Update(u)
  BY <1>0, <1>1 DEF Next, LockedWrite, RestartElsewhere, vars, updateVars
<1>3. ~ (\E o \in OpKinds, r \in Candidates : Begin(u, o, r)) /\ ~ AcquireLock(u)
  BY <1>0 DEF Begin, AcquireLock, Free
<1>4. ~ Crash(u)
  BY <1>0 DEF Crash, End
<1> QED  BY <1>0, <1>2, <1>3, <1>4 DEF Update

\* A command ends with success in one step only: what it observed is healthy.
LEMMA UpdatedStep ==
  ASSUME IInv, [Next]_vars, NEW u \in Updaters, Ends(u, "updated")
  PROVE  /\ pc[u] = "observe" /\ ~ job[u].again /\ Healthy(job[u].op)
         /\ World /\ CommandTypes /\ Shape("observe", job[u]) /\ Holder("observe", job[u])
         /\ UNCHANGED <<binary, core, daemon, points>>
<1>0. lock = u /\ lock' # u /\ outcome' = "updated" /\ CommandTypes /\ pc[u] \notin Free
  BY EnderStep
<1>1. ~ Check(u) /\ ~ CreatePoint(u) /\ ~ BackUp(u) /\ ~ WriteSbctl(u) /\ ~ WriteSingBox(u)
  BY <1>0 DEF Check, CreatePoint, BackUp, WriteSbctl, WriteSingBox, Continue, End
<1>a. ~ RestartCore(u) /\ ~ RestartDaemon(u) /\ ~ Undo(u)
  BY <1>0 DEF RestartCore, RestartDaemon, RestartFails, Undo, Continue, End
<1>2. Observe(u)
  BY <1>1, <1>a, EnderStep
<1>3. pc[u] = "observe" /\ UNCHANGED <<hostVars, core, daemon, points>>
  BY <1>2 DEF Observe
<1>4. World /\ Shape("observe", job[u]) /\ Holder("observe", job[u])
  BY <1>0, <1>3, HolderFacts
<1>5. ~ job[u].again /\ Healthy(job[u].op)
  BY <1>0, <1>2 DEF Observe, RestartFails, Continue, End
<1> QED  BY <1>0, <1>3, <1>4, <1>5 DEF hostVars

\* A successful update leaves every path it has read in its rollback point
\* (rollback_directory, backup).
THEOREM PointComplete == Spec => RollbackPointComplete
<1>1. ASSUME IInv, [Next]_vars, NEW u \in Updaters
      PROVE  HasPoint(u)
  <2>1. ASSUME Ends(u, "updated")
        PROVE  /\ job[u].point \in DOMAIN points
               /\ \A k \in 1..5 : job[u].copied[k] # None => Paths[k] \in points[job[u].point]
    <3>1. /\ CommandTypes /\ Shape("observe", job[u]) /\ Holder("observe", job[u]) /\ World
      BY <1>1, <2>1, UpdatedStep
    <3>2. Len(job[u].copied) = 5 /\ job[u].copied[1] \in Releases
      BY <3>1 DEF Shape, Early, Of
    <3>3. job[u].copied[1] # None
      BY <3>2, UpdateAssumption
    <3> QED  BY <3>1, <3>2, <3>3 DEF Holder, Filled
  <2> QED  BY <2>1, PathFacts DEF HasPoint
<1>2. IInv /\ [Next]_vars =>
        [\A u \in Updaters :
           Ends(u, "updated") =>
             LET j == job[u] IN
             /\ j.point \in DOMAIN points
             /\ {Paths[i] : i \in {k \in 1..Len(Paths) : j.copied[k] # None}} \subseteq points[j.point]]_vars
  BY <1>1 DEF HasPoint
<1> QED  BY <1>2, Invariance, PTL DEF Spec, RollbackPointComplete

\* The release is installed and was seen running, and the other binary is the old one.
RunsNew(u) ==
  Ends(u, "updated") =>
    LET r == job[u].release IN
    /\ binary'["sing-box"] = r /\ core' = r
    /\ IF job[u].op = "update" THEN binary'["sbctl"] = r /\ daemon' = r
       ELSE binary'["sbctl"] = Found(u)["sbctl"]

\* A successful update has replaced what it names, and nothing else, and the services
\* it restarted run it (update::apply, install_candidate_sing_box).
THEOREM UpdateRuns == Spec => SucceededUpdateRuns
<1>1. ASSUME IInv, [Next]_vars, NEW u \in Updaters
      PROVE  RunsNew(u)
  <2>1. ASSUME Ends(u, "updated")
        PROVE  /\ binary'["sing-box"] = job[u].release /\ core' = job[u].release
               /\ IF job[u].op = "update" THEN binary'["sbctl"] = job[u].release /\ daemon' = job[u].release
                  ELSE binary'["sbctl"] = Found(u)["sbctl"]
    <3>1. /\ ~ job[u].again /\ Healthy(job[u].op)
          /\ Shape("observe", job[u]) /\ Holder("observe", job[u])
          /\ UNCHANGED <<binary, core, daemon>>
      BY <1>1, <2>1, UpdatedStep
    <3>2. /\ binary["sing-box"] = job[u].release
          /\ IF job[u].op = "update" THEN binary["sbctl"] = job[u].release ELSE OldSbctl(job[u])
      BY <3>1 DEF Holder, BinariesAt, Ending
    <3>3. core = binary["sing-box"] /\ (job[u].op = "update" => daemon = binary["sbctl"])
      BY <3>1 DEF Healthy, Holder, ServicesAt, Runs
    <3>4. Len(job[u].copied) = 5
      BY <3>1 DEF Shape, Early
    <3>5. Found(u)["sbctl"] = job[u].copied[1]
      BY <3>4 DEF Found, Binaries
    <3> QED  BY <3>1, <3>2, <3>3, <3>5 DEF OldSbctl
  <2> QED  BY <2>1 DEF RunsNew
<1>2. IInv /\ [Next]_vars =>
        [\A u \in Updaters :
           Ends(u, "updated") =>
             LET r == job[u].release IN
             /\ binary'["sing-box"] = r /\ core' = r
             /\ IF job[u].op = "update" THEN binary'["sbctl"] = r /\ daemon' = r
                ELSE binary'["sbctl"] = Found(u)["sbctl"]]_vars
  BY <1>1 DEF RunsNew
<1> QED  BY <1>2, Invariance, PTL DEF Spec, SucceededUpdateRuns

\* A command that fails after no write of the failure handling went wrong changes no
\* binary in its last step, and what it had replaced is back.
LEMMA FailedStep ==
  ASSUME IInv, [Next]_vars, NEW u \in Updaters, Ends(u, "failed"), Clean'
  PROVE  /\ Clean /\ UNCHANGED <<binary, exec>>
         /\ Len(job[u].copied) >= 2 => OldSbctl(job[u]) /\ OldSingBox(job[u])
         /\ pc[u] = "observe" => job[u].again /\ UNCHANGED <<core, daemon>>
<1>0. /\ lock = u /\ lock' # u /\ outcome' = "failed" /\ pc[u] \notin Free
      /\ \/ Check(u) \/ CreatePoint(u) \/ BackUp(u) \/ WriteSbctl(u) \/ WriteSingBox(u)
         \/ RestartCore(u) \/ RestartDaemon(u) \/ Observe(u) \/ Undo(u)
  BY EnderStep
<1>1. World /\ CommandTypes /\ Shape(pc[u], job[u]) /\ Holder(pc[u], job[u]) /\ job[u] \in Jobs
  BY <1>0, HolderFacts
<1>2. CASE Check(u) \/ CreatePoint(u)
  <2>1. /\ pc[u] \in Early /\ pc[u] # "observe"
        /\ UNCHANGED <<binary, exec>>
    BY <1>2 DEF Check, CreatePoint, Early, hostVars
  <2>2. Clean
    BY <1>0, <1>1, <1>2, FaultStep DEF Check, CreatePoint, Continue, End
  <2>3. Len(job[u].copied) = 0
    BY <1>1, <2>1 DEF Shape
  <2> QED  BY <2>1, <2>2, <2>3
<1>3. CASE BackUp(u)
  <2>1. pc[u] = "backup" /\ UNCHANGED <<binary, exec>> /\ Fault("copy")
    BY <1>0, <1>3 DEF BackUp, Continue, hostVars
  <2>2. Clean
    BY <1>1, <2>1, FaultStep
  <2>3. Len(job[u].copied) >= 2 => OldSbctl(job[u]) /\ OldSingBox(job[u])
    <3>1. job[u].copied \in Seq(Contents) /\ Len(job[u].copied) <= 5
      BY <1>1, JobType DEF Shape
    <3>2. PICK n \in 0..5 : n = Len(job[u].copied)
      BY <3>1, LenOf
    <3> QED  BY <1>1, <2>1, <3>2 DEF Holder, BinariesAt
  <2> QED  BY <2>1, <2>2, <2>3
<1>4. CASE WriteSbctl(u)
  <2>1. /\ pc[u] = "sbctl" /\ BinaryFails("sbctl", job[u].release)
        /\ UNCHANGED <<data, core, daemon>>
    BY <1>0, <1>4 DEF WriteSbctl, Continue
  <2>2. Clean /\ UNCHANGED <<binary, exec>>
    BY <1>1, <2>1, JobType, BinaryFailsFacts DEF Binaries
  <2> QED  BY <1>1, <2>1, <2>2 DEF Holder, BinariesAt
<1>5. CASE WriteSingBox(u)
  <2>1. /\ pc[u] = "sing-box" /\ BinaryFails("sing-box", job[u].release)
        /\ job[u].op = "sing-box"
        /\ UNCHANGED <<data, core, daemon>>
    BY <1>0, <1>5 DEF WriteSingBox, Continue
  <2>2. Clean /\ UNCHANGED <<binary, exec>>
    BY <1>1, <2>1, JobType, BinaryFailsFacts DEF Binaries
  <2>3. ~ job[u].again
    BY <1>1, <2>1 DEF Shape, Ending
  <2> QED  BY <1>1, <2>1, <2>2, <2>3 DEF Holder, BinariesAt
<1>6. CASE RestartCore(u) \/ RestartDaemon(u) \/ Observe(u)
  <2>1. pc[u] \in Ending /\ UNCHANGED <<binary, exec>>
    BY <1>6 DEF RestartCore, RestartDaemon, Observe, Ending, hostVars
  <2>2. job[u].again /\ (pc[u] = "observe" => UNCHANGED <<core, daemon>>)
    BY <1>0, <1>6 DEF RestartCore, RestartDaemon, Observe, RestartFails, Continue, End
  <2>3. Clean
    BY <1>1, <1>6, FaultStep, SameFaults DEF RestartCore, RestartDaemon, Observe
  <2> QED  BY <1>1, <2>1, <2>2, <2>3 DEF Holder, BinariesAt
<1>7. CASE Undo(u)
  <2>1. ~ Fault("undo")
    BY <1>1, FaultStep
  <2>2. /\ pc[u] \in Undoing /\ pc[u] # "observe"
        /\ job[u].undone + 1 > 5 /\ UNCHANGED <<hostVars, faults>>
    BY <1>0, <1>7, <2>1, PathFacts DEF Undo, Undoing, Continue
  <2>n. PICK n \in 0..5 : n = job[u].undone
    BY <1>1, JobType
  <2>3. n = 5
    BY <2>2, <2>n
  <2>4. Clean /\ UNCHANGED <<binary, exec>>
    BY <1>1, <2>2, SameFaults DEF hostVars
  <2> QED  BY <1>1, <2>2, <2>n, <2>3, <2>4 DEF Holder, BinariesAt
<1> QED  BY <1>0, <1>2, <1>3, <1>4, <1>5, <1>6, <1>7

\* The binaries a failed command leaves, and the services it has restarted.
Restores(u) ==
  (Ends(u, "failed") /\ Clean') =>
    /\ binary' = Found(u)
    /\ exec' = Binaries
    /\ pc[u] = "observe" =>
         /\ core' = binary'["sing-box"]
         /\ job[u].op = "update" => daemon' = binary'["sbctl"]

\* Where sing-box does not read the pinned pair, an update that fails leaves the
\* binaries it found and, where it had restarted the services, these running again
\* (update::apply, restore).
THEOREM FailureRestores ==
  ASSUME ~ CoreReadsPair
  PROVE  Spec => FailedUpdateRestores
<1>1. ASSUME IInv, [Next]_vars, NEW u \in Updaters
      PROVE  Restores(u)
  <2>1. ASSUME Ends(u, "failed"), Clean'
        PROVE  /\ binary' = Found(u)
               /\ exec' = Binaries
               /\ pc[u] = "observe" =>
                    /\ core' = binary'["sing-box"]
                    /\ job[u].op = "update" => daemon' = binary'["sbctl"]
    <3>1. /\ Clean /\ UNCHANGED <<binary, exec>>
          /\ Len(job[u].copied) >= 2 => OldSbctl(job[u]) /\ OldSingBox(job[u])
          /\ pc[u] = "observe" => job[u].again /\ UNCHANGED <<core, daemon>>
      BY <1>1, <2>1, FailedStep
    <3>2. lock = u /\ CommandTypes /\ pc[u] \notin Free
      BY <1>1, <2>1, EnderStep
    <3>3. World /\ Holder(pc[u], job[u]) /\ exec = Binaries
      BY <1>1, <3>1, <3>2, HolderFacts
    <3>4. binary = Found(u)
      <4>1. binary = [b \in Binaries |-> binary[b]]
        BY <3>3 DEF World, HostTypes
      <4>2. \A b \in Binaries : binary[b] = Found(u)[b]
        <5>1. CASE Len(job[u].copied) < 2
          BY <5>1 DEF Found
        <5>2. CASE ~ (Len(job[u].copied) < 2)
          <6>1. OldSbctl(job[u]) /\ OldSingBox(job[u])
            <7>1. job[u].copied \in Seq(Contents)
              BY <3>2, JobType
            <7>2. PICK n \in Nat : n = Len(job[u].copied)
              BY <7>1
            <7> QED  BY <3>1, <5>2, <7>2
          <6> QED  BY <5>2, <6>1 DEF Found, OldSbctl, OldSingBox, Binaries
        <5> QED  BY <5>1, <5>2
      <4> QED  BY <4>1, <4>2 DEF Found
    <3>5. pc[u] = "observe" =>
            /\ core = binary["sing-box"]
            /\ job[u].op = "update" => daemon = binary["sbctl"]
      BY <3>1, <3>3 DEF Holder, RunAgain
    <3> QED  BY <3>1, <3>3, <3>4, <3>5
  <2> QED  BY <2>1 DEF Restores
<1>2. IInv /\ [Next]_vars =>
        [\A u \in Updaters :
           (Ends(u, "failed") /\ ~ Happened({"owner", "undo", "crash"})') =>
             /\ binary' = Found(u)
             /\ exec' = Binaries
             /\ pc[u] = "observe" =>
                  /\ core' = binary'["sing-box"]
                  /\ job[u].op = "update" => daemon' = binary'["sbctl"]]_vars
  BY <1>1 DEF Restores, Clean
<1> QED  BY <1>2, Invariance, PTL DEF Spec, FailedUpdateRestores
=============================================================================
