-------------------------- MODULE AdministrationProofs --------------------------
(***************************************************************************)
(* That what a release command puts in place is what it has verified, for  *)
(* any sessions, manifests and official releases, whatever is done to the  *)
(* files in the meantime, also beside the menu.  The invariant follows     *)
(* what a command knows: the manifest it trusts, the official version it   *)
(* has confirmed, and the bytes it has read once and verified.             *)
(*                                                                         *)
(* And that the certificate a publication has pinned is the one served:    *)
(* the invariant follows each live file, its version's copy and the record *)
(* of one publication at a time.                                           *)
(***************************************************************************)
EXTENDS Administration, TLAPS

\* A command's memory has these fields.
IsJob(j) ==
  /\ j = [cmd |-> j.cmd, given |-> j.given, step |-> j.step, manifest |-> j.manifest,
          version |-> j.version, candidate |-> j.candidate, buffer |-> j.buffer]
  /\ j.candidate = [n \in Components |-> j.candidate[n]]

InstalledBy(j) == IF j.cmd = "update" THEN Components ELSE {"sing-box"}

\* Which steps are whose.
StepsOf(j) ==
  /\ j.step \in {"manifest", "fetch"} => j.version = None
  /\ j.step \in {"copy", "place"} => j.cmd = "install"

\* What the checks of an official kernel establish of it.
AcceptedKernel(version, kernel) ==
  /\ version \in LatestVersions
  /\ Runs(kernel) /\ version \in kernel.mentions
  /\ None \notin ArchiveDigests(version) => kernel \in ArchiveDigests(version)

\* What a command trusts.
Trusts(j) ==
  /\ j.cmd \in {"update", "kernel"} /\ j.step # "manifest" => j.manifest # None
  /\ j.cmd = "official" => j.manifest = None
  /\ j.version # None =>
       /\ j.cmd = "official" /\ j.given = {}
       /\ AcceptedKernel(j.version, j.candidate["sing-box"])

\* What a command has read.
HasRead(j) ==
  j.step \in {"check", "apply"} =>
    \A n \in InstalledBy(j) :
      /\ j.manifest # None => j.buffer[n] = j.manifest.artifacts[n].digest
      /\ j.version # None => j.buffer[n] = j.candidate[n]

GoodJob(j) == IsJob(j) /\ StepsOf(j) /\ Trusts(j) /\ HasRead(j)

ReleaseInv ==
  /\ DOMAIN job = Sessions /\ job = [s \in Sessions |-> job[s]]
  /\ DOMAIN origin = Components /\ DOMAIN bin = Components
  /\ \A s \in Sessions : job[s] # None => GoodJob(job[s])
  /\ InstalledAsVerified

\* Nothing is not a manifest anybody signed.
NothingIsTrusted == ~ VerifyTrusted(None)

-------------------------------------------------------------------------------
(* The fields after a step *)

AtStep(j, x) == [j EXCEPT !.step = x]
WithManifest(j, m, x) == [j EXCEPT !.manifest = m, !.step = x]
WithCandidate(j, c, x) == [j EXCEPT !.step = x, !.candidate = c]
WithVersion(j, v, c, x) == [j EXCEPT !.step = x, !.version = v, !.candidate["sing-box"] = c]
WithBuffer(j, b, x) == [j EXCEPT !.step = x, !.buffer = b]

LEMMA StepChanges ==
  ASSUME NEW j, IsJob(j), NEW x,
         NEW k, k = AtStep(j, x)
  PROVE  /\ IsJob(k)
         /\ k.step = x /\ k.cmd = j.cmd /\ k.given = j.given /\ k.manifest = j.manifest
         /\ k.version = j.version /\ k.candidate = j.candidate /\ k.buffer = j.buffer
  BY DEF IsJob, AtStep

LEMMA ManifestChanges ==
  ASSUME NEW j, IsJob(j), NEW m, NEW x,
         NEW k, k = WithManifest(j, m, x)
  PROVE  /\ IsJob(k)
         /\ k.step = x /\ k.cmd = j.cmd /\ k.given = j.given /\ k.manifest = m
         /\ k.version = j.version /\ k.candidate = j.candidate /\ k.buffer = j.buffer
<1>1. PICK i : i = [j EXCEPT !.manifest = m]  OBVIOUS
<1>2. /\ IsJob(i) /\ i.cmd = j.cmd /\ i.given = j.given /\ i.manifest = m
      /\ i.version = j.version /\ i.candidate = j.candidate /\ i.buffer = j.buffer
  BY <1>1 DEF IsJob
<1>3. k = AtStep(i, x)  BY <1>1 DEF WithManifest, AtStep
<1> QED  BY <1>2, <1>3, StepChanges

LEMMA CandidateChanges ==
  ASSUME NEW j, IsJob(j), NEW c, NEW x,
         c = [n \in Components |-> c[n]],
         NEW k, k = WithCandidate(j, c, x)
  PROVE  /\ IsJob(k)
         /\ k.step = x /\ k.cmd = j.cmd /\ k.given = j.given /\ k.manifest = j.manifest
         /\ k.version = j.version /\ k.candidate = c /\ k.buffer = j.buffer
<1>1. PICK i : i = AtStep(j, x)  OBVIOUS
<1>2. /\ IsJob(i) /\ i.step = x /\ i.cmd = j.cmd /\ i.given = j.given /\ i.manifest = j.manifest
      /\ i.version = j.version /\ i.candidate = j.candidate /\ i.buffer = j.buffer
  BY <1>1, StepChanges
<1>3. k = [i EXCEPT !.candidate = c]  BY <1>1 DEF WithCandidate, AtStep
<1>4. /\ k.step = x /\ k.cmd = j.cmd /\ k.given = j.given /\ k.manifest = j.manifest
      /\ k.version = j.version /\ k.candidate = c /\ k.buffer = j.buffer
  BY <1>2, <1>3 DEF IsJob
<1>5. k = [cmd |-> k.cmd, given |-> k.given, step |-> k.step, manifest |-> k.manifest,
          version |-> k.version, candidate |-> k.candidate, buffer |-> k.buffer]
  BY <1>2, <1>3 DEF IsJob
<1>6. IsJob(k)  BY <1>4, <1>5 DEF IsJob
<1> QED  BY <1>4, <1>6

LEMMA VersionChanges ==
  ASSUME NEW j, IsJob(j), NEW v, NEW c, NEW x,
         NEW k, k = WithVersion(j, v, c, x)
  PROVE  /\ IsJob(k)
         /\ k.step = x /\ k.cmd = j.cmd /\ k.given = j.given /\ k.manifest = j.manifest
         /\ k.version = v /\ k.candidate["sing-box"] = c /\ k.buffer = j.buffer
<1>1. PICK i : i = AtStep(j, x)  OBVIOUS
<1>2. /\ IsJob(i) /\ i.step = x /\ i.cmd = j.cmd /\ i.given = j.given /\ i.manifest = j.manifest
      /\ i.version = j.version /\ i.candidate = j.candidate /\ i.buffer = j.buffer
  BY <1>1, StepChanges
<1>3. PICK h : h = [i EXCEPT !.version = v]  OBVIOUS
<1>4. /\ IsJob(h) /\ h.step = x /\ h.cmd = j.cmd /\ h.given = j.given /\ h.manifest = j.manifest
      /\ h.version = v /\ h.candidate = j.candidate /\ h.buffer = j.buffer
  BY <1>2, <1>3 DEF IsJob
<1>5. PICK d : d = [h.candidate EXCEPT !["sing-box"] = c]  OBVIOUS
<1>6. d = [n \in Components |-> d[n]] /\ d["sing-box"] = c
  BY <1>4, <1>5 DEF IsJob, Components
<1>7. k = [h EXCEPT !.candidate = d]  BY <1>1, <1>3, <1>5 DEF WithVersion, AtStep
<1>8. /\ k.step = x /\ k.cmd = j.cmd /\ k.given = j.given /\ k.manifest = j.manifest
      /\ k.version = v /\ k.candidate = d /\ k.buffer = j.buffer
  BY <1>4, <1>7 DEF IsJob
<1>9. k = [cmd |-> k.cmd, given |-> k.given, step |-> k.step, manifest |-> k.manifest,
          version |-> k.version, candidate |-> k.candidate, buffer |-> k.buffer]
  BY <1>4, <1>7 DEF IsJob
<1>10. IsJob(k)  BY <1>6, <1>8, <1>9 DEF IsJob
<1> QED  BY <1>6, <1>8, <1>10

LEMMA BufferChanges ==
  ASSUME NEW j, IsJob(j), NEW b, NEW x,
         NEW k, k = WithBuffer(j, b, x)
  PROVE  /\ IsJob(k)
         /\ k.step = x /\ k.cmd = j.cmd /\ k.given = j.given /\ k.manifest = j.manifest
         /\ k.version = j.version /\ k.candidate = j.candidate /\ k.buffer = b
<1>1. PICK i : i = AtStep(j, x)  OBVIOUS
<1>2. /\ IsJob(i) /\ i.step = x /\ i.cmd = j.cmd /\ i.given = j.given /\ i.manifest = j.manifest
      /\ i.version = j.version /\ i.candidate = j.candidate /\ i.buffer = j.buffer
  BY <1>1, StepChanges
<1>3. k = [i EXCEPT !.buffer = b]  BY <1>1 DEF WithBuffer, AtStep
<1> QED  BY <1>2, <1>3 DEF IsJob

-------------------------------------------------------------------------------
(* The steps *)

\* One session moves on and nothing is installed.
LEMMA SessionMoves ==
  ASSUME ReleaseInv, NEW s \in Sessions, NEW k, k # None => GoodJob(k),
         job' = [job EXCEPT ![s] = k], UNCHANGED <<bin, origin>>
  PROVE  ReleaseInv'
<1>1. DOMAIN job' = Sessions /\ job' = [t \in Sessions |-> job'[t]]  BY DEF ReleaseInv
<1>2. \A t \in Sessions : job'[t] = IF t = s THEN k ELSE job[t]  BY DEF ReleaseInv
<1>3. \A t \in Sessions : job'[t] # None => GoodJob(job'[t])  BY <1>2 DEF ReleaseInv
<1>4. InstalledAsVerified'  BY DEF ReleaseInv, InstalledAsVerified
<1> QED  BY <1>1, <1>3, <1>4 DEF ReleaseInv

\* A command that ends without installing anything.
LEMMA EndHolds ==
  ASSUME ReleaseInv, NEW s \in Sessions, End(s), UNCHANGED <<bin, origin>>
  PROVE  ReleaseInv'
  BY SessionMoves DEF End

\* A command that goes on to a step at which it knows no more than before.
LEMMA StepHolds ==
  ASSUME ReleaseInv, NEW s \in Sessions, job[s] # None, NEW x, Step(s, x),
         UNCHANGED <<bin, origin>>,
         x \notin {"manifest", "fetch", "check"},
         x = "apply" => job[s].step = "check",
         x \in {"copy", "place"} => job[s].cmd = "install",
         job[s].cmd \in {"update", "kernel"} => job[s].step # "manifest"
  PROVE  ReleaseInv'
<1>1. GoodJob(job[s])  BY DEF ReleaseInv
<1>2. PICK j : j = job[s]  OBVIOUS
<1>3. PICK k : k = AtStep(j, x)  OBVIOUS
<1>4. /\ IsJob(k) /\ k.step = x /\ k.cmd = j.cmd /\ k.given = j.given /\ k.manifest = j.manifest
      /\ k.version = j.version /\ k.candidate = j.candidate /\ k.buffer = j.buffer
  BY <1>1, <1>2, <1>3, StepChanges DEF GoodJob
<1>5. job' = [job EXCEPT ![s] = k]  BY <1>2, <1>3 DEF Step, AtStep
<1>6. GoodJob(k)
  BY <1>1, <1>2, <1>4 DEF GoodJob, StepsOf, Trusts, HasRead, InstalledBy
<1> QED  BY <1>5, <1>6, SessionMoves

LEMMA BeginHolds ==
  ASSUME ReleaseInv, NEW s \in Sessions, NEW j \in Commands, BeginRelease(s, j)
  PROVE  ReleaseInv'
<1>1. PICK cmd, given : j = NewJob(cmd, given)
  BY DEF Commands
<1>2. /\ j.cmd = cmd /\ j.given = given /\ j.step = "manifest" /\ j.manifest = None
      /\ j.version = None /\ j.candidate = Nothing /\ j.buffer = Nothing
  BY <1>1 DEF NewJob
<1>3. IsJob(j)  BY <1>1, <1>2 DEF IsJob, NewJob, Nothing
<1>4. GoodJob(j)  BY <1>2, <1>3 DEF GoodJob, StepsOf, Trusts, HasRead
<1> QED  BY <1>4, SessionMoves DEF BeginRelease

LEMMA ReadManifestHolds ==
  ASSUME ReleaseInv, NEW s \in Sessions, ReadManifest(s), NothingIsTrusted
  PROVE  ReleaseInv'
<1>1. GoodJob(job[s])  BY DEF ReleaseInv, ReadManifest, At
<1>2. ASSUME NEW m, VerifyTrusted(m), NEW x, x \in {"curl", "fetch"},
             job' = [job EXCEPT ![s].manifest = m, ![s].step = x]
      PROVE  ReleaseInv'
  <2>1. PICK j : j = job[s]  OBVIOUS
  <2>2. PICK k : k = WithManifest(j, m, x)  OBVIOUS
  <2>3. /\ IsJob(k) /\ k.step = x /\ k.cmd = j.cmd /\ k.given = j.given /\ k.manifest = m
        /\ k.version = j.version /\ k.candidate = j.candidate /\ k.buffer = j.buffer
    <3>1. IsJob(j)  BY <1>1, <2>1 DEF GoodJob
    <3> QED  BY <2>2, <3>1, ManifestChanges
  <2>4. job' = [job EXCEPT ![s] = k]
    <3>1. PICK f : f = [job EXCEPT ![s].manifest = m]  OBVIOUS
    <3>2. f[s] = [j EXCEPT !.manifest = m]  BY <2>1, <3>1 DEF ReleaseInv
    <3>3. job' = [f EXCEPT ![s].step = x]  BY <1>2, <3>1
    <3>4. job' = [f EXCEPT ![s] = k]  BY <2>2, <3>2, <3>3 DEF WithManifest
    <3> QED  BY <3>1, <3>4 DEF ReleaseInv
  <2>5. m # None  BY <1>2 DEF NothingIsTrusted
  <2>6. j.cmd # "official" /\ j.version = None
    BY <1>1, <2>1 DEF ReadManifest, GoodJob, StepsOf, At
  <2>7. GoodJob(k)
    BY <1>2, <2>3, <2>5, <2>6 DEF GoodJob, StepsOf, Trusts, HasRead
  <2> QED  BY <2>4, <2>7, SessionMoves DEF ReadManifest
<1>3. CASE End(s)  BY <1>3, EndHolds DEF ReadManifest
<1> QED  BY <1>2, <1>3 DEF ReadManifest

LEMMA FetchCandidatesHolds ==
  ASSUME ReleaseInv, NEW s \in Sessions, FetchCandidates(s)
  PROVE  ReleaseInv'
<1>1. GoodJob(job[s]) /\ job[s].step = "fetch"  BY DEF ReleaseInv, FetchCandidates, At
<1>2. ASSUME NEW c, c = [n \in Components |-> c[n]],
             job' = [job EXCEPT ![s].step = "read", ![s].candidate = c]
      PROVE  ReleaseInv'
  <2>1. PICK j : j = job[s]  OBVIOUS
  <2>2. PICK k : k = WithCandidate(j, c, "read")  OBVIOUS
  <2>3. /\ IsJob(k) /\ k.step = "read" /\ k.cmd = j.cmd /\ k.given = j.given
        /\ k.manifest = j.manifest /\ k.version = j.version /\ k.candidate = c
    <3>1. IsJob(j)  BY <1>1, <2>1 DEF GoodJob
    <3> QED  BY <1>2, <2>2, <3>1, CandidateChanges
  <2>4. job' = [job EXCEPT ![s] = k]
    <3>1. PICK f : f = [job EXCEPT ![s].step = "read"]  OBVIOUS
    <3>2. f[s] = [j EXCEPT !.step = "read"]  BY <2>1, <3>1 DEF ReleaseInv
    <3>3. job' = [f EXCEPT ![s].candidate = c]  BY <1>2, <3>1
    <3>4. job' = [f EXCEPT ![s] = k]  BY <2>2, <3>2, <3>3 DEF WithCandidate
    <3> QED  BY <3>1, <3>4 DEF ReleaseInv
  <2>5. GoodJob(k)
    BY <1>1, <2>1, <2>3 DEF GoodJob, StepsOf, Trusts, HasRead
  <2> QED  BY <2>4, <2>5, SessionMoves DEF FetchCandidates
<1>3. CASE End(s)  BY <1>3, EndHolds DEF FetchCandidates
<1> QED
  BY <1>2, <1>3 DEF FetchCandidates

LEMMA OfficialAccepted ==
  ASSUME NEW version \in LatestVersions, NEW c \in OfficialKernels(version)
  PROVE  AcceptedKernel(version, c)
<1>1. Confirmed(version, c) /\ \E digest \in ArchiveDigests(version) : ArchiveMatches(c, digest)
  BY DEF OfficialKernels
<1> QED  BY <1>1 DEF AcceptedKernel, Confirmed, ArchiveMatches

LEMMA FetchOfficialHolds ==
  ASSUME ReleaseInv, NEW s \in Sessions, FetchOfficial(s)
  PROVE  ReleaseInv'
<1>1. GoodJob(job[s]) /\ job[s].step = "manifest" /\ job[s].cmd = "official"
  BY DEF ReleaseInv, FetchOfficial, At
<1>2. CASE Step(s, "read")  BY <1>1, <1>2, StepHolds DEF FetchOfficial, At
<1>3. ASSUME job[s].given = {}, NEW v, NEW c, AcceptedKernel(v, c),
             job' = [job EXCEPT ![s].step = "read", ![s].version = v,
                       ![s].candidate["sing-box"] = c]
      PROVE  ReleaseInv'
  <2>1. PICK j : j = job[s]  OBVIOUS
  <2>2. PICK k : k = WithVersion(j, v, c, "read")  OBVIOUS
  <2>3. /\ IsJob(k) /\ k.step = "read" /\ k.cmd = j.cmd /\ k.given = j.given
        /\ k.manifest = j.manifest /\ k.version = v /\ k.candidate["sing-box"] = c
    <3>1. IsJob(j)  BY <1>1, <2>1 DEF GoodJob
    <3> QED  BY <2>2, <3>1, VersionChanges
  <2>4. job' = [job EXCEPT ![s] = k]
    <3>1. PICK f : f = [job EXCEPT ![s].step = "read"]  OBVIOUS
    <3>2. f[s] = AtStep(j, "read") /\ DOMAIN f = Sessions
      BY <2>1, <3>1 DEF ReleaseInv, AtStep
    <3>3. PICK g : g = [f EXCEPT ![s].version = v]  OBVIOUS
    <3>4. g[s] = [AtStep(j, "read") EXCEPT !.version = v]  BY <3>2, <3>3
    <3>5. job' = [g EXCEPT ![s].candidate["sing-box"] = c]  BY <1>3, <3>1, <3>3
    <3>6. job' = [g EXCEPT ![s] = [g[s] EXCEPT !.candidate["sing-box"] = c]]  BY <3>5
    <3>7. job' = [g EXCEPT ![s] = k]  BY <2>2, <3>4, <3>6 DEF WithVersion, AtStep
    <3> QED  BY <3>1, <3>3, <3>7 DEF ReleaseInv
  <2>5. GoodJob(k)
    BY <1>1, <1>3, <2>1, <2>3 DEF GoodJob, StepsOf, Trusts, HasRead
  <2> QED  BY <2>4, <2>5, SessionMoves DEF FetchOfficial
<1>4. CASE End(s)  BY <1>4, EndHolds DEF FetchOfficial
<1> QED  BY <1>2, <1>3, <1>4, OfficialAccepted DEF FetchOfficial

LEMMA ReadCandidatesHolds ==
  ASSUME ReleaseInv, NEW s \in Sessions, ReadCandidates(s)
  PROVE  ReleaseInv'
<1>1. GoodJob(job[s]) /\ job[s].step = "read"  BY DEF ReleaseInv, ReadCandidates, At
<1>2. ASSUME \A n \in Installs(s) :
               job[s].manifest # None => Candidate(s, n) = Digest(s, n),
             NEW b, b = [n \in Components |->
                           IF n \in Installs(s) THEN Candidate(s, n) ELSE None],
             NEW x, x = IF job[s].cmd = "install" THEN "copy" ELSE "check",
             job' = [job EXCEPT ![s].step = x, ![s].buffer = b]
      PROVE  ReleaseInv'
  <2>1. PICK j : j = job[s]  OBVIOUS
  <2>2. PICK k : k = WithBuffer(j, b, x)  OBVIOUS
  <2>3. /\ IsJob(k) /\ k.step = x /\ k.cmd = j.cmd /\ k.given = j.given
        /\ k.manifest = j.manifest /\ k.version = j.version /\ k.candidate = j.candidate
        /\ k.buffer = b
    <3>1. IsJob(j)  BY <1>1, <2>1 DEF GoodJob
    <3> QED  BY <2>2, <3>1, BufferChanges
  <2>4. job' = [job EXCEPT ![s] = k]
    <3>1. PICK f : f = [job EXCEPT ![s].step = x]  OBVIOUS
    <3>2. f[s] = [j EXCEPT !.step = x]  BY <2>1, <3>1 DEF ReleaseInv
    <3>3. job' = [f EXCEPT ![s].buffer = b]  BY <1>2, <3>1
    <3>4. job' = [f EXCEPT ![s] = k]  BY <2>2, <3>2, <3>3 DEF WithBuffer
    <3> QED  BY <3>1, <3>4 DEF ReleaseInv
  <2>5. InstalledBy(k) = Installs(s) /\ Installs(s) \subseteq Components
    BY <2>1, <2>3 DEF InstalledBy, Installs, Components
  <2>6. HasRead(k)
    <3> SUFFICES ASSUME NEW n \in Installs(s)
                 PROVE  /\ k.manifest # None => k.buffer[n] = k.manifest.artifacts[n].digest
                        /\ k.version # None => k.buffer[n] = k.candidate[n]
      BY <2>5 DEF HasRead
    <3>1. k.buffer[n] = Candidate(s, n)  BY <1>2, <2>3, <2>5
    <3>2. k.manifest # None => k.buffer[n] = k.manifest.artifacts[n].digest
      BY <1>2, <2>1, <2>3, <3>1 DEF Digest
    <3>3. k.version # None => j.given = {}
      BY <1>1, <2>1, <2>3 DEF GoodJob, Trusts
    <3>4. k.version # None => k.buffer[n] = k.candidate[n]
      BY <2>1, <2>3, <3>1, <3>3 DEF Candidate
    <3> QED  BY <3>2, <3>4
  <2>7. StepsOf(k) /\ Trusts(k)
    BY <1>1, <1>2, <2>1, <2>3 DEF GoodJob, StepsOf, Trusts
  <2>8. GoodJob(k)  BY <2>3, <2>6, <2>7 DEF GoodJob
  <2> QED  BY <2>4, <2>8, SessionMoves DEF ReadCandidates
<1>3. CASE End(s)  BY <1>3, EndHolds DEF ReadCandidates
<1> QED  BY <1>2, <1>3 DEF ReadCandidates

LEMMA CheckCandidatesHolds ==
  ASSUME ReleaseInv, NEW s \in Sessions, CheckCandidates(s)
  PROVE  ReleaseInv'
<1>1. CASE Step(s, "apply")  BY <1>1, StepHolds DEF CheckCandidates, At
<1>2. CASE End(s)  BY <1>2, EndHolds DEF CheckCandidates
<1> QED  BY <1>1, <1>2 DEF CheckCandidates

\* The bytes written are those that were verified.
LEMMA ApplyHolds ==
  ASSUME ReleaseInv, NEW s \in Sessions, Apply(s)
  PROVE  ReleaseInv'
<1>1. CASE UNCHANGED <<bin, origin>>  BY <1>1, EndHolds DEF Apply
<1>2. CASE Install(s)
  <2>1. PICK j : j = job[s]  OBVIOUS
  <2>2. GoodJob(j) /\ j.step = "apply"  BY <2>1 DEF ReleaseInv, Apply, At
  <2>3. /\ DOMAIN job' = Sessions /\ job' = [t \in Sessions |-> job'[t]]
        /\ \A t \in Sessions : job'[t] # None => GoodJob(job'[t])
    BY DEF ReleaseInv, Apply, End
  <2>4. DOMAIN origin' = Components /\ DOMAIN bin' = Components
    BY <1>2 DEF Install
  <2>5. InstalledBy(j) = Installs(s)  BY <2>1 DEF InstalledBy, Installs
  <2>6. ASSUME NEW n \in Components, n \in Installs(s)
        PROVE  /\ origin'[n].cmd \in {"update", "kernel"} => bin'[n] = origin'[n].digest
               /\ origin'[n].version # None => AcceptedKernel(origin'[n].version, bin'[n])
    <3>1. bin'[n] = j.buffer[n]  BY <1>2, <2>1, <2>6 DEF Install, Written
    <3>2. origin'[n] = Verified(s, n)  BY <1>2, <2>6 DEF Install
    <3>3. /\ origin'[n].cmd = j.cmd /\ origin'[n].version = j.version
          /\ j.manifest # None => origin'[n].digest = j.manifest.artifacts[n].digest
      BY <2>1, <3>2 DEF Verified, Digest
    <3>4. /\ j.manifest # None => j.buffer[n] = j.manifest.artifacts[n].digest
          /\ j.version # None => j.buffer[n] = j.candidate[n]
      BY <2>2, <2>5, <2>6 DEF GoodJob, HasRead
    <3>5. j.cmd \in {"update", "kernel"} => j.manifest # None
      BY <2>2 DEF GoodJob, Trusts
    <3>6. j.version # None => n = "sing-box" /\ AcceptedKernel(j.version, j.candidate["sing-box"])
      BY <2>1, <2>2, <2>6 DEF GoodJob, Trusts, Installs
    <3>7. j.version # None => AcceptedKernel(j.version, bin'[n])
      BY <3>1, <3>4, <3>6
    <3> QED  BY <3>1, <3>3, <3>4, <3>5, <3>7
  <2>7. ASSUME NEW n \in Components, n \notin Installs(s)
        PROVE  origin'[n] = origin[n] /\ bin'[n] = bin[n]
    BY <1>2, <2>7 DEF Install
  <2>8. InstalledAsVerified'
    BY <2>6, <2>7 DEF ReleaseInv, InstalledAsVerified, Runs, AcceptedKernel
  <2> QED  BY <2>3, <2>4, <2>8 DEF ReleaseInv
<1> QED  BY <1>1, <1>2 DEF Apply

LEMMA DownloadHolds ==
  ASSUME ReleaseInv, NEW s \in Sessions,
         CurlBegins(s) \/ CurlEnds(s) \/ VerifyDownload(s) \/ RenameDownload(s)
  PROVE  ReleaseInv'
<1>1. CASE End(s) /\ UNCHANGED <<bin, origin>>  BY <1>1, EndHolds
<1>2. ASSUME NEW x \in {"curling", "verify", "rename"}, Step(s, x), job[s] # None,
             job[s].step # "manifest", UNCHANGED <<bin, origin>>
      PROVE  ReleaseInv'
  BY <1>2, StepHolds
<1>3. CASE CurlBegins(s)  BY <1>1, <1>2, <1>3 DEF CurlBegins, At
<1>4. CASE CurlEnds(s)  BY <1>1, <1>2, <1>4 DEF CurlEnds, At
<1>5. CASE VerifyDownload(s)  BY <1>1, <1>2, <1>5 DEF VerifyDownload, At
<1>6. CASE RenameDownload(s)  BY <1>1, <1>6 DEF RenameDownload
<1> QED  BY <1>3, <1>4, <1>5, <1>6

LEMMA CopyKernelHolds ==
  ASSUME ReleaseInv, NEW s \in Sessions, CopyKernel(s)
  PROVE  ReleaseInv'
<1>1. CASE End(s)  BY <1>1, EndHolds DEF CopyKernel
<1>2. GoodJob(job[s]) /\ job[s].step = "copy"  BY DEF ReleaseInv, CopyKernel, At
<1>3. job[s].cmd = "install"  BY <1>2 DEF GoodJob, StepsOf
<1>4. CASE Step(s, "place")  BY <1>2, <1>3, <1>4, StepHolds DEF CopyKernel, At
<1> QED  BY <1>1, <1>4 DEF CopyKernel

\* `sbctl sing-box install` verifies a version or a digest of none.
LEMMA PlaceKernelHolds ==
  ASSUME ReleaseInv, NEW s \in Sessions, PlaceKernel(s)
  PROVE  ReleaseInv'
<1>1. CASE staged = None  BY <1>1, EndHolds DEF PlaceKernel
<1>2. CASE staged # None
  <2>1. GoodJob(job[s]) /\ job[s].step = "place"  BY DEF ReleaseInv, PlaceKernel, At
  <2>2. job[s].cmd = "install" /\ job[s].version = None
    BY <2>1 DEF GoodJob, StepsOf, Trusts
  <2>3. /\ bin' = [bin EXCEPT !["sing-box"] = staged]
        /\ origin' = [origin EXCEPT !["sing-box"] = Verified(s, "sing-box")]
    BY <1>2 DEF PlaceKernel
  <2>4. Verified(s, "sing-box").cmd = "install" /\ Verified(s, "sing-box").version = None
    BY <2>2 DEF Verified
  <2>5. DOMAIN origin' = Components /\ DOMAIN bin' = Components  BY <2>3 DEF ReleaseInv
  <2>6. \A n \in Components :
          IF n = "sing-box" THEN origin'[n] = Verified(s, n)
          ELSE origin'[n] = origin[n] /\ bin'[n] = bin[n]
    BY <2>3 DEF ReleaseInv
  <2>7. InstalledAsVerified'  BY <2>4, <2>6 DEF ReleaseInv, InstalledAsVerified, Runs
  <2>8. /\ DOMAIN job' = Sessions /\ job' = [t \in Sessions |-> job'[t]]
        /\ \A t \in Sessions : job'[t] # None => GoodJob(job'[t])
    BY DEF ReleaseInv, PlaceKernel, End
  <2> QED  BY <2>5, <2>7, <2>8 DEF ReleaseInv
<1> QED  BY <1>1, <1>2

LEMMA ReleaseStepHolds ==
  ASSUME ReleaseInv, NEW s \in Sessions, ReleaseStep(s), NothingIsTrusted
  PROVE  ReleaseInv'
  BY ReadManifestHolds, FetchCandidatesHolds, FetchOfficialHolds, ReadCandidatesHolds,
     CheckCandidatesHolds, ApplyHolds, DownloadHolds, CopyKernelHolds, PlaceKernelHolds
     DEF ReleaseStep

LEMMA ReleaseNextHolds ==
  ASSUME ReleaseInv, [ReleaseNext]_releaseVars, NothingIsTrusted
  PROVE  ReleaseInv'
<1>1. ASSUME UNCHANGED <<job, bin, origin>>  PROVE ReleaseInv'
  BY <1>1 DEF ReleaseInv, InstalledAsVerified
<1>2. CASE Publish \/ EditFile  BY <1>1, <1>2 DEF Publish, EditFile
<1>3. ASSUME NEW s \in Sessions, ReleaseStep(s)  PROVE ReleaseInv'
  BY <1>3, ReleaseStepHolds
<1>4. ASSUME NEW s \in Sessions, NEW j \in Commands, BeginRelease(s, j)  PROVE ReleaseInv'
  BY <1>4, BeginHolds
<1>5. CASE UNCHANGED releaseVars  BY <1>1, <1>5 DEF releaseVars
<1> QED  BY <1>2, <1>3, <1>4, <1>5 DEF ReleaseNext

\* What an update puts in place is what the signed manifest names, and an official kernel
\* runs, prints a version GitHub called the latest and is the one GitHub gave the digest
\* of, where it gave one, for any sessions, manifests and official releases and whatever
\* is done to the files in the meantime (read_verified_artifact,
\* verify_official_archive_checksum, confirm_sing_box_candidate), where the binaries were
\* there to begin with and an empty file is no signed manifest.
THEOREM OnlyVerifiedIsInstalled ==
  ASSUME NEW CONSTANT installed, DOMAIN installed = Components,
         NEW CONSTANT files, NEW CONSTANT budget, NothingIsTrusted
  PROVE  ReleaseSpec(installed, files, budget) => []InstalledAsVerified
<1>1. ASSUME ReleaseInit(installed, files, budget)  PROVE ReleaseInv
  BY <1>1 DEF ReleaseInit, ReleaseInv, InstalledAsVerified, Nothing
<1>2. ReleaseInv /\ [ReleaseNext]_releaseVars => ReleaseInv'  BY ReleaseNextHolds
<1>3. ReleaseInv => InstalledAsVerified  BY DEF ReleaseInv
<1> QED  BY <1>1, <1>2, <1>3, PTL DEF ReleaseSpec

-------------------------------------------------------------------------------
(* The menu installs nothing else *)

NothingInstalled == bin' = Nothing /\ origin' = Nothing /\ UNCHANGED job

\* An installation or a removal of the menu.
LEMMA MenuInstallHolds ==
  ASSUME ReleaseInv, NEW s \in Sessions, RunInstall(s) \/ RunUninstall(s)
  PROVE  ReleaseInv'
<1>1. ASSUME UNCHANGED <<job, bin, origin>>  PROVE ReleaseInv'
  BY <1>1 DEF ReleaseInv, InstalledAsVerified
<1>2. ASSUME NothingInstalled  PROVE ReleaseInv'
  BY <1>2 DEF NothingInstalled, ReleaseInv, InstalledAsVerified, Nothing
<1>3. ASSUME NEW version, NEW c, AcceptedKernel(version, c), UNCHANGED job,
             bin' = [bin EXCEPT !["sing-box"] = c],
             origin' = [origin EXCEPT !["sing-box"] =
               [cmd |-> "install", version |-> version, digest |-> None]]
      PROVE  ReleaseInv'
  <2>1. DOMAIN origin' = Components /\ DOMAIN bin' = Components
    BY <1>3 DEF ReleaseInv
  <2>2. \A n \in Components :
          IF n = "sing-box"
          THEN origin'[n] = [cmd |-> "install", version |-> version, digest |-> None] /\ bin'[n] = c
          ELSE origin'[n] = origin[n] /\ bin'[n] = bin[n]
    BY <1>3 DEF ReleaseInv
  <2>3. InstalledAsVerified'
    BY <1>3, <2>2 DEF ReleaseInv, InstalledAsVerified, AcceptedKernel, Runs
  <2> QED  BY <1>3, <2>1, <2>3 DEF ReleaseInv
<1>4. CASE RunInstall(s)
  <2>1. UNCHANGED job
    BY <1>4 DEF RunInstall
  <2> QED  BY <1>1, <1>3, <1>4, <2>1, OfficialAccepted DEF RunInstall
<1>5. CASE RunUninstall(s)
  BY <1>1, <1>2, <1>5 DEF RunUninstall, NothingInstalled
<1> QED  BY <1>4, <1>5

LEMMA AdministrationReleases ==
  ASSUME ReleaseInv, [Next]_vars, NothingIsTrusted
  PROVE  ReleaseInv'
<1>1. CASE UNCHANGED releaseVars
  BY <1>1, ReleaseNextHolds
<1>2. CASE Publish \/ EditFile
  BY <1>2, ReleaseNextHolds DEF ReleaseNext
<1>3. ASSUME NEW s \in Sessions, CommandLine(s)  PROVE ReleaseInv'
  BY <1>3, BeginHolds DEF CommandLine
<1>4. ASSUME NEW s \in Sessions, ReleaseStep(s)  PROVE ReleaseInv'
  BY <1>4, ReleaseStepHolds
<1>5. ASSUME NEW s \in Sessions, MenuStep(s)  PROVE ReleaseInv'
  <2>1. CASE RunInstall(s) \/ RunUninstall(s)
    BY <2>1, MenuInstallHolds
  <2>2. CASE RunRelease(s)
    <3>1. \A name : NewJob(IF name = "update" THEN "update" ELSE "official", {}) \in Commands
      BY DEF Commands
    <3> QED  BY <2>2, <3>1, BeginHolds DEF RunRelease
  <2>3. CASE Choose(s) \/ ChooseAtEnd(s) \/ Return(s) \/ Confirm(s) \/ EnterAmount(s) \/ Converse(s)
               \/ RunInPlace(s) \/ RunEdit(s) \/ Waited(s)
    <3>1. UNCHANGED releaseVars
      BY <2>3 DEF Choose, ChooseAtEnd, Return, Confirm, EnterAmount, Converse, RunInPlace, RunEdit, Waited
    <3> QED  BY <1>1, <3>1
  <2> QED  BY <1>5, <2>1, <2>2, <2>3 DEF MenuStep
<1>6. CASE Elsewhere \/ \E s \in Sessions : InputEnds(s)
  BY <1>1, <1>6 DEF Elsewhere, InputEnds
<1>7. CASE UNCHANGED vars
  BY <1>1, <1>7 DEF vars
<1> QED  BY <1>1, <1>2, <1>3, <1>4, <1>5, <1>6, <1>7 DEF Next, Menu, Releases

\* The same beside the menu, which installs the latest official kernel with a deployment and
\* removes both with it, and whoever uses it at the same time.
THEOREM MenuInstallsVerified ==
  ASSUME NothingIsTrusted
  PROVE  Spec => []InstalledAsVerified
<1>1. ASSUME Init  PROVE ReleaseInv
  <2>1. ASSUME NEW binaries, DOMAIN binaries = Components, NEW files, NEW budget,
               ReleaseInit(binaries, files, budget)
        PROVE  ReleaseInv
    BY <2>1 DEF ReleaseInit, ReleaseInv, InstalledAsVerified, Nothing
  <2>2. DOMAIN Nothing = Components /\ \A k : DOMAIN [Nothing EXCEPT !["sing-box"] = k] = Components
    BY DEF Nothing
  <2> QED  BY <1>1, <2>1, <2>2 DEF Init
<1>2. ReleaseInv /\ [Next]_vars => ReleaseInv'  BY AdministrationReleases
<1>3. ReleaseInv => InstalledAsVerified  BY DEF ReleaseInv
<1> QED  BY <1>1, <1>2, <1>3, PTL DEF Spec

-------------------------------------------------------------------------------
(* Certificates *)

\* Whatever Certbot is asked for, or makes a lineage cover.
AllNames == UNION {UNION Renewal!NamesFor(h) : h \in Hosts}

ChainType == [serial : Nat, from : Nat, until : Nat, names : SUBSET AllNames]

PairType == [chain : ChainType, key : Nat]

TaskType ==
  [cmd : {"idle", "obtain", "renew", "verify", "timer"},
   step : {"idle", "certbot", "key", "load", "loadKey", "pinChain", "pinKey", "end"},
   host : Hosts \cup {<<>>}, hook : BOOLEAN, lineage : Hosts \cup {<<>>},
   chain : ChainType, key : Nat]

CertificateTypes ==
  /\ now \in Nat /\ issued \in Nat
  /\ config \in [mode : {"direct", "private"}, host : Hosts]
  /\ live \in [Hosts -> PairType] /\ pinned \in [Hosts -> PairType]
  /\ task \in [Renewal!Runners -> TaskType]
  /\ completed \in [Hosts -> Nat]

\* What runs is about a lineage, and what publishes is about a host.
Addressed(t) ==
  /\ t.step # "idle" => t.lineage \in Hosts
  /\ t.step \in {"certbot", "key"} /\ t.cmd # "timer" => t.host \in Hosts
  /\ t.step \in {"load", "loadKey", "pinChain", "pinKey"} => t.host \in Hosts

\* What has been validated for the host, and all of whose validity but the end is behind.
Vouched(chain, key, h) ==
  /\ chain.serial # 0 /\ key = chain.serial /\ chain.from <= now
  /\ \E name \in chain.names : Renewal!DnsNameMatches(name, h)

\* A publication pins a pair it has validated, the certificate before the key.
Pins(t) ==
  /\ t.step \in {"pinChain", "pinKey"} => Vouched(t.chain, t.key, t.host)
  /\ t.step = "pinKey" => pinned[t.host].chain = t.chain /\ completed[t.host] = 0

\* One publication at a time.
OnePublication ==
  \A r, s \in Renewal!Runners : Renewal!Publishing(r) /\ Renewal!Publishing(s) => r = s

CertificateInv ==
  /\ CertificateTypes
  /\ \A r \in Renewal!Runners : Addressed(task[r]) /\ Pins(task[r])
  /\ \A h \in Hosts : completed[h] # 0 =>
       /\ Vouched(pinned[h].chain, pinned[h].key, h)
       /\ pinned[h].key = completed[h]
  /\ OnePublication

LEMMA LineageNames == \A h \in Hosts : Renewal!NamesFor(h) \subseteq SUBSET AllNames
  BY DEF AllNames

\* A step of one runner that pins nothing.
LEMMA RunnerSteps ==
  ASSUME CertificateInv, NEW r \in Renewal!Runners, NEW t \in TaskType,
         task' = [task EXCEPT ![r] = t], UNCHANGED <<now, config, pinned, completed>>,
         live' \in [Hosts -> PairType], issued' \in Nat,
         Addressed(t), Pins(t),
         t.step \in {"loadKey", "pinChain", "pinKey"} =>
           Renewal!Publishing(r) \/ \A other \in Renewal!Runners : ~Renewal!Publishing(other)
  PROVE  CertificateInv'
<1>1. CertificateTypes'
  BY DEF CertificateInv, CertificateTypes
<1>2. ASSUME NEW s \in Renewal!Runners  PROVE task'[s] = IF s = r THEN t ELSE task[s]
  BY DEF CertificateInv, CertificateTypes
<1>3. ASSUME NEW s \in Renewal!Runners  PROVE (Addressed(task[s]) /\ Pins(task[s]))'
  BY <1>2 DEF CertificateInv, Addressed, Pins, Vouched
<1>4. \A h \in Hosts : completed[h] # 0 =>
        Vouched(pinned[h].chain, pinned[h].key, h)' /\ pinned[h].key = completed[h]
  BY DEF CertificateInv, Vouched
<1>5. OnePublication'
  BY <1>2 DEF CertificateInv, OnePublication, Renewal!Publishing
<1> QED  BY <1>1, <1>3, <1>4, <1>5 DEF CertificateInv

LEMMA CommandBegins ==
  ASSUME CertificateInv, NEW r \in Renewal!Runners, NEW cmd \in {"obtain", "renew", "verify"},
         Renewal!BeginCertificate(r, cmd)
  PROVE  CertificateInv'
<1> DEFINE t == [Renewal!Idle EXCEPT !.cmd = cmd, !.host = config.host, !.lineage = config.host,
                   !.step = IF cmd = "verify" THEN "load" ELSE "certbot"]
<1>1. task' = [task EXCEPT ![r] = t] /\ UNCHANGED <<now, config, live, pinned, issued, completed>>
  BY DEF Renewal!BeginCertificate
<1>2. t \in TaskType /\ Addressed(t) /\ Pins(t) /\ t.step \in {"load", "certbot"}
  BY DEF CertificateInv, CertificateTypes, TaskType, ChainType, Addressed, Pins,
         Renewal!Idle, Renewal!Missing
<1> HIDE DEF t
<1> QED  BY <1>1, <1>2, RunnerSteps DEF CertificateInv, CertificateTypes

LEMMA TimerBegins ==
  ASSUME CertificateInv, Renewal!TimerRenews
  PROVE  CertificateInv'
<1>1. PICK h \in Hosts :
        task' = [task EXCEPT ![CertbotTimer] = [Renewal!Idle EXCEPT !.cmd = "timer",
                   !.lineage = h, !.step = "certbot"]]
  BY DEF Renewal!TimerRenews
<1> DEFINE t == [Renewal!Idle EXCEPT !.cmd = "timer", !.lineage = h, !.step = "certbot"]
<1>2. UNCHANGED <<now, config, live, pinned, issued, completed>>
  BY DEF Renewal!TimerRenews
<1>3. t \in TaskType /\ Addressed(t) /\ Pins(t) /\ t.step = "certbot"
  BY DEF TaskType, ChainType, Addressed, Pins, Renewal!Idle, Renewal!Missing
<1>4. CertbotTimer \in Renewal!Runners
  BY DEF Renewal!Runners
<1> HIDE DEF t
<1> QED  BY <1>1, <1>2, <1>3, <1>4, RunnerSteps DEF t, CertificateInv, CertificateTypes

LEMMA MissingIsAChain == Renewal!Missing \in ChainType
  BY DEF Renewal!Missing, ChainType

LEMMA IdleIsATask == Renewal!Idle \in TaskType /\ Addressed(Renewal!Idle) /\ Pins(Renewal!Idle)
  BY MissingIsAChain DEF Renewal!Idle, TaskType, Addressed, Pins

\* A runner goes on, without a publication in it.
LEMMA RunnerGoes ==
  ASSUME CertificateInv, NEW r \in Renewal!Runners, NEW step \in {"key", "load", "end"},
         task[r].step \in {"certbot", "key"},
         step = "load" => task[r].cmd # "timer",
         Renewal!Goes(r, step), UNCHANGED <<now, config, pinned, completed>>,
         live' \in [Hosts -> PairType], issued' \in Nat
  PROVE  CertificateInv'
<1> DEFINE t == [task[r] EXCEPT !.step = step]
<1>1. task' = [task EXCEPT ![r] = t]
  BY DEF Renewal!Goes
<1>2. t \in TaskType /\ Addressed(t) /\ Pins(t) /\ t.step = step
  BY DEF CertificateInv, CertificateTypes, TaskType, Addressed, Pins
<1> HIDE DEF t
<1> QED  BY <1>1, <1>2, RunnerSteps

LEMMA RunnerEnds ==
  ASSUME CertificateInv, NEW r \in Renewal!Runners, Renewal!Ends(r),
         UNCHANGED <<now, config, pinned, completed>>,
         live' \in [Hosts -> PairType], issued' \in Nat
  PROVE  CertificateInv'
<1>1. task' = [task EXCEPT ![r] = Renewal!Idle] /\ Renewal!Idle.step = "idle"
  BY DEF Renewal!Ends, Renewal!Idle
<1> QED  BY <1>1, IdleIsATask, RunnerSteps

LEMMA CertbotObtains ==
  ASSUME CertificateInv, NEW r \in Renewal!Runners, Renewal!CertbotRuns(r)
  PROVE  CertificateInv'
<1> DEFINE h == task[r].lineage
<1>1. task[r].step = "certbot" /\ UNCHANGED <<now, config, pinned, completed>>
  BY DEF Renewal!CertbotRuns, Renewal!In
<1>2. h \in Hosts
  BY <1>1 DEF CertificateInv, Addressed
<1>3. live \in [Hosts -> PairType] /\ issued \in Nat
  BY DEF CertificateInv, CertificateTypes
<1>4. ASSUME NEW names \in Renewal!NamesFor(h),
             live' = [live EXCEPT ![h].chain =
               [serial |-> issued + 1, from |-> now, until |-> now + Life, names |-> names]],
             issued' = issued + 1, Renewal!Goes(r, "key")
      PROVE  CertificateInv'
  <2>1. [serial |-> issued + 1, from |-> now, until |-> now + Life, names |-> names] \in ChainType
    BY <1>2, LineageNames, AdministrationAssumption DEF ChainType, CertificateInv, CertificateTypes
  <2>2. live' \in [Hosts -> PairType]
    BY <1>2, <1>3, <1>4, <2>1 DEF PairType
  <2> QED  BY <1>1, <1>3, <1>4, <2>2, RunnerGoes
<1>5. ASSUME Renewal!Goes(r, Renewal!AfterCertbot(r)), UNCHANGED <<live, issued>>
      PROVE  CertificateInv'
  <2>1. Renewal!AfterCertbot(r) \in {"load", "end"}
        /\ (Renewal!AfterCertbot(r) = "load" => task[r].cmd # "timer")
    BY DEF Renewal!AfterCertbot
  <2> QED  BY <1>1, <1>3, <1>5, <2>1, RunnerGoes
<1>6. ASSUME Renewal!Ends(r), UNCHANGED <<live, issued>>
      PROVE  CertificateInv'
  BY <1>1, <1>3, <1>6, RunnerEnds
<1> QED  BY <1>4, <1>5, <1>6 DEF Renewal!CertbotRuns

LEMMA CertbotEnds ==
  ASSUME CertificateInv, NEW r \in Renewal!Runners, Renewal!CertbotPutsKey(r)
  PROVE  CertificateInv'
<1> DEFINE h == task[r].lineage
<1>1. task[r].step = "key" /\ UNCHANGED <<now, config, pinned, completed, issued>>
  BY DEF Renewal!CertbotPutsKey, Renewal!In
<1>2. h \in Hosts /\ live \in [Hosts -> PairType] /\ issued \in Nat /\ config.host \in Hosts
      /\ task[r] \in TaskType
  BY <1>1 DEF CertificateInv, CertificateTypes, Addressed
<1>3. live' = [live EXCEPT ![h].key = live[h].chain.serial]
  BY DEF Renewal!CertbotPutsKey
<1>4. live' \in [Hosts -> PairType]
  BY <1>2, <1>3 DEF PairType, ChainType
<1>5. CASE config.mode = "direct"
  <2> DEFINE t == [task[r] EXCEPT !.step = "load", !.hook = TRUE, !.host = config.host]
  <2>1. task' = [task EXCEPT ![r] = t]
    BY <1>5 DEF Renewal!CertbotPutsKey
  <2>2. t \in TaskType /\ Addressed(t) /\ Pins(t) /\ t.step = "load"
    BY <1>1, <1>2 DEF CertificateInv, TaskType, Addressed, Pins
  <2> HIDE DEF t
  <2> QED  BY <1>1, <1>2, <1>4, <2>1, <2>2, RunnerSteps
<1>6. CASE config.mode # "direct"
  <2>1. Renewal!AfterCertbot(r) \in {"load", "end"}
        /\ (Renewal!AfterCertbot(r) = "load" => task[r].cmd # "timer")
    BY DEF Renewal!AfterCertbot
  <2> QED  BY <1>1, <1>2, <1>4, <1>6, <2>1, RunnerGoes DEF Renewal!CertbotPutsKey
<1> QED  BY <1>5, <1>6

LEMMA PublicationEnds ==
  ASSUME CertificateInv, NEW r \in Renewal!Runners, Renewal!Publishing(r), Renewal!Published(r)
  PROVE  \E t \in TaskType :
           task' = [task EXCEPT ![r] = t] /\ Addressed(t) /\ t.step \in {"idle", "load", "end"}
<1>1. CASE task[r].hook
  <2> DEFINE t == [task[r] EXCEPT !.hook = FALSE, !.step = Renewal!AfterCertbot(r),
                     !.host = task[r].lineage, !.chain = Renewal!Missing, !.key = 0]
  <2>1. task' = [task EXCEPT ![r] = t]
    BY <1>1 DEF Renewal!Published
  <2>2. Renewal!AfterCertbot(r) \in {"load", "end"}
    BY DEF Renewal!AfterCertbot
  <2>3. task[r] \in TaskType /\ task[r].lineage \in Hosts
    BY DEF CertificateInv, CertificateTypes, Addressed, Renewal!Publishing
  <2>4. t \in TaskType /\ Addressed(t) /\ t.step \in {"load", "end"}
    BY <2>2, <2>3, MissingIsAChain DEF TaskType, Addressed
  <2> HIDE DEF t
  <2> QED  BY <2>1, <2>4
<1>2. CASE ~task[r].hook
  <2>1. task' = [task EXCEPT ![r] = Renewal!Idle] /\ Renewal!Idle.step = "idle"
    BY <1>2 DEF Renewal!Published, Renewal!Ends, Renewal!Idle
  <2> QED  BY <2>1, IdleIsATask
<1> QED  BY <1>1, <1>2

\* It leaves what is pinned alone.
LEMMA GivesUp ==
  ASSUME CertificateInv, NEW r \in Renewal!Runners, Renewal!Publishing(r), Renewal!Published(r),
         UNCHANGED <<now, config, live, pinned, issued, completed>>
  PROVE  CertificateInv'
<1>1. PICK t \in TaskType :
        task' = [task EXCEPT ![r] = t] /\ Addressed(t) /\ t.step \in {"idle", "load", "end"}
  BY PublicationEnds
<1>2. Pins(t) /\ live' \in [Hosts -> PairType] /\ issued' \in Nat
  BY <1>1 DEF Pins, CertificateInv, CertificateTypes
<1> QED  BY <1>1, <1>2, RunnerSteps

LEMMA LoadsChain ==
  ASSUME CertificateInv, NEW r \in Renewal!Runners, Renewal!LoadLiveChain(r), ~Overlap
  PROVE  CertificateInv'
<1> DEFINE t == [task[r] EXCEPT !.step = "loadKey", !.chain = live[task[r].host].chain]
<1>1. /\ task[r].step = "load" /\ \A other \in Renewal!Runners : ~Renewal!Publishing(other)
      /\ task' = [task EXCEPT ![r] = t]
      /\ UNCHANGED <<now, config, live, pinned, issued, completed>>
  BY DEF Renewal!LoadLiveChain, Renewal!In
<1>2. /\ task[r] \in TaskType /\ Addressed(task[r])
      /\ live' \in [Hosts -> PairType] /\ issued' \in Nat
  BY <1>1 DEF CertificateInv, CertificateTypes
<1>3. t \in TaskType /\ Addressed(t) /\ Pins(t)
  BY <1>1, <1>2 DEF TaskType, PairType, Addressed, Pins
<1> HIDE DEF t
<1> QED  BY <1>1, <1>2, <1>3, RunnerSteps

LEMMA LoadsKey ==
  ASSUME CertificateInv, NEW r \in Renewal!Runners, Renewal!LoadLiveKey(r)
  PROVE  CertificateInv'
<1>1. task[r].step = "loadKey" /\ Renewal!Publishing(r)
      /\ UNCHANGED <<now, config, live, pinned, issued, completed>>
  BY DEF Renewal!LoadLiveKey, Renewal!In, Renewal!Publishing
<1>2. CASE Renewal!Loaded(task[r].chain, live[task[r].host].key, task[r].host)
  <2> DEFINE t == [task[r] EXCEPT !.step = "pinChain", !.key = live[task[r].host].key]
  <2>1. task' = [task EXCEPT ![r] = t]
    BY <1>2 DEF Renewal!LoadLiveKey
  <2>2. task[r] \in TaskType /\ Addressed(task[r])
        /\ live' \in [Hosts -> PairType] /\ issued' \in Nat
    BY <1>1 DEF CertificateInv, CertificateTypes
  <2>3. t \in TaskType /\ Addressed(t)
    BY <1>1, <2>2 DEF TaskType, PairType, Addressed
  <2>4. Vouched(task[r].chain, live[task[r].host].key, task[r].host)
    BY <1>2 DEF Renewal!Loaded, Vouched
  <2>5. t.step = "pinChain" /\ t.chain = task[r].chain /\ t.key = live[task[r].host].key
        /\ t.host = task[r].host
    BY <2>2 DEF TaskType
  <2>6. Pins(t)
    BY <2>4, <2>5 DEF Pins
  <2> HIDE DEF t
  <2> QED  BY <1>1, <2>1, <2>2, <2>3, <2>6, RunnerSteps
<1>3. CASE ~Renewal!Loaded(task[r].chain, live[task[r].host].key, task[r].host)
  BY <1>1, <1>3, GivesUp DEF Renewal!LoadLiveKey
<1> QED  BY <1>2, <1>3

\* What one publication writes is nobody else's.
LEMMA Pinning ==
  ASSUME CertificateInv, NEW r \in Renewal!Runners, Renewal!Publishing(r),
         NEW t \in TaskType, task' = [task EXCEPT ![r] = t], Addressed(t),
         UNCHANGED <<now, config, live, issued>>,
         NEW h \in Hosts, NEW pair \in PairType, NEW serial \in Nat,
         pinned' = [pinned EXCEPT ![h] = pair], completed' = [completed EXCEPT ![h] = serial],
         Pins(t)',
         serial # 0 => Vouched(pair.chain, pair.key, h) /\ pair.key = serial
  PROVE  CertificateInv'
<1>1. CertificateTypes'
  BY DEF CertificateInv, CertificateTypes
<1>2. ASSUME NEW s \in Renewal!Runners  PROVE task'[s] = IF s = r THEN t ELSE task[s]
  BY DEF CertificateInv, CertificateTypes
<1>3. ASSUME NEW s \in Renewal!Runners, s # r  PROVE ~Renewal!Publishing(s)
  BY <1>3 DEF CertificateInv, OnePublication
<1>4. ASSUME NEW s \in Renewal!Runners  PROVE (Addressed(task[s]) /\ Pins(task[s]))'
  <2>1. CASE s = r
    BY <1>2, <2>1 DEF Addressed, Pins, Vouched
  <2>2. CASE s # r
    <3>1. task[s].step \notin {"loadKey", "pinChain", "pinKey"}
      BY <1>3, <2>2 DEF Renewal!Publishing
    <3> QED  BY <1>2, <2>2, <3>1 DEF CertificateInv, Addressed, Pins
  <2> QED  BY <2>1, <2>2
<1>5. ASSUME NEW g \in Hosts, completed'[g] # 0
      PROVE  Vouched(pinned'[g].chain, pinned'[g].key, g) /\ pinned'[g].key = completed'[g]
  <2>1. /\ pinned'[g] = IF g = h THEN pair ELSE pinned[g]
        /\ completed'[g] = IF g = h THEN serial ELSE completed[g]
    BY DEF CertificateInv, CertificateTypes
  <2> QED  BY <1>5, <2>1 DEF CertificateInv
<1>6. \A g \in Hosts : completed'[g] # 0 =>
        Vouched(pinned[g].chain, pinned[g].key, g)' /\ pinned'[g].key = completed'[g]
  BY <1>5 DEF Vouched
<1>7. OnePublication'
  BY <1>2, <1>3 DEF CertificateInv, OnePublication, Renewal!Publishing
<1> QED  BY <1>1, <1>4, <1>6, <1>7 DEF CertificateInv

LEMMA ChainIsPinned ==
  ASSUME CertificateInv, NEW r \in Renewal!Runners, Renewal!PinsChain(r)
  PROVE  CertificateInv'
<1> DEFINE h == task[r].host
<1>1. task[r].step = "pinChain" /\ Renewal!Publishing(r) /\ UNCHANGED <<now, config, live, issued>>
  BY DEF Renewal!PinsChain, Renewal!In, Renewal!Publishing
<1>2. /\ task[r] \in TaskType /\ h \in Hosts /\ pinned \in [Hosts -> PairType]
      /\ completed \in [Hosts -> Nat] /\ Vouched(task[r].chain, task[r].key, h)
  BY <1>1 DEF CertificateInv, CertificateTypes, Addressed, Pins
<1>3. ASSUME pinned' = [pinned EXCEPT ![h].chain = task[r].chain],
             completed' = [completed EXCEPT ![h] = 0], Renewal!Goes(r, "pinKey")
      PROVE  CertificateInv'
  <2>1. PICK t \in TaskType : t = [task[r] EXCEPT !.step = "pinKey"]
    BY <1>2 DEF TaskType
  <2>2. PICK pair \in PairType : pair = [pinned[h] EXCEPT !.chain = task[r].chain]
    BY <1>2 DEF TaskType, PairType
  <2>3. /\ task' = [task EXCEPT ![r] = t] /\ pinned' = [pinned EXCEPT ![h] = pair]
    BY <1>3, <2>1, <2>2 DEF Renewal!Goes
  <2>4. t.lineage = task[r].lineage
        /\ t.step = "pinKey" /\ t.host = h /\ t.chain = task[r].chain /\ t.key = task[r].key
    BY <1>2, <2>1 DEF TaskType
  <2>5. pair.chain = task[r].chain
    BY <1>2, <2>2 DEF PairType
  <2>6. Addressed(t)
    BY <1>1, <1>2, <2>4 DEF CertificateInv, Addressed
  <2>7. pinned'[h].chain = t.chain /\ completed'[h] = 0
    BY <1>2, <1>3, <2>3, <2>4
  <2>8. Vouched(t.chain, t.key, t.host) /\ now' = now
    BY <1>1, <1>2, <2>4
  <2>9. Pins(t)'
    BY <2>4, <2>7, <2>8 DEF Pins, Vouched
  <2> QED  BY <1>1, <1>2, <1>3, <2>3, <2>4, <2>9, <2>5, <2>6, Pinning
<1>4. CASE Renewal!Published(r) /\ UNCHANGED <<pinned, completed>>
  BY <1>1, <1>4, GivesUp
<1> QED  BY <1>3, <1>4 DEF Renewal!PinsChain

LEMMA KeyIsPinned ==
  ASSUME CertificateInv, NEW r \in Renewal!Runners, Renewal!PinsKey(r)
  PROVE  CertificateInv'
<1> DEFINE h == task[r].host
<1>1. task[r].step = "pinKey" /\ Renewal!Publishing(r) /\ Renewal!Published(r)
      /\ UNCHANGED <<now, config, live, issued>>
  BY DEF Renewal!PinsKey, Renewal!In, Renewal!Publishing
<1>2. /\ task[r] \in TaskType /\ h \in Hosts /\ pinned \in [Hosts -> PairType]
      /\ Vouched(task[r].chain, task[r].key, h) /\ pinned[h].chain = task[r].chain
  BY <1>1 DEF CertificateInv, CertificateTypes, Addressed, Pins
<1>3. ASSUME pinned' = [pinned EXCEPT ![h].key = task[r].key],
             completed' = [completed EXCEPT ![h] = task[r].chain.serial]
      PROVE  CertificateInv'
  <2> DEFINE pair == [pinned[h] EXCEPT !.key = task[r].key]
  <2>1. PICK t \in TaskType :
          task' = [task EXCEPT ![r] = t] /\ Addressed(t) /\ t.step \in {"idle", "load", "end"}
    BY <1>1, PublicationEnds
  <2>2. pinned' = [pinned EXCEPT ![h] = pair]
    BY <1>3
  <2>3. pair \in PairType /\ pair.chain = task[r].chain /\ pair.key = task[r].key
    BY <1>2 DEF PairType, TaskType
  <2>4. task[r].chain.serial \in Nat
    BY <1>2 DEF TaskType, ChainType
  <2> HIDE DEF pair
  <2>5. Pins(t) /\ Pins(t)'
    BY <2>1 DEF Pins
  <2>6. Vouched(pair.chain, pair.key, h) /\ pair.key = task[r].chain.serial
    BY <1>2, <2>3 DEF Vouched
  <2> QED  BY <1>1, <1>2, <1>3, <2>1, <2>2, <2>3, <2>4, <2>5, <2>6, Pinning
<1>4. CASE UNCHANGED <<pinned, completed>>
  BY <1>1, <1>4, GivesUp
<1> QED  BY <1>3, <1>4 DEF Renewal!PinsKey

\* A day, or another configuration.
LEMMA CertificatesStand ==
  ASSUME CertificateInv, Renewal!Day \/ Renewal!Reconfigured
  PROVE  CertificateInv'
<1>1. /\ now' \in Nat /\ now <= now' /\ config' \in [mode : {"direct", "private"}, host : Hosts]
      /\ UNCHANGED <<live, pinned, task, issued, completed>>
  BY DEF Renewal!Day, Renewal!Reconfigured, CertificateInv, CertificateTypes
<1>2. ASSUME NEW chain \in ChainType, NEW key, NEW h, Vouched(chain, key, h)
      PROVE  Vouched(chain, key, h)'
  BY <1>1, <1>2 DEF Vouched, ChainType, CertificateInv, CertificateTypes
<1>3. CertificateTypes'
  BY <1>1 DEF CertificateInv, CertificateTypes
<1>4. ASSUME NEW r \in Renewal!Runners  PROVE (Addressed(task[r]) /\ Pins(task[r]))'
  <2>1. task'[r] = task[r] /\ task[r].chain \in ChainType /\ Addressed(task[r]) /\ Pins(task[r])
    BY <1>1 DEF CertificateInv, CertificateTypes, TaskType
  <2>2. PICK t : t = task[r]
    OBVIOUS
  <2>3. Addressed(t)' /\ Pins(t)'
    BY <1>1, <1>2, <2>1, <2>2 DEF Addressed, Pins
  <2> QED  BY <2>1, <2>2, <2>3 DEF Addressed, Pins, Vouched
<1>5. ASSUME NEW h \in Hosts, completed'[h] # 0
      PROVE  Vouched(pinned[h].chain, pinned[h].key, h)' /\ pinned'[h].key = completed'[h]
  <2>1. pinned[h].chain \in ChainType /\ Vouched(pinned[h].chain, pinned[h].key, h)
        /\ pinned[h].key = completed[h]
    BY <1>1, <1>5 DEF CertificateInv, CertificateTypes, PairType
  <2>2. PICK chain, key : chain = pinned[h].chain /\ key = pinned[h].key
    OBVIOUS
  <2>3. Vouched(chain, key, h)'
    BY <1>2, <2>1, <2>2
  <2> QED  BY <1>1, <2>1, <2>2, <2>3 DEF Vouched
<1>6. OnePublication'
  BY <1>1 DEF CertificateInv, OnePublication, Renewal!Publishing
<1> QED  BY <1>3, <1>4, <1>5, <1>6 DEF CertificateInv

LEMMA AdministrationCertificates ==
  ASSUME CertificateInv, [Next]_vars, ~Overlap
  PROVE  CertificateInv'
<1>1. CASE UNCHANGED certificateVars
  BY <1>1 DEF certificateVars, CertificateInv, CertificateTypes, Addressed, Pins, Vouched,
              OnePublication, Renewal!Publishing
<1>2. ASSUME NEW r \in Renewal!Runners, Renewal!RenewalStep(r)  PROVE CertificateInv'
  BY <1>2, CommandBegins, CertbotObtains, CertbotEnds, LoadsChain, LoadsKey, ChainIsPinned,
     KeyIsPinned, RunnerEnds, ~Overlap DEF Renewal!RenewalStep, Renewal!TimerEnds, CertificateInv,
     CertificateTypes
<1>3. CASE Certificates
  BY <1>2, <1>3, CertificatesStand, TimerBegins DEF Certificates
<1>4. CASE UNCHANGED vars
  BY <1>1, <1>4 DEF vars, certificateVars
<1> QED  BY <1>1, <1>3, <1>4 DEF Next, certificateVars

\* When publications do not overlap, what a completed one has pinned is served until it
\* expires or another begins: whatever Certbot does to the live files meanwhile, for any
\* hosts and terminals, and however long.
THEOREM PublicationsAreServed ==
  ASSUME ~Overlap
  PROVE  Spec => []PublishedIsServed
<1>1. ASSUME Init  PROVE CertificateInv
  <2>1. PICK budget : Renewal!RenewalInit(Host, budget)
    BY <1>1 DEF Init
  <2>2. Host \in Hosts
    BY AdministrationAssumption DEF Host
  <2>3. Renewal!NoPair \in PairType
    BY MissingIsAChain DEF Renewal!NoPair, PairType
  <2>4. CertificateTypes
    BY <2>1, <2>2, <2>3, IdleIsATask DEF Renewal!RenewalInit, CertificateTypes
  <2>5. Renewal!Idle.step = "idle"
    BY DEF Renewal!Idle
  <2>6. \A r \in Renewal!Runners : task[r] = Renewal!Idle
    BY <2>1 DEF Renewal!RenewalInit
  <2>7. \A h \in Hosts : completed[h] = 0
    BY <2>1 DEF Renewal!RenewalInit
  <2> QED  BY <2>4, <2>5, <2>6, <2>7, IdleIsATask
             DEF CertificateInv, OnePublication, Renewal!Publishing
<1>2. CertificateInv /\ [Next]_vars => CertificateInv'
  BY AdministrationCertificates, ~Overlap
<1>3. CertificateInv => PublishedIsServed
  <2> SUFFICES ASSUME CertificateInv, NEW h \in Hosts,
                      completed[h] # 0, now <= pinned[h].chain.until
               PROVE  /\ Renewal!Loaded(pinned[h].chain, pinned[h].key, h)
                      /\ pinned[h].key = completed[h]
                      /\ Renewal!Loaded(live[h].chain, live[h].key, h) =>
                           Renewal!Status(h) =
                             IF live[h].chain.serial = completed[h] THEN "ok" ELSE "pinned drift"
    BY DEF PublishedIsServed, Renewal!PublishedIsServed
  <2>1. Vouched(pinned[h].chain, pinned[h].key, h) /\ pinned[h].key = completed[h]
    BY DEF CertificateInv
  <2>2. Renewal!Loaded(pinned[h].chain, pinned[h].key, h)
    BY <2>1 DEF Vouched, Renewal!Loaded
  <2> QED  BY <2>1, <2>2 DEF Renewal!Status, Vouched
<1> QED  BY <1>1, <1>2, <1>3, PTL DEF Spec
===============================================================================
