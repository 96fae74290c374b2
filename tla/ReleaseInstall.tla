---------------------------- MODULE ReleaseInstall ----------------------------
(***************************************************************************)
(* How releases reach the host (src/src/release.rs, src/src/update.rs,     *)
(* src/src/cli/commands/update.rs): `sbctl update`, `sbctl sing-box        *)
(* download | install | update` and the official sing-box releases, from   *)
(* the manifest to the binaries.  Backup, replacement, restart and         *)
(* rollback under the operation lock are one step here and the subject of  *)
(* UpdateTransaction.                                                      *)
(***************************************************************************)
EXTENDS Naturals, Sequences, FiniteSets

CONSTANTS
  None,
  Floating,      \* a version text: latest, main or master
  Letters,       \* a part of a version that is not a number
  Development,   \* the public key of the fixture builds
  TrustAnchor,   \* the key the build was configured with, or None
  Sessions,       \* the administrator's terminals
  Drafts,         \* unsigned manifests of the project
  Official,       \* what GitHub may say of a release of sing-box: its tag and assets
  Architecture,   \* the host's, as the names of assets have it
  Malformed,      \* a digest that is not sha256 and 64 digits
  ReleaseKey      \* the project's signing key

ASSUME ReleaseAssumption == /\ None # Development
                            /\ {None, Floating, Letters} \cap Nat = {}

VARIABLES
  published,      \* the signed manifests so far, the newest last
  file,           \* the administrator's artifact files
  part,           \* the download of a kernel beside its file: kernel.download.tmp
  staged,         \* usr/local/bin/.sing-box.new
  bin,            \* usr/local/bin/sbctl and sing-box since the beginning
  job,            \* the release command of every session
  origin,         \* ghost: what the last command to install each binary had verified
  events          \* bound: what else may happen

releaseVars == <<published, file, part, staged, bin, job, origin, events>>

\* The versioned schema of manifests a client accepts.
ManifestSchema == 1

Components == {"sbctl", "sing-box"}

-------------------------------------------------------------------------------
(* Versions *)

\* Every part is a number and there are at most three; what is missing is zero.
ParseVersion(text) ==
  IF Len(text) \in 1..3 /\ \A i \in 1..Len(text) : text[i] \in Nat
  THEN [i \in 1..3 |-> IF i <= Len(text) THEN text[i] ELSE 0]
  ELSE None

Earlier(a, b) ==
  \E i \in 1..3 : a[i] < b[i] /\ \A j \in 1..(i - 1) : a[j] = b[j]

RejectsFloating(text) == text = <<Floating>>

-------------------------------------------------------------------------------
(* The compatibility matrix *)

Boundary(text) == text # None => ParseVersion(text) # None

WithinRange(version, range) ==
  /\ range.min # None => ~Earlier(version, ParseVersion(range.min))
  /\ range.max # None => ~Earlier(ParseVersion(range.max), version)

\* An empty matrix, a version or a boundary that does not parse fail closed.
CompatibilityMatrix(m) ==
  LET version == ParseVersion(m.artifacts["sing-box"].version)
  IN  /\ version # None
      /\ \A range \in m.matrix : Boundary(range.min) /\ Boundary(range.max)
      /\ \E range \in m.matrix : WithinRange(version, range)

-------------------------------------------------------------------------------
(* Signatures *)

\* A missing key, or the one everybody knows the seed of, is no trust anchor.
ProductionPublicKey(configured) ==
  IF configured \in {None, Development} THEN None ELSE configured

\* The signed bytes: every field but the signature, whatever their order.
CanonicalBytes(m) == [m EXCEPT !.signature = None]

VerifySignature(m) ==
  /\ m.signature # None
  /\ ProductionPublicKey(TrustAnchor) # None
  /\ m.signature.key = ProductionPublicKey(TrustAnchor)
  /\ m.signature.of = CanonicalBytes(m)

\* What the signer checks as well, so that it never signs what clients refuse.
ValidateManifestFields(m) ==
  /\ m.schema = ManifestSchema
  /\ \A n \in Components : /\ ~RejectsFloating(m.artifacts[n].version)
                           /\ m.artifacts[n].digest # None
  /\ CompatibilityMatrix(m)

VerifyTrusted(m) == ValidateManifestFields(m) /\ VerifySignature(m)

\* sbctl release sign
SignManifestFile(m, key) ==
  IF ValidateManifestFields(m)
  THEN [m EXCEPT !.signature = [key |-> key, of |-> CanonicalBytes(m)]]
  ELSE None

-------------------------------------------------------------------------------
(* Binaries and downloads *)

Nothing == [n \in Components |-> None]

\* A transfer that ended early.
Truncated(content) == [content EXCEPT !.whole = FALSE]
Deliveries(content) == {content, Truncated(content)}

\* The file is there and the operating system can run it.
Runs(content) == content # None /\ content.whole

ReleaseInit(installed, files, budget) ==
  /\ published = <<>>
  /\ file = files
  /\ part = None
  /\ staged = None
  /\ bin = installed
  /\ job = [s \in Sessions |-> None]
  /\ origin = Nothing
  /\ events = budget

Happens == events > 0 /\ events' = events - 1

-------------------------------------------------------------------------------
(* Outside the host *)

\* The signer of the project or of a fixture build publishes a manifest.
Publish ==
  /\ \E d \in Drafts, key \in {ReleaseKey, Development} :
       /\ SignManifestFile(d, key) # None
       /\ published' = Append(published, SignManifestFile(d, key))
  /\ Happens
  /\ UNCHANGED <<file, part, staged, bin, job, origin>>

Signed == {published[i] : i \in 1..Len(published)}

\* A manifest as it lies on disk: signed, not yet signed, or changed since.
Manifests ==
  Signed \cup Drafts
    \cup {[d EXCEPT !.signature = m.signature] : d \in Drafts, m \in Signed}

Artifacts == {m.artifacts[n].digest : m \in Drafts, n \in Components} \ {None}

\* Somebody replaces an artifact file.
EditFile ==
  /\ \E n \in Components, c \in Artifacts \cup {None} : file' = [file EXCEPT ![n] = c]
  /\ Happens
  /\ UNCHANGED <<published, part, staged, bin, job, origin>>

-------------------------------------------------------------------------------
(* A release command *)

At(s, step) == job[s] # None /\ job[s].step = step

Step(s, step) == job' = [job EXCEPT ![s].step = step]

\* An error is reported and the private candidates are deleted.
End(s) == job' = [job EXCEPT ![s] = None]

NewJob(cmd, given) ==
  [cmd |-> cmd, given |-> given, step |-> "manifest", manifest |-> None,
   version |-> None, candidate |-> Nothing, buffer |-> Nothing]

\* sbctl update [--sbctl-artifact] [--sing-box-artifact]; sbctl sing-box update
\* [--manifest] [--artifact], download and install.
Commands ==
  {NewJob("update", g) : g \in SUBSET Components}
    \cup {NewJob(c, g) : c \in {"kernel", "official"}, g \in SUBSET {"sing-box"}}
    \cup {NewJob("download", {}), NewJob("install", {"sing-box"})}

Installs(s) == IF job[s].cmd = "update" THEN Components ELSE {"sing-box"}

BeginRelease(s, j) ==
  /\ job[s] = None
  /\ job' = [job EXCEPT ![s] = j]
  /\ UNCHANGED <<published, file, part, staged, bin, origin>>

\* read_manifest or fetch_latest_manifest: the signature first, then the rest.
ReadManifest(s) ==
  /\ At(s, "manifest")
  /\ job[s].cmd # "official"
  /\ \/ \E m \in Manifests :
          /\ VerifyTrusted(m)
          /\ job' = [job EXCEPT ![s].manifest = m,
                       ![s].step = IF job[s].cmd = "download" THEN "curl" ELSE "fetch"]
     \/ End(s)
  /\ UNCHANGED <<published, file, part, staged, bin, origin, events>>

Digest(s, n) == job[s].manifest.artifacts[n].digest

\* download_artifact into a private file: what does not match is deleted.
FetchCandidates(s) ==
  LET wanted == Installs(s) \ job[s].given IN
  /\ At(s, "fetch")
  /\ \/ /\ \A n \in wanted : n \in job[s].manifest.urls
        /\ job' = [job EXCEPT ![s].step = "read",
                     ![s].candidate = [n \in Components |->
                        IF n \in wanted THEN Digest(s, n) ELSE None]]
     \/ End(s)
  /\ UNCHANGED <<published, file, part, staged, bin, origin, events>>

\* fetch_latest_official_sing_box_version: a tag that is no stable version is an error.
LatestVersions == {r.tag : r \in {x \in Official : ParseVersion(x.tag) # None}}

\* The name of an archive, by the version as it is written and the architecture.
OfficialArchive(version) == <<version, Architecture>>

\* What is downloaded is named by the version's three numbers.
OfficialArchiveUrl(version) == OfficialArchive(ParseVersion(version))

\* The second request, by the tag of the version's three numbers.
ReleasesTagged(version) == {r \in Official : r.tag = ParseVersion(version)}

\* parse_official_archive_digest: GitHub gives a digest or none; a release without the
\* asset, or a digest of another form, is an error.
ArchiveDigests(version) ==
  {a.digest : a \in {x \in UNION {r.assets : r \in ReleasesTagged(version)} :
                       x.name = OfficialArchive(version)}} \ {Malformed}

\* What is downloaded: any archive, in whole or in part.
Archives == UNION {Deliveries(a) : a \in Artifacts}

\* verify_official_archive_checksum, when there is a digest.
ArchiveMatches(archive, digest) == digest # None => archive = digest

\* confirm_sing_box_candidate: it runs, and the text of the version is somewhere in what
\* it prints; 1.13.10 passes for 1.13.1.
Confirmed(version, kernel) == Runs(kernel) /\ version \in kernel.mentions

\* download_sing_box_official: the directory in the archive is named by the version as it
\* is written.
OfficialKernels(version) ==
  {c \in Archives : /\ OfficialArchiveUrl(version) = OfficialArchive(version)
                    /\ \E digest \in ArchiveDigests(version) : ArchiveMatches(c, digest)
                    /\ Confirmed(version, c)}

\* The latest official release.
FetchOfficial(s) ==
  /\ At(s, "manifest")
  /\ job[s].cmd = "official"
  /\ \/ job[s].given # {} /\ Step(s, "read")
     \/ /\ job[s].given = {}
        /\ \E version \in LatestVersions : \E c \in OfficialKernels(version) :
             job' = [job EXCEPT ![s].step = "read", ![s].version = version,
                       ![s].candidate["sing-box"] = c]
     \/ End(s)
  /\ UNCHANGED <<published, file, part, staged, bin, origin, events>>

\* The path of a candidate: an administrator's file may change at any time.
Candidate(s, n) == IF n \in job[s].given THEN file[n] ELSE job[s].candidate[n]

\* read_verified_artifact: each candidate is read once and its bytes verified.
ReadCandidates(s) ==
  /\ At(s, "read")
  /\ \/ /\ \A n \in Installs(s) :
             /\ Candidate(s, n) # None
             /\ job[s].manifest # None => Candidate(s, n) = Digest(s, n)
        /\ job' = [job EXCEPT
             ![s].step = IF job[s].cmd = "install" THEN "copy" ELSE "check",
             ![s].buffer = [n \in Components |->
                IF n \in Installs(s) THEN Candidate(s, n) ELSE None]]
     \/ End(s)
  /\ UNCHANGED <<published, file, part, staged, bin, origin, events>>

\* sbctl --version and sing-box check run what is at the path by now.
CheckCandidates(s) ==
  /\ At(s, "check")
  /\ \/ (\A n \in Installs(s) : Runs(Candidate(s, n))) /\ Step(s, "apply")
     \/ End(s)
  /\ UNCHANGED <<published, file, part, staged, bin, origin, events>>

Verified(s, n) ==
  [cmd |-> job[s].cmd, version |-> job[s].version,
   digest |-> IF job[s].manifest = None THEN None ELSE Digest(s, n)]

\* Mutant: the binary is copied from the candidate's path.
WrittenFromPath(s, n) == Candidate(s, n)

\* What is written is what was verified.
Written(s, n) == job[s].buffer[n]

Install(s) ==
  /\ bin' = [n \in Components |-> IF n \in Installs(s) THEN Written(s, n) ELSE bin[n]]
  /\ origin' = [n \in Components |-> IF n \in Installs(s) THEN Verified(s, n) ELSE origin[n]]

\* Under the operation lock; a failure restores the binaries.
Apply(s) ==
  /\ At(s, "apply")
  /\ Install(s) \/ UNCHANGED <<bin, origin>>
  /\ End(s)
  /\ UNCHANGED <<published, file, part, staged, events>>

-------------------------------------------------------------------------------
(* sbctl sing-box download *)

\* curl empties the file beside the output and fills it.
CurlBegins(s) ==
  /\ At(s, "curl")
  /\ IF "sing-box" \in job[s].manifest.urls
     THEN /\ part' = Truncated(Digest(s, "sing-box"))
          /\ Step(s, "curling")
     ELSE End(s) /\ UNCHANGED part
  /\ UNCHANGED <<published, file, staged, bin, origin, events>>

CurlEnds(s) ==
  /\ At(s, "curling")
  /\ \/ /\ part' \in Deliveries(Digest(s, "sing-box"))
        /\ Step(s, "verify")
     \/ part' = None /\ End(s)
  /\ UNCHANGED <<published, file, staged, bin, origin, events>>

VerifyDownload(s) ==
  /\ At(s, "verify")
  /\ IF part = Digest(s, "sing-box")
     THEN Step(s, "rename") /\ UNCHANGED part
     ELSE part' = None /\ End(s)
  /\ UNCHANGED <<published, file, staged, bin, origin, events>>

RenameDownload(s) ==
  /\ At(s, "rename")
  /\ IF part = None THEN UNCHANGED <<file, part>>
     ELSE file' = [file EXCEPT !["sing-box"] = part] /\ part' = None
  /\ End(s)
  /\ UNCHANGED <<published, staged, bin, origin, events>>

-------------------------------------------------------------------------------
(* sbctl sing-box install: install_checked_sing_box copies the file again *)

CopyKernel(s) ==
  /\ At(s, "copy")
  /\ IF file["sing-box"] = None THEN End(s) /\ UNCHANGED staged
     ELSE staged' = file["sing-box"] /\ Step(s, "place")
  /\ UNCHANGED <<published, file, part, bin, origin, events>>

PlaceKernel(s) ==
  /\ At(s, "place")
  /\ IF staged = None THEN UNCHANGED <<staged, bin, origin>>
     ELSE /\ bin' = [bin EXCEPT !["sing-box"] = staged]
          /\ origin' = [origin EXCEPT !["sing-box"] = Verified(s, "sing-box")]
          /\ staged' = None
  /\ End(s)
  /\ UNCHANGED <<published, file, part, events>>

ReleaseStep(s) ==
  \/ ReadManifest(s) \/ FetchCandidates(s) \/ FetchOfficial(s)
  \/ ReadCandidates(s) \/ CheckCandidates(s) \/ Apply(s)
  \/ CurlBegins(s) \/ CurlEnds(s) \/ VerifyDownload(s) \/ RenameDownload(s)
  \/ CopyKernel(s) \/ PlaceKernel(s)

\* The release commands by themselves, on a host with any binaries and files.
ReleaseNext ==
  \/ Publish \/ EditFile
  \/ \E s \in Sessions : ReleaseStep(s) \/ \E j \in Commands : BeginRelease(s, j)

ReleaseSpec(installed, files, budget) ==
  ReleaseInit(installed, files, budget) /\ [][ReleaseNext]_releaseVars

-------------------------------------------------------------------------------
\* Whatever happens to the files in the meantime and whoever else installs: a
\* binary an update put in place is the one its signed manifest names, and an
\* official kernel runs, prints a version GitHub called the latest, and is the one
\* GitHub gave the digest of, where it gave one (read_verified_artifact,
\* download_sing_box_official).  That the kernel is of that version is not promised:
\* without a digest another one that prints the same text passes.
InstalledAsVerified ==
  \A n \in Components :
    /\ origin[n] # None /\ origin[n].cmd \in {"update", "kernel"} => bin[n] = origin[n].digest
    /\ origin[n] # None /\ origin[n].version # None =>
         LET version == origin[n].version
         IN  /\ version \in LatestVersions
             /\ Runs(bin[n]) /\ version \in bin[n].mentions
             /\ None \notin ArchiveDigests(version) => bin[n] \in ArchiveDigests(version)
=============================================================================
