----------------------------- MODULE CoreDownload -----------------------------
(***************************************************************************)
(* How a client installs its core (client-core/src/core.rs, download_core).*)
(* The project publishes no digests its clients could check, so the first  *)
(* archive of a release is recorded in verified-hashes.json and later      *)
(* ones must equal it.  The record and the files are written over what is  *)
(* there, by clients that may share the directory and die between two      *)
(* writes.                                                                 *)
(***************************************************************************)
EXTENDS Integers, Sequences

CONSTANTS
  Clients,       \* those that share the data directory
  Releases,      \* the numbers of releases
  Archives,      \* what a mirror may answer: an identity, and the entries in their order
  NoArchive,
  Systems,       \* of "windows", where archives are zip files, and "linux"
  Latest         \* core_version is empty: whatever release is the latest

VARIABLES
  system,
  ledger,        \* what reading verified-hashes.json yields: the archive of each tag
  coreFiles,     \* the core and wintun.dll in the directory
  download,      \* the operation of each client
  first,         \* ghost: the archive recorded first for each release
  forgotten,     \* ghost: the releases whose record has been lost
  installed,     \* ghost: the archives of each release of which something was written
  downloads      \* bound: how many will begin

coreVars == <<system, ledger, coreFiles, download, first, forgotten, installed, downloads>>

Tags == [v : BOOLEAN, number : Releases]
Tag(number) == [v |-> TRUE, number |-> number]

CoreNames == {"core", "wintun"}

\* A file that is absent or cannot be parsed has no records.
NoRecords == [t \in Tags |-> NoArchive]

Idle == [step |-> "idle", tag |-> Tag(CHOOSE n \in Releases : TRUE), archive |-> NoArchive,
         records |-> NoRecords, rest |-> <<>>]

DownloadInit(systems, budget) ==
  /\ system \in systems
  /\ ledger = NoRecords
  /\ coreFiles = [n \in CoreNames |-> NoArchive]
  /\ download = [c \in Clients |-> Idle]
  /\ first = [n \in Releases |-> NoArchive]
  /\ forgotten = {}
  /\ installed = [n \in Releases |-> {}]
  /\ downloads = budget

Stands(c, step) == download[c].step = step

Goes(c, step) == download' = [download EXCEPT ![c].step = step]
Stops(c) == download' = [download EXCEPT ![c] = Idle]

\* Every release that has a record loses it.
ForgetAll == forgotten' = forgotten \cup {n \in Releases : first[n] # NoArchive}

-------------------------------------------------------------------------------
(* The archive *)

\* A pinned version, with a v before it or without; or the tag GitHub calls the latest.
ResolvedTags(version) ==
  IF version = Latest THEN {Tag(n) : n \in Releases} ELSE {Tag(version.number)}

BeginDownload(c) ==
  /\ Stands(c, "idle") /\ downloads > 0
  /\ \E version \in Tags \cup {Latest} : \E tag \in ResolvedTags(version) :
       download' = [download EXCEPT ![c].step = "fetch", ![c].tag = tag]
  /\ downloads' = downloads - 1
  /\ UNCHANGED <<system, ledger, coreFiles, first, forgotten, installed>>

\* The mirror answers with an archive.
Fetched(c) ==
  /\ Stands(c, "fetch")
  /\ \E a \in Archives : download' = [download EXCEPT ![c].step = "check", ![c].archive = a]
  /\ UNCHANGED <<system, ledger, coreFiles, first, forgotten, installed, downloads>>

\* The request fails, or a stop cancels the operation.
FetchFails(c) ==
  /\ Stands(c, "fetch")
  /\ Stops(c)
  /\ UNCHANGED <<system, ledger, coreFiles, first, forgotten, installed, downloads>>

-------------------------------------------------------------------------------
(* The record of first archives *)

Extracting(d) == [d EXCEPT !.step = "extract", !.rest = d.archive.entries]

\* A release without a record gets one, and another archive than the recorded one is
\* refused.
VerifyOrRecordHash(c) ==
  /\ Stands(c, "check")
  /\ LET d == download[c]
         recorded == ledger[d.tag]
     IN  download' = [download EXCEPT ![c] =
           IF recorded = NoArchive
           THEN [d EXCEPT !.step = "record", !.records = [ledger EXCEPT ![d.tag] = d.archive]]
           ELSE IF recorded = d.archive THEN Extracting(d)
           ELSE Idle]
  /\ UNCHANGED <<system, ledger, coreFiles, first, forgotten, installed, downloads>>

\* The file is truncated and then filled with what was read and the new record.
RecordBegins(c) ==
  /\ Stands(c, "record")
  /\ ledger' = NoRecords
  /\ Goes(c, "recording")
  /\ UNCHANGED <<system, coreFiles, first, forgotten, installed, downloads>>

RecordEnds(c) ==
  /\ Stands(c, "recording")
  /\ LET d == download[c]
         n == d.tag.number
     IN  /\ ledger' = d.records
         /\ first' = IF first[n] = NoArchive THEN [first EXCEPT ![n] = d.archive] ELSE first
         /\ forgotten' = forgotten \cup
              {m \in Releases : first'[m] # NoArchive /\ d.records[Tag(m)] # first'[m]}
         /\ download' = [download EXCEPT ![c] = Extracting(d)]
  /\ UNCHANGED <<system, coreFiles, installed, downloads>>

RecordFails(c) ==
  /\ Stands(c, "recording")
  /\ ForgetAll
  /\ Stops(c)
  /\ UNCHANGED <<system, ledger, coreFiles, first, installed, downloads>>

\* What the error message advises.
UserDeletesLedger ==
  /\ ledger # NoRecords
  /\ ledger' = NoRecords
  /\ ForgetAll
  /\ UNCHANGED <<system, coreFiles, download, first, installed, downloads>>

-------------------------------------------------------------------------------
(* Extraction, over the files that are there *)

Wanted(entry) == entry = "core" \/ (system = "windows" /\ entry = "wintun")

\* An entry cannot be read, or all have been read.
ExtractionEnds(c) ==
  /\ Stands(c, "extract")
  /\ download[c].rest # <<>> => Head(download[c].rest) = "bad"
  /\ Stops(c)
  /\ UNCHANGED <<system, ledger, coreFiles, first, forgotten, installed, downloads>>

SkipEntry(c) ==
  /\ Stands(c, "extract") /\ download[c].rest # <<>>
  /\ Head(download[c].rest) # "bad" /\ ~ Wanted(Head(download[c].rest))
  /\ download' = [download EXCEPT ![c].rest = Tail(@)]
  /\ UNCHANGED <<system, ledger, coreFiles, first, forgotten, installed, downloads>>

WriteBegins(c) ==
  /\ Stands(c, "extract") /\ download[c].rest # <<>>
  /\ Wanted(Head(download[c].rest))
  /\ LET d == download[c] IN
       /\ coreFiles' = [coreFiles EXCEPT ![Head(d.rest)] = [of |-> d.archive, whole |-> FALSE]]
       /\ installed' = [installed EXCEPT ![d.tag.number] = @ \cup {d.archive}]
  /\ Goes(c, "writing")
  /\ UNCHANGED <<system, ledger, first, forgotten, downloads>>

\* A zip file is read to its end, a tar file to the core.
WriteEnds(c) ==
  /\ Stands(c, "writing")
  /\ LET d == download[c] IN
       /\ coreFiles' = [coreFiles EXCEPT ![Head(d.rest)] = [of |-> d.archive, whole |-> TRUE]]
       /\ download' = [download EXCEPT ![c].step = "extract",
                         ![c].rest = IF system = "windows" THEN Tail(@) ELSE <<>>]
  /\ UNCHANGED <<system, ledger, first, forgotten, installed, downloads>>

WriteFails(c) ==
  /\ Stands(c, "writing")
  /\ Stops(c)
  /\ UNCHANGED <<system, ledger, coreFiles, first, forgotten, installed, downloads>>

ClientDies(c) ==
  /\ ~ Stands(c, "idle")
  /\ IF Stands(c, "recording") THEN ForgetAll ELSE UNCHANGED forgotten
  /\ Stops(c)
  /\ UNCHANGED <<system, ledger, coreFiles, first, installed, downloads>>

ClientStep(c) ==
  \/ BeginDownload(c) \/ Fetched(c) \/ FetchFails(c)
  \/ VerifyOrRecordHash(c) \/ RecordBegins(c) \/ RecordEnds(c) \/ RecordFails(c)
  \/ ExtractionEnds(c) \/ SkipEntry(c) \/ WriteBegins(c) \/ WriteEnds(c) \/ WriteFails(c)
  \/ ClientDies(c)

DownloadNext == UserDeletesLedger \/ \E c \in Clients : ClientStep(c)

DownloadSpec(systems, budget) == DownloadInit(systems, budget) /\ [][DownloadNext]_coreVars

-------------------------------------------------------------------------------
(* Properties *)

\* However often a release is downloaded, by whichever client, however its version is
\* written and whatever mirrors answer: all that was ever put in place for it comes from
\* one archive, unless its record was lost: deleted by the user, torn by a failing write,
\* or overwritten by a client that had read the file before (verify_or_record_hash).
FirstArchiveOnly ==
  \A n \in Releases \ forgotten : \A a, b \in installed[n] : a = b
=============================================================================
