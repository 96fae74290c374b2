------------------------------ MODULE ClientProofs -----------------------------
(***************************************************************************)
(* What the client's parts keep, for any number of clients, releases,      *)
(* platforms, profiles and presses.                                        *)
(*                                                                         *)
(* All that a client ever puts in place for a release comes from one       *)
(* archive as long as the release's record is not lost.  The ledger alone  *)
(* does not tell: while one client writes it, others read it as empty, so  *)
(* the invariant relates it, what every client has read of it, and what is *)
(* on its way to the files to the archive that was recorded first.         *)
(*                                                                         *)
(* The user's own proxy setting is in force or in the backup at every step *)
(* of the client's calls to the desktop, each of which may fail or be the  *)
(* last one.                                                               *)
(*                                                                         *)
(* What an interface shows is of the core that runs, and what it sends     *)
(* goes where the user meant it.  The invariant follows the engine's       *)
(* memory, the poll and the answer on its way, the queue, and what is      *)
(* armed or typed in the view.                                             *)
(*                                                                         *)
(* A core runs on the cache and the override of its own profile.  The      *)
(* files carry a profile's name only, so the invariant names the profile   *)
(* each of them is of, or what has left it behind: a removal or an import  *)
(* of which one step failed, or the older version.                         *)
(***************************************************************************)
EXTENDS CoreDownload, DesktopProxy, ClientInterface, ClientLibrary, SequenceTheorems,
        FiniteSetTheorems, TLAPS

Recordings == [Tags -> Archives \cup {NoArchive}]
Steps == {"idle", "fetch", "check", "record", "recording", "extract", "writing"}

Operations ==
  [step : Steps, tag : {Tag(n) : n \in Releases}, archive : Archives \cup {NoArchive},
   records : Recordings, rest : Seq(STRING)]

DownloadTypeOK ==
  /\ ledger \in Recordings
  /\ download \in [Clients -> Operations]
  /\ first \in [Releases -> Archives \cup {NoArchive}]
  /\ forgotten \in SUBSET Releases
  /\ installed \in [Releases -> SUBSET Archives]

\* A record is that of the first archive.
RecordIsFirst ==
  \A n \in Releases :
    /\ ledger[Tag(n)] # NoArchive => first[n] # NoArchive
    /\ n \notin forgotten => ledger[Tag(n)] \in {NoArchive, first[n]}

\* What a client is about to write has its own archive and releases that are recorded.
WritesKnown(d) ==
  d.step \in {"record", "recording"} =>
    /\ d.records[d.tag] = d.archive
    /\ \A n \in Releases :
         n # d.tag.number /\ d.records[Tag(n)] # NoArchive => first[n] # NoArchive

\* An archive that is being extracted is the first one.
ExtractsFirst(d) ==
  d.step \in {"extract", "writing"} /\ d.tag.number \notin forgotten =>
    d.archive = first[d.tag.number]

\* Whoever is past the request has an archive, and whoever writes an entry of it.
HasArchive(d) ==
  /\ d.step \in {"check", "record", "recording", "extract", "writing"} => d.archive \in Archives
  /\ d.step = "writing" => d.rest # <<>>

PlacedIsFirst ==
  \A n \in Releases : n \notin forgotten => installed[n] \subseteq {first[n]}

DownloadInv ==
  /\ DownloadTypeOK
  /\ RecordIsFirst
  /\ PlacedIsFirst
  /\ \A c \in Clients :
       HasArchive(download[c]) /\ WritesKnown(download[c]) /\ ExtractsFirst(download[c])

\* There is a release, and an archive is known by its entries.
GoodArchives ==
  /\ Releases # {}
  /\ NoArchive \notin Archives
  /\ \A a \in Archives : a.entries \in Seq(STRING)

-------------------------------------------------------------------------------

LEMMA TailOfEntries ==
  ASSUME NEW seq \in Seq(STRING), seq # <<>>
  PROVE  Tail(seq) \in Seq(STRING)
  OBVIOUS

\* The tag of a release is its own.
LEMMA TagInjective ==
  \A n, m \in Releases : Tag(n) \in Tags /\ (Tag(n) = Tag(m) => n = m) /\ Tag(n).number = n
  BY DEF Tag, Tags

LEMMA IdleFacts ==
  ASSUME GoodArchives
  PROVE  /\ Idle \in Operations /\ Idle.step = "idle"
         /\ NoRecords \in Recordings /\ \A n \in Releases : NoRecords[Tag(n)] = NoArchive
<1>1. NoRecords \in Recordings  BY DEF NoRecords, Recordings
<1>2. \A n \in Releases : NoRecords[Tag(n)] = NoArchive  BY TagInjective DEF NoRecords
<1>3. (CHOOSE n \in Releases : TRUE) \in Releases  BY DEF GoodArchives
<1>31. <<>> \in Seq(STRING) /\ "idle" \in Steps  BY DEF Steps
<1>32. PICK t \in {Tag(n) : n \in Releases} : t = Tag(CHOOSE n \in Releases : TRUE)  BY <1>3
<1>4. Idle \in Operations /\ Idle.step = "idle"
  <2>1. Idle = [step |-> "idle", tag |-> t, archive |-> NoArchive, records |-> NoRecords,
                rest |-> <<>>]
    BY <1>32 DEF Idle
  <2> QED  BY <2>1, <1>1, <1>31, <1>32 DEF Operations
<1> QED  BY <1>1, <1>2, <1>4

\* An operation that has ended owes nothing.
LEMMA IdleOwesNothing ==
  ASSUME NEW d, d.step \in {"idle", "fetch"}
  PROVE  HasArchive(d) /\ WritesKnown(d) /\ ExtractsFirst(d)
  BY DEF HasArchive, WritesKnown, ExtractsFirst

\* The beginning.
LEMMA DownloadInitHolds ==
  ASSUME GoodArchives, NEW systems, NEW budget, DownloadInit(systems, budget)
  PROVE  DownloadInv
<1> USE DEF DownloadInit
<1>1. DownloadTypeOK  BY IdleFacts DEF DownloadTypeOK
<1>2. RecordIsFirst  BY IdleFacts DEF RecordIsFirst
<1>3. PlacedIsFirst  BY DEF PlacedIsFirst
<1>4. \A c \in Clients : HasArchive(download[c]) /\ WritesKnown(download[c]) /\ ExtractsFirst(download[c])
  BY IdleFacts DEF HasArchive, WritesKnown, ExtractsFirst
<1> QED  BY <1>1, <1>2, <1>3, <1>4 DEF DownloadInv

\* A step that leaves the ledger, the files and the ghosts alone and moves one client to an
\* operation that owes no more than the others.
LEMMA OneMoves ==
  ASSUME DownloadInv, NEW c \in Clients, NEW d \in Operations,
         download' = [download EXCEPT ![c] = d],
         UNCHANGED <<ledger, first, forgotten, installed>>,
         HasArchive(d), WritesKnown(d), ExtractsFirst(d)
  PROVE  DownloadInv'
<1>1. DownloadTypeOK'  BY DEF DownloadInv, DownloadTypeOK
<1>2. RecordIsFirst' /\ PlacedIsFirst'  BY DEF DownloadInv, RecordIsFirst, PlacedIsFirst
<1>3. ASSUME NEW x \in Clients
      PROVE  /\ HasArchive(download[x])' /\ WritesKnown(download[x])' /\ ExtractsFirst(download[x])'
  <2>1. CASE x = c
    <3>1. download'[x] = d  BY <2>1 DEF DownloadInv, DownloadTypeOK
    <3> QED  BY <3>1 DEF HasArchive, WritesKnown, ExtractsFirst
  <2>2. CASE x # c
    <3>1. download'[x] = download[x]  BY <2>2 DEF DownloadInv, DownloadTypeOK
    <3> QED  BY <3>1 DEF DownloadInv, HasArchive, WritesKnown, ExtractsFirst
  <2> QED  BY <2>1, <2>2
<1> QED  BY <1>1, <1>2, <1>3 DEF DownloadInv

\* Losing every record.
LEMMA ForgetAllHolds ==
  ASSUME GoodArchives, DownloadInv, ledger' \in {ledger, NoRecords}, ForgetAll,
         UNCHANGED <<first, installed>>,
         NEW c, download' \in {download, [download EXCEPT ![c] = Idle]}
  PROVE  DownloadInv'
<1>1. forgotten \subseteq forgotten' /\ forgotten' \in SUBSET Releases
  BY DEF ForgetAll, DownloadInv, DownloadTypeOK
<1>2. DownloadTypeOK'
  BY <1>1, IdleFacts DEF DownloadInv, DownloadTypeOK
<1>3. RecordIsFirst'
  BY <1>1, IdleFacts DEF DownloadInv, RecordIsFirst
<1>4. PlacedIsFirst'  BY <1>1 DEF DownloadInv, PlacedIsFirst
<1>5. ASSUME NEW x \in Clients
      PROVE  HasArchive(download[x])' /\ WritesKnown(download[x])' /\ ExtractsFirst(download[x])'
  <2>1. download'[x] = Idle \/ download'[x] = download[x]
    BY DEF DownloadInv, DownloadTypeOK
  <2>2. CASE download'[x] = Idle
    BY <2>2, IdleFacts DEF HasArchive, WritesKnown, ExtractsFirst
  <2>3. CASE download'[x] = download[x]
    BY <2>3, <1>1 DEF DownloadInv, HasArchive, WritesKnown, ExtractsFirst
  <2> QED  BY <2>1, <2>2, <2>3
<1> QED  BY <1>2, <1>3, <1>4, <1>5 DEF DownloadInv

-------------------------------------------------------------------------------
(* The steps *)

LEMMA BeginHolds ==
  ASSUME GoodArchives, DownloadInv, NEW c \in Clients, BeginDownload(c)
  PROVE  DownloadInv'
<1>1. PICK version \in Tags \cup {Latest} : \E tag \in ResolvedTags(version) :
        download' = [download EXCEPT ![c].step = "fetch", ![c].tag = tag]
  BY DEF BeginDownload
<1>2. PICK tag \in ResolvedTags(version) :
        download' = [download EXCEPT ![c].step = "fetch", ![c].tag = tag]
  BY <1>1
<1>3. tag \in {Tag(n) : n \in Releases}
  BY DEF ResolvedTags, Tags
<1>4. download[c] \in Operations  BY DEF DownloadInv, DownloadTypeOK
<1>5. PICK d \in Operations : d = [download[c] EXCEPT !.step = "fetch", !.tag = tag]
  BY <1>3, <1>4 DEF Operations, Steps
<1>51. download' = [download EXCEPT ![c] = d] /\ d.step = "fetch"
  BY <1>2, <1>4, <1>5 DEF Operations
<1>6. HasArchive(d) /\ WritesKnown(d) /\ ExtractsFirst(d)  BY <1>51, IdleOwesNothing
<1> QED  BY <1>51, <1>6, OneMoves DEF BeginDownload

LEMMA FetchHolds ==
  ASSUME GoodArchives, DownloadInv, NEW c \in Clients, Fetched(c)
  PROVE  DownloadInv'
<1>1. PICK a \in Archives :
        download' = [download EXCEPT ![c].step = "check", ![c].archive = a]
  BY DEF Fetched
<1>3. download[c] \in Operations  BY DEF DownloadInv, DownloadTypeOK
<1>4. PICK d \in Operations : d = [download[c] EXCEPT !.step = "check", !.archive = a]
  BY <1>3 DEF Operations, Steps
<1>5. download' = [download EXCEPT ![c] = d] /\ d.step = "check" /\ d.archive = a
  BY <1>1, <1>3, <1>4 DEF Operations
<1>6. HasArchive(d) /\ WritesKnown(d) /\ ExtractsFirst(d)
  BY <1>5 DEF HasArchive, WritesKnown, ExtractsFirst
<1> QED  BY <1>5, <1>6, OneMoves DEF Fetched

\* A client that stops and leaves everything else.
LEMMA StopHolds ==
  ASSUME GoodArchives, DownloadInv, NEW c \in Clients, Stops(c),
         UNCHANGED <<ledger, first, forgotten, installed>>
  PROVE  DownloadInv'
<1>1. HasArchive(Idle) /\ WritesKnown(Idle) /\ ExtractsFirst(Idle)
  BY IdleFacts, IdleOwesNothing
<1> QED  BY <1>1, IdleFacts, OneMoves DEF Stops

LEMMA VerifyHolds ==
  ASSUME GoodArchives, DownloadInv, NEW c \in Clients, VerifyOrRecordHash(c)
  PROVE  DownloadInv'
<1> DEFINE d == download[c]
           recorded == ledger[d.tag]
<1>1. d \in Operations /\ ledger \in Recordings /\ d.step = "check"
  BY DEF DownloadInv, DownloadTypeOK, VerifyOrRecordHash, Stands
<1>2. d.archive \in Archives  BY <1>1 DEF DownloadInv, HasArchive
<1>3. PICK n \in Releases : d.tag = Tag(n)  BY <1>1 DEF Operations
<1>4. d.tag \in Tags /\ d.tag.number = n  BY <1>3, TagInjective
<1>5. UNCHANGED <<ledger, first, forgotten, installed>>  BY DEF VerifyOrRecordHash
<1>6. CASE recorded = NoArchive
  <2>0. [ledger EXCEPT ![d.tag] = d.archive] \in Recordings  BY <1>1, <1>2, <1>4 DEF Recordings
  <2>01. PICK r \in Operations :
           r = [d EXCEPT !.step = "record", !.records = [ledger EXCEPT ![d.tag] = d.archive]]
    BY <2>0, <1>1 DEF Operations, Steps
  <2>1. download' = [download EXCEPT ![c] = r]  BY <1>6, <2>01 DEF VerifyOrRecordHash
  <2>2. r.step = "record" /\ r.archive = d.archive /\ r.tag = d.tag
    BY <1>1, <2>01 DEF Operations
  <2>3. r.records = [ledger EXCEPT ![d.tag] = d.archive]  BY <1>1, <2>01 DEF Operations
  <2>4. r.records[r.tag] = r.archive  BY <2>2, <2>3, <1>1, <1>4 DEF Recordings
  <2>5. ASSUME NEW m \in Releases, m # r.tag.number, r.records[Tag(m)] # NoArchive
        PROVE  first[m] # NoArchive
    <3>1. Tag(m) # d.tag  BY <2>2, <2>5, <1>3, <1>4, TagInjective
    <3>2. r.records[Tag(m)] = ledger[Tag(m)]
      BY <3>1, <2>3, <1>1, TagInjective DEF Recordings
    <3> QED  BY <3>2, <2>5 DEF DownloadInv, RecordIsFirst
  <2>6. HasArchive(r) /\ WritesKnown(r) /\ ExtractsFirst(r)
    BY <2>2, <2>4, <2>5, <1>2 DEF HasArchive, WritesKnown, ExtractsFirst
  <2> QED  BY <2>1, <2>6, <1>5, OneMoves
<1>7. CASE recorded # NoArchive /\ recorded = d.archive
  <2>2. d.archive.entries \in Seq(STRING)  BY <1>2 DEF GoodArchives
  <2>3. PICK e \in Operations : e = Extracting(d)
    BY <2>2, <1>1 DEF Extracting, Operations, Steps
  <2>1. download' = [download EXCEPT ![c] = e]  BY <1>7, <2>3 DEF VerifyOrRecordHash
  <2>31. e.step = "extract" /\ e.archive = d.archive /\ e.tag = d.tag
    BY <2>3, <1>1 DEF Extracting, Operations
  <2>4. n \notin forgotten => d.archive = first[n]
    BY <1>3, <1>7 DEF DownloadInv, RecordIsFirst
  <2>5. HasArchive(e) /\ WritesKnown(e) /\ ExtractsFirst(e)
    BY <2>31, <2>4, <1>2, <1>4 DEF HasArchive, WritesKnown, ExtractsFirst
  <2> QED  BY <2>1, <2>5, <1>5, OneMoves
<1>8. CASE recorded # NoArchive /\ recorded # d.archive
  BY <1>8, <1>5, StopHolds DEF VerifyOrRecordHash, Stops
<1> QED  BY <1>6, <1>7, <1>8

LEMMA RecordBeginHolds ==
  ASSUME GoodArchives, DownloadInv, NEW c \in Clients, RecordBegins(c)
  PROVE  DownloadInv'
<1> DEFINE d == download[c]
<1>1. d \in Operations /\ d.step = "record"
  BY DEF DownloadInv, DownloadTypeOK, RecordBegins, Stands
<1>11. PICK r \in Operations : r = [d EXCEPT !.step = "recording"]
  BY <1>1 DEF Operations, Steps
<1>2. r \in Operations /\ r.step = "recording" /\ r.archive = d.archive /\ r.tag = d.tag
        /\ r.records = d.records
  BY <1>1, <1>11 DEF Operations
<1>3. download' = [download EXCEPT ![c] = r]  BY <1>11 DEF RecordBegins, Goes
<1>4. UNCHANGED <<first, forgotten, installed>> /\ ledger' = NoRecords  BY DEF RecordBegins
<1>5. DownloadTypeOK'  BY <1>2, <1>3, <1>4, IdleFacts DEF DownloadInv, DownloadTypeOK
<1>6. RecordIsFirst'  BY <1>4, IdleFacts DEF RecordIsFirst
<1>7. PlacedIsFirst'  BY <1>4 DEF DownloadInv, PlacedIsFirst
<1>8. ASSUME NEW x \in Clients
      PROVE  HasArchive(download[x])' /\ WritesKnown(download[x])' /\ ExtractsFirst(download[x])'
  <2>1. CASE x = c
    <3>1. download'[x] = r  BY <2>1, <1>3 DEF DownloadInv, DownloadTypeOK
    <3>2. HasArchive(d) /\ WritesKnown(d)  BY DEF DownloadInv
    <3> QED  BY <3>1, <3>2, <1>1, <1>2, <1>4 DEF HasArchive, WritesKnown, ExtractsFirst
  <2>2. CASE x # c
    <3>1. download'[x] = download[x]  BY <2>2, <1>3 DEF DownloadInv, DownloadTypeOK
    <3> QED  BY <3>1, <1>4 DEF DownloadInv, HasArchive, WritesKnown, ExtractsFirst
  <2> QED  BY <2>1, <2>2
<1> QED  BY <1>5, <1>6, <1>7, <1>8 DEF DownloadInv

\* The first record of a release is that of the archive that is written; whoever loses
\* another's record makes its release forgotten.
LEMMA RecordEndHolds ==
  ASSUME GoodArchives, DownloadInv, NEW c \in Clients, RecordEnds(c)
  PROVE  DownloadInv'
<1> DEFINE d == download[c]
           n == d.tag.number
<1>1. d \in Operations /\ d.step = "recording"
  BY DEF DownloadInv, DownloadTypeOK, RecordEnds, Stands
<1>2. d.archive \in Archives /\ d.records[d.tag] = d.archive
  BY <1>1 DEF DownloadInv, HasArchive, WritesKnown
<1>3. n \in Releases /\ d.tag = Tag(n)
  BY <1>1, TagInjective DEF Operations
<1>31. d.archive.entries \in Seq(STRING)  BY <1>2 DEF GoodArchives
<1>32. PICK e \in Operations : e = Extracting(d)
  BY <1>31, <1>1 DEF Extracting, Operations, Steps
<1>4. /\ ledger' = d.records
      /\ first' = IF first[n] = NoArchive THEN [first EXCEPT ![n] = d.archive] ELSE first
      /\ forgotten' = forgotten \cup
           {m \in Releases : first'[m] # NoArchive /\ d.records[Tag(m)] # first'[m]}
      /\ download' = [download EXCEPT ![c] = e]
      /\ installed' = installed
  BY <1>32 DEF RecordEnds
<1>5. e \in Operations /\ e.step = "extract" /\ e.archive = d.archive /\ e.tag = d.tag
  BY <1>1, <1>32 DEF Extracting, Operations
<1>6. first' \in [Releases -> Archives \cup {NoArchive}]
  BY <1>2, <1>4 DEF DownloadInv, DownloadTypeOK
<1>7. DownloadTypeOK'
  <2>1. d.records \in Recordings  BY <1>1 DEF Operations
  <2> QED  BY <2>1, <1>4, <1>5, <1>6 DEF DownloadInv, DownloadTypeOK
<1>8. \A m \in Releases : /\ first[m] # NoArchive => first'[m] = first[m]
                          /\ m # n => first'[m] = first[m]
  BY <1>4, <1>3 DEF DownloadInv, DownloadTypeOK
<1>9. first'[n] # NoArchive
  BY <1>2, <1>3, <1>4 DEF DownloadInv, DownloadTypeOK, GoodArchives
<1>10. RecordIsFirst'
  <2> SUFFICES ASSUME NEW m \in Releases
               PROVE  /\ d.records[Tag(m)] # NoArchive => first'[m] # NoArchive
                      /\ m \notin forgotten' => d.records[Tag(m)] \in {NoArchive, first'[m]}
    BY <1>4 DEF RecordIsFirst
  <2>1. d.records[Tag(m)] # NoArchive => first'[m] # NoArchive
    <3>1. CASE m = n  BY <3>1, <1>9
    <3>2. CASE m # n
      <4>1. WritesKnown(d)  BY DEF DownloadInv
      <4> QED  BY <4>1, <3>2, <1>1, <1>8 DEF WritesKnown
    <3> QED  BY <3>1, <3>2
  <2>2. m \notin forgotten' => first'[m] = NoArchive \/ d.records[Tag(m)] = first'[m]
    BY <1>4
  <2> QED  BY <2>1, <2>2
<1>11. PlacedIsFirst'
  <2> SUFFICES ASSUME NEW m \in Releases, m \notin forgotten', NEW a \in installed[m]
               PROVE  a = first'[m]
    BY <1>4 DEF PlacedIsFirst
  <2>1. m \notin forgotten  BY <1>4
  <2>2. a = first[m] /\ a \in Archives  BY <2>1 DEF DownloadInv, PlacedIsFirst, DownloadTypeOK
  <2> QED  BY <2>2, <1>8 DEF GoodArchives
<1>12. ASSUME NEW x \in Clients
       PROVE  HasArchive(download[x])' /\ WritesKnown(download[x])' /\ ExtractsFirst(download[x])'
  <2>1. CASE x = c
    <3>1. download'[x] = e  BY <2>1, <1>4 DEF DownloadInv, DownloadTypeOK
    <3>2. n \notin forgotten' => d.archive = first'[n]
      BY <1>2, <1>3, <1>4, <1>9
    <3> QED  BY <3>1, <3>2, <1>2, <1>5 DEF HasArchive, WritesKnown, ExtractsFirst
  <2>2. CASE x # c
    <3> DEFINE o == download[x]
    <3>1. download'[x] = o  BY <2>2, <1>4 DEF DownloadInv, DownloadTypeOK
    <3>2. HasArchive(o) /\ WritesKnown(o) /\ ExtractsFirst(o) /\ o \in Operations
      BY DEF DownloadInv, DownloadTypeOK
    <3>3. o.tag.number \in Releases  BY <3>2, TagInjective DEF Operations
    <3>4. HasArchive(o)  BY <3>2
    <3>5. o.step \in {"record", "recording"} =>
            /\ o.records[o.tag] = o.archive
            /\ \A m \in Releases :
                 m # o.tag.number /\ o.records[Tag(m)] # NoArchive => first'[m] # NoArchive
      BY <3>2, <1>8 DEF WritesKnown
    <3>6. o.step \in {"extract", "writing"} /\ o.tag.number \notin forgotten' =>
            o.archive = first'[o.tag.number]
      <4> SUFFICES ASSUME o.step \in {"extract", "writing"}, o.tag.number \notin forgotten'
                   PROVE  o.archive = first'[o.tag.number]
        OBVIOUS
      <4>1. o.tag.number \notin forgotten  BY <1>4
      <4>2. o.archive = first[o.tag.number]  BY <4>1, <3>2 DEF ExtractsFirst
      <4>3. o.archive \in Archives  BY <3>2 DEF HasArchive
      <4> QED  BY <4>2, <4>3, <3>3, <1>8 DEF GoodArchives
    <3> QED  BY <3>1, <3>4, <3>5, <3>6 DEF HasArchive, WritesKnown, ExtractsFirst
  <2> QED  BY <2>1, <2>2
<1> QED  BY <1>7, <1>10, <1>11, <1>12 DEF DownloadInv

\* Only the entries that are left change.
LEMMA SkipHolds ==
  ASSUME GoodArchives, DownloadInv, NEW c \in Clients, SkipEntry(c)
  PROVE  DownloadInv'
<1> DEFINE d == download[c]
<1>1. /\ d \in Operations /\ d.rest # <<>> /\ d.step = "extract"
      /\ HasArchive(d) /\ WritesKnown(d) /\ ExtractsFirst(d)
  BY DEF DownloadInv, DownloadTypeOK, SkipEntry, Stands
<1>11. PICK e \in Operations : e = [d EXCEPT !.rest = Tail(@)]
  <2>0. d.rest \in Seq(STRING)  BY <1>1 DEF Operations
  <2>1. Tail(d.rest) \in Seq(STRING)  BY <2>0, <1>1, TailOfEntries
  <2> QED  BY <2>1, <1>1 DEF Operations
<1>2. e.step = d.step /\ e.archive = d.archive /\ e.tag = d.tag
        /\ e.records = d.records
  BY <1>1, <1>11 DEF Operations
<1>3. download' = [download EXCEPT ![c] = e]  BY <1>11 DEF SkipEntry
<1>4. HasArchive(e) /\ WritesKnown(e) /\ ExtractsFirst(e)
  BY <1>1, <1>2 DEF HasArchive, WritesKnown, ExtractsFirst
<1> QED  BY <1>3, <1>4, OneMoves DEF SkipEntry

LEMMA WriteEndHolds ==
  ASSUME GoodArchives, DownloadInv, NEW c \in Clients, WriteEnds(c)
  PROVE  DownloadInv'
<1> DEFINE d == download[c]
           rest == IF system = "windows" THEN Tail(d.rest) ELSE <<>>
<1>1. d \in Operations /\ HasArchive(d) /\ ExtractsFirst(d) /\ d.step = "writing"
  BY DEF DownloadInv, DownloadTypeOK, WriteEnds, Stands
<1>11. rest \in Seq(STRING)
  <2>1. d.rest \in Seq(STRING) /\ d.rest # <<>>  BY <1>1 DEF HasArchive, Operations
  <2>2. Tail(d.rest) \in Seq(STRING)  BY <2>1, TailOfEntries
  <2>3. <<>> \in Seq(STRING)  OBVIOUS
  <2> QED  BY <2>2, <2>3
<1>12. PICK e \in Operations : e = [d EXCEPT !.step = "extract", !.rest = rest]
  BY <1>1, <1>11 DEF Operations, Steps
<1>2. e.step = "extract" /\ e.archive = d.archive /\ e.tag = d.tag
  BY <1>1, <1>12 DEF Operations
<1>3. download' = [download EXCEPT ![c] = e]  BY <1>12 DEF WriteEnds
<1>4. HasArchive(e) /\ WritesKnown(e) /\ ExtractsFirst(e)
  BY <1>1, <1>2 DEF HasArchive, WritesKnown, ExtractsFirst
<1> QED  BY <1>3, <1>4, OneMoves DEF WriteEnds

LEMMA WriteBeginHolds ==
  ASSUME GoodArchives, DownloadInv, NEW c \in Clients, WriteBegins(c)
  PROVE  DownloadInv'
<1> DEFINE d == download[c]
           n == d.tag.number
<1>1. /\ d \in Operations /\ HasArchive(d) /\ ExtractsFirst(d)
      /\ d.step = "extract" /\ d.rest # <<>>
  BY DEF DownloadInv, DownloadTypeOK, WriteBegins, Stands
<1>2. d.archive \in Archives  BY <1>1 DEF HasArchive
<1>3. n \in Releases  BY <1>1, TagInjective DEF Operations
<1>31. PICK e \in Operations : e = [d EXCEPT !.step = "writing"]
  BY <1>1 DEF Operations, Steps
<1>4. /\ e \in Operations /\ e.step = "writing" /\ e.archive = d.archive /\ e.tag = d.tag
      /\ e.rest = d.rest
  BY <1>1, <1>31 DEF Operations
<1>5. /\ download' = [download EXCEPT ![c] = e]
      /\ installed' = [installed EXCEPT ![n] = @ \cup {d.archive}]
      /\ UNCHANGED <<ledger, first, forgotten>>
  BY <1>31 DEF WriteBegins, Goes
<1>6. DownloadTypeOK'
  BY <1>2, <1>4, <1>5 DEF DownloadInv, DownloadTypeOK
<1>7. RecordIsFirst'  BY <1>5 DEF DownloadInv, RecordIsFirst
<1>8. PlacedIsFirst'
  <2> SUFFICES ASSUME NEW m \in Releases, m \notin forgotten, NEW a \in installed'[m]
               PROVE  a = first[m]
    BY <1>5 DEF PlacedIsFirst
  <2>1. CASE a \in installed[m]  BY <2>1 DEF DownloadInv, PlacedIsFirst
  <2>2. CASE a \notin installed[m]
    <3>1. m = n /\ a = d.archive  BY <2>2, <1>3, <1>5 DEF DownloadInv, DownloadTypeOK
    <3> QED  BY <3>1, <1>1 DEF ExtractsFirst
  <2> QED  BY <2>1, <2>2
<1>9. ASSUME NEW x \in Clients
      PROVE  HasArchive(download[x])' /\ WritesKnown(download[x])' /\ ExtractsFirst(download[x])'
  <2>1. CASE x = c
    <3>1. download'[x] = e  BY <2>1, <1>5 DEF DownloadInv, DownloadTypeOK
    <3> QED  BY <3>1, <1>1, <1>4, <1>5 DEF HasArchive, WritesKnown, ExtractsFirst
  <2>2. CASE x # c
    <3>1. download'[x] = download[x]  BY <2>2, <1>5 DEF DownloadInv, DownloadTypeOK
    <3> QED  BY <3>1, <1>5 DEF DownloadInv, HasArchive, WritesKnown, ExtractsFirst
  <2> QED  BY <2>1, <2>2
<1> QED  BY <1>6, <1>7, <1>8, <1>9 DEF DownloadInv

-------------------------------------------------------------------------------

\* Every step of the downloads keeps the invariant.
LEMMA DownloadStepHolds ==
  ASSUME GoodArchives, DownloadInv, [DownloadNext]_coreVars
  PROVE  DownloadInv'
<1>1. ASSUME NEW c \in Clients, ClientStep(c)
      PROVE  DownloadInv'
  <2>1. CASE FetchFails(c)        BY <2>1, StopHolds DEF FetchFails
  <2>2. CASE RecordFails(c)
    <3>1. /\ ledger' \in {ledger, NoRecords} /\ ForgetAll /\ UNCHANGED <<first, installed>>
          /\ download' \in {download, [download EXCEPT ![c] = Idle]}
      BY <2>2 DEF RecordFails, Stops
    <3> QED  BY <3>1, ForgetAllHolds
  <2>3. CASE ExtractionEnds(c)    BY <2>3, StopHolds DEF ExtractionEnds
  <2>4. CASE WriteFails(c)        BY <2>4, StopHolds DEF WriteFails
  <2>5. CASE ClientDies(c)
    <3>1. CASE Stands(c, "recording")
      <4>1. /\ ledger' \in {ledger, NoRecords} /\ ForgetAll /\ UNCHANGED <<first, installed>>
            /\ download' \in {download, [download EXCEPT ![c] = Idle]}
        BY <2>5, <3>1 DEF ClientDies, Stops
      <4> QED  BY <4>1, ForgetAllHolds
    <3>2. CASE ~ Stands(c, "recording")
      BY <2>5, <3>2, StopHolds DEF ClientDies
    <3> QED  BY <3>1, <3>2
  <2> QED
    BY <1>1, <2>1, <2>2, <2>3, <2>4, <2>5, BeginHolds, FetchHolds, VerifyHolds,
       RecordBeginHolds, RecordEndHolds, SkipHolds, WriteBeginHolds, WriteEndHolds
    DEF ClientStep
<1>2. CASE UserDeletesLedger
  <2>1. download' \in {download, [download EXCEPT ![NoArchive] = Idle]}
    BY <1>2 DEF UserDeletesLedger
  <2> QED  BY <1>2, <2>1, ForgetAllHolds DEF UserDeletesLedger
<1>3. CASE UNCHANGED coreVars
  <2>1. UNCHANGED <<ledger, download, first, forgotten, installed>>  BY <1>3 DEF coreVars
  <2>2. DownloadTypeOK' /\ RecordIsFirst' /\ PlacedIsFirst'
    BY <2>1 DEF DownloadInv, DownloadTypeOK, RecordIsFirst, PlacedIsFirst
  <2>3. \A c \in Clients :
          HasArchive(download[c])' /\ WritesKnown(download[c])' /\ ExtractsFirst(download[c])'
    BY <2>1 DEF DownloadInv, HasArchive, WritesKnown, ExtractsFirst
  <2> QED  BY <2>2, <2>3 DEF DownloadInv
<1> QED  BY <1>1, <1>2, <1>3 DEF DownloadNext

\* Every archive from which a client of the directory ever put something in place for a
\* release is the same one, unless the release's record was lost (verify_or_record_hash).
THEOREM OneArchivePerRelease ==
  ASSUME GoodArchives, NEW systems, NEW budget
  PROVE  DownloadSpec(systems, budget) => []FirstArchiveOnly
<1>1. DownloadInit(systems, budget) => DownloadInv  BY DownloadInitHolds
<1>2. DownloadInv /\ [DownloadNext]_coreVars => DownloadInv'  BY DownloadStepHolds
<1>3. DownloadInv => FirstArchiveOnly  BY DEF DownloadInv, PlacedIsFirst, FirstArchiveOnly
<1> QED  BY <1>1, <1>2, <1>3, PTL DEF DownloadSpec

-------------------------------------------------------------------------------
(* The desktop's proxy *)

AllPlatforms == {"windows", "linux", "macos", "macos-first"}

Keys ==
  CASE platform = "windows" -> {"ProxyEnable", "ProxyServer", "ProxyOverride"}
    [] platform = "linux"   -> {"mode", "host", "port"}
    [] platform \in Macos   -> {"web", "webServer", "secure", "secureServer"}

Texts ==
  {"", "0", "1", "on", "off", "manual", "none", "auto", "127.0.0.1", "2080", "127.0.0.1:2080",
   "<local>", "corporate", "corporate:3128", "3128", "intranet", "secure"}

\* Where one call sets the proxy of plain traffic only, the other one is never the client.
Values(key) ==
  CASE key = "ProxyEnable" -> {"0", "1"}
    [] key = "mode" -> {"manual", "none", "auto"}
    [] key \in {"web", "secure"} -> {"on", "off"}
    [] key = "secureServer" /\ platform = "macos-first" -> Texts \ {Local, Server}
    [] OTHER -> Texts

Fits(f) == \A k \in DOMAIN f : f[k] \in Values(k)

IsSetting(s) == s \in [Keys -> Texts] /\ Fits(s)

\* One call writes some of the held.
KeyWrites == UNION {[held -> Texts] : held \in SUBSET Keys}

IsWrite(w) == w \in KeyWrites /\ Fits(w)

Makes(calls) == calls \in Seq(KeyWrites) /\ \A i \in 1..Len(calls) : Fits(calls[i])

\* Every call writes what the settings hold.
Gives(calls, s) == \A i \in 1..Len(calls) : \A k \in DOMAIN calls[i] : calls[i][k] = s[k]

Written(rest, k) == \E i \in 1..Len(rest) : k \in DOMAIN rest[i]

\* What an operation is about to write.
IsCall(c) ==
  /\ c = [op |-> c.op, rest |-> c.rest]
  /\ c # NoCall => c.op \in {"enable", "disable", "stop"} /\ c.rest # <<>>
  /\ Makes(c.rest)

\* A restoration writes what the backup holds, and has written what it does not write yet.
Restoring(c, s, backup) ==
  c.op \in {"disable", "stop"} =>
    IF backup = Absent THEN c.rest = SetProxy(FALSE)
    ELSE Restorable(backup) =>
      /\ Gives(c.rest, backup)
      /\ \A k \in Keys : Written(RestoreBackup(backup), k) => s[k] = backup[k] \/ Written(c.rest, k)

\* The user's setting is in force, or in the backup; without either nobody enables.
Captured(s, backup, user, on, c) ==
  /\ Restorable(user) => Effective(IF backup = Absent THEN s ELSE backup) = Effective(user)
  /\ backup = Absent => ~on /\ c = NoCall

GoodProxy(s, backup, user, lost, on, c, ended) ==
  /\ IsSetting(s) /\ IsSetting(user) /\ (backup = Absent \/ IsSetting(backup)) /\ IsCall(c)
  /\ Restoring(c, s, backup)
  /\ ~lost => Captured(s, backup, user, on, c)
  /\ c # NoCall => ended = "none"
  /\ ended = "cleared" => ~AtClient(s)

ProxyInv ==
  /\ platform \in AllPlatforms
  /\ uncaptured \in BOOLEAN
  /\ client = [runs |-> client.runs, proxyOn |-> client.proxyOn]
  /\ GoodProxy(settings, saved, own, uncaptured, client.proxyOn, call, last)

\* Absent is no setting of any desktop.
AllSettings ==
  [{"ProxyEnable", "ProxyServer", "ProxyOverride"} -> Texts] \cup [{"mode", "host", "port"} -> Texts]
    \cup [{"web", "webServer", "secure", "secureServer"} -> Texts]

LEMMA KeysOf ==
  ASSUME platform \in AllPlatforms
  PROVE  /\ platform = "windows" => Keys = {"ProxyEnable", "ProxyServer", "ProxyOverride"}
         /\ platform = "linux" => Keys = {"mode", "host", "port"}
         /\ platform \in Macos => Keys = {"web", "webServer", "secure", "secureServer"}
         /\ platform \in {"windows", "linux"} \cup Macos
  BY DEF AllPlatforms, Keys, Macos

\* What the held may hold.
LEMMA ValuesOf ==
  /\ Values("ProxyEnable") = {"0", "1"} /\ Values("mode") = {"manual", "none", "auto"}
  /\ Values("web") = {"on", "off"} /\ Values("secure") = {"on", "off"}
  /\ Values("ProxyServer") = Texts /\ Values("ProxyOverride") = Texts
  /\ Values("host") = Texts /\ Values("port") = Texts /\ Values("webServer") = Texts
  /\ Values("secureServer") = IF platform = "macos-first" THEN Texts \ {Local, Server} ELSE Texts
  BY DEF Values

LEMMA TextsOf ==
  /\ "" \in Texts /\ "0" \in Texts /\ "1" \in Texts /\ "on" \in Texts /\ "off" \in Texts
  /\ "manual" \in Texts /\ "none" \in Texts /\ "auto" \in Texts /\ "<local>" \in Texts
  /\ Local \in Texts /\ Port \in Texts /\ Server \in Texts
  BY DEF Texts, Local, Port, Server

LEMMA WriteFits ==
  ASSUME NEW w, IsWrite(w), NEW s, IsSetting(s)
  PROVE  IsSetting(Wrote(w, s))
  BY DEF IsWrite, KeyWrites, IsSetting, Fits, Wrote

LEMMA SomeKeys ==
  ASSUME NEW held \in SUBSET Keys, NEW w \in [held -> Texts], Fits(w)
  PROVE  IsWrite(w)
  BY DEF IsWrite, KeyWrites

LEMMA Calls ==
  /\ Makes(<<>>)
  /\ \A a : IsWrite(a) => Makes(<<a>>) /\ <<a>> # <<>>
  /\ \A a, b : IsWrite(a) /\ IsWrite(b) => Makes(<<a, b>>) /\ <<a, b>> # <<>>
  /\ \A a, b, c : IsWrite(a) /\ IsWrite(b) /\ IsWrite(c) =>
       Makes(<<a, b, c>>) /\ <<a, b, c>> # <<>>
  BY DEF Makes, IsWrite

\* Calls one after the other.
LEMMA Sequence ==
  ASSUME NEW x, NEW y, Makes(x), Makes(y)
  PROVE  /\ Makes(x \o y)
         /\ x # <<>> => x \o y # <<>>
         /\ \A s : Gives(x, s) /\ Gives(y, s) => Gives(x \o y, s)
         /\ \A k : Written(x \o y, k) <=> Written(x, k) \/ Written(y, k)
<1>1. x \in Seq(KeyWrites) /\ y \in Seq(KeyWrites)
  BY DEF Makes
<1>2. /\ x \o y \in Seq(KeyWrites) /\ Len(x \o y) = Len(x) + Len(y)
      /\ \A i \in 1..Len(x) : (x \o y)[i] = x[i]
      /\ \A i \in 1..Len(y) : (x \o y)[Len(x) + i] = y[i]
  BY <1>1
<1>3. \A i \in 1..Len(x \o y) :
        i \in 1..Len(x) \/ \E j \in 1..Len(y) : i = Len(x) + j
  <2> SUFFICES ASSUME NEW i \in 1..Len(x \o y), i \notin 1..Len(x)
               PROVE  i - Len(x) \in 1..Len(y) /\ i = Len(x) + (i - Len(x))
    OBVIOUS
  <2> QED  BY <1>1, <1>2
<1>4. \A j \in 1..Len(y) : Len(x) + j \in 1..Len(x \o y)
  BY <1>1, <1>2
<1>5. \A i \in 1..Len(x) : i \in 1..Len(x \o y)
  BY <1>1, <1>2
<1>6. Makes(x \o y)
  BY <1>2, <1>3 DEF Makes
<1>7. ASSUME NEW s, Gives(x, s), Gives(y, s)  PROVE Gives(x \o y, s)
  BY <1>2, <1>3, <1>7 DEF Gives
<1>8. ASSUME NEW k  PROVE Written(x \o y, k) <=> Written(x, k) \/ Written(y, k)
  BY <1>2, <1>3, <1>4, <1>5 DEF Written
<1>9. x # <<>> => x \o y # <<>>
  BY <1>1, <1>2
<1> QED  BY <1>6, <1>7, <1>8, <1>9

LEMMA RecordSets ==
  ASSUME NEW a \in Texts, NEW b \in Texts, NEW c \in Texts, NEW d \in Texts
  PROVE  /\ WindowsSettings(a, b, c) \in [{"ProxyEnable", "ProxyServer", "ProxyOverride"} -> Texts]
         /\ LinuxSettings(a, b, c) \in [{"mode", "host", "port"} -> Texts]
         /\ MacosSettings(a, b, c, d) \in [{"web", "webServer", "secure", "secureServer"} -> Texts]
         /\ [web |-> a, webServer |-> b] \in [{"web", "webServer"} -> Texts]
         /\ [secure |-> a, secureServer |-> b] \in [{"secure", "secureServer"} -> Texts]
         /\ [web |-> a, secure |-> b] \in [{"web", "secure"} -> Texts]
<1>1. WindowsSettings(a, b, c) \in [{"ProxyEnable", "ProxyServer", "ProxyOverride"} -> Texts]
  BY DEF WindowsSettings
<1>2. LinuxSettings(a, b, c) \in [{"mode", "host", "port"} -> Texts]
  BY DEF LinuxSettings
<1>3. MacosSettings(a, b, c, d) \in [{"web", "webServer", "secure", "secureServer"} -> Texts]
  BY DEF MacosSettings
<1>4. [web |-> a, webServer |-> b] \in [{"web", "webServer"} -> Texts]
  OBVIOUS
<1>5. [secure |-> a, secureServer |-> b] \in [{"secure", "secureServer"} -> Texts]
  OBVIOUS
<1>6. [web |-> a, secure |-> b] \in [{"web", "secure"} -> Texts]
  OBVIOUS
<1> QED  BY <1>1, <1>2, <1>3, <1>4, <1>5, <1>6

LEMMA UserSettingsFit ==
  ASSUME platform \in AllPlatforms, NEW s \in UserSettings(platform)
  PROVE  IsSetting(s)
<1>1. CASE platform = "windows"
  <2>1. Keys = {"ProxyEnable", "ProxyServer", "ProxyOverride"}
    BY <1>1, KeysOf
  <2>2. UserSettings(platform) =
          {WindowsSettings("0", "", ""), WindowsSettings("0", "corporate:3128", ""),
           WindowsSettings("1", "corporate:3128", "intranet"),
           WindowsSettings("1", "corporate:3128", "")}
    BY <1>1 DEF UserSettings, Macos
  <2>3. PICK e \in {"0", "1"}, p \in {"", "corporate:3128"}, o \in {"", "intranet"} :
          s = WindowsSettings(e, p, o)
    BY <2>2
  <2>4. e \in Texts /\ p \in Texts /\ o \in Texts
    BY <2>3 DEF Texts
  <2>5. s \in [Keys -> Texts]
    BY <2>1, <2>3, <2>4, RecordSets
  <2>6. s["ProxyEnable"] = e /\ s["ProxyServer"] = p /\ s["ProxyOverride"] = o
    BY <2>3 DEF WindowsSettings
  <2>7. Fits(s)
    BY <2>1, <2>4, <2>5, <2>6, ValuesOf DEF Fits
  <2> QED  BY <2>5, <2>7 DEF IsSetting
<1>2. CASE platform = "linux"
  <2>1. Keys = {"mode", "host", "port"}
    BY <1>2, KeysOf
  <2>2. UserSettings(platform) =
          {LinuxSettings("none", "", "0"), LinuxSettings("none", "corporate", "3128"),
           LinuxSettings("manual", "corporate", "3128"), LinuxSettings("auto", "", "0")}
    BY <1>2 DEF UserSettings, Macos
  <2>3. PICK m \in {"manual", "none", "auto"}, h \in {"", "corporate"}, p \in {"0", "3128"} :
          s = LinuxSettings(m, h, p)
    BY <2>2
  <2>4. m \in Texts /\ h \in Texts /\ p \in Texts
    BY <2>3 DEF Texts
  <2>5. s \in [Keys -> Texts]
    BY <2>1, <2>3, <2>4, RecordSets
  <2>6. s["mode"] = m /\ s["host"] = h /\ s["port"] = p
    BY <2>3 DEF LinuxSettings
  <2>7. Fits(s)
    BY <2>1, <2>4, <2>5, <2>6, ValuesOf DEF Fits
  <2> QED  BY <2>5, <2>7 DEF IsSetting
<1>3. CASE platform \in Macos
  <2>1. Keys = {"web", "webServer", "secure", "secureServer"}
    BY <1>3, KeysOf
  <2>2. UserSettings(platform) =
          {MacosSettings("off", "", "off", ""), MacosSettings("on", "corporate", "off", ""),
           MacosSettings("on", "corporate", "on", "secure")}
    BY <1>3 DEF UserSettings, Macos
  <2>3. PICK w \in {"on", "off"}, a \in {"", "corporate"}, c \in {"on", "off"}, b \in {"", "secure"} :
          s = MacosSettings(w, a, c, b)
    BY <2>2
  <2>4. w \in Texts /\ a \in Texts /\ c \in Texts /\ b \in Texts /\ b \notin {Local, Server}
    BY <2>3 DEF Texts, Local, Server
  <2>5. s \in [Keys -> Texts]
    BY <2>1, <2>3, <2>4, RecordSets
  <2>6. s["web"] = w /\ s["webServer"] = a /\ s["secure"] = c /\ s["secureServer"] = b
    BY <2>3 DEF MacosSettings
  <2>7. Fits(s)
    BY <2>1, <2>4, <2>5, <2>6, ValuesOf DEF Fits
  <2> QED  BY <2>5, <2>7 DEF IsSetting
<1> QED  BY <1>1, <1>2, <1>3, KeysOf

\* One key.
LEMMA OneKey ==
  ASSUME NEW k \in Keys, NEW v \in Texts, v \in Values(k)
  PROVE  IsWrite([x \in {k} |-> v])
<1>1. [x \in {k} |-> v] \in [{k} -> Texts] /\ Fits([x \in {k} |-> v])
  BY DEF Fits
<1> QED  BY <1>1, SomeKeys

\* A write of one key, as a record.
LEMMA OneKeyRecords ==
  ASSUME NEW v \in Texts
  PROVE  /\ "ProxyEnable" \in Keys /\ v \in Values("ProxyEnable") => IsWrite([ProxyEnable |-> v])
         /\ "ProxyServer" \in Keys /\ v \in Values("ProxyServer") => IsWrite([ProxyServer |-> v])
         /\ "ProxyOverride" \in Keys /\ v \in Values("ProxyOverride") => IsWrite([ProxyOverride |-> v])
         /\ "mode" \in Keys /\ v \in Values("mode") => IsWrite([mode |-> v])
         /\ "host" \in Keys /\ v \in Values("host") => IsWrite([host |-> v])
         /\ "port" \in Keys /\ v \in Values("port") => IsWrite([port |-> v])
         /\ "web" \in Keys /\ v \in Values("web") => IsWrite([web |-> v])
         /\ "secure" \in Keys /\ v \in Values("secure") => IsWrite([secure |-> v])
<1>1. "ProxyEnable" \in Keys /\ v \in Values("ProxyEnable") => IsWrite([ProxyEnable |-> v])
  <2>1. [ProxyEnable |-> v] = [x \in {"ProxyEnable"} |-> v]
    OBVIOUS
  <2> QED  BY <2>1, OneKey
<1>2. "ProxyServer" \in Keys /\ v \in Values("ProxyServer") => IsWrite([ProxyServer |-> v])
  <2>1. [ProxyServer |-> v] = [x \in {"ProxyServer"} |-> v]
    OBVIOUS
  <2> QED  BY <2>1, OneKey
<1>3. "ProxyOverride" \in Keys /\ v \in Values("ProxyOverride") => IsWrite([ProxyOverride |-> v])
  <2>1. [ProxyOverride |-> v] = [x \in {"ProxyOverride"} |-> v]
    OBVIOUS
  <2> QED  BY <2>1, OneKey
<1>4. "mode" \in Keys /\ v \in Values("mode") => IsWrite([mode |-> v])
  <2>1. [mode |-> v] = [x \in {"mode"} |-> v]
    OBVIOUS
  <2> QED  BY <2>1, OneKey
<1>5. "host" \in Keys /\ v \in Values("host") => IsWrite([host |-> v])
  <2>1. [host |-> v] = [x \in {"host"} |-> v]
    OBVIOUS
  <2> QED  BY <2>1, OneKey
<1>6. "port" \in Keys /\ v \in Values("port") => IsWrite([port |-> v])
  <2>1. [port |-> v] = [x \in {"port"} |-> v]
    OBVIOUS
  <2> QED  BY <2>1, OneKey
<1>7. "web" \in Keys /\ v \in Values("web") => IsWrite([web |-> v])
  <2>1. [web |-> v] = [x \in {"web"} |-> v]
    OBVIOUS
  <2> QED  BY <2>1, OneKey
<1>8. "secure" \in Keys /\ v \in Values("secure") => IsWrite([secure |-> v])
  <2>1. [secure |-> v] = [x \in {"secure"} |-> v]
    OBVIOUS
  <2> QED  BY <2>1, OneKey
<1> QED  BY <1>1, <1>2, <1>3, <1>4, <1>5, <1>6, <1>7, <1>8

LEMMA SwitchCalls ==
  ASSUME platform \in AllPlatforms, NEW on \in BOOLEAN
  PROVE  Makes(SetProxy(on)) /\ SetProxy(on) # <<>>
<1>1. CASE platform = "windows"
  <2>1. Keys = {"ProxyEnable", "ProxyServer", "ProxyOverride"}
    BY <1>1, KeysOf
  <2>2. IsWrite([ProxyEnable |-> "0"]) /\ IsWrite([ProxyEnable |-> "1"])
    BY <2>1, ValuesOf, TextsOf, OneKeyRecords
  <2>3. IsWrite([ProxyServer |-> Server]) /\ IsWrite([ProxyOverride |-> "<local>"])
    BY <2>1, ValuesOf, TextsOf, OneKeyRecords
  <2>4. SetProxy(on) = SetWindows(on)
    BY <1>1 DEF SetProxy, Macos
  <2> QED  BY <2>2, <2>3, <2>4, Calls DEF SetWindows
<1>2. CASE platform = "linux"
  <2>1. Keys = {"mode", "host", "port"}
    BY <1>2, KeysOf
  <2>2. IsWrite([mode |-> "manual"]) /\ IsWrite([mode |-> "none"])
    BY <2>1, ValuesOf, TextsOf, OneKeyRecords
  <2>3. IsWrite([host |-> Local]) /\ IsWrite([port |-> Port])
    BY <2>1, ValuesOf, TextsOf, OneKeyRecords
  <2>4. SetProxy(on) = SetLinux(on)
    BY <1>2 DEF SetProxy, Macos
  <2> QED  BY <2>2, <2>3, <2>4, Calls DEF SetLinux
<1>3. CASE platform \in Macos
  <2>1. Keys = {"web", "webServer", "secure", "secureServer"}
    BY <1>3, KeysOf
  <2>2. IsWrite([web |-> "on", webServer |-> Server])
    <3> DEFINE w == [web |-> "on", webServer |-> Server]
    <3>1. DOMAIN w = {"web", "webServer"} /\ w["web"] = "on" /\ w["webServer"] = Server
      OBVIOUS
    <3>2. w \in [{"web", "webServer"} -> Texts]
      BY RecordSets, TextsOf
    <3> HIDE DEF w
    <3>3. w["web"] \in Values("web") /\ w["webServer"] \in Values("webServer")
      BY <3>1, ValuesOf, TextsOf
    <3>4. Fits(w)
      BY <3>1, <3>3 DEF Fits
    <3> QED  BY <2>1, <3>2, <3>4, SomeKeys DEF w
  <2>3. IsWrite([web |-> "off"])
    BY <2>1, ValuesOf, TextsOf, OneKeyRecords
  <2>4. ASSUME platform = "macos"
        PROVE  IsWrite(MacosSettings("on", Server, "on", Server))
    <3> DEFINE w == MacosSettings("on", Server, "on", Server)
    <3>1. DOMAIN w = Keys /\ w["web"] = "on" /\ w["webServer"] = Server
          /\ w["secure"] = "on" /\ w["secureServer"] = Server
      BY <2>1 DEF MacosSettings
    <3>2. w \in [Keys -> Texts]
      BY <2>1, RecordSets, TextsOf
    <3> HIDE DEF w
    <3>3. w["web"] \in Values("web") /\ w["webServer"] \in Values("webServer")
      BY <3>1, ValuesOf, TextsOf
    <3>4. w["secure"] \in Values("secure") /\ w["secureServer"] \in Values("secureServer")
      BY <2>4, <3>1, ValuesOf, TextsOf
    <3>5. Fits(w)
      BY <2>1, <3>1, <3>3, <3>4 DEF Fits
    <3> QED  BY <3>2, <3>5, SomeKeys DEF w
  <2>5. IsWrite([web |-> "off", secure |-> "off"])
    <3> DEFINE w == [web |-> "off", secure |-> "off"]
    <3>1. DOMAIN w = {"web", "secure"} /\ w["web"] = "off" /\ w["secure"] = "off"
      OBVIOUS
    <3>2. w \in [{"web", "secure"} -> Texts]
      BY RecordSets, TextsOf
    <3> HIDE DEF w
    <3>3. Fits(w)
      BY <3>1, ValuesOf DEF Fits
    <3> QED  BY <2>1, <3>2, <3>3, SomeKeys DEF w
  <2>6. SetProxy(on) = SetMacos(on)
    BY <1>3 DEF SetProxy, Macos
  <2> QED  BY <2>2, <2>3, <2>4, <2>5, <2>6, Calls DEF SetMacos, Heard
<1> QED  BY <1>1, <1>2, <1>3, KeysOf

LEMMA OnlyCall ==
  ASSUME NEW calls, NEW w, calls = <<w>>
  PROVE  Len(calls) = 1 /\ Head(calls) = w
  OBVIOUS

LEMMA ToSetOf ==
  ASSUME NEW a, NEW b
  PROVE  ToSet(<<>>) = {} /\ ToSet(<<a, b>>) = {a, b}
<1>1. ToSet(<<>>) = {}
  BY DEF ToSet
<1>2. <<a, b>>[1] = a /\ <<a, b>>[2] = b /\ DOMAIN <<a, b>> = {1, 2}
  OBVIOUS
<1>3. \A x : x \in ToSet(<<a, b>>) <=> x = a \/ x = b
  BY <1>2 DEF ToSet
<1> QED  BY <1>1, <1>3

\* Where nothing is to be restored the one write leaves nothing at the client.
LEMMA SwitchedOff ==
  ASSUME platform \in AllPlatforms, NEW s, IsSetting(s)
  PROVE  Len(SetProxy(FALSE)) = 1 /\ ~AtClient(Wrote(Head(SetProxy(FALSE)), s))
<1>1. CASE platform = "windows"
  <2>1. Keys = {"ProxyEnable", "ProxyServer", "ProxyOverride"}
    BY <1>1, KeysOf
  <2>2. SetProxy(FALSE) = <<[ProxyEnable |-> "0"]>>
    BY <1>1 DEF SetProxy, SetWindows, Macos
  <2>3. Wrote([ProxyEnable |-> "0"], s)["ProxyEnable"] = "0"
    BY <2>1 DEF Wrote, IsSetting
  <2>4. Effective(Wrote([ProxyEnable |-> "0"], s)) = <<>>
    BY <1>1, <2>3 DEF Effective, Macos
  <2>5. Len(SetProxy(FALSE)) = 1 /\ Head(SetProxy(FALSE)) = [ProxyEnable |-> "0"]
    BY <2>2, OnlyCall
  <2> QED  BY <2>4, <2>5, ToSetOf DEF AtClient
<1>2. CASE platform = "linux"
  <2>1. Keys = {"mode", "host", "port"}
    BY <1>2, KeysOf
  <2>2. SetProxy(FALSE) = <<[mode |-> "none"]>>
    BY <1>2 DEF SetProxy, SetLinux, Macos
  <2>3. Wrote([mode |-> "none"], s)["mode"] = "none"
    BY <2>1 DEF Wrote, IsSetting
  <2>4. Effective(Wrote([mode |-> "none"], s)) = <<>>
    BY <1>2, <2>3 DEF Effective, Macos
  <2>5. Len(SetProxy(FALSE)) = 1 /\ Head(SetProxy(FALSE)) = [mode |-> "none"]
    BY <2>2, OnlyCall
  <2> QED  BY <2>4, <2>5, ToSetOf DEF AtClient
<1>3. CASE platform \in Macos
  <2> DEFINE w == Heard([web |-> "off"], [web |-> "off", secure |-> "off"])
             t == Wrote(w, s)
             u == IF t["secure"] = "on" THEN t["secureServer"] ELSE ""
  <2>1. Keys = {"web", "webServer", "secure", "secureServer"}
    BY <1>3, KeysOf
  <2>2. SetProxy(FALSE) = <<w>>
    BY <1>3 DEF SetProxy, SetMacos, Macos
  <2>3. "web" \in DOMAIN w /\ w["web"] = "off" /\ "secureServer" \notin DOMAIN w
        /\ (platform = "macos" => "secure" \in DOMAIN w /\ w["secure"] = "off")
    BY DEF Heard
  <2>4. DOMAIN s = Keys
    BY DEF IsSetting
  <2> HIDE DEF w
  <2>5. t["web"] = "off" /\ (platform = "macos" => t["secure"] = "off")
        /\ t["secureServer"] = s["secureServer"]
    BY <2>1, <2>3, <2>4 DEF Wrote
  <2>6. platform = "macos-first" => t["secureServer"] \notin {Local, Server}
    BY <2>1, <2>4, <2>5, ValuesOf DEF IsSetting, Fits
  <2> HIDE DEF t
  <2>7. Effective(t) = <<"", u>>
    BY <1>3, <2>5 DEF Effective, Macos
  <2>8. u \notin {Local, Server} /\ "" \notin {Local, Server}
    BY <1>3, <2>5, <2>6 DEF Macos, Local, Server
  <2> HIDE DEF u
  <2>9. ToSet(<<"", u>>) = {"", u}
    BY ToSetOf
  <2>10. Len(SetProxy(FALSE)) = 1 /\ Head(SetProxy(FALSE)) = w
    BY <2>2, OnlyCall
  <2> QED  BY <2>7, <2>8, <2>9, <2>10 DEF AtClient, t
<1> QED  BY <1>1, <1>2, <1>3, KeysOf

LEMMA GivesCalls ==
  ASSUME NEW s
  PROVE  /\ Gives(<<>>, s)
         /\ \A a : (\A k \in DOMAIN a : a[k] = s[k]) => Gives(<<a>>, s)
         /\ \A a, b : (\A k \in DOMAIN a : a[k] = s[k]) /\ (\A k \in DOMAIN b : b[k] = s[k]) =>
              Gives(<<a, b>>, s)
         /\ \A a, b, c : (\A k \in DOMAIN a : a[k] = s[k]) /\ (\A k \in DOMAIN b : b[k] = s[k])
                /\ (\A k \in DOMAIN c : c[k] = s[k]) =>
              Gives(<<a, b, c>>, s)
  BY DEF Gives

LEMMA IfSetCalls ==
  ASSUME NEW s, IsSetting(s), NEW k \in Keys
  PROVE  /\ Makes(IfSet(k, s[k])) /\ Gives(IfSet(k, s[k]), s)
         /\ s[k] # "" => Written(IfSet(k, s[k]), k)
<1> DEFINE v == s[k]
           w == [x \in {k} |-> v]
<1>1. v \in Texts /\ v \in Values(k)
  BY DEF IsSetting, Fits
<1>2. IsWrite(w)
  BY <1>1, OneKey
<1>3. \A x \in DOMAIN w : w[x] = s[x]
  OBVIOUS
<1>4. Written(<<w>>, k)
  BY DEF Written
<1>5. IfSet(k, v) = IF v = "" THEN <<>> ELSE <<w>>
  BY DEF IfSet
<1> HIDE DEF v, w
<1>6. Makes(<<w>>) /\ Makes(<<>>)
  BY <1>2, Calls
<1>7. Gives(<<w>>, s) /\ Gives(<<>>, s)
  BY <1>3, GivesCalls
<1>8. Makes(IfSet(k, v)) /\ Gives(IfSet(k, v), s) /\ (v # "" => Written(IfSet(k, v), k))
  BY <1>4, <1>5, <1>6, <1>7
<1> QED  BY <1>8 DEF v

LEMMA WrittenCalls ==
  ASSUME NEW k
  PROVE  /\ ~Written(<<>>, k)
         /\ \A a : Written(<<a>>, k) <=> k \in DOMAIN a
         /\ \A a, b : Written(<<a, b>>, k) <=> k \in DOMAIN a \/ k \in DOMAIN b
         /\ \A a, b, c : Written(<<a, b, c>>, k) <=>
              k \in DOMAIN a \/ k \in DOMAIN b \/ k \in DOMAIN c
<1>1. ~Written(<<>>, k)
  BY DEF Written
<1>2. ASSUME NEW a  PROVE Written(<<a>>, k) <=> k \in DOMAIN a
  BY DEF Written
<1>3. ASSUME NEW a, NEW b  PROVE Written(<<a, b>>, k) <=> k \in DOMAIN a \/ k \in DOMAIN b
  <2>1. <<a, b>>[1] = a /\ <<a, b>>[2] = b /\ 1..Len(<<a, b>>) = {1, 2}
    OBVIOUS
  <2> QED  BY <2>1 DEF Written
<1>4. ASSUME NEW a, NEW b, NEW c
      PROVE  Written(<<a, b, c>>, k) <=> k \in DOMAIN a \/ k \in DOMAIN b \/ k \in DOMAIN c
  <2>1. <<a, b, c>>[1] = a /\ <<a, b, c>>[2] = b /\ <<a, b, c>>[3] = c
        /\ 1..Len(<<a, b, c>>) = {1, 2, 3}
    OBVIOUS
  <2> QED  BY <2>1 DEF Written
<1> QED  BY <1>1, <1>2, <1>3, <1>4

\* On Windows: what is on or off, and what else is set.
LEMMA WindowsCalls ==
  ASSUME platform = "windows", NEW s, IsSetting(s)
  PROVE  /\ Makes(RestoreBackup(s)) /\ RestoreBackup(s) # <<>> /\ Gives(RestoreBackup(s), s)
         /\ Written(RestoreBackup(s), "ProxyEnable")
         /\ s["ProxyServer"] # "" => Written(RestoreBackup(s), "ProxyServer")
         /\ s["ProxyOverride"] # "" => Written(RestoreBackup(s), "ProxyOverride")
<1> DEFINE v == s["ProxyEnable"]
           a == <<[ProxyEnable |-> v]>>
           b == IfSet("ProxyServer", s["ProxyServer"])
           c == IfSet("ProxyOverride", s["ProxyOverride"])
<1>1. Keys = {"ProxyEnable", "ProxyServer", "ProxyOverride"}
  BY KeysOf DEF AllPlatforms
<1>2. RestoreBackup(s) = (a \o b) \o c
  BY DEF RestoreBackup, ApplyWindows, Macos
<1>3. Makes(b) /\ Gives(b, s) /\ (s["ProxyServer"] # "" => Written(b, "ProxyServer"))
  BY <1>1, IfSetCalls
<1>4. Makes(c) /\ Gives(c, s) /\ (s["ProxyOverride"] # "" => Written(c, "ProxyOverride"))
  BY <1>1, IfSetCalls
<1>5. v \in Texts /\ v \in Values("ProxyEnable")
  BY <1>1 DEF IsSetting, Fits
<1>6. IsWrite([ProxyEnable |-> v])
  BY <1>1, <1>5, OneKeyRecords
<1>7. DOMAIN [ProxyEnable |-> v] = {"ProxyEnable"}
      /\ \A k \in DOMAIN [ProxyEnable |-> v] : [ProxyEnable |-> v][k] = s[k]
  OBVIOUS
<1>8. Makes(a) /\ a # <<>> /\ Gives(a, s) /\ Written(a, "ProxyEnable")
  BY <1>6, <1>7, Calls, GivesCalls, WrittenCalls
<1> HIDE DEF a, b, c
<1>9. Makes(a \o b) /\ a \o b # <<>> /\ Gives(a \o b, s) /\ Written(a \o b, "ProxyEnable")
      /\ (s["ProxyServer"] # "" => Written(a \o b, "ProxyServer"))
  BY <1>3, <1>8, Sequence
<1> QED  BY <1>2, <1>4, <1>9, Sequence

\* On Linux, what a manual proxy is; else there is none.
LEMMA LinuxCalls ==
  ASSUME platform = "linux", NEW s, IsSetting(s)
  PROVE  /\ Makes(RestoreBackup(s)) /\ RestoreBackup(s) # <<>>
         /\ Restorable(s) => Gives(RestoreBackup(s), s)
         /\ Written(RestoreBackup(s), "mode")
         /\ s["mode"] = "manual" => Written(RestoreBackup(s), "host") /\ Written(RestoreBackup(s), "port")
<1>1. Keys = {"mode", "host", "port"}
  BY KeysOf DEF AllPlatforms
<1>2. /\ s["mode"] \in {"manual", "none", "auto"} /\ s["host"] \in Texts /\ s["port"] \in Texts
      /\ s["host"] \in Values("host") /\ s["port"] \in Values("port")
  BY <1>1, ValuesOf DEF IsSetting, Fits
<1>3. CASE s["mode"] = "manual"
  <2> DEFINE a == [host |-> s["host"]]
             b == [port |-> s["port"]]
             c == [mode |-> "manual"]
  <2>1. RestoreBackup(s) = <<a, b, c>>
    BY <1>3 DEF RestoreBackup, ApplyLinux, Macos
  <2>2. IsWrite(a) /\ IsWrite(b) /\ IsWrite(c)
    BY <1>1, <1>2, ValuesOf, TextsOf, OneKeyRecords
  <2>3. DOMAIN a = {"host"} /\ DOMAIN b = {"port"} /\ DOMAIN c = {"mode"}
        /\ a["host"] = s["host"] /\ b["port"] = s["port"] /\ c["mode"] = s["mode"]
    BY <1>3
  <2> HIDE DEF a, b, c
  <2>4. Makes(<<a, b, c>>) /\ <<a, b, c>> # <<>>
    BY <2>2, Calls
  <2>5. Gives(<<a, b, c>>, s)
    BY <2>3, GivesCalls
  <2>6. \A k \in {"mode", "host", "port"} : Written(<<a, b, c>>, k)
    BY <2>3, WrittenCalls
  <2> QED  BY <2>1, <2>4, <2>5, <2>6
<1>4. CASE s["mode"] # "manual"
  <2> DEFINE a == [mode |-> "none"]
  <2>1. RestoreBackup(s) = <<a>>
    BY <1>4 DEF RestoreBackup, ApplyLinux, Macos
  <2>2. IsWrite(a)
    BY <1>1, ValuesOf, TextsOf, OneKeyRecords
  <2>3. DOMAIN a = {"mode"} /\ a["mode"] = "none"
    OBVIOUS
  <2>4. Restorable(s) => s["mode"] = "none"
    BY <1>2, <1>4 DEF Restorable, Macos
  <2> HIDE DEF a
  <2> QED  BY <1>4, <2>1, <2>2, <2>3, <2>4, Calls, GivesCalls, WrittenCalls
<1> QED  BY <1>3, <1>4

\* On macOS, each kind of traffic, with its server where it is on.
LEMMA MacosCalls ==
  ASSUME platform \in Macos, NEW s, IsSetting(s)
  PROVE  /\ Makes(RestoreBackup(s)) /\ RestoreBackup(s) # <<>> /\ Gives(RestoreBackup(s), s)
         /\ Written(RestoreBackup(s), "web") /\ Written(RestoreBackup(s), "secure")
         /\ s["web"] = "on" => Written(RestoreBackup(s), "webServer")
         /\ s["secure"] = "on" => Written(RestoreBackup(s), "secureServer")
<1> DEFINE a == IF s["web"] = "on" THEN [web |-> "on", webServer |-> s["webServer"]]
                ELSE [web |-> "off"]
           b == IF s["secure"] = "on" THEN [secure |-> "on", secureServer |-> s["secureServer"]]
                ELSE [secure |-> "off"]
<1>1. Keys = {"web", "webServer", "secure", "secureServer"}
  BY KeysOf DEF AllPlatforms, Macos
<1>2. RestoreBackup(s) = <<a, b>>
  BY DEF RestoreBackup, ApplyMacos, Macos
<1>3. /\ s["web"] \in {"on", "off"} /\ s["secure"] \in {"on", "off"}
      /\ s["webServer"] \in Texts /\ s["secureServer"] \in Texts
      /\ s["webServer"] \in Values("webServer") /\ s["secureServer"] \in Values("secureServer")
  BY <1>1, ValuesOf DEF IsSetting, Fits
<1>4. /\ DOMAIN a = IF s["web"] = "on" THEN {"web", "webServer"} ELSE {"web"}
      /\ a["web"] = s["web"] /\ (s["web"] = "on" => a["webServer"] = s["webServer"])
  BY <1>3
<1>5. /\ DOMAIN b = IF s["secure"] = "on" THEN {"secure", "secureServer"} ELSE {"secure"}
      /\ b["secure"] = s["secure"] /\ (s["secure"] = "on" => b["secureServer"] = s["secureServer"])
  BY <1>3
<1>6. a \in [DOMAIN a -> Texts] /\ b \in [DOMAIN b -> Texts]
  <2>1. s["web"] = "on" => a \in [DOMAIN a -> Texts]
    BY <1>3, <1>4, RecordSets, TextsOf
  <2>2. s["web"] # "on" => a \in [DOMAIN a -> Texts]
    BY <1>3, <1>4, TextsOf
  <2>3. s["secure"] = "on" => b \in [DOMAIN b -> Texts]
    BY <1>3, <1>5, RecordSets, TextsOf
  <2>4. s["secure"] # "on" => b \in [DOMAIN b -> Texts]
    BY <1>3, <1>5, TextsOf
  <2> QED  BY <2>1, <2>2, <2>3, <2>4
<1> HIDE DEF a, b
<1>7. a["web"] \in Values("web") /\ b["secure"] \in Values("secure")
  BY <1>3, <1>4, <1>5, ValuesOf
<1>8. Fits(a) /\ Fits(b)
  BY <1>3, <1>4, <1>5, <1>7 DEF Fits
<1>9. DOMAIN a \in SUBSET Keys /\ DOMAIN b \in SUBSET Keys
  BY <1>1, <1>4, <1>5
<1>10. IsWrite(a) /\ IsWrite(b)
  BY <1>6, <1>8, <1>9, SomeKeys
<1>11. (\A k \in DOMAIN a : a[k] = s[k]) /\ (\A k \in DOMAIN b : b[k] = s[k])
  BY <1>4, <1>5
<1>12. Makes(<<a, b>>) /\ <<a, b>> # <<>>
  BY <1>10, Calls
<1>13. Gives(<<a, b>>, s)
  BY <1>11, GivesCalls
<1>14. \A k \in DOMAIN a \cup DOMAIN b : Written(<<a, b>>, k)
  BY WrittenCalls
<1> QED  BY <1>2, <1>4, <1>5, <1>12, <1>13, <1>14

LEMMA ApplyCalls ==
  ASSUME platform \in AllPlatforms, NEW s, IsSetting(s)
  PROVE  Makes(RestoreBackup(s)) /\ RestoreBackup(s) # <<>> /\ (Restorable(s) => Gives(RestoreBackup(s), s))
  BY KeysOf, WindowsCalls, LinuxCalls, MacosCalls

\* Settings that hold what a restoration writes are as effective as the backup.
LEMMA AppliedIsEnough ==
  ASSUME platform \in AllPlatforms, NEW s, IsSetting(s), Restorable(s), NEW t, IsSetting(t),
         \A k \in Keys : Written(RestoreBackup(s), k) => t[k] = s[k]
  PROVE  Effective(t) = Effective(s)
<1>1. CASE platform = "windows"
  <2>1. Keys = {"ProxyEnable", "ProxyServer", "ProxyOverride"}
    BY <1>1, KeysOf
  <2>2. t["ProxyEnable"] = s["ProxyEnable"] /\ s["ProxyEnable"] \in {"0", "1"}
    BY <1>1, <2>1, WindowsCalls, ValuesOf DEF IsSetting, Fits
  <2>3. s["ProxyEnable"] = "1" => s["ProxyServer"] # "" /\ s["ProxyOverride"] # ""
    BY <1>1 DEF Restorable, Macos
  <2>4. s["ProxyEnable"] = "1" =>
          t["ProxyServer"] = s["ProxyServer"] /\ t["ProxyOverride"] = s["ProxyOverride"]
    BY <1>1, <2>1, <2>3, WindowsCalls
  <2>5. \A u : Effective(u) =
          IF u["ProxyEnable"] = "0" THEN <<>> ELSE <<u["ProxyServer"], u["ProxyOverride"]>>
    BY <1>1 DEF Effective, Macos
  <2> QED  BY <2>2, <2>4, <2>5
<1>2. CASE platform = "linux"
  <2>1. Keys = {"mode", "host", "port"}
    BY <1>2, KeysOf
  <2>2. t["mode"] = s["mode"]
    BY <1>2, <2>1, LinuxCalls
  <2>3. s["mode"] = "manual" => t["host"] = s["host"] /\ t["port"] = s["port"]
    BY <1>2, <2>1, LinuxCalls
  <2>4. \A u : Effective(u) =
          IF u["mode"] = "manual" THEN <<u["host"], u["port"]>>
          ELSE IF u["mode"] = "none" THEN <<>> ELSE <<u["mode"]>>
    BY <1>2 DEF Effective, Macos
  <2> QED  BY <2>2, <2>3, <2>4
<1>3. CASE platform \in Macos
  <2>1. Keys = {"web", "webServer", "secure", "secureServer"}
    BY <1>3, KeysOf
  <2>2. t["web"] = s["web"] /\ t["secure"] = s["secure"]
    BY <1>3, <2>1, MacosCalls
  <2>3. /\ s["web"] = "on" => t["webServer"] = s["webServer"]
        /\ s["secure"] = "on" => t["secureServer"] = s["secureServer"]
    BY <1>3, <2>1, MacosCalls
  <2>4. \A u : Effective(u) =
          <<IF u["web"] = "on" THEN u["webServer"] ELSE "",
            IF u["secure"] = "on" THEN u["secureServer"] ELSE "">>
    BY <1>3 DEF Effective, Macos
  <2> QED  BY <2>2, <2>3, <2>4
<1> QED  BY <1>1, <1>2, <1>3, KeysOf

\* So what has the effect of a setting that can be given back can be given back.
LEMMA EffectIsRestorable ==
  ASSUME platform \in AllPlatforms, NEW s, IsSetting(s), NEW t, IsSetting(t), Restorable(t),
         Effective(s) = Effective(t)
  PROVE  Restorable(s)
<1>1. CASE platform = "windows"
  <2>1. \A u : Effective(u) =
          IF u["ProxyEnable"] = "0" THEN <<>> ELSE <<u["ProxyServer"], u["ProxyOverride"]>>
    BY <1>1 DEF Effective, Macos
  <2>2. \A u : Restorable(u) <=>
          (u["ProxyEnable"] = "1" => u["ProxyServer"] # "" /\ u["ProxyOverride"] # "")
    BY <1>1 DEF Restorable, Macos
  <2>3. s["ProxyEnable"] \in {"0", "1"} /\ t["ProxyEnable"] \in {"0", "1"}
    BY <1>1, KeysOf, ValuesOf DEF IsSetting, Fits
  <2>4. \A a, b : <<a, b>> # <<>>
    OBVIOUS
  <2>5. \A a, b, c, d : <<a, b>> = <<c, d>> => a = c /\ b = d
    OBVIOUS
  <2> QED  BY <2>1, <2>2, <2>3, <2>4, <2>5
<1>2. CASE platform = "linux"
  <2>1. \A u : Effective(u) =
          IF u["mode"] = "manual" THEN <<u["host"], u["port"]>>
          ELSE IF u["mode"] = "none" THEN <<>> ELSE <<u["mode"]>>
    BY <1>2 DEF Effective, Macos
  <2>2. \A u : Restorable(u) <=> u["mode"] # "auto"
    BY <1>2 DEF Restorable, Macos
  <2>3. s["mode"] \in {"manual", "none", "auto"} /\ t["mode"] \in {"manual", "none", "auto"}
    BY <1>2, KeysOf, ValuesOf DEF IsSetting, Fits
  <2>4. \A a, b, c : <<c>> # <<a, b>> /\ <<c>> # <<>>
    OBVIOUS
  <2> QED  BY <2>1, <2>2, <2>3, <2>4
<1>3. CASE platform \in Macos
  BY <1>3 DEF Restorable, Macos
<1> QED  BY <1>1, <1>2, <1>3, KeysOf

\* The platform is what it was.
LEMMA PlatformStays ==
  ASSUME platform' = platform
  PROVE  /\ Keys' = Keys
         /\ \A s : IsSetting(s)' <=> IsSetting(s)
         /\ \A s : Effective(s)' = Effective(s)
         /\ \A s : Restorable(s)' <=> Restorable(s)
         /\ \A s : AtClient(s)' <=> AtClient(s)
         /\ \A s : RestoreBackup(s)' = RestoreBackup(s)
         /\ \A on \in BOOLEAN : SetProxy(on)' = SetProxy(on)
         /\ \A c : IsCall(c)' <=> IsCall(c)
<1>1. Keys' = Keys
  BY DEF Keys
<1>2. \A k : Values(k)' = Values(k)
  BY DEF Values
<1>3. \A f : Fits(f)' <=> Fits(f)
  BY <1>2 DEF Fits
<1>4. \A s : IsSetting(s)' <=> IsSetting(s)
  BY <1>1, <1>3 DEF IsSetting
<1>5. \A s : Effective(s)' = Effective(s)
  BY DEF Effective
<1>6. \A s : Restorable(s)' <=> Restorable(s)
  BY DEF Restorable
<1>7. \A s : AtClient(s)' <=> AtClient(s)
  BY <1>5 DEF AtClient
<1>8. \A s : RestoreBackup(s)' = RestoreBackup(s)
  BY DEF RestoreBackup
<1>9. \A on \in BOOLEAN : SetProxy(on)' = SetProxy(on)
  BY DEF SetProxy, SetMacos, Heard
<1>10. KeyWrites' = KeyWrites
  BY <1>1 DEF KeyWrites
<1>11. \A c : IsCall(c)' <=> IsCall(c)
  BY <1>3, <1>10 DEF IsCall, Makes
<1> QED  BY <1>1, <1>4, <1>5, <1>6, <1>7, <1>8, <1>9, <1>11

LEMMA StateHolds ==
  ASSUME platform' = platform, platform \in AllPlatforms, uncaptured' \in BOOLEAN,
         client' = [runs |-> client'.runs, proxyOn |-> client'.proxyOn],
         GoodProxy(settings', saved', own', uncaptured', client'.proxyOn, call', last')
  PROVE  ProxyInv'
<1>1. \A c, s, backup : Restoring(c, s, backup)' <=> Restoring(c, s, backup)
  BY PlatformStays DEF Restoring
<1>2. \A s, backup, user, on, c :
        Captured(s, backup, user, on, c)' <=> Captured(s, backup, user, on, c)
  BY PlatformStays DEF Captured
<1>3. \A s, backup, user, lost, on, c, ended :
        GoodProxy(s, backup, user, lost, on, c, ended)' <=>
          GoodProxy(s, backup, user, lost, on, c, ended)
  BY <1>1, <1>2, PlatformStays DEF GoodProxy
<1> QED  BY <1>3 DEF ProxyInv

LEMMA NoCallIsACall == IsCall(NoCall) /\ NoCall.op = "none" /\ NoCall.rest = <<>>
  BY Calls DEF IsCall, NoCall

\* An operation that is called begins with writes.
LEMMA CallBegins ==
  ASSUME NEW op \in {"enable", "disable", "stop"}, NEW rest, Makes(rest), rest # <<>>
  PROVE  /\ IsCall([op |-> op, rest |-> rest]) /\ [op |-> op, rest |-> rest] # NoCall
         /\ [op |-> op, rest |-> rest].op = op /\ [op |-> op, rest |-> rest].rest = rest
  BY DEF IsCall, NoCall

LEMMA ProxyInitHolds ==
  ASSUME NEW platforms \in SUBSET AllPlatforms, NEW starts, ProxyInit(platforms, starts)
  PROVE  ProxyInv
<1>1. platform \in AllPlatforms /\ settings \in UserSettings(platform) /\ own = settings
      /\ saved = Absent /\ client = Away /\ call = NoCall /\ uncaptured = FALSE /\ last = "none"
  BY DEF ProxyInit
<1>2. IsSetting(settings) /\ IsSetting(own)
  BY <1>1, UserSettingsFit
<1>3. client.proxyOn = FALSE /\ client = [runs |-> client.runs, proxyOn |-> client.proxyOn]
  BY <1>1 DEF Away
<1>4. GoodProxy(settings, saved, own, uncaptured, client.proxyOn, call, last)
  BY <1>1, <1>2, <1>3, NoCallIsACall DEF GoodProxy, Restoring, Captured
<1> QED  BY <1>1, <1>3, <1>4 DEF ProxyInv

\* The writes of a restoration, or of a proxy that is switched off without a backup.
LEMMA DisableBegins ==
  ASSUME platform \in AllPlatforms, IsSetting(settings), saved = Absent \/ IsSetting(saved),
         NEW op \in {"disable", "stop"}
  PROVE  LET c == [op |-> op, rest |-> DisableCalls] IN
         IsCall(c) /\ c # NoCall /\ Restoring(c, settings, saved)
<1> DEFINE c == [op |-> op, rest |-> DisableCalls]
<1>1. CASE saved = Absent
  <2>1. DisableCalls = SetProxy(FALSE)
    BY <1>1 DEF DisableCalls
  <2>2. IsCall(c) /\ c # NoCall /\ c.rest = SetProxy(FALSE)
    BY <2>1, SwitchCalls, CallBegins
  <2> HIDE DEF c
  <2>3. Restoring(c, settings, saved)
    BY <1>1, <2>2 DEF Restoring
  <2> QED  BY <2>2, <2>3 DEF c
<1>2. CASE saved # Absent
  <2>1. DisableCalls = RestoreBackup(saved)
    BY <1>2 DEF DisableCalls
  <2>2. IsCall(c) /\ c # NoCall /\ c.rest = RestoreBackup(saved)
    BY <1>2, <2>1, ApplyCalls, CallBegins
  <2> HIDE DEF c
  <2>3. Restoring(c, settings, saved)
    BY <1>2, <2>2, ApplyCalls DEF Restoring
  <2> QED  BY <2>2, <2>3 DEF c
<1> QED  BY <1>1, <1>2

LEMMA SettingIsPresent ==
  ASSUME platform \in AllPlatforms, Absent \notin AllSettings, NEW s, IsSetting(s)
  PROVE  s # Absent
  BY KeysOf DEF IsSetting, AllSettings

LEMMA EnableHolds ==
  ASSUME ProxyInv, Absent \notin AllSettings, Enable
  PROVE  ProxyInv'
<1>1. /\ call = NoCall /\ ~client.proxyOn /\ UNCHANGED <<platform, settings, client, own>>
      /\ call' = [op |-> "enable", rest |-> SetProxy(TRUE)] /\ last' = "none"
  BY DEF Enable
<1>2. IsCall(call') /\ call' # NoCall /\ call'.op = "enable"
  BY <1>1, SwitchCalls, CallBegins DEF ProxyInv
<1>3. Restoring(call', settings', saved')
  BY <1>2 DEF Restoring
<1>4. settings # Absent
  BY SettingIsPresent DEF ProxyInv, GoodProxy
<1>5. CASE saved' = CaptureBackup /\ UNCHANGED uncaptured
  <2>1. saved' = IF saved # Absent THEN saved ELSE settings
    BY <1>5 DEF CaptureBackup
  <2>2. ~uncaptured => Captured(settings', saved', own', client'.proxyOn, call')
    BY <1>1, <1>4, <2>1 DEF ProxyInv, GoodProxy, Captured
  <2>3. GoodProxy(settings', saved', own', uncaptured', client'.proxyOn, call', last')
    BY <1>1, <1>2, <1>3, <1>5, <2>1, <2>2 DEF ProxyInv, GoodProxy
  <2> QED  BY <1>1, <1>5, <2>3, StateHolds DEF ProxyInv
<1>6. CASE saved = Absent /\ uncaptured' = TRUE /\ UNCHANGED saved
  <2>1. GoodProxy(settings', saved', own', uncaptured', client'.proxyOn, call', last')
    BY <1>1, <1>2, <1>3, <1>6 DEF ProxyInv, GoodProxy
  <2> QED  BY <1>1, <1>6, <2>1, StateHolds DEF ProxyInv
<1> QED  BY <1>5, <1>6 DEF Enable

LEMMA DisableHolds ==
  ASSUME ProxyInv, Disable
  PROVE  ProxyInv'
<1>1. PICK op \in {"disable", "stop"} : call' = [op |-> op, rest |-> DisableCalls]
  BY DEF Disable
<1>2. client.proxyOn /\ last' = "none"
      /\ UNCHANGED <<platform, settings, saved, client, own, uncaptured>>
  BY DEF Disable
<1>3. IsCall(call') /\ call' # NoCall /\ Restoring(call', settings, saved)
  BY <1>1, DisableBegins DEF ProxyInv, GoodProxy
<1>4. ~uncaptured => Captured(settings, saved, own, client.proxyOn, call')
  BY <1>2 DEF ProxyInv, GoodProxy, Captured
<1>5. GoodProxy(settings', saved', own', uncaptured', client'.proxyOn, call', last')
  BY <1>2, <1>3, <1>4 DEF ProxyInv, GoodProxy
<1> QED  BY <1>2, <1>5, StateHolds DEF ProxyInv

LEMMA OpenHolds ==
  ASSUME ProxyInv, OpenClient
  PROVE  ProxyInv'
<1>1. client' = [runs |-> TRUE, proxyOn |-> FALSE] /\ last' = "none"
      /\ UNCHANGED <<platform, settings, saved, own, uncaptured>>
      /\ call' = IF saved = Absent THEN NoCall ELSE [op |-> "stop", rest |-> DisableCalls]
  BY DEF OpenClient, Away
<1>2. IsCall(call') /\ Restoring(call', settings, saved) /\ (saved = Absent => call' = NoCall)
  <2>1. CASE saved = Absent
    BY <1>1, <2>1, NoCallIsACall DEF Restoring
  <2>2. CASE saved # Absent
    BY <1>1, <2>2, DisableBegins DEF ProxyInv, GoodProxy
  <2> QED  BY <2>1, <2>2
<1>3. ~uncaptured => Captured(settings, saved, own, FALSE, call')
  BY <1>2 DEF ProxyInv, GoodProxy, Captured
<1>4. client'.proxyOn = FALSE /\ client' = [runs |-> client'.runs, proxyOn |-> client'.proxyOn]
  BY <1>1
<1>5. GoodProxy(settings', saved', own', uncaptured', FALSE, call', last')
  BY <1>1, <1>2, <1>3 DEF ProxyInv, GoodProxy
<1> QED  BY <1>1, <1>4, <1>5, StateHolds DEF ProxyInv

\* A client that stops in the middle keeps what it has saved.
LEMMA StopsHalfway ==
  ASSUME ProxyInv, UNCHANGED <<platform, settings, saved, own, uncaptured>>,
         call' = NoCall, last' \in {"none", "failed"},
         client' = [runs |-> client'.runs, proxyOn |-> client'.proxyOn],
         client'.proxyOn => call # NoCall
  PROVE  ProxyInv'
<1>1. IsCall(call') /\ Restoring(call', settings, saved)
  BY NoCallIsACall DEF Restoring
<1>2. ~uncaptured => Captured(settings, saved, own, client'.proxyOn, call')
  BY DEF ProxyInv, GoodProxy, Captured
<1>3. GoodProxy(settings', saved', own', uncaptured', client'.proxyOn, call', last')
  BY <1>1, <1>2 DEF ProxyInv, GoodProxy
<1> QED  BY <1>3, StateHolds DEF ProxyInv

LEMMA CallFailsHolds ==
  ASSUME ProxyInv, CallFails
  PROVE  ProxyInv'
<1>1. client' = [runs |-> client'.runs, proxyOn |-> client'.proxyOn]
  BY DEF CallFails, ProxyInv
<1> QED  BY <1>1, StopsHalfway DEF CallFails

LEMMA DiesHolds ==
  ASSUME ProxyInv, Dies
  PROVE  ProxyInv'
<1>1. client' = [runs |-> client'.runs, proxyOn |-> client'.proxyOn] /\ client'.proxyOn = FALSE
  BY DEF Dies, Away
<1> QED  BY <1>1, StopsHalfway DEF Dies

LEMMA UserHolds ==
  ASSUME ProxyInv, UserChooses
  PROVE  ProxyInv'
<1>1. /\ ~client.proxyOn /\ call = NoCall /\ saved = Absent
      /\ settings' \in UserSettings(platform) /\ own' = settings'
      /\ uncaptured' = FALSE /\ last' = "none"
      /\ UNCHANGED <<platform, saved, client, call>>
  BY DEF UserChooses
<1>2. IsSetting(settings')
  BY <1>1, UserSettingsFit DEF ProxyInv
<1>3. Restoring(call', settings', saved') /\ IsCall(call')
  BY <1>1, NoCallIsACall DEF Restoring
<1>4. Captured(settings', saved', own', client'.proxyOn, call')
  BY <1>1 DEF Captured
<1>5. GoodProxy(settings', saved', own', uncaptured', client'.proxyOn, call', last')
  BY <1>1, <1>2, <1>3, <1>4 DEF GoodProxy
<1> QED  BY <1>1, <1>5, StateHolds DEF ProxyInv

\* One write of a restoration: what is left to write still comes from the backup, and
\* what is not left has been written.
LEMMA OneRestored ==
  ASSUME NEW rest, Makes(rest), rest # <<>>, NEW s, IsSetting(s), NEW backup, Gives(rest, backup),
         NEW k \in Keys, s[k] = backup[k] \/ Written(rest, k)
  PROVE  /\ Gives(Tail(rest), backup)
         /\ Wrote(Head(rest), s)[k] = backup[k] \/ Written(Tail(rest), k)
<1>1. rest \in Seq(KeyWrites) /\ Len(rest) \in Nat /\ Len(rest) > 0 /\ Head(rest) = rest[1]
  BY DEF Makes
<1>2. /\ Len(Tail(rest)) = Len(rest) - 1
      /\ \A i \in 1..Len(Tail(rest)) : Tail(rest)[i] = rest[i + 1] /\ i + 1 \in 1..Len(rest)
  BY <1>1
<1>3. Gives(Tail(rest), backup)
  BY <1>2 DEF Gives
<1>4. \A x \in DOMAIN rest[1] : rest[1][x] = backup[x]
  BY <1>1 DEF Gives
<1>5. k \in DOMAIN s
  BY DEF IsSetting
<1>6. CASE k \in DOMAIN rest[1]
  BY <1>1, <1>3, <1>4, <1>5, <1>6 DEF Wrote
<1>7. CASE k \notin DOMAIN rest[1]
  <2>1. Wrote(Head(rest), s)[k] = s[k]
    BY <1>1, <1>5, <1>7 DEF Wrote
  <2>2. ASSUME NEW i \in 1..Len(rest), k \in DOMAIN rest[i]
        PROVE  Written(Tail(rest), k)
    <3>1. i - 1 \in 1..Len(Tail(rest)) /\ (i - 1) + 1 = i
      BY <1>1, <1>2, <1>7, <2>2
    <3>2. Tail(rest)[i - 1] = rest[i]
      BY <1>2, <3>1
    <3> QED  BY <2>2, <3>1, <3>2 DEF Written
  <2> QED  BY <1>3, <2>1, <2>2 DEF Written
<1> QED  BY <1>6, <1>7

LEMMA TailOfCalls ==
  ASSUME NEW rest \in Seq(KeyWrites), Len(rest) > 1
  PROVE  /\ Tail(rest) \in Seq(KeyWrites) /\ Tail(rest) # <<>> /\ Len(Tail(rest)) = Len(rest) - 1
         /\ \A i \in 1..Len(Tail(rest)) : Tail(rest)[i] = rest[i + 1] /\ i + 1 \in 1..Len(rest)
  OBVIOUS

LEMMA WriteHolds ==
  ASSUME ProxyInv, Absent \notin AllSettings, Write
  PROVE  ProxyInv'
<1> DEFINE rest == call.rest
           s == Wrote(Head(rest), settings)
<1>1. call # NoCall /\ settings' = s /\ UNCHANGED <<platform, own, uncaptured>>
  BY DEF Write
<1>2. /\ platform \in AllPlatforms /\ IsSetting(settings) /\ IsSetting(own)
      /\ saved = Absent \/ IsSetting(saved)
      /\ IsCall(call) /\ Restoring(call, settings, saved) /\ last = "none"
      /\ ~uncaptured => Captured(settings, saved, own, client.proxyOn, call)
  BY <1>1 DEF ProxyInv, GoodProxy
<1>3. call.op \in {"enable", "disable", "stop"} /\ Makes(rest) /\ rest # <<>>
      /\ call = [op |-> call.op, rest |-> rest]
  BY <1>1, <1>2 DEF IsCall
<1>4. rest \in Seq(KeyWrites) /\ Len(rest) \in Nat /\ Len(rest) > 0 /\ IsWrite(Head(rest))
  BY <1>3 DEF Makes, IsWrite
<1>5. IsSetting(s)
  BY <1>2, <1>4, WriteFits
<1>6. ~uncaptured => saved # Absent /\ (Restorable(own) => Effective(saved) = Effective(own))
  BY <1>1, <1>2 DEF Captured
<1>7. ASSUME call.op # "enable", saved # Absent, Restorable(saved)
      PROVE  /\ Gives(Tail(rest), saved)
             /\ \A k \in Keys :
                  Written(RestoreBackup(saved), k) => s[k] = saved[k] \/ Written(Tail(rest), k)
  <2>1. Gives(rest, saved)
        /\ \A k \in Keys : Written(RestoreBackup(saved), k) => settings[k] = saved[k] \/ Written(rest, k)
    BY <1>2, <1>3, <1>7 DEF Restoring
  <2>2. \E k : k \in Keys
    BY <1>2, KeysOf
  <2>3. \A k \in Keys : settings[k] = saved[k] \/ Written(rest, k) =>
          Gives(Tail(rest), saved) /\ (s[k] = saved[k] \/ Written(Tail(rest), k))
    BY <1>2, <1>3, <2>1, OneRestored
  <2>4. Gives(Tail(rest), saved)
    <3>1. \A i \in 1..Len(Tail(rest)) : Tail(rest)[i] = rest[i + 1] /\ i + 1 \in 1..Len(rest)
      BY <1>4
    <3> QED  BY <2>1, <3>1 DEF Gives
  <2> QED  BY <2>1, <2>3, <2>4
<1> HIDE DEF s
<1>8. CASE Len(rest) > 1
  <2>1. call' = [call EXCEPT !.rest = Tail(rest)] /\ UNCHANGED <<saved, client, last>>
    BY <1>8 DEF Write
  <2>2. call'.op = call.op /\ call'.rest = Tail(rest)
        /\ call' = [op |-> call'.op, rest |-> call'.rest]
    BY <1>3, <2>1
  <2>3. Tail(rest) \in Seq(KeyWrites) /\ Tail(rest) # <<>> /\ Len(Tail(rest)) = Len(rest) - 1
        /\ \A i \in 1..Len(Tail(rest)) : Tail(rest)[i] = rest[i + 1] /\ i + 1 \in 1..Len(rest)
    BY <1>4, <1>8, TailOfCalls
  <2>4. IsCall(call')
    BY <1>3, <2>2, <2>3 DEF IsCall, Makes
  <2>5. ASSUME saved = Absent  PROVE call.op = "enable"
    <3>1. CASE call.op # "enable"
      <4>1. rest = SetProxy(FALSE)
        BY <1>2, <1>3, <2>5, <3>1 DEF Restoring
      <4>2. Len(SetProxy(FALSE)) = 1
        BY <1>2, SwitchedOff
      <4>3. Len(rest) = 1
        BY <4>1, <4>2, Zenon
      <4> QED  BY <1>8, <4>3
    <3> QED  BY <3>1
  <2>6. Restoring(call', settings', saved')
    BY <1>1, <1>3, <1>7, <2>1, <2>2, <2>5 DEF Restoring
  <2>7. ~uncaptured => Captured(settings', saved', own', client'.proxyOn, call')
    BY <1>1, <1>6, <2>1 DEF Captured
  <2>8. GoodProxy(settings', saved', own', uncaptured', client'.proxyOn, call', last')
    BY <1>1, <1>2, <1>5, <2>1, <2>4, <2>6, <2>7 DEF GoodProxy
  <2> QED  BY <1>1, <1>2, <2>1, <2>8, StateHolds DEF ProxyInv
<1>9. CASE ~(Len(rest) > 1)
  <2>1. /\ call' = NoCall
        /\ client' = [client EXCEPT !.proxyOn = call.op = "enable"]
        /\ saved' = IF call.op = "enable" THEN saved ELSE Absent
        /\ last' = IF call.op = "enable" THEN "enabled"
                   ELSE IF saved = Absent THEN "cleared" ELSE "restored"
    BY <1>9 DEF Write
  <2>2. client' = [runs |-> client'.runs, proxyOn |-> client'.proxyOn]
        /\ (client'.proxyOn <=> call.op = "enable")
    BY <2>1 DEF ProxyInv
  <2>3. IsCall(call') /\ Restoring(call', settings', saved')
    BY <2>1, NoCallIsACall DEF Restoring
  <2>4. \A k : ~Written(Tail(rest), k)
    BY <1>4, <1>9 DEF Written
  <2>5. ASSUME ~uncaptured  PROVE Captured(settings', saved', own', client'.proxyOn, call')
    <3>1. CASE call.op = "enable"
      BY <1>1, <1>6, <2>1, <2>5, <3>1 DEF Captured
    <3>2. CASE call.op # "enable"
      <4>1. ASSUME Restorable(own)  PROVE Effective(s) = Effective(own)
        <5>1. Effective(saved) = Effective(own) /\ saved # Absent /\ IsSetting(saved)
          BY <1>2, <1>6, <2>5, <4>1
        <5>2. Restorable(saved)
          BY <1>2, <4>1, <5>1, EffectIsRestorable
        <5>3. \A k \in Keys : Written(RestoreBackup(saved), k) => s[k] = saved[k]
          BY <1>7, <2>4, <3>2, <5>1, <5>2
        <5> QED  BY <1>2, <1>5, <5>1, <5>2, <5>3, AppliedIsEnough
      <4> QED  BY <1>1, <2>1, <2>2, <3>2, <4>1 DEF Captured
    <3> QED  BY <3>1, <3>2
  <2>6. last' = "cleared" => ~AtClient(settings')
    <3> SUFFICES ASSUME last' = "cleared"  PROVE ~AtClient(s)
      BY <1>1
    <3>1. saved = Absent /\ call.op \in {"disable", "stop"}
      BY <1>3, <2>1
    <3>2. rest = SetProxy(FALSE)
      BY <1>2, <3>1 DEF Restoring
    <3> QED  BY <1>2, <3>2, SwitchedOff DEF s
  <2>7. IsSetting(settings') /\ IsSetting(own') /\ (saved' = Absent \/ IsSetting(saved'))
    BY <1>1, <1>2, <1>5, <2>1
  <2>8. GoodProxy(settings', saved', own', uncaptured', client'.proxyOn, call', last')
    BY <1>1, <2>1, <2>3, <2>5, <2>6, <2>7 DEF GoodProxy
  <2> QED  BY <1>1, <1>2, <2>2, <2>8, StateHolds DEF ProxyInv
<1> QED  BY <1>8, <1>9

\* On any of the desktops, whatever call fails and whenever the client dies, however often
\* it starts: the user's own setting is in force or in the backup, and a proxy that was
\* cleared without a backup points at the client no more (system_proxy.rs).
THEOREM DesktopKeepsUserSetting ==
  ASSUME NEW platforms \in SUBSET AllPlatforms, NEW starts, Absent \notin AllSettings
  PROVE  ProxyInit(platforms, starts) /\ [][ProxyNext]_proxyVars => []UserSettingKept
<1>1. ProxyInit(platforms, starts) => ProxyInv
  BY ProxyInitHolds
<1>2. ProxyInv /\ [ProxyNext]_proxyVars => ProxyInv'
  <2> SUFFICES ASSUME ProxyInv, [ProxyNext]_proxyVars  PROVE ProxyInv'
    OBVIOUS
  <2>1. CASE ProxyNext
    BY <2>1, EnableHolds, DisableHolds, OpenHolds, WriteHolds, CallFailsHolds, DiesHolds,
       UserHolds, Absent \notin AllSettings DEF ProxyNext
  <2>2. CASE UNCHANGED proxyVars
    BY <2>2, StateHolds DEF proxyVars, ProxyInv
  <2> QED  BY <2>1, <2>2
<1>3. ProxyInv => UserSettingKept
  BY DEF ProxyInv, GoodProxy, Captured, UserSettingKept
<1> QED  BY <1>1, <1>2, <1>3, PTL

-------------------------------------------------------------------------------
(* The interface: what is shown is of the core that runs, what is typed     *)
(* for a profile goes to it, and what was asked about is done to what the  *)
(* question named.                                                         *)

HasFields(r, fields) == r = [f \in fields |-> r[f]]

SnapFields ==
  {"running", "starting", "busy", "list", "active", "links", "override", "mode", "port", "proxy",
   "groups", "conns", "memory", "logs", "status"}
EngineFields == {"child", "op", "offset", "armed", "overrides"}
CoreFields   == {"run", "alive", "node", "conns", "written"}
ViewFields   == {"client", "matters", "open", "arms", "editor", "row", "member", "conn", "field", "keep"}
ArmFields    == {"delete", "clear", "load", "mode", "closeAll", "stop", "quit"}

Lines == Nat \X Nat

IsSnap(s) ==
  /\ HasFields(s, SnapFields)
  /\ s.list \in Seq(Names)
  /\ s.links \in [Names -> Names \cup {None}]
  /\ s.logs \in Seq(Lines)

IsEngine(e) ==
  /\ HasFields(e, EngineFields)
  /\ e.offset \in Nat
  /\ e.op # None => HasFields(e.op, {"kind", "of", "phase", "restarting"})

IsCore(c) == HasFields(c, CoreFields) /\ c.run \in Nat /\ c.written \in Nat

IsView(u) == HasFields(u, ViewFields) /\ HasFields(u.arms, ArmFields)

\* What the engine is asked for: a link is for the profile it belongs to, and a setting is
\* one of these.
GoodCommand(c) ==
  /\ c = Cmd(c.what, c.of, c.value)
  /\ c.what = "SetProfileUrl" => c.value \in {None, c.of}
  /\ c.what = "UpdateSettings" => c.of \in {"mode", "port"}

GoodQueue(q) ==
  /\ q \in Seq({q[i] : i \in DOMAIN q})
  /\ \A i \in DOMAIN q : GoodCommand(q[i])

GoodLinks(s) == \A n \in Names : s.links[n] \in {None, n}

GoodText(e) ==
  e # None => e = Editor(e.goal, e.of, e.text) /\ e.text \in {None, e.of}

GoodEditor(u) == GoodText(u.editor)

\* Nothing of a core is shown unless it is the one that runs.
ShowsRun(s, child) ==
  /\ s.groups # None => s.running /\ s.groups = [run |-> child, node |-> s.groups.node]
  /\ s.conns.run # 0 => s.running /\ s.conns.run = child
  /\ s.memory # 0 => s.running /\ s.memory = child

\* While a core is shown as running, it is the last that was started and none is on its
\* way, a poll goes on only meanwhile, and its answer is of that core.
RunsOne(e, s, p, c) ==
  /\ s.running => c.run = e.child /\ (e.op # None => e.op.kind # "start")
  /\ p.stage \in DOMAIN NextStage =>
       /\ s.running
       /\ p.answer \notin {None, NoAnswer} => p.answer.run = e.child

\* What has been read of the log is shown.
ReadIsShown(e, s, log) ==
  s.running => e.offset <= Len(log) /\ s.logs = LastOf(SubSeq(log, 1, e.offset), RingSize)

LoopInv ==
  /\ IsSnap(snap) /\ GoodLinks(snap)
  /\ IsCore(core) /\ logFile \in Seq(Lines)
  /\ HasFields(poll, {"stage", "answer"})
  /\ poll.stage \notin DOMAIN NextStage => poll.answer = None
  /\ GoodQueue(queue)
  /\ Alive => /\ IsEngine(engine)
              /\ ShowsRun(snap, engine.child)
              /\ RunsOne(engine, snap, poll, core)
              /\ ReadIsShown(engine, snap, logFile)

\* What is armed has been asked about.
Covered(arms, kind, questions) ==
  /\ arms.delete # None => <<"RemoveProfile", arms.delete>> \in questions
  /\ arms.load # None => <<"SetOverride", arms.load.of>> \in questions
  /\ kind = "desktop" =>
       /\ arms.closeAll => <<"CloseAllConnections", None>> \in questions
       /\ arms.stop => <<"StopCore", None>> \in questions
       /\ arms.mode # None => <<"SetTrafficMode", arms.mode>> \in questions

ArmsAsked(u, questions) == Covered(u.arms, u.client, questions)

ViewInv == IsView(ui) /\ GoodEditor(ui) /\ IsSnap(seen) /\ GoodLinks(seen) /\ ArmsAsked(ui, asked)

InterfaceInv == LoopInv /\ ViewInv

-------------------------------------------------------------------------------
(* Sequences *)

LEMMA OwnElements ==
  ASSUME NEW S, NEW q \in Seq(S)
  PROVE  q \in Seq({q[i] : i \in DOMAIN q})
<1>1. q \in [1..Len(q) -> {q[i] : i \in DOMAIN q}] /\ Len(q) \in Nat
  OBVIOUS
<1> QED  BY <1>1

LEMMA QueueSends ==
  ASSUME NEW q, GoodQueue(q), NEW c, GoodCommand(c)
  PROVE  GoodQueue(Append(q, c)) /\ Last(Append(q, c)) = c
<1> DEFINE S == {q[i] : i \in DOMAIN q} \cup {c}
           r == Append(q, c)
<1>1. q \in Seq(S)
  BY DEF GoodQueue
<1>2. r \in Seq(S) /\ Len(r) = Len(q) + 1 /\ r[Len(r)] = c
  BY <1>1
<1>3. \A i \in DOMAIN r : GoodCommand(r[i])
  BY <1>1 DEF GoodQueue
<1>4. r \in Seq({r[i] : i \in DOMAIN r})
  BY <1>2, OwnElements
<1> QED  BY <1>2, <1>3, <1>4 DEF GoodQueue, Last

LEMMA QueueTaken ==
  ASSUME NEW q, GoodQueue(q), q # <<>>
  PROVE  GoodCommand(Head(q)) /\ GoodQueue(Tail(q)) /\ Len(Tail(q)) = Len(q) - 1 /\ Len(q) \in Nat
<1> DEFINE S == {q[i] : i \in DOMAIN q}
           r == Tail(q)
<1>1. q \in Seq(S)
  BY DEF GoodQueue
<1>2. r \in Seq(S) /\ Len(r) = Len(q) - 1 /\ Len(q) \in Nat \ {0} /\ Head(q) = q[1]
  BY <1>1
<1>3. \A i \in DOMAIN r : GoodCommand(r[i])
  BY <1>1 DEF GoodQueue
<1>4. r \in Seq({r[i] : i \in DOMAIN r})
  <2> HIDE DEF r
  <2> QED  BY <1>2, OwnElements
<1>5. GoodCommand(Head(q))
  BY <1>1, <1>2 DEF GoodQueue
<1> QED  BY <1>2, <1>3, <1>4, <1>5 DEF GoodQueue

\* The length of the last n of a sequence of length k.
IsLen(m, k, n) == m \in Nat /\ (k > n => m = n) /\ (k <= n => m = k)

Ends(a, s, n) ==
  /\ IsLen(Len(a), Len(s), n)
  /\ \A i \in 1..Len(a) : a[i] = s[Len(s) - Len(a) + i]

LEMMA LastOfElements ==
  ASSUME NEW S, NEW s \in Seq(S), NEW n \in Nat
  PROVE  LastOf(s, n) \in Seq(S) /\ Ends(LastOf(s, n), s, n)
<1>1. CASE Len(s) > n
  BY <1>1 DEF LastOf, IsLen, Ends
<1>2. CASE ~(Len(s) > n)
  <2>1. LastOf(s, n) = SubSeq(s, 1, Len(s))
    BY <1>2 DEF LastOf
  <2>2. SubSeq(s, 1, Len(s)) = s
    BY SubSeqFull
  <2>3. LastOf(s, n) = s
    BY <2>1, <2>2
  <2>4. Ends(s, s, n)
    BY <1>2 DEF IsLen, Ends
  <2> QED  BY <2>3, <2>4
<1> QED  BY <1>1, <1>2

LEMMA SameEnds ==
  ASSUME NEW S, NEW old \in Seq(S), NEW more \in Seq(S), NEW n \in Nat,
         NEW tail \in Seq(S), NEW s \in Seq(S), NEW t \in Seq(S), NEW a \in Seq(S), NEW b \in Seq(S),
         s = tail \o more, t = old \o more,
         Ends(tail, old, n), Ends(a, s, n), Ends(b, t, n)
  PROVE  a = b
<1>0. Len(s) = Len(tail) + Len(more) /\ Len(t) = Len(old) + Len(more)
  BY ConcatProperties
<1>1. /\ Len(a) = Len(b) /\ Len(tail) <= Len(old) /\ Len(a) <= Len(s)
      /\ Len(tail) < Len(old) => Len(tail) = n
      /\ Len(a) \in Nat /\ Len(tail) \in Nat /\ Len(old) \in Nat /\ Len(more) \in Nat
  BY <1>0 DEF IsLen, Ends
<1>2. ASSUME NEW i \in 1..Len(a)  PROVE a[i] = b[i]
  <2> DEFINE j == Len(tail) + Len(more) - Len(a) + i
             k == Len(old) + Len(more) - Len(a) + i
  <2>1. Len(s) - Len(a) + i = j /\ Len(t) - Len(b) + i = k
    BY <1>0, <1>1
  <2>2. a[i] = s[Len(s) - Len(a) + i] /\ b[i] = t[Len(t) - Len(b) + i]
    BY <1>1 DEF Ends
  <2>3. a[i] = s[j] /\ b[i] = t[k]
    BY <2>1, <2>2
  <2>4. /\ j \in 1..(Len(tail) + Len(more)) /\ k \in 1..(Len(old) + Len(more))
        /\ k = Len(old) - Len(tail) + j
    BY <1>0, <1>1
  <2> HIDE DEF j, k
  <2>5. CASE j <= Len(tail)
    <3>1. s[j] = tail[j]
      BY <2>4, <2>5, ConcatProperties
    <3>2. k <= Len(old)
      BY <1>1, <2>4, <2>5
    <3>3. t[k] = old[k]
      BY <3>2, <2>4, ConcatProperties
    <3>4. tail[j] = old[k]
      BY <2>4, <2>5 DEF Ends
    <3> QED  BY <2>3, <3>1, <3>3, <3>4
  <2>6. CASE j > Len(tail)
    <3>1. s[j] = more[j - Len(tail)]
      BY <2>4, <2>6, ConcatProperties
    <3>2. k > Len(old)
      BY <1>1, <2>4, <2>6
    <3>3. t[k] = more[k - Len(old)]
      BY <3>2, <2>4, ConcatProperties
    <3>4. k - Len(old) = j - Len(tail)
      BY <1>1, <2>4
    <3> QED  BY <2>3, <3>1, <3>3, <3>4
  <2> QED  BY <1>1, <2>4, <2>5, <2>6
<1> QED  BY <1>1, <1>2, SeqEqual

\* Keeping the last lines of what is kept and what is new keeps the last of all.
LEMMA KeepsLast ==
  ASSUME NEW S, NEW old \in Seq(S), NEW more \in Seq(S), NEW n \in Nat
  PROVE  LastOf(LastOf(old, n) \o more, n) = LastOf(old \o more, n)
<1> DEFINE tail == LastOf(old, n)
           s == tail \o more
           t == old \o more
           a == LastOf(s, n)
           b == LastOf(t, n)
<1>1. tail \in Seq(S) /\ Ends(tail, old, n)
  BY LastOfElements
<1> HIDE DEF tail
<1>2. s \in Seq(S) /\ t \in Seq(S)
  BY <1>1, ConcatProperties
<1>3. s = tail \o more /\ t = old \o more
  OBVIOUS
<1> HIDE DEF s, t
<1>4. a \in Seq(S) /\ Ends(a, s, n) /\ b \in Seq(S) /\ Ends(b, t, n)
  BY <1>2, LastOfElements
<1> HIDE DEF a, b
<1>5. a = b
  BY <1>1, <1>2, <1>3, <1>4, SameEnds
<1> QED  BY <1>5 DEF a, b, s, t, tail

LEMMA PrefixGrows ==
  ASSUME NEW S, NEW s \in Seq(S), NEW i \in Nat, NEW j \in Nat, i <= j, j <= Len(s)
  PROVE  SubSeq(s, 1, i) \o SubSeq(s, i + 1, j) = SubSeq(s, 1, j)
  OBVIOUS

LEMMA PrefixStays ==
  ASSUME NEW S, NEW s \in Seq(S), NEW x \in S, NEW i \in Nat, i <= Len(s)
  PROVE  SubSeq(Append(s, x), 1, i) = SubSeq(s, 1, i)
  OBVIOUS

LEMMA ListWithout ==
  ASSUME NEW s \in Seq(Names), NEW i \in DOMAIN s
  PROVE  RemoveAt(s, i) \in Seq(Names)
  BY DEF RemoveAt

-------------------------------------------------------------------------------
(* The fields of the snapshot after a step *)

SameShown(s, t) ==
  /\ t.running = s.running /\ t.groups = s.groups /\ t.conns = s.conns
  /\ t.memory = s.memory /\ t.logs = s.logs

SameProfiles(s, t) == t.list = s.list /\ t.links = s.links

NothingShown(t) == t.running = FALSE /\ t.groups = None /\ t.conns.run = 0 /\ t.memory = 0

LEMMA OneField ==
  ASSUME NEW s, IsSnap(s), NEW v,
         NEW f \in {"starting", "busy", "active", "override", "mode", "port", "proxy", "status"},
         NEW t, t = [s EXCEPT ![f] = v]
  PROVE  IsSnap(t) /\ SameShown(s, t) /\ SameProfiles(s, t)
  BY DEF IsSnap, HasFields, SnapFields, SameShown, SameProfiles

LEMMA SettingField ==
  ASSUME NEW s, IsSnap(s), NEW v, NEW x, NEW f \in {"mode", "port"},
         NEW t, t = [s EXCEPT ![f] = v, !.status = x]
  PROVE  IsSnap(t) /\ SameShown(s, t) /\ SameProfiles(s, t)
<1>1. PICK u : u = [s EXCEPT ![f] = v]
  OBVIOUS
<1>2. IsSnap(u) /\ SameShown(s, u) /\ SameProfiles(s, u)
  BY <1>1, OneField
<1>3. PICK g \in {"status"} : TRUE
  OBVIOUS
<1>5. t = [u EXCEPT ![g] = x]
  BY <1>1, <1>3
<1>4. IsSnap(t) /\ SameShown(u, t) /\ SameProfiles(u, t)
  BY <1>2, <1>3, <1>5, OneField
<1> QED  BY <1>2, <1>4 DEF SameShown, SameProfiles

LEMMA ProxyField ==
  ASSUME NEW s, IsSnap(s), NEW v, NEW x, NEW t, t = [s EXCEPT !.proxy = v, !.status = x]
  PROVE  IsSnap(t) /\ SameShown(s, t) /\ SameProfiles(s, t)
  BY DEF IsSnap, HasFields, SnapFields, SameShown, SameProfiles

LEMMA OverrideField ==
  ASSUME NEW s, IsSnap(s), NEW v, NEW x, NEW t, t = [s EXCEPT !.override = v, !.status = x]
  PROVE  IsSnap(t) /\ SameShown(s, t) /\ SameProfiles(s, t)
  BY DEF IsSnap, HasFields, SnapFields, SameShown, SameProfiles

LEMMA OperationFields ==
  ASSUME NEW s, IsSnap(s), NEW v, NEW w, NEW t, t = [s EXCEPT !.starting = v, !.busy = w]
  PROVE  IsSnap(t) /\ SameShown(s, t) /\ SameProfiles(s, t)
  BY DEF IsSnap, HasFields, SnapFields, SameShown, SameProfiles

LEMMA LinkField ==
  ASSUME NEW s, IsSnap(s), GoodLinks(s), NEW n \in Names, NEW v \in {None, n},
         NEW t, t = [s EXCEPT !.links[n] = v]
  PROVE  IsSnap(t) /\ GoodLinks(t) /\ SameShown(s, t)
  BY DEF IsSnap, HasFields, SnapFields, SameShown, GoodLinks

Removed(s, list, n, a) == [s EXCEPT !.list = list, !.links[n] = None, !.active = a]

LEMMA ListFields ==
  ASSUME NEW s, IsSnap(s), GoodLinks(s), NEW n, NEW list \in Seq(Names), NEW a,
         NEW t, t = Removed(s, list, n, a)
  PROVE  IsSnap(t) /\ GoodLinks(t) /\ SameShown(s, t)
<1>1. PICK u : u = [s EXCEPT !.links[n] = None]
  OBVIOUS
<1>2. IsSnap(u) /\ GoodLinks(u) /\ SameShown(s, u)
  BY <1>1 DEF IsSnap, HasFields, SnapFields, SameShown, GoodLinks
<1>3. t = [[u EXCEPT !.list = list] EXCEPT !.active = a]
  BY <1>1 DEF Removed, IsSnap, HasFields, SnapFields
<1> QED  BY <1>2, <1>3 DEF IsSnap, HasFields, SnapFields, SameShown, GoodLinks

LEMMA CoreGone ==
  ASSUME NEW s, IsSnap(s), NEW t, t = WithoutCore(s)
  PROVE  IsSnap(t) /\ SameProfiles(s, t) /\ NothingShown(t)
  BY DEF WithoutCore, IsSnap, HasFields, SnapFields, SameProfiles, NothingShown

LEMMA GroupsField ==
  ASSUME NEW s, IsSnap(s), NEW v, NEW t, t = [s EXCEPT !.groups = v]
  PROVE  /\ IsSnap(t) /\ SameProfiles(s, t) /\ t.groups = v /\ t.running = s.running
         /\ t.conns = s.conns /\ t.memory = s.memory /\ t.logs = s.logs
  BY DEF IsSnap, HasFields, SnapFields, SameProfiles

LEMMA ConnsField ==
  ASSUME NEW s, IsSnap(s), NEW v, NEW t, t = [s EXCEPT !.conns = v]
  PROVE  /\ IsSnap(t) /\ SameProfiles(s, t) /\ t.conns = v /\ t.running = s.running
         /\ t.groups = s.groups /\ t.memory = s.memory /\ t.logs = s.logs
  BY DEF IsSnap, HasFields, SnapFields, SameProfiles

LEMMA MemoryField ==
  ASSUME NEW s, IsSnap(s), NEW v, NEW t, t = [s EXCEPT !.memory = v]
  PROVE  /\ IsSnap(t) /\ SameProfiles(s, t) /\ t.memory = v /\ t.running = s.running
         /\ t.groups = s.groups /\ t.conns = s.conns /\ t.logs = s.logs
  BY DEF IsSnap, HasFields, SnapFields, SameProfiles

LEMMA LogsField ==
  ASSUME NEW s, IsSnap(s), NEW v \in Seq(Lines), NEW t, t = [s EXCEPT !.logs = v]
  PROVE  /\ IsSnap(t) /\ SameProfiles(s, t) /\ t.logs = v /\ t.running = s.running
         /\ t.groups = s.groups /\ t.conns = s.conns /\ t.memory = s.memory
  BY DEF IsSnap, HasFields, SnapFields, SameProfiles

NoLines == <<>>

BeginsToShow(s, t) ==
  /\ IsSnap(t) /\ SameProfiles(s, t) /\ t.logs = NoLines /\ t.running = TRUE
  /\ t.groups = s.groups /\ t.conns = s.conns /\ t.memory = s.memory

StartedSnap(s, o, p) ==
  [s EXCEPT !.running = TRUE, !.logs = <<>>, !.override = o, !.proxy = p, !.status = "started"]

LEMMA StartedFields ==
  ASSUME NEW s, IsSnap(s), NEW o, NEW p, NEW t, t = StartedSnap(s, o, p)
  PROVE  BeginsToShow(s, t)
<1>1. PICK r : r = [s EXCEPT !.running = TRUE]
  OBVIOUS
<1>2. PICK u : u = [r EXCEPT !.logs = <<>>]
  OBVIOUS
<1>3. /\ IsSnap(r) /\ SameProfiles(s, r) /\ r.running = TRUE
      /\ r.groups = s.groups /\ r.conns = s.conns /\ r.memory = s.memory
  BY <1>1 DEF IsSnap, HasFields, SnapFields, SameProfiles
<1>4. /\ IsSnap(u) /\ SameProfiles(r, u) /\ u.logs = NoLines /\ u.running = r.running
      /\ u.groups = r.groups /\ u.conns = r.conns /\ u.memory = r.memory
  <2>1. PICK v \in Seq(Lines) : v = <<>> /\ v = NoLines
    BY EmptySeq DEF NoLines
  <2>2. u = [r EXCEPT !.logs = v]
    BY <1>2, <2>1
  <2>3. /\ IsSnap(u) /\ SameProfiles(r, u) /\ u.logs = v /\ u.running = r.running
        /\ u.groups = r.groups /\ u.conns = r.conns /\ u.memory = r.memory
    BY <1>3, <2>2, LogsField
  <2> QED  BY <2>1, <2>3
<1>5. t = [u EXCEPT !.override = o, !.proxy = p, !.status = "started"]
  BY <1>1, <1>2 DEF StartedSnap
<1>6. /\ IsSnap(t) /\ SameProfiles(u, t) /\ t.logs = u.logs /\ t.running = u.running
      /\ t.groups = u.groups /\ t.conns = u.conns /\ t.memory = u.memory
  BY <1>4, <1>5 DEF IsSnap, HasFields, SnapFields, SameProfiles
<1> QED  BY <1>3, <1>4, <1>6 DEF SameProfiles, BeginsToShow

-------------------------------------------------------------------------------
(* The steps of the core and of the operation under way *)

\* What LoopInv says of an engine that lives.
ShownBy(e, s, p, c, log) ==
  IsEngine(e) /\ ShowsRun(s, e.child) /\ RunsOne(e, s, p, c) /\ ReadIsShown(e, s, log)

LEMMA NothingToShow ==
  ASSUME NEW s, NothingShown(s), NEW e, IsEngine(e), NEW p, p.stage \notin DOMAIN NextStage, NEW c, NEW log
  PROVE  ShownBy(e, s, p, c, log)
  BY DEF NothingShown, ShownBy, ShowsRun, RunsOne, ReadIsShown

\* Steps that change none of this.
LEMMA StillShown ==
  ASSUME NEW s, NEW t, SameShown(s, t), NEW e, NEW f, NEW p, NEW q, NEW c, NEW d, NEW log,
         ShownBy(e, s, p, c, log), IsEngine(f), f.child = e.child, f.offset = e.offset,
         s.running => f.op = None \/ f.op.kind # "start",
         q.stage \notin DOMAIN NextStage \/ (q.stage = p.stage /\ q.answer = p.answer),
         d.run = c.run
  PROVE  ShownBy(f, t, q, d, log)
  BY DEF SameShown, ShownBy, ShowsRun, RunsOne, ReadIsShown

LEMMA SameSnap == \A s : SameShown(s, s) /\ SameProfiles(s, s)
  BY DEF SameShown, SameProfiles

LEMMA SameLinks ==
  ASSUME NEW s, NEW t, GoodLinks(s), SameProfiles(s, t)
  PROVE  GoodLinks(t)
  BY DEF GoodLinks, SameProfiles

LEMMA CoreField ==
  ASSUME NEW c, IsCore(c), NEW v, NEW f \in {"alive", "node", "conns"}, NEW d, d = [c EXCEPT ![f] = v]
  PROVE  IsCore(d) /\ d.run = c.run
  BY DEF IsCore, HasFields, CoreFields

LEMMA CoreDiesHolds ==
  ASSUME LoopInv, CoreDies
  PROVE  LoopInv'
<1>1. IsCore(core') /\ core'.run = core.run
  BY DEF LoopInv, CoreDies, IsCore, HasFields, CoreFields
<1>2. Alive => ShownBy(engine, snap, poll, core', logFile)
  BY <1>1, StillShown, SameSnap DEF LoopInv, ShownBy, RunsOne
<1> QED  BY <1>1, <1>2 DEF LoopInv, CoreDies, ShownBy, Alive

LEMMA CoreWritesHolds ==
  ASSUME LoopInv, CoreWrites
  PROVE  LoopInv'
<1>1. IsCore(core') /\ core'.run = core.run
  BY DEF LoopInv, CoreWrites, IsCore, HasFields, CoreFields
<1>2. PICK line \in Lines : logFile' = Append(logFile, line)
  <2>1. <<core.run, core.written + 1>> \in Lines
    BY DEF LoopInv, IsCore, Lines
  <2> QED  BY <2>1 DEF CoreWrites
<1>3. logFile' \in Seq(Lines) /\ Len(logFile') = Len(logFile) + 1
  BY <1>2, AppendProperties DEF LoopInv
<1>4. ASSUME Alive  PROVE ShownBy(engine, snap, poll, core', logFile')
  <2>1. ShownBy(engine, snap, poll, core', logFile)
    BY <1>1, <1>4, StillShown, SameSnap DEF LoopInv, ShownBy, RunsOne
  <2>2. engine.offset \in Nat /\ logFile \in Seq(Lines)
    BY <1>4 DEF LoopInv, IsEngine
  <2>3. CASE snap.running
    <3>1. engine.offset <= Len(logFile)
      BY <2>1, <2>3 DEF ShownBy, ReadIsShown
    <3>2. SubSeq(logFile', 1, engine.offset) = SubSeq(logFile, 1, engine.offset)
      BY <1>2, <2>2, <3>1, PrefixStays
    <3>3. engine.offset <= Len(logFile')
      BY <1>3, <2>2, <3>1
    <3>4. snap.logs = LastOf(SubSeq(logFile', 1, engine.offset), RingSize)
      BY <2>1, <2>3, <3>2 DEF ShownBy, ReadIsShown
    <3> QED  BY <2>1, <3>3, <3>4 DEF ShownBy, ReadIsShown
  <2> QED  BY <2>1, <2>3 DEF ShownBy, ReadIsShown
<1> QED  BY <1>1, <1>3, <1>4 DEF LoopInv, CoreWrites, ShownBy, Alive

LEMMA ConnectionsChangeHolds ==
  ASSUME LoopInv, ConnectionsChange
  PROVE  LoopInv'
<1>1. PICK rows : core' = [core EXCEPT !.conns = rows]
  BY DEF ConnectionsChange
<1>2. IsCore(core') /\ core'.run = core.run
  BY <1>1 DEF LoopInv, IsCore, HasFields, CoreFields
<1>3. Alive => ShownBy(engine, snap, poll, core', logFile)
  BY <1>2, StillShown, SameSnap DEF LoopInv, ShownBy, RunsOne
<1> QED  BY <1>2, <1>3 DEF LoopInv, ConnectionsChange, ShownBy, Alive

LEMMA PhaseField ==
  ASSUME NEW e, IsEngine(e), e.op # None, NEW x, NEW f, f = [e EXCEPT !.op.phase = x]
  PROVE  IsEngine(f) /\ f.child = e.child /\ f.offset = e.offset /\ f.op.kind = e.op.kind
  BY DEF IsEngine, HasFields, EngineFields

LEMMA OpActsHolds ==
  ASSUME LoopInv, OpActs
  PROVE  LoopInv'
<1>1. Alive /\ engine.op # None /\ IsEngine(engine) /\ engine' = [engine EXCEPT !.op.phase = "acted"]
  BY DEF OpActs, OpIn, LoopInv, Ended
<1>2. /\ IsEngine(engine') /\ engine'.child = engine.child /\ engine'.offset = engine.offset
      /\ engine'.op.kind = engine.op.kind
  BY <1>1, PhaseField
<1>3. ShownBy(engine, snap, poll, core, logFile)
  BY <1>1 DEF LoopInv, ShownBy
<1>4. CASE engine.op.kind = "start" /\ logFile' = <<>>
           /\ core' = [NoCore EXCEPT !.run = core.run + 1, !.alive = TRUE,
                                     !.node = CHOOSE n \in Nodes : TRUE, !.conns = SetToSeq(Conns)]
  <2>1. ~ snap.running
    BY <1>1, <1>3, <1>4 DEF ShownBy, RunsOne
  <2>2. IsCore(core')
    <3>1. PICK node, rows : core' = [NoCore EXCEPT !.run = core.run + 1, !.alive = TRUE,
                                                    !.node = node, !.conns = rows]
      BY <1>4
    <3>2. core.run + 1 \in Nat
      BY DEF LoopInv, IsCore
    <3>3. core' = [run |-> core.run + 1, alive |-> TRUE, node |-> node, conns |-> rows, written |-> 0]
      BY <3>1 DEF NoCore
    <3> QED  BY <3>2, <3>3 DEF IsCore, HasFields, CoreFields
  <2>3. logFile' \in Seq(Lines)
    BY <1>4, EmptySeq
  <2>4. ShownBy(engine', snap, poll, core', logFile')
    BY <1>2, <1>3, <2>1 DEF ShownBy, ShowsRun, RunsOne, ReadIsShown
  <2> QED  BY <2>2, <2>3, <2>4 DEF LoopInv, OpActs, ShownBy
<1>5. CASE logFile' = logFile /\ engine.op.kind # "start" /\ IsCore(core') /\ core'.run = core.run
  <2>1. ShownBy(engine', snap, poll, core', logFile)
    BY <1>2, <1>3, <1>5, StillShown, SameSnap
  <2> QED  BY <1>5, <2>1 DEF LoopInv, OpActs, ShownBy
<1>6. CASE engine.op.kind = "select" /\ UNCHANGED logFile /\ core' = [core EXCEPT !.node = engine.op.of]
  <2>1. IsCore(core') /\ core'.run = core.run
    BY <1>6 DEF LoopInv, IsCore, HasFields, CoreFields
  <2> QED  BY <1>5, <1>6, <2>1
<1>7. CASE /\ engine.op.kind = "close" /\ UNCHANGED logFile
           /\ core' = [core EXCEPT !.conns = SelectSeq(@, LAMBDA c : c \notin engine.op.of)]
  <2>1. PICK rows : core' = [core EXCEPT !.conns = rows]
    BY <1>7
  <2>2. IsCore(core') /\ core'.run = core.run
    BY <2>1 DEF LoopInv, IsCore, HasFields, CoreFields
  <2> QED  BY <1>5, <1>7, <2>2
<1>8. CASE engine.op.kind = "fetch" /\ UNCHANGED <<core, logFile>>
  BY <1>5, <1>8 DEF LoopInv
<1> QED  BY <1>4, <1>6, <1>7, <1>8 DEF OpActs

LEMMA OpEndsHolds ==
  ASSUME LoopInv, OpEnds
  PROVE  LoopInv'
<1>1. /\ Alive /\ engine.op # None /\ IsEngine(engine)
  BY DEF OpEnds, OpIn, LoopInv
<1>0. PICK x : engine' = [engine EXCEPT !.op.phase = x]
  BY DEF OpEnds, Ended
<1>2. /\ IsEngine(engine') /\ engine'.child = engine.child /\ engine'.offset = engine.offset
      /\ engine'.op.kind = engine.op.kind
  BY <1>0, <1>1, PhaseField
<1>3. ShownBy(engine, snap, poll, core, logFile)
  BY <1>1 DEF LoopInv, ShownBy
<1>4. IsCore(core') /\ core'.run = core.run
  BY DEF LoopInv, OpEnds, IsCore, HasFields, CoreFields
<1>5. ShownBy(engine', snap, poll, core', logFile)
  BY <1>1, <1>2, <1>3, <1>4, StillShown, SameSnap DEF ShownBy, RunsOne
<1> QED  BY <1>4, <1>5 DEF LoopInv, OpEnds, ShownBy

-------------------------------------------------------------------------------
(* The tick and the polls *)

LEMMA EngineField ==
  ASSUME NEW e, IsEngine(e), NEW v, NEW f, f = [e EXCEPT !.armed = v]
  PROVE  IsEngine(f) /\ f.child = e.child /\ f.offset = e.offset /\ f.op = e.op
  BY DEF IsEngine, HasFields, EngineFields

LEMMA OpOver ==
  ASSUME NEW e, IsEngine(e), NEW f, f = [e EXCEPT !.op = None]
  PROVE  IsEngine(f) /\ f.child = e.child /\ f.offset = e.offset /\ f.op = None
  BY DEF IsEngine, HasFields, EngineFields

LEMMA OpBegins ==
  ASSUME NEW e, IsEngine(e), NEW kind, NEW of, NEW f, f = [e EXCEPT !.op = Op(kind, of)]
  PROVE  IsEngine(f) /\ f.child = e.child /\ f.offset = e.offset /\ f.op.kind = kind
  BY DEF IsEngine, HasFields, EngineFields, Op

LEMMA EngineStarted ==
  ASSUME NEW e, IsEngine(e), NEW run, NEW f, f = Started(e, run)
  PROVE  IsEngine(f) /\ f.child = run /\ f.offset = 0 /\ f.op = None
<1>1. HasFields(f, EngineFields) /\ f.child = run /\ f.offset = 0 /\ f.op = None
  BY DEF Started, IsEngine, HasFields, EngineFields
<1> QED  BY <1>1 DEF IsEngine

\* schedule_restart leaves nothing to show.
LEMMA ScheduledShows ==
  ASSUME NEW e, IsEngine(e), NEW s, IsSnap(s), Scheduled(e, s), NEW p, p.stage \notin DOMAIN NextStage,
         NEW c, NEW log
  PROVE  IsSnap(snap') /\ SameProfiles(s, snap') /\ ShownBy(engine', snap', p, c, log)
<1>1. PICK arms : engine' = [e EXCEPT !.armed = arms]
  BY DEF Scheduled
<1>2. IsEngine(engine')
  BY <1>1, EngineField
<1>3. PICK t : t = WithoutCore(s)
  OBVIOUS
<1>4. IsSnap(t) /\ SameProfiles(s, t) /\ NothingShown(t)
  BY <1>3, CoreGone
<1>5. snap' = [t EXCEPT !.status = "crashed"]
  BY <1>3 DEF Scheduled
<1>6. IsSnap(snap') /\ SameShown(t, snap') /\ SameProfiles(t, snap')
  BY <1>4, <1>5 DEF IsSnap, HasFields, SnapFields, SameShown, SameProfiles
<1>7. NothingShown(snap') /\ SameProfiles(s, snap')
  BY <1>4, <1>6 DEF NothingShown, SameShown, SameProfiles
<1> QED  BY <1>2, <1>6, <1>7, NothingToShow

LEMMA TickHolds ==
  ASSUME LoopInv, Tick
  PROVE  LoopInv'
<1> DEFINE over == [engine EXCEPT !.op = None]
           done == [snap EXCEPT !.starting = FALSE, !.busy = FALSE]
<1>1. Alive /\ IsSnap(snap) /\ IsEngine(engine) /\ GoodLinks(snap)
      /\ ShownBy(engine, snap, poll, core, logFile)
  BY DEF Tick, LoopInv, ShownBy
<1>2. poll' = [stage |-> "begin", answer |-> None]
  BY DEF Tick, NoPoll
<1>3. poll'.stage \notin DOMAIN NextStage /\ HasFields(poll', {"stage", "answer"}) /\ poll'.answer = None
  BY <1>2 DEF NextStage, HasFields
<1>4. IsSnap(done) /\ SameShown(snap, done) /\ SameProfiles(snap, done)
  BY <1>1, OperationFields
<1>5. IsEngine(over) /\ over.child = engine.child /\ over.offset = engine.offset /\ over.op = None
  BY <1>1, OpOver
<1> HIDE DEF over, done
<1>6. ShownBy(over, done, poll', core, logFile)
  BY <1>1, <1>3, <1>4, <1>5, StillShown
<1> SUFFICES IsSnap(snap') /\ GoodLinks(snap') /\ ShownBy(engine', snap', poll', core, logFile)
  BY <1>3 DEF LoopInv, Tick, ShownBy
<1>7. CASE UNCHANGED <<engine, snap>>
  <2>1. ShownBy(engine, snap, poll', core, logFile)
    BY <1>1, <1>3, StillShown, SameSnap DEF ShownBy, RunsOne
  <2> QED  BY <1>1, <1>7, <2>1
<1>8. CASE Scheduled(over, done)
  BY <1>1, <1>3, <1>4, <1>5, <1>8, ScheduledShows, SameLinks DEF SameProfiles
<1>9. ASSUME NEW x, engine' = over, snap' = [done EXCEPT !.status = x]
      PROVE  IsSnap(snap') /\ GoodLinks(snap') /\ ShownBy(engine', snap', poll', core, logFile)
  <2>1. IsSnap(snap') /\ SameShown(done, snap') /\ SameProfiles(done, snap')
    BY <1>4, <1>9 DEF IsSnap, HasFields, SnapFields, SameShown, SameProfiles
  <2>2. ShownBy(over, snap', poll', core, logFile)
    BY <1>5, <1>6, <2>1, StillShown DEF ShownBy
  <2> QED  BY <1>1, <1>4, <1>9, <2>1, <2>2, SameLinks DEF SameProfiles
<1>10. ASSUME NEW o, NEW p, OpIn({"done"}), engine.op.kind = "start",
              engine' = Started(engine, core.run),
              snap' = [done EXCEPT !.running = TRUE, !.logs = <<>>, !.override = o, !.proxy = p,
                         !.status = "started"]
       PROVE  IsSnap(snap') /\ GoodLinks(snap') /\ ShownBy(engine', snap', poll', core, logFile)
  <2>1. /\ IsSnap(snap') /\ SameProfiles(done, snap') /\ snap'.logs = NoLines /\ snap'.running = TRUE
        /\ snap'.groups = done.groups /\ snap'.conns = done.conns /\ snap'.memory = done.memory
    <3>1. snap' = StartedSnap(done, o, p)
      BY <1>10 DEF StartedSnap
    <3>2. BeginsToShow(done, snap')
      BY <1>4, <3>1, StartedFields
    <3> QED  BY <3>2 DEF BeginsToShow
  <2>2. IsEngine(engine') /\ engine'.child = core.run /\ engine'.offset = 0 /\ engine'.op = None
    BY <1>1, <1>10, EngineStarted
  <2>3. snap.running = FALSE \/ ~ snap.running
    BY <1>1, <1>10 DEF ShownBy, RunsOne, OpIn
  <2>4. done.groups = None /\ done.conns.run = 0 /\ done.memory = 0
    BY <1>1, <1>4, <2>3 DEF ShownBy, ShowsRun, SameShown
  <2>5. LastOf(SubSeq(logFile, 1, 0), RingSize) = <<>>
    <3>1. SubSeq(logFile, 1, 0) = <<>>
      BY SubSeqEmpty
    <3>2. Len(<<>>) = 0 /\ RingSize \in Nat
      BY LoopAssumption
    <3>3. LastOf(<<>>, RingSize) = SubSeq(<<>>, 1, 0)
      BY <3>2 DEF LastOf
    <3>4. SubSeq(<<>>, 1, 0) = <<>>
      BY SubSeqEmpty
    <3> QED  BY <3>1, <3>3, <3>4
  <2>6. ReadIsShown(engine', snap', logFile)
    BY <2>1, <2>2, <2>5 DEF ReadIsShown, LoopInv, NoLines
  <2>7. ShowsRun(snap', engine'.child) /\ RunsOne(engine', snap', poll', core)
    BY <1>3, <2>1, <2>2, <2>4 DEF ShowsRun, RunsOne
  <2> QED  BY <1>1, <1>4, <2>1, <2>2, <2>6, <2>7, SameLinks DEF SameProfiles, ShownBy
<1>11. ASSUME NEW n, engine' = over,
              snap' = [done EXCEPT !.groups = IF @ = None THEN None ELSE [@ EXCEPT !.node = n],
                                   !.status = "selected"]
       PROVE  IsSnap(snap') /\ GoodLinks(snap') /\ ShownBy(engine', snap', poll', core, logFile)
  <2>1. PICK g : g = IF done.groups = None THEN None ELSE [done.groups EXCEPT !.node = n]
    OBVIOUS
  <2>2. PICK t : t = [done EXCEPT !.groups = g]
    OBVIOUS
  <2>3. snap' = [t EXCEPT !.status = "selected"]
    BY <1>11, <2>1, <2>2
  <2>4. /\ IsSnap(t) /\ SameProfiles(done, t) /\ t.groups = g /\ t.running = done.running
        /\ t.conns = done.conns /\ t.memory = done.memory /\ t.logs = done.logs
    BY <1>4, <2>2, GroupsField
  <2>5. IsSnap(snap') /\ SameShown(t, snap') /\ SameProfiles(t, snap')
    BY <2>3, <2>4 DEF IsSnap, HasFields, SnapFields, SameShown, SameProfiles
  <2>6. g # None => done.running /\ g = [run |-> over.child, node |-> g.node]
    BY <1>6, <2>1 DEF ShownBy, ShowsRun
  <2>7. ShowsRun(t, over.child) /\ ReadIsShown(over, t, logFile) /\ RunsOne(over, t, poll', core)
    BY <1>6, <2>4, <2>6 DEF ShownBy, ShowsRun, ReadIsShown, RunsOne
  <2>8. ShownBy(over, snap', poll', core, logFile)
    BY <1>5, <2>5, <2>7, StillShown DEF ShownBy
  <2> QED  BY <1>1, <1>4, <1>11, <2>4, <2>5, <2>8, SameLinks DEF SameProfiles
<1> QED  BY <1>7, <1>8, <1>9, <1>10, <1>11 DEF Tick, over, done

LEMMA TailBounds ==
  ASSUME logFile \in Seq(Lines), NEW offset \in Nat
  PROVE  /\ TailFrom(offset) \in 0..Len(logFile)
         /\ offset <= Len(logFile) => TailFrom(offset) = offset
         /\ TailTo(TailFrom(offset)) \in TailFrom(offset)..Len(logFile)
<1>1. Len(logFile) \in Nat
  BY LenProperties
<1>2. PICK from : from = TailFrom(offset)
  OBVIOUS
<1>3. from \in 0..Len(logFile) /\ (offset <= Len(logFile) => from = offset)
  BY <1>1, <1>2 DEF TailFrom
<1>4. TailTo(from) \in from..Len(logFile)
  BY <1>1, <1>3, LoopAssumption DEF TailTo
<1> QED  BY <1>2, <1>3, <1>4

\* What is read of the log goes behind what was read before.
LEMMA TailShows ==
  ASSUME logFile \in Seq(Lines), NEW s, IsSnap(s), NEW from \in 0..Len(logFile),
         TailTo(from) \in from..Len(logFile), NEW t, t = Tailed(s, from)
  PROVE  /\ IsSnap(t) /\ SameProfiles(s, t) /\ t.running = s.running
         /\ t.groups = s.groups /\ t.conns = s.conns /\ t.memory = s.memory
         /\ s.logs = LastOf(SubSeq(logFile, 1, from), RingSize) =>
              t.logs = LastOf(SubSeq(logFile, 1, TailTo(from)), RingSize)
<1>0. Len(logFile) \in Nat /\ RingSize \in Nat /\ s.logs \in Seq(Lines)
  BY LenProperties, LoopAssumption DEF IsSnap
<1>1. PICK to : to = TailTo(from)
  OBVIOUS
<1>2. to \in Nat /\ from \in Nat /\ from <= to /\ to <= Len(logFile)
  BY <1>0, <1>1
<1>3. PICK more : more = SubSeq(logFile, from + 1, to)
  OBVIOUS
<1>4. PICK read : read = SubSeq(logFile, 1, from)
  OBVIOUS
<1>5. more \in Seq(Lines) /\ read \in Seq(Lines)
  BY <1>2, <1>3, <1>4
<1>6. PICK logs : logs = LastOf(s.logs \o more, RingSize)
  OBVIOUS
<1>7. logs \in Seq(Lines)
  <2>1. s.logs \o more \in Seq(Lines)
    BY <1>0, <1>5, ConcatProperties
  <2> QED  BY <1>0, <1>6, <2>1, LastOfElements
<1>8. t = [s EXCEPT !.logs = logs]
  BY <1>1, <1>3, <1>6 DEF Tailed
<1>9. /\ IsSnap(t) /\ SameProfiles(s, t) /\ t.logs = logs /\ t.running = s.running
      /\ t.groups = s.groups /\ t.conns = s.conns /\ t.memory = s.memory
  BY <1>7, <1>8, LogsField
<1>10. ASSUME s.logs = LastOf(read, RingSize)
       PROVE  logs = LastOf(SubSeq(logFile, 1, to), RingSize)
  <2>1. PICK all : all = read \o more
    OBVIOUS
  <2>2. LastOf(all, RingSize) = logs
    <3>1. LastOf(LastOf(read, RingSize) \o more, RingSize) = LastOf(read \o more, RingSize)
      BY <1>0, <1>5, KeepsLast
    <3>2. logs = LastOf(LastOf(read, RingSize) \o more, RingSize)
      BY <1>6, <1>10
    <3> QED  BY <2>1, <3>1, <3>2
  <2>3. all = SubSeq(logFile, 1, to)
    BY <1>2, <1>3, <1>4, <2>1, PrefixGrows
  <2> QED  BY <2>2, <2>3
<1> QED  BY <1>1, <1>4, <1>9, <1>10

LEMMA OffsetField ==
  ASSUME NEW e, IsEngine(e), NEW v \in Nat, NEW f, f = [e EXCEPT !.offset = v]
  PROVE  IsEngine(f) /\ f.child = e.child /\ f.offset = v /\ f.op = e.op
  BY DEF IsEngine, HasFields, EngineFields

LEMMA EngineLost ==
  ASSUME NEW e, IsEngine(e), NEW f, f = [e EXCEPT !.child = 0, !.op = None]
  PROVE  IsEngine(f)
  BY DEF IsEngine, HasFields, EngineFields

LEMMA RestartBegins ==
  ASSUME NEW e, IsEngine(e), NEW f, f = [e EXCEPT !.armed = FALSE, !.op = StartOp]
  PROVE  IsEngine(f)
<1>1. HasFields(Op("start", None), {"kind", "of", "phase", "restarting"})
  BY DEF Op, HasFields
<1>2. HasFields(StartOp, {"kind", "of", "phase", "restarting"})
  <2>1. PICK o : o = Op("start", None)
    OBVIOUS
  <2>2. StartOp = [o EXCEPT !.restarting = TRUE]
    BY <2>1 DEF StartOp
  <2> QED  BY <1>1, <2>1, <2>2 DEF HasFields
<1>3. HasFields(f, EngineFields) /\ f.op = StartOp /\ f.offset = e.offset
  BY DEF IsEngine, HasFields, EngineFields
<1> QED  BY <1>2, <1>3 DEF IsEngine

LEMMA PollBeginsHolds ==
  ASSUME LoopInv, PollBegins
  PROVE  LoopInv'
<1>1. /\ Alive /\ IsSnap(snap) /\ IsEngine(engine) /\ GoodLinks(snap) /\ logFile \in Seq(Lines)
      /\ engine.offset \in Nat /\ ShownBy(engine, snap, poll, core, logFile)
  BY DEF PollBegins, LoopInv, ShownBy, IsEngine
<1>2. PICK from : from = TailFrom(engine.offset)
  OBVIOUS
<1>3. PICK to : to = TailTo(from)
  OBVIOUS
<1>4. PICK e : e = [engine EXCEPT !.offset = TailTo(from)]
  OBVIOUS
<1>5. PICK s : s = Tailed(snap, from)
  OBVIOUS
<1>6. /\ from \in 0..Len(logFile) /\ to \in from..Len(logFile) /\ to \in Nat
      /\ engine.offset <= Len(logFile) => from = engine.offset
  BY <1>1, <1>2, <1>3, TailBounds, LenProperties
<1>7. /\ IsSnap(s) /\ SameProfiles(snap, s) /\ s.running = snap.running
      /\ s.groups = snap.groups /\ s.conns = snap.conns /\ s.memory = snap.memory
      /\ snap.logs = LastOf(SubSeq(logFile, 1, from), RingSize) =>
           s.logs = LastOf(SubSeq(logFile, 1, to), RingSize)
  BY <1>1, <1>3, <1>5, <1>6, TailShows
<1>8. IsEngine(e) /\ e.child = engine.child /\ e.offset = to /\ e.op = engine.op
  BY <1>1, <1>3, <1>4, <1>6, OffsetField
<1>9. ShowsRun(s, e.child) /\ ReadIsShown(e, s, logFile)
  <2>1. ShowsRun(s, e.child)
    BY <1>1, <1>7, <1>8 DEF ShownBy, ShowsRun
  <2>2. CASE snap.running
    <3>1. engine.offset = from /\ snap.logs = LastOf(SubSeq(logFile, 1, from), RingSize)
      BY <1>1, <1>6, <2>2 DEF ShownBy, ReadIsShown
    <3>2. to <= Len(logFile)
      BY <1>6
    <3> QED  BY <1>7, <1>8, <2>1, <3>1, <3>2 DEF ReadIsShown
  <2>3. CASE ~ snap.running
    BY <1>7, <2>1, <2>3 DEF ReadIsShown
  <2> QED  BY <2>2, <2>3
<1>10. NoPoll.stage \notin DOMAIN NextStage /\ HasFields(NoPoll, {"stage", "answer"}) /\ NoPoll.answer = None
  BY DEF NoPoll, NextStage, HasFields
<1> SUFFICES /\ IsSnap(snap') /\ SameProfiles(s, snap') /\ ShownBy(engine', snap', poll', core, logFile)
             /\ HasFields(poll', {"stage", "answer"}) /\ (poll'.stage \notin DOMAIN NextStage => poll'.answer = None)
  BY <1>1, <1>7, SameLinks DEF LoopInv, PollBegins, ShownBy, SameProfiles
<1>11. CASE /\ Scheduled([e EXCEPT !.child = 0, !.op = None], [s EXCEPT !.starting = FALSE, !.busy = FALSE])
            /\ poll' = NoPoll
  <2>1. PICK f : f = [e EXCEPT !.child = 0, !.op = None]
    OBVIOUS
  <2>2. PICK t : t = [s EXCEPT !.starting = FALSE, !.busy = FALSE]
    OBVIOUS
  <2>3. IsEngine(f) /\ IsSnap(t) /\ SameProfiles(s, t)
    BY <1>7, <1>8, <2>1, <2>2, EngineLost, OperationFields
  <2>4. Scheduled(f, t)
    BY <1>11, <2>1, <2>2
  <2> QED  BY <1>10, <1>11, <2>3, <2>4, ScheduledShows DEF SameProfiles
<1>12. CASE /\ snap.running /\ engine' = e /\ snap' = s
            /\ poll' = [poll EXCEPT !.stage = "connections"]
  <2>1. poll.answer = None /\ HasFields(poll, {"stage", "answer"})
    BY DEF LoopInv, PollBegins, NextStage
  <2>2. poll'.stage = "connections" /\ poll'.answer = None /\ HasFields(poll', {"stage", "answer"})
    BY <1>12, <2>1 DEF HasFields
  <2>3. RunsOne(e, s, poll', core)
    BY <1>1, <1>7, <1>8, <1>12, <2>2 DEF RunsOne, ShownBy
  <2> QED  BY <1>7, <1>8, <1>9, <1>12, <2>2, <2>3, SameSnap DEF ShownBy
<1>13. CASE /\ ~ snap.running /\ engine' = e /\ poll' = NoPoll
            /\ snap' = [s EXCEPT !.groups = None]
  <2>1. /\ IsSnap(snap') /\ SameProfiles(s, snap') /\ snap'.groups = None /\ snap'.running = s.running
        /\ snap'.conns = s.conns /\ snap'.memory = s.memory
    BY <1>7, <1>13, GroupsField
  <2>2. ShownBy(engine', snap', poll', core, logFile)
    BY <1>7, <1>8, <1>9, <1>10, <1>13, <2>1 DEF ShownBy, ShowsRun, RunsOne, ReadIsShown
  <2> QED  BY <1>10, <1>13, <2>1, <2>2
<1>14. CASE poll' = NoPoll /\ Scheduled([e EXCEPT !.armed = FALSE], s)
  <2>1. PICK f : f = [e EXCEPT !.armed = FALSE]
    OBVIOUS
  <2>2. IsEngine(f)
    BY <1>8, <2>1, EngineField
  <2> QED  BY <1>7, <1>10, <1>14, <2>1, <2>2, ScheduledShows
<1>15. CASE /\ ~ snap.running /\ poll' = NoPoll
            /\ engine' = [e EXCEPT !.armed = FALSE, !.op = StartOp]
            /\ snap' = [s EXCEPT !.groups = None, !.starting = TRUE, !.busy = TRUE]
  <2>1. IsEngine(engine')
    BY <1>8, <1>15, RestartBegins
  <2>2. PICK t : t = [s EXCEPT !.groups = None]
    OBVIOUS
  <2>3. snap' = [t EXCEPT !.starting = TRUE, !.busy = TRUE]
    BY <1>15, <2>2
  <2>4. /\ IsSnap(t) /\ SameProfiles(s, t) /\ t.groups = None /\ t.running = s.running
        /\ t.conns = s.conns /\ t.memory = s.memory
    BY <1>7, <2>2, GroupsField
  <2>5. IsSnap(snap') /\ SameShown(t, snap') /\ SameProfiles(t, snap')
    BY <2>3, <2>4, OperationFields
  <2>6. ShownBy(engine', snap', poll', core, logFile)
    BY <1>7, <1>9, <1>10, <1>15, <2>1, <2>4, <2>5 DEF SameShown, ShownBy, ShowsRun, RunsOne, ReadIsShown
  <2> QED  BY <1>10, <1>15, <2>4, <2>5, <2>6 DEF SameProfiles
<1> QED  BY <1>2, <1>4, <1>5, <1>11, <1>12, <1>13, <1>14, <1>15 DEF PollBegins

LEMMA PollAsksHolds ==
  ASSUME LoopInv, PollAsks
  PROVE  LoopInv'
<1>1. /\ Alive /\ ShownBy(engine, snap, poll, core, logFile) /\ poll.stage \in DOMAIN NextStage
      /\ HasFields(poll, {"stage", "answer"})
  BY DEF PollAsks, LoopInv, ShownBy
<1>2. PICK answer \in Answers : poll' = [poll EXCEPT !.answer = answer]
  BY DEF PollAsks
<1>3. poll'.stage = poll.stage /\ poll'.answer = answer /\ HasFields(poll', {"stage", "answer"})
  BY <1>1, <1>2 DEF HasFields
<1>4. answer # NoAnswer => answer.run = core.run
  BY <1>2 DEF Answers
<1>5. ShownBy(engine, snap, poll', core, logFile)
  BY <1>1, <1>3, <1>4 DEF ShownBy, RunsOne
<1> QED  BY <1>1, <1>3, <1>5 DEF LoopInv, PollAsks, ShownBy

LEMMA PollSkipsHolds ==
  ASSUME LoopInv, PollSkips
  PROVE  LoopInv'
<1>1. /\ Alive /\ ShownBy(engine, snap, poll, core, logFile) /\ poll.stage \in DOMAIN NextStage
      /\ HasFields(poll, {"stage", "answer"})
  BY DEF PollSkips, LoopInv, ShownBy
<1>2. poll'.answer = None /\ HasFields(poll', {"stage", "answer"})
  BY <1>1 DEF PollSkips, HasFields
<1>3. ShownBy(engine, snap, poll', core, logFile)
  BY <1>1, <1>2 DEF ShownBy, RunsOne
<1> QED  BY <1>1, <1>2, <1>3 DEF LoopInv, PollSkips, ShownBy

LEMMA PollStoresHolds ==
  ASSUME LoopInv, PollStores
  PROVE  LoopInv'
<1>1. /\ Alive /\ ShownBy(engine, snap, poll, core, logFile) /\ poll.stage \in DOMAIN NextStage
      /\ IsSnap(snap) /\ GoodLinks(snap) /\ poll.answer # None
  BY DEF PollStores, LoopInv, ShownBy
<1>2. snap.running /\ (poll.answer # NoAnswer => poll.answer.run = engine.child)
  BY <1>1 DEF ShownBy, RunsOne
<1>3. poll'.answer = None /\ HasFields(poll', {"stage", "answer"})
  BY DEF PollStores, HasFields
<1>4. RunsOne(engine, snap, poll', core)
  BY <1>1, <1>2, <1>3 DEF ShownBy, RunsOne
<1> SUFFICES IsSnap(snap') /\ SameProfiles(snap, snap') /\ ShownBy(engine, snap', poll', core, logFile)
  BY <1>1, <1>3, SameLinks DEF LoopInv, PollStores, ShownBy
<1>5. ASSUME NEW x, snap' = [snap EXCEPT !.status = x]
      PROVE  IsSnap(snap') /\ SameProfiles(snap, snap') /\ ShownBy(engine, snap', poll', core, logFile)
  <2>1. IsSnap(snap') /\ SameShown(snap, snap') /\ SameProfiles(snap, snap')
    BY <1>1, <1>5 DEF IsSnap, HasFields, SnapFields, SameShown, SameProfiles
  <2>2. ShownBy(engine, snap, poll', core, logFile)
    BY <1>1, <1>4 DEF ShownBy
  <2> QED  BY <2>1, <2>2 DEF ShownBy, SameShown, ShowsRun, RunsOne, ReadIsShown
<1>6. ASSUME NEW rows, poll.answer # NoAnswer,
             snap' = [snap EXCEPT !.conns = [run |-> poll.answer.run, rows |-> rows]]
      PROVE  IsSnap(snap') /\ SameProfiles(snap, snap') /\ ShownBy(engine, snap', poll', core, logFile)
  <2>1. PICK v : v = [run |-> poll.answer.run, rows |-> rows]
    OBVIOUS
  <2>2. /\ IsSnap(snap') /\ SameProfiles(snap, snap') /\ snap'.conns = v /\ snap'.running = snap.running
        /\ snap'.groups = snap.groups /\ snap'.memory = snap.memory /\ snap'.logs = snap.logs
    BY <1>1, <1>6, <2>1, ConnsField
  <2>3. v.run = engine.child
    BY <1>2, <1>6, <2>1
  <2> QED  BY <1>1, <1>2, <1>4, <2>2, <2>3 DEF ShownBy, ShowsRun, RunsOne, ReadIsShown
<1>7. ASSUME NEW v \in {0, engine.child}, snap' = [snap EXCEPT !.memory = v]
      PROVE  IsSnap(snap') /\ SameProfiles(snap, snap') /\ ShownBy(engine, snap', poll', core, logFile)
  <2>1. /\ IsSnap(snap') /\ SameProfiles(snap, snap') /\ snap'.memory = v /\ snap'.running = snap.running
        /\ snap'.groups = snap.groups /\ snap'.conns = snap.conns /\ snap'.logs = snap.logs
    BY <1>1, <1>7, MemoryField
  <2> QED  BY <1>1, <1>2, <1>4, <2>1 DEF ShownBy, ShowsRun, RunsOne, ReadIsShown
<1>8. ASSUME NEW node, poll.answer # NoAnswer,
             snap' = [snap EXCEPT !.groups = [run |-> poll.answer.run, node |-> node]]
      PROVE  IsSnap(snap') /\ SameProfiles(snap, snap') /\ ShownBy(engine, snap', poll', core, logFile)
  <2>1. PICK v : v = [run |-> engine.child, node |-> node]
    OBVIOUS
  <2>2. snap' = [snap EXCEPT !.groups = v]
    BY <1>2, <1>8, <2>1
  <2>3. /\ IsSnap(snap') /\ SameProfiles(snap, snap') /\ snap'.groups = v /\ snap'.running = snap.running
        /\ snap'.conns = snap.conns /\ snap'.memory = snap.memory /\ snap'.logs = snap.logs
    BY <1>1, <2>2, GroupsField
  <2>4. v = [run |-> engine.child, node |-> v.node]
    BY <2>1
  <2> QED  BY <1>1, <1>2, <1>4, <2>3, <2>4 DEF ShownBy, ShowsRun, RunsOne, ReadIsShown
<1>9. CASE poll.stage = "connections"
  BY <1>5, <1>6, <1>9 DEF PollStores, Refreshed
<1>10. CASE poll.stage = "memory"
  <2>1. snap' = [snap EXCEPT !.memory = IF poll.answer = NoAnswer THEN 0 ELSE poll.answer.run]
    BY <1>10 DEF PollStores, Refreshed
  <2> QED  BY <1>2, <1>7, <2>1
<1>11. CASE poll.stage = "proxies"
  BY <1>5, <1>8, <1>11 DEF PollStores, Refreshed
<1> QED  BY <1>1, <1>9, <1>10, <1>11 DEF NextStage

-------------------------------------------------------------------------------
(* Commands *)

\* What a command must leave behind when the poll is dropped.
Leaves(e, s, c) ==
  IsSnap(s) /\ GoodLinks(s) /\ IsCore(c) /\ ShownBy(e, s, NoPoll, c, logFile)

LEMMA NoPollStage == NoPoll.stage \notin DOMAIN NextStage /\ HasFields(NoPoll, {"stage", "answer"})
                     /\ NoPoll.answer = None
  BY DEF NoPoll, NextStage, HasFields

\* A command that changes nothing of a running core.
LEMMA LeavesShown ==
  ASSUME NEW e, NEW s, NEW c, Leaves(e, s, c),
         NEW f, IsEngine(f), f.child = e.child, f.offset = e.offset,
         s.running => f.op = None \/ f.op.kind # "start",
         NEW t, IsSnap(t), GoodLinks(t), SameShown(s, t)
  PROVE  Leaves(f, t, c)
  BY NoPollStage, StillShown DEF Leaves

LEMMA StartingLeaves ==
  ASSUME NEW e, NEW s, NEW c, Leaves(e, s, c), Starting(e, s)
  PROVE  Leaves(engine', snap', c)
<1>1. IsEngine(e) /\ IsSnap(s) /\ GoodLinks(s) /\ (s.running => e.op = None \/ e.op.kind # "start")
  BY DEF Leaves, ShownBy, RunsOne
<1>2. CASE engine' = e /\ snap' = s
  BY <1>2
<1>3. CASE engine' = e /\ snap' = [s EXCEPT !.status = "refused"]
  <2>1. IsSnap(snap') /\ SameShown(s, snap') /\ SameProfiles(s, snap')
    BY <1>1, <1>3 DEF IsSnap, HasFields, SnapFields, SameShown, SameProfiles
  <2> QED  BY <1>1, <1>3, <2>1, LeavesShown, SameLinks
<1>4. CASE /\ ~ s.running /\ engine' = [e EXCEPT !.op = Op("start", None)]
           /\ snap' = [s EXCEPT !.starting = TRUE, !.busy = TRUE]
  <2>1. IsSnap(snap') /\ SameShown(s, snap') /\ SameProfiles(s, snap')
    BY <1>1, <1>4, OperationFields
  <2>2. IsEngine(engine') /\ engine'.child = e.child /\ engine'.offset = e.offset
    BY <1>1, <1>4, OpBegins
  <2> QED  BY <1>1, <1>4, <2>1, <2>2, LeavesShown, SameLinks
<1> QED  BY <1>2, <1>3, <1>4 DEF Starting

LEMMA StopLeaves ==
  ASSUME NEW s, IsSnap(s), GoodLinks(s), NEW e, IsEngine(e), NEW c, IsCore(c)
  PROVE  Leaves(Stopped(e), StoppedSnap(s), c)
<1>1. IsEngine(Stopped(e))
  BY DEF Stopped, IsEngine, HasFields, EngineFields
<1>2. PICK t : t = WithoutCore(s)
  OBVIOUS
<1>3. IsSnap(t) /\ SameProfiles(s, t) /\ NothingShown(t)
  BY <1>2, CoreGone
<1>4. PICK u : u = StoppedSnap(s)
  OBVIOUS
<1>5. u = [t EXCEPT !.starting = FALSE, !.busy = FALSE, !.status = "stopped"]
  BY <1>2, <1>4 DEF StoppedSnap
<1>6. IsSnap(u) /\ SameShown(t, u) /\ SameProfiles(t, u)
  BY <1>3, <1>5 DEF IsSnap, HasFields, SnapFields, SameShown, SameProfiles
<1>7. NothingShown(u) /\ GoodLinks(u)
  BY <1>3, <1>6 DEF NothingShown, SameShown, SameProfiles, GoodLinks
<1> QED  BY <1>1, <1>4, <1>6, <1>7, NothingToShow, NoPollStage DEF Leaves

WithOverride(e, n, v) == [e EXCEPT !.overrides[n] = v]

LEMMA OverridesField ==
  ASSUME NEW e, IsEngine(e), NEW n, NEW v, NEW f, f = WithOverride(e, n, v)
  PROVE  IsEngine(f) /\ f.child = e.child /\ f.offset = e.offset /\ f.op = e.op
  BY DEF IsEngine, HasFields, EngineFields, WithOverride

LEMMA RefreshingLeaves ==
  ASSUME NEW e, NEW s, NEW c, Leaves(e, s, c), NEW status, Refreshing(e, s, status), core = c
  PROVE  Leaves(engine', snap', core')
<1>1. PICK v : snap' = [s EXCEPT !.override = v, !.status = status]
  BY DEF Refreshing
<1>2. IsSnap(snap') /\ SameShown(s, snap') /\ SameProfiles(s, snap')
  BY <1>1, OverrideField DEF Leaves
<1>3. engine' = e /\ core' = c /\ IsEngine(e) /\ (s.running => e.op = None \/ e.op.kind # "start")
  BY DEF Refreshing, Leaves, ShownBy, RunsOne
<1> QED  BY <1>2, <1>3, LeavesShown, SameLinks DEF Leaves

LEMMA ApplyLeaves ==
  ASSUME Leaves(engine, snap, core), NEW c, GoodCommand(c), Apply(c)
  PROVE  Leaves(engine', snap', core')
<1>1. /\ IsSnap(snap) /\ GoodLinks(snap) /\ IsCore(core) /\ IsEngine(engine)
      /\ snap.running => engine.op = None \/ engine.op.kind # "start"
  BY DEF Leaves, ShownBy, RunsOne
<1>2. IsCore(StoppedCore)
  BY <1>1 DEF StoppedCore, IsCore, HasFields, CoreFields
<1>3. ASSUME Refuse  PROVE Leaves(engine', snap', core')
  <2>1. IsSnap(snap') /\ SameShown(snap, snap') /\ SameProfiles(snap, snap')
    BY <1>1, <1>3 DEF Refuse, IsSnap, HasFields, SnapFields, SameShown, SameProfiles
  <2> QED  BY <1>1, <1>3, <2>1, LeavesShown, SameLinks DEF Refuse
<1>4. ASSUME NEW kind, kind # "start", NEW of, Spawn(kind, of)
      PROVE  Leaves(engine', snap', core')
  <2>1. IsSnap(snap') /\ SameShown(snap, snap') /\ SameProfiles(snap, snap')
    BY <1>1, <1>4 DEF Spawn, IsSnap, HasFields, SnapFields, SameShown, SameProfiles
  <2>2. IsEngine(engine') /\ engine'.child = engine.child /\ engine'.offset = engine.offset
        /\ engine'.op.kind # "start"
    <3>1. engine' = [engine EXCEPT !.op = Op(kind, of)]
      BY <1>4 DEF Spawn
    <3> QED  BY <1>1, <1>4, <3>1, OpBegins
  <2> QED  BY <1>1, <1>4, <2>1, <2>2, LeavesShown, SameLinks DEF Spawn
<1>5. CASE c.what = "StartCore" /\ Starting(engine, snap) /\ UNCHANGED core
  BY <1>5, StartingLeaves
<1>6. Leaves(Stopped(engine), StoppedSnap(snap), StoppedCore)
  BY <1>1, <1>2, StopLeaves
<1>7. CASE engine' = Stopped(engine) /\ core' = StoppedCore /\ snap' = StoppedSnap(snap)
  BY <1>6, <1>7
<1>8. CASE Starting(Stopped(engine), StoppedSnap(snap)) /\ core' = StoppedCore
  BY <1>6, <1>8, StartingLeaves
<1>9. ASSUME NEW v, snap' = [snap EXCEPT !.proxy = v, !.status = "proxy"], UNCHANGED <<engine, core>>
      PROVE  Leaves(engine', snap', core')
  <2>1. IsSnap(snap') /\ SameShown(snap, snap') /\ SameProfiles(snap, snap')
    BY <1>1, <1>9, ProxyField
  <2> QED  BY <1>1, <1>9, <2>1, LeavesShown, SameLinks
<1>10. CASE Starting(Stopped(engine), [StoppedSnap(snap) EXCEPT !.mode = c.of]) /\ core' = StoppedCore
  <2>1. PICK s : s = StoppedSnap(snap)
    OBVIOUS
  <2>2. PICK t : t = [s EXCEPT !.mode = c.of]
    OBVIOUS
  <2>3. IsSnap(s) /\ GoodLinks(s) /\ IsEngine(Stopped(engine)) /\ RunsOne(Stopped(engine), s, NoPoll, StoppedCore)
    BY <1>6, <2>1 DEF Leaves, ShownBy
  <2>4. IsSnap(t) /\ SameShown(s, t) /\ SameProfiles(s, t)
    BY <2>2, <2>3 DEF IsSnap, HasFields, SnapFields, SameShown, SameProfiles
  <2>5. Leaves(Stopped(engine), t, StoppedCore)
    BY <1>6, <2>1, <2>3, <2>4, LeavesShown, SameLinks DEF RunsOne
  <2> QED  BY <1>10, <2>1, <2>2, <2>5, StartingLeaves
<1>11. ASSUME NEW f \in {"mode", "port"}, NEW v, NEW x, snap' = [snap EXCEPT ![f] = v, !.status = x],
              UNCHANGED <<engine, core>>
       PROVE  Leaves(engine', snap', core')
  <2>1. IsSnap(snap') /\ SameShown(snap, snap') /\ SameProfiles(snap, snap')
    BY <1>1, <1>11, SettingField
  <2> QED  BY <1>1, <1>11, <2>1, LeavesShown, SameLinks
<1>12. ASSUME NEW v, NEW status, Refreshing(engine, [snap EXCEPT !.active = v], status)
       PROVE  Leaves(engine', snap', core')
  <2>1. PICK t : t = [snap EXCEPT !.active = v]
    OBVIOUS
  <2>2. IsSnap(t) /\ SameShown(snap, t) /\ SameProfiles(snap, t)
    BY <1>1, <2>1 DEF IsSnap, HasFields, SnapFields, SameShown, SameProfiles
  <2>3. Leaves(engine, t, core)
    BY <1>1, <2>2, LeavesShown, SameLinks
  <2> QED  BY <1>12, <2>1, <2>3, RefreshingLeaves
<1>13. ASSUME NEW v, NEW a, NEW list \in Seq(Names), NEW status,
              Refreshing([engine EXCEPT !.overrides[c.of] = v],
                         [snap EXCEPT !.list = list, !.links[c.of] = None, !.active = a], status)
       PROVE  Leaves(engine', snap', core')
  <2>1. PICK t : t = [snap EXCEPT !.list = list, !.links[c.of] = None, !.active = a]
    OBVIOUS
  <2>2. PICK e : e = [engine EXCEPT !.overrides[c.of] = v]
    OBVIOUS
  <2>3. IsSnap(t) /\ GoodLinks(t) /\ SameShown(snap, t)
    <3>1. t = Removed(snap, list, c.of, a)
      BY <2>1 DEF Removed
    <3> QED  BY <1>1, <3>1, ListFields
  <2>4. IsEngine(e) /\ e.child = engine.child /\ e.offset = engine.offset /\ e.op = engine.op
    <3>1. e = WithOverride(engine, c.of, v)
      BY <2>2 DEF WithOverride
    <3> QED  BY <1>1, <3>1, OverridesField
  <2>5. Leaves(e, t, core)
    BY <1>1, <2>3, <2>4, LeavesShown
  <2> QED  BY <1>13, <2>1, <2>2, <2>5, RefreshingLeaves
<1>14. ASSUME c.of \in Names, c.value \in {None, c.of}, NEW status,
              Refreshing(engine, [snap EXCEPT !.links[c.of] = c.value], status)
       PROVE  Leaves(engine', snap', core')
  <2>1. PICK t : t = [snap EXCEPT !.links[c.of] = c.value]
    OBVIOUS
  <2>2. IsSnap(t) /\ GoodLinks(t) /\ SameShown(snap, t)
    BY <1>1, <1>14, <2>1, LinkField
  <2>3. Leaves(engine, t, core)
    BY <1>1, <2>2, LeavesShown
  <2> QED  BY <1>14, <2>1, <2>3, RefreshingLeaves
<1>15. ASSUME NEW v, NEW status, Refreshing([engine EXCEPT !.overrides[c.of] = v], snap, status)
       PROVE  Leaves(engine', snap', core')
  <2>1. PICK e : e = [engine EXCEPT !.overrides[c.of] = v]
    OBVIOUS
  <2>2. IsEngine(e) /\ e.child = engine.child /\ e.offset = engine.offset /\ e.op = engine.op
    <3>1. e = WithOverride(engine, c.of, v)
      BY <2>1 DEF WithOverride
    <3> QED  BY <1>1, <3>1, OverridesField
  <2>3. Leaves(e, snap, core)
    BY <1>1, <2>2, LeavesShown, SameSnap
  <2> QED  BY <1>15, <2>1, <2>3, RefreshingLeaves
<1>16. ASSUME Has(c.of)  PROVE c.of \in Names /\ Without(c.of) \in Seq(Names)
  <2>1. PICK i : i = CHOOSE j \in DOMAIN snap.list : snap.list[j] = c.of
    OBVIOUS
  <2>2. i \in DOMAIN snap.list /\ snap.list[i] = c.of /\ snap.list \in Seq(Names)
    BY <1>1, <1>16, <2>1 DEF Has, IsSnap
  <2>3. Without(c.of) = RemoveAt(snap.list, i)
    BY <2>1 DEF Without
  <2>4. snap.list[i] \in Names
    BY <2>2
  <2> QED  BY <2>2, <2>3, <2>4, ListWithout
<1>17. CASE c.what = "UpdateSettings"
  BY <1>3, <1>11, <1>17 DEF Apply, GoodCommand, NeedsCore
<1>18. CASE c.what \in {"SwitchProfile", "RemoveProfile", "SetProfileUrl", "SetOverride", "ClearOverride"}
  BY <1>3, <1>12, <1>13, <1>14, <1>15, <1>16, <1>18 DEF Apply, GoodCommand, NeedsCore
<1>19. CASE c.what \in {"SwitchNode", "CloseConnection", "CloseAllConnections", "UpdateSubscription"}
  BY <1>3, <1>4, <1>19 DEF Apply, NeedsCore
<1>20. CASE c.what \in {"StartCore", "StopCore", "RestartCore"}
  BY <1>5, <1>7, <1>8, <1>20 DEF Apply, NeedsCore
<1>21. CASE c.what = "ToggleSystemProxy"
  BY <1>3, <1>9, <1>21 DEF Apply, NeedsCore
<1>22. CASE c.what = "SetTrafficMode"
  BY <1>10, <1>11, <1>22 DEF Apply, NeedsCore
<1> QED  BY <1>17, <1>18, <1>19, <1>20, <1>21, <1>22 DEF Apply, NeedsCore

LEMMA TakeHolds ==
  ASSUME LoopInv, Take
  PROVE  LoopInv'
<1>1. /\ Alive /\ Leaves(engine, snap, core) /\ queue # <<>> /\ GoodQueue(queue)
      /\ logFile \in Seq(Lines)
  <2>1. Alive /\ ShownBy(engine, snap, poll, core, logFile) /\ IsEngine(engine)
    BY DEF Take, LoopInv, ShownBy
  <2>2. ShownBy(engine, snap, NoPoll, core, logFile)
    BY <2>1, NoPollStage, StillShown, SameSnap DEF ShownBy, RunsOne
  <2> QED  BY <2>1, <2>2 DEF Take, LoopInv, Leaves
<1>2. GoodCommand(Head(queue)) /\ GoodQueue(Tail(queue))
  BY <1>1, QueueTaken
<1>3. poll' = NoPoll /\ logFile' = logFile /\ queue' = Tail(queue)
  BY DEF Take
<1>4. ASSUME Leaves(engine', snap', core')  PROVE LoopInv'
  BY <1>1, <1>2, <1>3, <1>4, NoPollStage DEF LoopInv, Leaves, ShownBy
<1>5. CASE Apply(Head(queue))
  BY <1>1, <1>2, <1>4, <1>5, ApplyLeaves
<1>6. CASE snap' = [snap EXCEPT !.status = "busy"] /\ UNCHANGED <<engine, core>>
  <2>1. IsSnap(snap') /\ SameShown(snap, snap') /\ SameProfiles(snap, snap')
    BY <1>1, <1>6 DEF Leaves, IsSnap, HasFields, SnapFields, SameShown, SameProfiles
  <2> QED  BY <1>1, <1>4, <1>6, <2>1, LeavesShown, SameLinks DEF Leaves, ShownBy, RunsOne
<1>7. CASE engine' = None /\ core' = StoppedCore /\ UNCHANGED snap
  <2>1. IsCore(core')
    BY <1>1, <1>7 DEF Leaves, StoppedCore, IsCore, HasFields, CoreFields
  <2> QED  BY <1>1, <1>2, <1>3, <1>7, <2>1, NoPollStage DEF LoopInv, Leaves, Alive
<1> QED  BY <1>5, <1>6, <1>7 DEF Take

LEMMA LoopHolds ==
  ASSUME LoopInv, LoopNext
  PROVE  LoopInv'
  BY CoreDiesHolds, CoreWritesHolds, ConnectionsChangeHolds, OpActsHolds, OpEndsHolds, TickHolds,
     PollBeginsHolds, PollAsksHolds, PollStoresHolds, PollSkipsHolds, TakeHolds DEF LoopNext

-------------------------------------------------------------------------------
(* The user's steps *)

\* What a step of the user does to the queue: a command that asks has been asked about.
Consents ==
  /\ GoodQueue(queue')
  /\ Len(queue') > Len(queue) /\ Asks(Last(queue')) =>
       <<Last(queue').what, Last(queue').of>> \in asked

LEMMA NoneSent ==
  ASSUME GoodQueue(queue), UNCHANGED queue
  PROVE  Consents
<1>1. Len(queue) \in Nat
  BY DEF GoodQueue
<1> QED  BY <1>1 DEF Consents

LEMMA Sent ==
  ASSUME GoodQueue(queue), NEW what, NEW of, NEW value, Send(Cmd(what, of, value)),
         what = "SetProfileUrl" => value \in {None, of},
         what = "UpdateSettings" => of \in {"mode", "port"},
         Asks(Cmd(what, of, value)) => <<what, of>> \in asked
  PROVE  Consents
<1>1. PICK c : c = Cmd(what, of, value)
  OBVIOUS
<1>2. GoodCommand(c) /\ c.what = what /\ c.of = of
  BY <1>1 DEF GoodCommand, Cmd
<1>3. GoodQueue(queue') /\ Last(queue') = c
  BY <1>1, <1>2, QueueSends DEF Send
<1> QED  BY <1>1, <1>2, <1>3 DEF Consents

LEMMA Harmless ==
  ASSUME NEW what, NEW of, NEW value,
         what \notin {"RemoveProfile", "SetOverride", "CloseAllConnections", "StopCore", "SetTrafficMode"}
  PROVE  ~ Asks(Cmd(what, of, value))
  BY DEF Asks, Cmd

LEMMA HarmlessHere ==
  ASSUME ~ Desktop, NEW what, NEW of, NEW value, what \notin {"RemoveProfile", "SetOverride"}
  PROVE  ~ Asks(Cmd(what, of, value))
  BY DEF Asks, Cmd

\* The view with other arms, another editor, or another of the fields that bind nothing.
LEMMA Rearmed ==
  ASSUME ViewInv, UNCHANGED seen, NEW a, HasFields(a, ArmFields), Arms(a),
         Covered(a, ui.client, asked')
  PROVE  ViewInv'
<1>1. HasFields(ui', ViewFields) /\ ui'.arms = a /\ ui'.client = ui.client /\ ui'.editor = ui.editor
  BY DEF ViewInv, IsView, HasFields, ViewFields, Arms
<1> QED  BY <1>1 DEF ViewInv, IsView, GoodEditor, ArmsAsked

LEMMA Edited ==
  ASSUME ViewInv, UNCHANGED seen, NEW a, HasFields(a, ArmFields), NEW e, GoodText(e),
         ui' = [ui EXCEPT !.editor = e, !.arms = a], Covered(a, ui.client, asked')
  PROVE  ViewInv'
<1>1. HasFields(ui', ViewFields) /\ ui'.arms = a /\ ui'.client = ui.client /\ ui'.editor = e
  BY DEF ViewInv, IsView, HasFields, ViewFields
<1> QED  BY <1>1 DEF ViewInv, IsView, GoodEditor, ArmsAsked

LEMMA OnlyEdited ==
  ASSUME ViewInv, UNCHANGED <<seen, asked>>, NEW e, GoodText(e), ui' = [ui EXCEPT !.editor = e]
  PROVE  ViewInv'
<1>1. HasFields(ui', ViewFields) /\ ui'.arms = ui.arms /\ ui'.client = ui.client /\ ui'.editor = e
  BY DEF ViewInv, IsView, HasFields, ViewFields
<1> QED  BY <1>1 DEF ViewInv, IsView, GoodEditor, ArmsAsked

LEMMA Moved ==
  ASSUME ViewInv, UNCHANGED <<seen, asked>>, NEW f \in {"row", "member", "conn", "field"}, NEW v,
         ui' = [ui EXCEPT ![f] = v]
  PROVE  ViewInv'
<1>1. HasFields(ui', ViewFields) /\ ui'.arms = ui.arms /\ ui'.client = ui.client /\ ui'.editor = ui.editor
  BY DEF ViewInv, IsView, HasFields, ViewFields
<1> QED  BY <1>1 DEF ViewInv, IsView, GoodEditor, ArmsAsked

LEMMA SameView ==
  ASSUME ViewInv, UNCHANGED <<seen, ui, asked>>
  PROVE  ViewInv'
  BY DEF ViewInv

\* A key that is not the second press takes back no more than it keeps.
LEMMA KeysDisarm ==
  ASSUME ViewInv, NEW key
  PROVE  /\ HasFields(Disarmed(key), ArmFields)
         /\ Disarmed(key).delete = ui.arms.delete
         /\ Disarmed(key).load \in {None, ui.arms.load}
         /\ Disarmed(key).mode \in {None, ui.arms.mode}
         /\ Disarmed(key).closeAll = ui.arms.closeAll
         /\ Disarmed(key).stop = ui.arms.stop
         /\ Covered(Disarmed(key), ui.client, asked)
<1>1. PICK a : a = Disarmed(key)
  OBVIOUS
<1>2. HasFields(ui.arms, ArmFields)
  BY DEF ViewInv, IsView
<1>3. /\ HasFields(a, ArmFields)
      /\ a.delete = ui.arms.delete /\ a.closeAll = ui.arms.closeAll /\ a.stop = ui.arms.stop
      /\ a.load \in {None, ui.arms.load} /\ a.mode \in {None, ui.arms.mode}
  BY <1>1, <1>2 DEF Disarmed, HasFields, ArmFields
<1> QED  BY <1>1, <1>3 DEF ViewInv, ArmsAsked, Covered

LEMMA SelectedName ==
  ASSUME ViewInv, NEW row, NEW name \in Selected(row)
  PROVE  name \in Names /\ name # None
<1>1. row \in DOMAIN seen.list /\ name = seen.list[row] /\ seen.list \in Seq(Names)
  BY DEF Selected, ViewInv, IsSnap
<1>2. name \in Names
  BY <1>1
<1> QED  BY <1>2, LoopAssumption

LEMMA TerminalOnly ==
  ASSUME NEW matter, NEW key, Press(matter, key)
  PROVE  ~ Desktop /\ ui.client = "terminal" /\ ui.editor = None /\ UNCHANGED seen
  BY DEF Press, Key, Desktop

LEMMA PlainKeysHold ==
  ASSUME ViewInv, GoodQueue(queue),
         \/ OtherKey \/ StartStop \/ ToggleProxyKey \/ UpdateKey \/ MoveRow \/ ActivateRow
         \/ MoveMember \/ SelectMember \/ MoveConn \/ CloseSelected \/ CloseAllKey \/ AskQuit
  PROVE  ViewInv' /\ Consents
<1>1. ASSUME NEW key, Arms(Disarmed(key)), UNCHANGED <<seen, asked>>  PROVE ViewInv'
  BY <1>1, KeysDisarm, Rearmed
<1>2. CASE OtherKey
  BY <1>1, <1>2, TerminalOnly, NoneSent DEF OtherKey, Quiet, NoSend
<1>3. CASE StartStop
  <2>1. ~ Desktop /\ UNCHANGED <<seen, asked>>
    BY <1>3, TerminalOnly DEF StartStop
  <2>2. PICK what \in {"StopCore", "StartCore"} : Send(Cmd(what, None, None))
    BY <1>3 DEF StartStop
  <2>3. Consents
    BY <2>1, <2>2, HarmlessHere, Sent
  <2> QED  BY <1>1, <1>3, <2>1, <2>3 DEF StartStop
<1>4. CASE ToggleProxyKey
  <2>1. Consents
    BY <1>4, Harmless, Sent DEF ToggleProxyKey
  <2> QED  BY <1>1, <1>4, <2>1, TerminalOnly DEF ToggleProxyKey
<1>5. CASE UpdateKey
  <2>1. Consents
    BY <1>5, Harmless, Sent DEF UpdateKey
  <2> QED  BY <1>1, <1>5, <2>1, TerminalOnly DEF UpdateKey
<1>6. CASE MoveRow
  <2>1. UNCHANGED <<seen, asked>> /\ Consents
    BY <1>6, TerminalOnly, NoneSent DEF MoveRow, Quiet, NoSend
  <2>2. PICK row, a : ui' = [ui EXCEPT !.row = row, !.arms = a] /\ a = Disarmed("j")
    BY <1>6 DEF MoveRow
  <2>3. HasFields(a, ArmFields) /\ Covered(a, ui.client, asked')
    BY <2>1, <2>2, KeysDisarm
  <2>4. /\ HasFields(ui', ViewFields) /\ ui'.arms = a /\ ui'.client = ui.client
        /\ ui'.editor = ui.editor
    BY <2>2 DEF ViewInv, IsView, HasFields, ViewFields
  <2> QED  BY <2>1, <2>3, <2>4 DEF ViewInv, IsView, GoodEditor, ArmsAsked
<1>7. CASE ActivateRow
  <2>1. Consents
    BY <1>7, Harmless, Sent DEF ActivateRow
  <2> QED  BY <1>1, <1>7, <2>1, TerminalOnly DEF ActivateRow
<1>8. CASE MoveMember \/ MoveConn
  <2>1. UNCHANGED <<seen, asked>> /\ Consents
    BY <1>8, TerminalOnly, NoneSent DEF MoveMember, MoveConn, Quiet, NoSend
  <2>2. PICK f \in {"member", "conn"} : \E v : ui' = [ui EXCEPT ![f] = v]
    BY <1>8 DEF MoveMember, MoveConn
  <2> QED  BY <2>1, <2>2, Moved
<1>9. CASE SelectMember
  <2>1. Consents
    BY <1>9, Harmless, Sent DEF SelectMember
  <2> QED  BY <1>9, <2>1, TerminalOnly, SameView DEF SelectMember
<1>10. CASE CloseSelected
  <2>1. Consents
    BY <1>10, Harmless, Sent DEF CloseSelected
  <2> QED  BY <1>10, <2>1, TerminalOnly, SameView DEF CloseSelected
<1>11. CASE CloseAllKey
  <2>1. ~ Desktop /\ UNCHANGED <<seen, ui, asked>>
    BY <1>11, TerminalOnly DEF CloseAllKey
  <2>2. Consents
    BY <1>11, <2>1, HarmlessHere, Sent DEF CloseAllKey
  <2> QED  BY <2>1, <2>2, SameView
<1>12. CASE AskQuit
  <2>1. UNCHANGED <<seen, asked>> /\ Consents
    BY <1>12, TerminalOnly, NoneSent DEF AskQuit, Quiet, NoSend
  <2>2. PICK a : a = [ui.arms EXCEPT !.quit = TRUE]
    OBVIOUS
  <2>3. HasFields(a, ArmFields) /\ Covered(a, ui.client, asked)
    BY <2>2 DEF ViewInv, IsView, HasFields, ArmFields, ArmsAsked, Covered
  <2> QED  BY <1>12, <2>1, <2>2, <2>3, Rearmed DEF AskQuit
<1> QED  BY <1>2, <1>3, <1>4, <1>5, <1>6, <1>7, <1>8, <1>9, <1>10, <1>11, <1>12

LEMMA LinkKeysHold ==
  ASSUME ViewInv, GoodQueue(queue),
         EditLinkKey \/ EscapeEditor \/ TypeLink \/ CommitLink
  PROVE  ViewInv' /\ Consents
<1>1. CASE EditLinkKey
  <2>1. UNCHANGED <<seen, asked>> /\ Consents
    BY <1>1, TerminalOnly, NoneSent DEF EditLinkKey, Quiet, NoSend
  <2>2. PICK name, e, a : /\ ui' = [ui EXCEPT !.editor = e, !.arms = a]
                          /\ e = Editor("link", name, None) /\ a = Disarmed("e")
    BY <1>1 DEF EditLinkKey
  <2>3. HasFields(a, ArmFields) /\ Covered(a, ui.client, asked')
    BY <2>1, <2>2, KeysDisarm
  <2>4. GoodText(e)
    BY <2>2 DEF GoodText, Editor
  <2> QED  BY <2>1, <2>2, <2>3, <2>4, Edited
<1>2. CASE EscapeEditor
  <2>1. UNCHANGED <<seen, asked>> /\ Consents
    BY <1>2, NoneSent DEF EscapeEditor, Key, Quiet, NoSend
  <2> QED  BY <1>2, <2>1, OnlyEdited DEF EscapeEditor, GoodText
<1>3. CASE TypeLink
  <2>1. UNCHANGED <<seen, asked>> /\ Consents
    BY <1>3, NoneSent DEF TypeLink, Key, Quiet, NoSend
  <2>2. PICK e : e = [ui.editor EXCEPT !.text = ui.editor.of] /\ ui' = [ui EXCEPT !.editor = e]
    BY <1>3 DEF TypeLink
  <2>3. ui.editor = Editor(ui.editor.goal, ui.editor.of, ui.editor.text)
    BY <1>3 DEF TypeLink, ViewInv, GoodEditor, GoodText
  <2>4. GoodText(e)
    BY <2>2, <2>3 DEF GoodText, Editor
  <2> QED  BY <2>1, <2>2, <2>4, OnlyEdited
<1>4. CASE CommitLink
  <2>1. UNCHANGED <<seen, asked>>
    BY <1>4 DEF CommitLink, Key
  <2>2. Consents
    <3>1. CASE ui.editor.text = None
      BY <1>4, <3>1, NoneSent DEF CommitLink, NoSend
    <3>2. CASE ui.editor.text # None
      <4>1. ui.editor.text \in {None, ui.editor.of}
        BY <1>4 DEF CommitLink, ViewInv, GoodEditor, GoodText
      <4> QED  BY <1>4, <3>2, <4>1, Harmless, Sent DEF CommitLink
    <3> QED  BY <3>1, <3>2
  <2> QED  BY <1>4, <2>1, <2>2, OnlyEdited DEF CommitLink, GoodText
<1> QED  BY <1>1, <1>2, <1>3, <1>4

LEMMA DeleteRowHolds ==
  ASSUME ViewInv, GoodQueue(queue), DeleteRow
  PROVE  ViewInv' /\ Consents
<1>1. PICK d : d = Disarmed("Delete")
  OBVIOUS
<1>2. HasFields(d, ArmFields) /\ Covered(d, ui.client, asked) /\ d.delete = ui.arms.delete
  BY <1>1, KeysDisarm
<1>3. ~ Desktop /\ ui.client = "terminal" /\ UNCHANGED seen
  BY TerminalOnly DEF DeleteRow
<1>4. PICK name \in Selected(ui.row) :
        IF ui.arms.delete # name
        THEN /\ Arms([d EXCEPT !.delete = name])
             /\ asked' = asked \cup {<<"RemoveProfile", name>>}
             /\ NoSend
        ELSE /\ Arms([d EXCEPT !.delete = None])
             /\ asked' = asked \ {<<"RemoveProfile", name>>}
             /\ Send(Cmd("RemoveProfile", name, None))
  BY <1>1 DEF DeleteRow
<1>5. name # None
  BY SelectedName
<1>6. CASE ui.arms.delete # name
  <2>1. PICK a : a = [d EXCEPT !.delete = name]
    OBVIOUS
  <2>2. HasFields(a, ArmFields) /\ Covered(a, ui.client, asked')
    BY <1>2, <1>4, <1>6, <2>1 DEF HasFields, ArmFields, Covered
  <2> QED  BY <1>3, <1>4, <1>6, <2>1, <2>2, Rearmed, NoneSent DEF NoSend
<1>7. CASE ui.arms.delete = name
  <2>1. PICK a : a = [d EXCEPT !.delete = None]
    OBVIOUS
  <2>2. HasFields(a, ArmFields) /\ Covered(a, ui.client, asked')
    BY <1>2, <1>3, <1>4, <1>7, <2>1 DEF HasFields, ArmFields, Covered
  <2>3. <<"RemoveProfile", name>> \in asked
    BY <1>2, <1>5, <1>7 DEF Covered
  <2>4. Consents
    BY <1>4, <1>7, <2>3, Sent
  <2> QED  BY <1>3, <1>4, <1>7, <2>1, <2>2, <2>4, Rearmed
<1> QED  BY <1>6, <1>7

LEMMA ClearKeyHolds ==
  ASSUME ViewInv, GoodQueue(queue), ClearKey
  PROVE  ViewInv' /\ Consents
<1>1. PICK d : d = Disarmed("O")
  OBVIOUS
<1>2. HasFields(d, ArmFields) /\ Covered(d, ui.client, asked)
  BY <1>1, KeysDisarm
<1>3. UNCHANGED seen
  BY TerminalOnly DEF ClearKey
<1>4. PICK v : /\ Arms([d EXCEPT !.clear = v])
               /\ asked' \in {asked \cup {<<"ClearOverride", seen.active>>},
                              asked \ {<<"ClearOverride", seen.active>>}}
  BY <1>1 DEF ClearKey
<1>5. PICK a : a = [d EXCEPT !.clear = v]
  OBVIOUS
<1>6. HasFields(a, ArmFields) /\ Covered(a, ui.client, asked')
  BY <1>2, <1>4, <1>5 DEF HasFields, ArmFields, Covered
<1>7. Consents
  BY NoneSent, Harmless, Sent DEF ClearKey, NoSend
<1> QED  BY <1>3, <1>4, <1>5, <1>6, <1>7, Rearmed

LEMMA LoadKeyHolds ==
  ASSUME ViewInv, GoodQueue(queue), LoadKey
  PROVE  ViewInv' /\ Consents
<1>1. PICK d : d = Disarmed("f")
  OBVIOUS
<1>2. HasFields(d, ArmFields) /\ Covered(d, ui.client, asked)
  BY <1>1, KeysDisarm
<1>3. ~ Desktop /\ ui.client = "terminal" /\ UNCHANGED seen
  BY TerminalOnly DEF LoadKey
<1>4. CASE ui.arms.load = None
  <2>1. PICK e : /\ ui' = [ui EXCEPT !.editor = e, !.arms = d]
                 /\ e = Editor("file", seen.active, None)
    BY <1>1, <1>4 DEF LoadKey
  <2>2. GoodText(e)
    BY <2>1 DEF GoodText, Editor
  <2>3. Quiet
    BY <1>4 DEF LoadKey
  <2> QED  BY <1>2, <1>3, <2>1, <2>2, <2>3, Edited, NoneSent DEF Quiet, NoSend
<1>5. CASE ui.arms.load # None
  <2>1. PICK a : a = [d EXCEPT !.load = None]
    OBVIOUS
  <2>2. asked' = asked \ {<<"SetOverride", ui.arms.load.of>>} /\ Arms(a)
    BY <1>1, <1>5, <2>1 DEF LoadKey
  <2>3. HasFields(a, ArmFields) /\ Covered(a, ui.client, asked')
    BY <1>2, <1>3, <2>1, <2>2 DEF HasFields, ArmFields, Covered
  <2>4. <<"SetOverride", ui.arms.load.of>> \in asked
    BY <1>5 DEF ViewInv, ArmsAsked, Covered
  <2>5. Consents
    <3>1. CASE NoSend
      BY <3>1, NoneSent DEF NoSend
    <3>2. CASE Send(Cmd("SetOverride", ui.arms.load.of, ui.arms.load.text))
      BY <2>4, <3>2, Sent
    <3> QED  BY <1>5, <3>1, <3>2 DEF LoadKey, LoadTargets
  <2> QED  BY <1>3, <2>2, <2>3, <2>5, Rearmed
<1> QED  BY <1>4, <1>5

LEMMA CommitLoadHolds ==
  ASSUME ViewInv, GoodQueue(queue), CommitLoad
  PROVE  ViewInv' /\ Consents
<1>1. ~ Desktop /\ ui.client = "terminal" /\ UNCHANGED seen /\ GoodText(None)
  BY DEF CommitLoad, Key, Desktop, GoodText
<1>2. CASE seen.active = None
  BY <1>1, <1>2, OnlyEdited, NoneSent DEF CommitLoad, Quiet, NoSend
<1>3. CASE seen.active # None /\ seen.override # None
  <2>1. PICK a : a = [ui.arms EXCEPT !.load = [of |-> seen.active, text |-> "file"]]
    OBVIOUS
  <2>2. ui' = [ui EXCEPT !.editor = None, !.arms = a]
    BY <1>3, <2>1 DEF CommitLoad, ViewInv, IsView, HasFields, ViewFields
  <2>3. asked' = asked \cup {<<"SetOverride", seen.active>>} /\ NoSend
    BY <1>3 DEF CommitLoad
  <2>4. HasFields(a, ArmFields) /\ Covered(a, ui.client, asked')
    BY <2>1, <2>3 DEF ViewInv, IsView, ArmsAsked, HasFields, ArmFields, Covered
  <2> QED  BY <1>1, <2>2, <2>3, <2>4, Edited, NoneSent DEF NoSend
<1>4. CASE seen.active # None /\ seen.override = None
  <2>1. ~ Asks(Cmd("SetOverride", seen.active, "file"))
    BY <1>1, <1>4 DEF Asks, Cmd
  <2>2. Send(Cmd("SetOverride", seen.active, "file")) /\ UNCHANGED asked
        /\ ui' = [ui EXCEPT !.editor = None]
    BY <1>4 DEF CommitLoad
  <2>3. Consents
    BY <2>1, <2>2, Sent
  <2> QED  BY <1>1, <2>2, <2>3, OnlyEdited
<1> QED  BY <1>2, <1>3, <1>4 DEF CommitLoad

LEMMA ModeKeyHolds ==
  ASSUME ViewInv, GoodQueue(queue), ModeKey
  PROVE  ViewInv' /\ Consents
<1>1. PICK d : d = Disarmed("m")
  OBVIOUS
<1>2. HasFields(d, ArmFields) /\ Covered(d, ui.client, asked)
  BY <1>1, KeysDisarm
<1>3. ~ Desktop /\ ui.client = "terminal" /\ UNCHANGED seen
  BY TerminalOnly DEF ModeKey
<1>4. PICK mode, target :
        /\ Arms([d EXCEPT !.mode = mode])
        /\ \/ asked' = asked \cup {<<"SetTrafficMode", target>>}
           \/ asked' = asked \ {<<"SetTrafficMode", target>>}
  BY <1>1 DEF ModeKey
<1>5. PICK a : a = [d EXCEPT !.mode = mode]
  OBVIOUS
<1>6. HasFields(a, ArmFields) /\ Covered(a, ui.client, asked')
  BY <1>2, <1>3, <1>4, <1>5 DEF HasFields, ArmFields, Covered
<1>7. Consents
  BY <1>3, NoneSent, HarmlessHere, Sent DEF ModeKey, NoSend
<1> QED  BY <1>3, <1>4, <1>5, <1>6, <1>7, Rearmed

LEMMA LeavingHolds ==
  ASSUME ViewInv, GoodQueue(queue), IsSnap(snap), GoodLinks(snap), LeaveTerminal
  PROVE  ViewInv' /\ Consents
<1>1. PICK keep : ui' = [ui EXCEPT !.open = FALSE, !.keep = keep]
  BY DEF LeaveTerminal
<1>2. /\ HasFields(ui', ViewFields) /\ ui'.arms = ui.arms /\ ui'.client = ui.client
      /\ ui'.editor = ui.editor
  BY <1>1 DEF ViewInv, IsView, HasFields, ViewFields
<1>3. seen' = snap /\ UNCHANGED asked
  BY DEF LeaveTerminal
<1>4. Consents
  BY Harmless, Sent DEF LeaveTerminal
<1> QED  BY <1>2, <1>3, <1>4 DEF ViewInv, IsView, GoodEditor, ArmsAsked

LEMMA KeysHold ==
  ASSUME LoopInv, ViewInv, KeyNext
  PROVE  ViewInv' /\ Consents
  BY PlainKeysHold, LinkKeysHold, DeleteRowHolds, ClearKeyHolds, LoadKeyHolds, CommitLoadHolds,
     ModeKeyHolds, LeavingHolds DEF LoopInv, KeyNext

LEMMA DesktopOnly ==
  ASSUME NEW matter, Click(matter)
  PROVE  UNCHANGED seen
  BY DEF Click, Key

LEMMA PlainClicksHold ==
  ASSUME ViewInv, GoodQueue(queue),
         \/ ToggleProxyButton \/ ActivateButton \/ NodeButton \/ CloseConnButton
         \/ EditLinkButton \/ SaveLink \/ TypeField \/ LeaveField \/ SaveField
  PROVE  ViewInv' /\ Consents
<1>1. CASE ToggleProxyButton
  <2>1. Consents
    BY <1>1, Harmless, Sent DEF ToggleProxyButton
  <2> QED  BY <1>1, <2>1, DesktopOnly, SameView DEF ToggleProxyButton
<1>2. CASE ActivateButton
  <2>1. Consents
    BY <1>2, Harmless, Sent DEF ActivateButton
  <2> QED  BY <1>2, <2>1, DesktopOnly, SameView DEF ActivateButton
<1>3. CASE NodeButton
  <2>1. Consents
    BY <1>3, Harmless, Sent DEF NodeButton
  <2> QED  BY <1>3, <2>1, DesktopOnly, SameView DEF NodeButton
<1>4. CASE CloseConnButton
  <2>1. Consents
    BY <1>4, Harmless, Sent DEF CloseConnButton
  <2> QED  BY <1>4, <2>1, DesktopOnly, SameView DEF CloseConnButton
<1>5. CASE EditLinkButton
  <2>1. UNCHANGED <<seen, asked>> /\ Consents
    BY <1>5, DesktopOnly, NoneSent DEF EditLinkButton, Quiet, NoSend
  <2>2. PICK name, e :
          /\ name \in ToSet(seen.list)
          /\ ui' = [ui EXCEPT !.editor = e]
          /\ e = None \/ e = Editor("link", name, Prefilled(name))
    BY <1>5 DEF EditLinkButton
  <2>3. GoodText(e)
    BY <2>2 DEF GoodText, Editor, Prefilled
  <2> QED  BY <2>1, <2>2, <2>3, OnlyEdited
<1>6. CASE SaveLink
  <2>1. ui.editor.text \in {None, ui.editor.of}
    BY <1>6 DEF SaveLink, ViewInv, GoodEditor, GoodText
  <2>2. Consents
    BY <1>6, <2>1, Harmless, Sent DEF SaveLink
  <2> QED  BY <1>6, <2>2, DesktopOnly, OnlyEdited DEF SaveLink, GoodText
<1>7. CASE TypeField \/ LeaveField
  <2>1. UNCHANGED <<seen, asked>> /\ Consents
    BY <1>7, DesktopOnly, NoneSent DEF TypeField, LeaveField, Quiet, NoSend
  <2>2. PICK v : ui' = [ui EXCEPT !.field = v]
    BY <1>7 DEF TypeField, LeaveField
  <2> QED  BY <2>1, <2>2, Moved
<1>8. CASE SaveField
  <2>1. Consents
    BY <1>8, Harmless, Sent DEF SaveField
  <2>2. PICK v : v = [ui.field EXCEPT !.focused = FALSE] /\ ui' = [ui EXCEPT !.field = v]
    BY <1>8 DEF SaveField
  <2> QED  BY <1>8, <2>1, <2>2, DesktopOnly, Moved DEF SaveField
<1> QED  BY <1>1, <1>2, <1>3, <1>4, <1>5, <1>6, <1>7, <1>8

\* Arms that are taken back, or that bind nothing, leave the others covered.
LEMMA Disarms ==
  ASSUME ViewInv, NEW f \in ArmFields \ {"delete", "load"}, NEW v,
         f \in {"closeAll", "stop"} => v = FALSE, f = "mode" => v = None,
         NEW a, a = [ui.arms EXCEPT ![f] = v]
  PROVE  HasFields(a, ArmFields) /\ Covered(a, ui.client, asked)
  BY DEF ViewInv, IsView, ArmsAsked, HasFields, ArmFields, Covered

LEMMA ArmingClicksHold ==
  ASSUME ViewInv, GoodQueue(queue), Navigate \/ ClearButton \/ ConfirmClear
  PROVE  ViewInv' /\ Consents
<1>1. CASE Navigate
  <2>1. PICK a : a = [ui.arms EXCEPT !.closeAll = FALSE, !.delete = None, !.clear = FALSE]
    OBVIOUS
  <2>2. HasFields(a, ArmFields) /\ Covered(a, ui.client, asked)
    BY <2>1 DEF ViewInv, IsView, ArmsAsked, HasFields, ArmFields, Covered
  <2> QED  BY <1>1, <2>1, <2>2, DesktopOnly, Rearmed, NoneSent DEF Navigate, Quiet, NoSend
<1>2. CASE ClearButton
  <2>1. PICK a : a = [ui.arms EXCEPT !.clear = ~@] /\ Arms(a)
    BY <1>2 DEF ClearButton
  <2>2. HasFields(a, ArmFields) /\ Covered(a, ui.client, asked)
    BY <2>1, Disarms DEF ArmFields
  <2> QED  BY <1>2, <2>1, <2>2, DesktopOnly, Rearmed, NoneSent DEF ClearButton, Quiet, NoSend
<1>3. CASE ConfirmClear
  <2>1. PICK a : a = [ui.arms EXCEPT !.clear = FALSE] /\ Arms(a)
    BY <1>3 DEF ConfirmClear
  <2>2. HasFields(a, ArmFields) /\ Covered(a, ui.client, asked)
    BY <2>1, Disarms DEF ArmFields
  <2>3. Consents
    BY <1>3, Harmless, Sent DEF ConfirmClear
  <2> QED  BY <1>3, <2>1, <2>2, <2>3, DesktopOnly, Rearmed DEF ConfirmClear
<1> QED  BY <1>1, <1>2, <1>3

LEMMA StopClicksHold ==
  ASSUME ViewInv, GoodQueue(queue), PowerButton \/ AnswerStop
  PROVE  ViewInv' /\ Consents
<1>1. UNCHANGED seen
  BY DesktopOnly DEF PowerButton, AnswerStop
<1>2. ASSUME ui.arms.stop  PROVE ui.client = "desktop" => <<"StopCore", None>> \in asked
  BY <1>2 DEF ViewInv, ArmsAsked, Covered
<1>3. ASSUME ui.arms.stop, Send(Cmd("StopCore", None, None)), ui.client = "desktop"  PROVE Consents
  BY <1>2, <1>3, Sent
<1>4. CASE PowerButton /\ ~ UNCHANGED <<ui, asked>>
  <2>1. PICK a : a = [ui.arms EXCEPT !.stop = TRUE]
    OBVIOUS
  <2>2. Arms(a) /\ asked' = asked \cup {<<"StopCore", None>>} /\ NoSend
    BY <1>4, <2>1 DEF PowerButton
  <2>3. HasFields(a, ArmFields) /\ Covered(a, ui.client, asked')
    BY <2>1, <2>2 DEF ViewInv, IsView, ArmsAsked, HasFields, ArmFields, Covered
  <2> QED  BY <1>1, <2>2, <2>3, Rearmed, NoneSent DEF NoSend
<1>5. CASE PowerButton /\ UNCHANGED <<ui, asked>>
  <2>1. ui.client = "desktop"
    BY <1>5 DEF PowerButton, Click, Key
  <2>2. ASSUME \/ Send(Cmd("StartCore", None, None))
               \/ Send(Cmd("RestartCore", None, None))
        PROVE  Consents
    BY <2>2, Harmless, Sent
  <2>3. ASSUME ui.arms.stop, Send(Cmd("StopCore", None, None))  PROVE Consents
    BY <1>3, <2>1, <2>3
  <2>4. ASSUME NoSend  PROVE Consents
    BY <2>4, NoneSent DEF NoSend
  <2>5. Consents
    BY <1>5, <2>2, <2>3, <2>4 DEF PowerButton
  <2> QED  BY <1>1, <1>5, <2>5, SameView
<1>6. CASE AnswerStop
  <2>1. ui.client = "desktop" /\ ui.arms.stop
    BY <1>6 DEF AnswerStop, Click, Key
  <2>2. Consents
    BY <1>3, <1>6, <2>1, NoneSent DEF AnswerStop, NoSend
  <2>3. PICK a : a = [ui.arms EXCEPT !.stop = FALSE]
    OBVIOUS
  <2>4. HasFields(a, ArmFields) /\ Covered(a, ui.client, asked')
    BY <1>6, <2>3 DEF AnswerStop, ViewInv, IsView, ArmsAsked, HasFields, ArmFields, Covered
  <2> QED  BY <1>1, <1>6, <2>2, <2>3, <2>4, Rearmed DEF AnswerStop
<1> QED  BY <1>4, <1>5, <1>6

LEMMA DeleteButtonHolds ==
  ASSUME ViewInv, GoodQueue(queue), DeleteButton
  PROVE  ViewInv' /\ Consents
<1>1. UNCHANGED seen
  BY DesktopOnly DEF DeleteButton
<1>2. PICK name \in ToSet(seen.list) :
        IF ui.arms.delete # name
        THEN /\ Arms([ui.arms EXCEPT !.delete = name])
             /\ asked' = asked \cup {<<"RemoveProfile", name>>}
             /\ NoSend
        ELSE /\ Arms([ui.arms EXCEPT !.delete = None])
             /\ asked' = asked \ {<<"RemoveProfile", name>>}
             /\ Send(Cmd("RemoveProfile", name, None))
  BY DEF DeleteButton
<1>3. name # None
  <2>1. name \in Names
    BY DEF ViewInv, IsSnap, ToSet
  <2> QED  BY <2>1, LoopAssumption
<1>4. CASE ui.arms.delete # name
  <2>1. PICK a : a = [ui.arms EXCEPT !.delete = name]
    OBVIOUS
  <2>2. HasFields(a, ArmFields) /\ Covered(a, ui.client, asked')
    BY <1>2, <1>4, <2>1 DEF ViewInv, IsView, ArmsAsked, HasFields, ArmFields, Covered
  <2> QED  BY <1>1, <1>2, <1>4, <2>1, <2>2, Rearmed, NoneSent DEF NoSend
<1>5. CASE ui.arms.delete = name
  <2>1. PICK a : a = [ui.arms EXCEPT !.delete = None]
    OBVIOUS
  <2>2. HasFields(a, ArmFields) /\ Covered(a, ui.client, asked')
    BY <1>2, <1>5, <2>1 DEF ViewInv, IsView, ArmsAsked, HasFields, ArmFields, Covered
  <2>3. <<"RemoveProfile", name>> \in asked
    BY <1>3, <1>5 DEF ViewInv, ArmsAsked, Covered
  <2>4. Consents
    BY <1>2, <1>5, <2>3, Sent
  <2> QED  BY <1>1, <1>2, <1>5, <2>1, <2>2, <2>4, Rearmed
<1> QED  BY <1>4, <1>5

LEMMA CloseAllButtonHolds ==
  ASSUME ViewInv, GoodQueue(queue), CloseAllButton
  PROVE  ViewInv' /\ Consents
<1>1. UNCHANGED seen /\ ui.client = "desktop"
  BY DesktopOnly DEF CloseAllButton, Click, Key
<1>2. CASE ui.arms.closeAll
  <2>1. PICK a : a = [ui.arms EXCEPT !.closeAll = FALSE]
    OBVIOUS
  <2>2. HasFields(a, ArmFields) /\ Covered(a, ui.client, asked')
    BY <1>2, <2>1 DEF CloseAllButton, ViewInv, IsView, ArmsAsked, HasFields, ArmFields, Covered
  <2>3. <<"CloseAllConnections", None>> \in asked
    BY <1>1, <1>2 DEF ViewInv, ArmsAsked, Covered
  <2>4. Consents
    BY <1>2, <2>3, Sent DEF CloseAllButton
  <2> QED  BY <1>1, <1>2, <2>1, <2>2, <2>4, Rearmed DEF CloseAllButton
<1>3. CASE ~ ui.arms.closeAll
  <2>1. PICK a : a = [ui.arms EXCEPT !.closeAll = TRUE]
    OBVIOUS
  <2>2. HasFields(a, ArmFields) /\ Covered(a, ui.client, asked')
    BY <1>3, <2>1 DEF CloseAllButton, ViewInv, IsView, ArmsAsked, HasFields, ArmFields, Covered
  <2> QED  BY <1>1, <1>3, <2>1, <2>2, Rearmed, NoneSent DEF CloseAllButton, NoSend
<1> QED  BY <1>2, <1>3

LEMMA ModeButtonHolds ==
  ASSUME ViewInv, GoodQueue(queue), ModeButton
  PROVE  ViewInv' /\ Consents
<1>1. UNCHANGED seen /\ ui.client = "desktop"
  BY DesktopOnly DEF ModeButton, Click, Key
<1>2. PICK target : target = Other(seen.mode)
  OBVIOUS
<1>3. target # None
  BY <1>2, LoopAssumption DEF Other, Modes
<1>4. CASE (seen.running \/ seen.starting) /\ AgreedTo(target)
  <2>1. PICK a : a = [ui.arms EXCEPT !.mode = None]
    OBVIOUS
  <2>2. /\ Arms(a) /\ asked' = asked \ {<<"SetTrafficMode", target>>}
        /\ Send(Cmd("SetTrafficMode", target, None))
    BY <1>2, <1>4, <2>1 DEF ModeButton
  <2>3. HasFields(a, ArmFields) /\ Covered(a, ui.client, asked')
    BY <2>1, <2>2 DEF ViewInv, IsView, ArmsAsked, HasFields, ArmFields, Covered
  <2>4. <<"SetTrafficMode", target>> \in asked
    BY <1>1, <1>3, <1>4 DEF AgreedTo, ViewInv, ArmsAsked, Covered
  <2> QED  BY <1>1, <2>2, <2>3, <2>4, Rearmed, Sent
<1>5. CASE (seen.running \/ seen.starting) /\ ~ AgreedTo(target)
  <2>1. PICK a : a = [ui.arms EXCEPT !.mode = target]
    OBVIOUS
  <2>2. Arms(a) /\ asked' = asked \cup {<<"SetTrafficMode", target>>} /\ NoSend
    BY <1>2, <1>5, <2>1 DEF ModeButton
  <2>3. HasFields(a, ArmFields) /\ Covered(a, ui.client, asked')
    BY <2>1, <2>2 DEF ViewInv, IsView, ArmsAsked, HasFields, ArmFields, Covered
  <2> QED  BY <1>1, <2>2, <2>3, Rearmed, NoneSent DEF NoSend
<1>6. CASE ~ (seen.running \/ seen.starting)
  <2>1. Send(Cmd("UpdateSettings", "mode", target)) /\ UNCHANGED <<ui, asked>>
    BY <1>2, <1>6 DEF ModeButton
  <2> QED  BY <1>1, <2>1, SameView, Harmless, Sent
<1> QED  BY <1>4, <1>5, <1>6

LEMMA CloseWindowHolds ==
  ASSUME ViewInv, GoodQueue(queue), CloseWindow
  PROVE  ViewInv' /\ Consents
<1>1. UNCHANGED <<seen, asked>>
  BY DEF CloseWindow
<1>2. CASE Arms([ui.arms EXCEPT !.quit = TRUE]) /\ UNCHANGED queue
  <2>1. PICK a : a = [ui.arms EXCEPT !.quit = TRUE]
    OBVIOUS
  <2>2. HasFields(a, ArmFields) /\ Covered(a, ui.client, asked)
    BY <2>1, Disarms DEF ArmFields
  <2> QED  BY <1>1, <1>2, <2>1, <2>2, Rearmed, NoneSent
<1>3. ASSUME NEW keep, ui' = [ui EXCEPT !.open = FALSE] \/ ui' = [ui EXCEPT !.open = FALSE, !.keep = keep],
             Send(Cmd("Shutdown", None, None))
      PROVE  ViewInv' /\ Consents
  <2>1. /\ HasFields(ui', ViewFields) /\ ui'.arms = ui.arms /\ ui'.client = ui.client
        /\ ui'.editor = ui.editor
    BY <1>3 DEF ViewInv, IsView, HasFields, ViewFields
  <2>2. Consents
    BY <1>3, Harmless, Sent
  <2> QED  BY <1>1, <2>1, <2>2 DEF ViewInv, IsView, GoodEditor, ArmsAsked
<1> QED  BY <1>2, <1>3 DEF CloseWindow

LEMMA ClicksHold ==
  ASSUME LoopInv, ViewInv, ClickNext
  PROVE  ViewInv' /\ Consents
  BY PlainClicksHold, ArmingClicksHold, StopClicksHold, DeleteButtonHolds, CloseAllButtonHolds,
     ModeButtonHolds, CloseWindowHolds DEF LoopInv, ClickNext

-------------------------------------------------------------------------------
(* The client as a whole *)

LEMMA InterfaceStarts ==
  ASSUME Init
  PROVE  InterfaceInv
<1>1. PICK session \in Sessions :
        /\ LoopInit(session.budget, session.auto)
        /\ seen = snap
        /\ ui = FirstView(session, snap.port)
  BY DEF Init
<1>2. PICK auto : engine = FirstEngine(auto) /\ snap = FirstSnapshot(auto)
  BY <1>1 DEF LoopInit
<1>3. FirstList \in Seq(Names) /\ FirstList[1] \in Names
  BY LoopAssumption
<1>4. IsSnap(snap) /\ GoodLinks(snap) /\ NothingShown(snap)
  <2>1. HasFields(snap, SnapFields) /\ NothingShown(snap) /\ snap.list = FirstList /\ snap.logs = <<>>
    BY <1>2 DEF FirstSnapshot, HasFields, SnapFields, NothingShown
  <2>2. snap.links = [n \in Names |-> IF n = FirstList[1] THEN n ELSE None]
    BY <1>2 DEF FirstSnapshot
  <2>3. snap.links \in [Names -> Names \cup {None}] /\ GoodLinks(snap)
    BY <2>2 DEF GoodLinks
  <2> QED  BY <1>3, <2>1, <2>3 DEF IsSnap
<1>5. IsEngine(engine)
  BY <1>2 DEF FirstEngine, Op, IsEngine, HasFields, EngineFields
<1>6. IsCore(core) /\ logFile \in Seq(Lines) /\ GoodQueue(queue) /\ poll = NoPoll
  BY <1>1 DEF LoopInit, NoCore, IsCore, HasFields, CoreFields, GoodQueue
<1>7. LoopInv
  BY <1>4, <1>5, <1>6, NothingToShow, NoPollStage DEF LoopInv, ShownBy, NoPoll
<1>8. IsView(ui) /\ GoodEditor(ui) /\ ArmsAsked(ui, asked)
  BY <1>1 DEF FirstView, NoArms, IsView, HasFields, ViewFields, ArmFields, GoodEditor, GoodText,
              ArmsAsked, Covered
<1> QED  BY <1>1, <1>4, <1>7, <1>8 DEF InterfaceInv, ViewInv

\* The user's steps leave all of the engine but its queue alone.
LEMMA LoopUntouched ==
  ASSUME LoopInv, GoodQueue(queue'), UNCHANGED <<engine, snap, poll, core, logFile>>
  PROVE  LoopInv'
  BY DEF LoopInv, Alive

LEMMA KeysLeaveTheLoop ==
  ASSUME KeyNext
  PROVE  UNCHANGED <<engine, snap, poll, core, logFile>>
  BY DEF KeyNext, OtherKey, StartStop, ToggleProxyKey, UpdateKey, MoveRow, ActivateRow, DeleteRow,
         EditLinkKey, EscapeEditor, TypeLink, CommitLink, ClearKey, LoadKey, CommitLoad, ModeKey,
         MoveMember, SelectMember, MoveConn, CloseSelected, CloseAllKey, AskQuit, LeaveTerminal,
         Press, Key

LEMMA ClicksLeaveTheLoop ==
  ASSUME ClickNext
  PROVE  UNCHANGED <<engine, snap, poll, core, logFile>>
  BY DEF ClickNext, Navigate, PowerButton, AnswerStop, ToggleProxyButton, ActivateButton,
         DeleteButton, EditLinkButton, SaveLink, ClearButton, ConfirmClear, ModeButton, NodeButton,
         CloseConnButton, CloseAllButton, TypeField, LeaveField, SaveField, CloseWindow, Click, Key

\* The loop sends itself nothing.
LEMMA LoopSendsNothing ==
  ASSUME LoopInv, LoopNext
  PROVE  ~ (Len(queue') > Len(queue))
<1>1. Len(queue) \in Nat
  BY DEF LoopInv, GoodQueue
<1>2. CASE Take
  BY <1>2, QueueTaken DEF Take, LoopInv
<1>3. CASE UNCHANGED queue
  BY <1>1, <1>3
<1> QED
  BY <1>2, <1>3 DEF LoopNext, CoreDies, CoreWrites, ConnectionsChange, OpActs, OpEnds, Tick,
     PollBegins, PollAsks, PollStores, PollSkips

LEMMA RefreshHolds ==
  ASSUME LoopInv, ViewInv, Refresh
  PROVE  ViewInv'
<1>1. ui' = Synced(ui, snap) /\ seen' = snap /\ UNCHANGED asked
  BY DEF Refresh, Copy
<1>2. /\ HasFields(ui', ViewFields) /\ ui'.arms = ui.arms /\ ui'.client = ui.client
      /\ ui'.editor = ui.editor
  BY <1>1 DEF Synced, ViewInv, IsView, HasFields, ViewFields
<1> QED  BY <1>1, <1>2 DEF LoopInv, ViewInv, IsView, GoodEditor, ArmsAsked

LEMMA InterfaceHolds ==
  ASSUME InterfaceInv, [Next]_vars
  PROVE  /\ InterfaceInv'
         /\ Len(queue') > Len(queue) /\ Asks(Last(queue')) =>
              <<Last(queue').what, Last(queue').of>> \in asked
<1>1. LoopInv /\ ViewInv /\ GoodQueue(queue)
  BY DEF InterfaceInv, LoopInv
<1>2. CASE LoopNext /\ UNCHANGED uiVars
  <2>1. ViewInv'
    BY <1>1, <1>2, SameView DEF uiVars
  <2> QED  BY <1>1, <1>2, <2>1, LoopHolds, LoopSendsNothing DEF InterfaceInv
<1>3. CASE Refresh
  <2>1. UNCHANGED <<queue, engine, snap, poll, core, logFile>>
    BY <1>3 DEF Refresh, loopVars
  <2> QED  BY <1>1, <1>3, <2>1, RefreshHolds, LoopUntouched, NoneSent DEF InterfaceInv, Consents
<1>4. CASE KeyNext
  BY <1>1, <1>4, KeysHold, KeysLeaveTheLoop, LoopUntouched DEF InterfaceInv, Consents
<1>5. CASE ClickNext
  BY <1>1, <1>5, ClicksHold, ClicksLeaveTheLoop, LoopUntouched DEF InterfaceInv, Consents
<1>6. CASE UNCHANGED vars
  <2>1. UNCHANGED <<queue, engine, snap, poll, core, logFile>> /\ UNCHANGED <<seen, ui, asked>>
    BY <1>6 DEF vars, loopVars, uiVars
  <2> QED  BY <1>1, <2>1, SameView, LoopUntouched, NoneSent DEF InterfaceInv, Consents
<1> QED  BY <1>2, <1>3, <1>4, <1>5, <1>6 DEF Next

\* Every state of the two clients satisfies the invariant (controller.rs, input.rs, the pages
\* of the desktop client).
THEOREM InterfaceInvariant ==
  Spec => []InterfaceInv
<1>1. Init => InterfaceInv
  BY InterfaceStarts
<1>2. InterfaceInv /\ [Next]_vars => InterfaceInv'
  BY InterfaceHolds
<1> QED  BY <1>1, <1>2, PTL DEF Spec

\* What is shown of a core's groups, connections and memory is of the core that runs, never
\* of one that crashed or was stopped while its answers were on their way (controller.rs:
\* poll, schedule_restart, stop_core).
THEOREM ShowsRunningCore ==
  Spec => []ShowsOwnRun
<1>1. InterfaceInv => ShowsOwnRun
  BY DEF InterfaceInv, LoopInv, ShowsRun, ShowsOwnRun
<1> QED  BY <1>1, InterfaceInvariant, PTL

\* While a core runs, the log that is shown is what it has written up to the last line read:
\* no line twice, none left out, none of an earlier launch (controller.rs: tail_core_log).
THEOREM LogIsShownOnce ==
  Spec => []LogShownOnce
<1>1. InterfaceInv => LogShownOnce
  BY DEF InterfaceInv, LoopInv, ReadIsShown, LogShownOnce
<1> QED  BY <1>1, InterfaceInvariant, PTL

\* A link that was typed for a profile, or read from it, is saved for no other one, whatever
\* happens to the list while the editor is open (the profile pages, set_profile_url).
THEOREM LinksGoHome ==
  Spec => []LinkGoesToItsProfile
<1>1. InterfaceInv => LinkGoesToItsProfile
  BY DEF InterfaceInv, LoopInv, GoodLinks, LinkGoesToItsProfile
<1> QED  BY <1>1, InterfaceInvariant, PTL

\* A step that sends a command which cannot be taken back sends it for what a question that
\* still stands has named, although the snapshot may have moved on since (input.rs and the
\* pages of the desktop client).
THEOREM IrrevocableIsAsked ==
  Spec => AskedThenDone
<1>1. InterfaceInv /\ [Next]_vars =>
        [Len(queue') > Len(queue) /\ Asks(Last(queue')) =>
           <<Last(queue').what, Last(queue').of>> \in asked]_vars
  BY InterfaceHolds
<1> QED  BY <1>1, InterfaceInvariant, PTL DEF Spec, AskedThenDone

-----------------------------------------------------------------------------
\* A profile of the list has the name and the number.
Owner(list, name, id) == \E p \in list : p.name = name /\ p.id = id

ProfilesOK(list) ==
  /\ \A p \in list : p.name \in ProfileNames /\ p.id \in Nat \ {0}
  /\ \A p, q \in list : p.name = q.name => p = q

MemoryFields == {"list", "active", "mode", "refuses", "job", "run"}

Spendings == [imports : Nat, commands : Nat, faults : Nat, opens : Nat]

LibraryTypes ==
  /\ {"list", "torn"} \subseteq DOMAIN store
  /\ memory # Missing => DOMAIN memory = MemoryFields /\ memory.refuses \in BOOLEAN
  /\ DOMAIN caches \subseteq ProfileNames
  /\ DOMAIN overrides \subseteq ProfileNames
  /\ spent \in Spendings

\* A file under one of the names is that of the profile of the name, unless another one may
\* have left it.
FilesOwned(list, names, cs, os, stale) ==
  /\ \A n \in DOMAIN cs \cap names :
       cs[n] = Torn \/ <<"cache", n>> \in stale \/ Owner(list, n, cs[n].id)
  /\ \A n \in DOMAIN os \cap names :
       <<"override", n>> \in stale \/ Owner(list, n, os[n].id)

\* So is a cache of the older version under each name it may be copied to.
LegacyOwned(list, stale) ==
  \A f \in LegacyFiles :
    \/ \E p \in list : p.id = f.id /\ LegacyPath[p.name] = f.path
    \/ \A n \in ProfileNames : LegacyPath[n] = f.path => <<"cache", n>> \in stale

UpdatedCached(list, cs) == \A p \in list : p.updated => p.name \in DOMAIN cs

\* What has not been stored may leave files behind.
Recorded(list, stored, stale) ==
  \A p \in list : Owner(stored, p.name, p.id) \/ Both(p.name) \subseteq stale

JobOwned(job, list, stale) ==
  /\ Owner(list, job.name, job.id)
  /\ job.kind = "start" => job.override.id = job.id \/ <<"override", job.name>> \in stale

StoreInv ==
  /\ ProfilesOK(store.list)
  /\ FilesOwned(store.list, ProfileNames, caches, overrides, leftBehind)
  /\ LegacyOwned(store.list, leftBehind)
  /\ UpdatedCached(store.list, caches)
  /\ ~ store.torn => kept \subseteq IdsOf(store.list)

\* What will be in the store once it is stored, unless it is never stored.
MemoryInv ==
  /\ ProfilesOK(memory.list)
  /\ FilesOwned(memory.list, NamesOf(memory.list), caches, overrides, leftBehind)
  /\ UpdatedCached(memory.list, caches)
  /\ Recorded(memory.list, store.list, leftBehind)
  /\ memory.job # Missing => JobOwned(memory.job, memory.list, leftBehind)
  /\ ~ memory.refuses =>
       /\ FilesOwned(memory.list, ProfileNames, caches, overrides, leftBehind)
       /\ LegacyOwned(memory.list, leftBehind)
       /\ kept \subseteq IdsOf(memory.list)

LibraryInv == LibraryTypes /\ StoreInv /\ (memory # Missing => MemoryInv)

-----------------------------------------------------------------------------
\* What becomes of the files when the profiles change: those of a profile that goes are left.
LEMMA FilesStay ==
  ASSUME NEW list, NEW names, NEW cs, NEW os, NEW stale, FilesOwned(list, names, cs, os, stale),
         NEW list2, NEW names2, NEW stale2, stale \subseteq stale2,
         \A p \in list : Owner(list2, p.name, p.id) \/ Both(p.name) \subseteq stale2,
         \A n \in names2 : n \in names \/ Both(n) \subseteq stale2
  PROVE  FilesOwned(list2, names2, cs, os, stale2)
<1>1. ASSUME NEW n \in DOMAIN cs \cap names2
      PROVE cs[n] = Torn \/ <<"cache", n>> \in stale2 \/ Owner(list2, n, cs[n].id)
  <2>1. CASE Both(n) \subseteq stale2
    BY <2>1 DEF Both
  <2>2. CASE n \in names /\ Owner(list, n, cs[n].id)
    <3>1. PICK p \in list : p.name = n /\ p.id = cs[n].id
      BY <2>2 DEF Owner
    <3>2. Owner(list2, n, cs[n].id) \/ Both(n) \subseteq stale2
      BY <3>1
    <3> QED  BY <3>2, <2>1
  <2> QED  BY <2>1, <2>2 DEF FilesOwned
<1>2. ASSUME NEW n \in DOMAIN os \cap names2
      PROVE <<"override", n>> \in stale2 \/ Owner(list2, n, os[n].id)
  <2>1. CASE Both(n) \subseteq stale2
    BY <2>1 DEF Both
  <2>2. CASE n \in names /\ Owner(list, n, os[n].id)
    <3>1. PICK p \in list : p.name = n /\ p.id = os[n].id
      BY <2>2 DEF Owner
    <3>2. Owner(list2, n, os[n].id) \/ Both(n) \subseteq stale2
      BY <3>1
    <3> QED  BY <3>2, <2>1
  <2> QED  BY <2>1, <2>2 DEF FilesOwned
<1> QED  BY <1>1, <1>2 DEF FilesOwned

LEMMA FilesOfNames ==
  ASSUME NEW list, NEW names, NEW cs, NEW os, NEW stale, FilesOwned(list, names, cs, os, stale),
         NEW names2, \A n \in names2 : n \in names \/ Both(n) \subseteq stale
  PROVE  FilesOwned(list, names2, cs, os, stale)
BY DEF FilesOwned, Both

LEMMA PutCache ==
  ASSUME NEW list, NEW names, NEW cs, NEW os, NEW stale, FilesOwned(list, names, cs, os, stale),
         NEW name, NEW file,
         file = Torn \/ <<"cache", name>> \in stale \/ Owner(list, name, file.id)
  PROVE  FilesOwned(list, names, Put(cs, name, file), os, stale)
BY DEF FilesOwned, Put

LEMMA PutOverride ==
  ASSUME NEW list, NEW names, NEW cs, NEW os, NEW stale, FilesOwned(list, names, cs, os, stale),
         NEW name, NEW file, <<"override", name>> \in stale \/ Owner(list, name, file.id)
  PROVE  FilesOwned(list, names, cs, Put(os, name, file), stale)
BY DEF FilesOwned, Put

LEMMA DropOverride ==
  ASSUME NEW list, NEW names, NEW cs, NEW os, NEW stale, FilesOwned(list, names, cs, os, stale),
         NEW name
  PROVE  FilesOwned(list, names, cs, Drop(os, name), stale)
BY DEF FilesOwned, Drop

LEMMA LegacyStays ==
  ASSUME NEW list, NEW stale, LegacyOwned(list, stale),
         NEW list2, NEW stale2, stale \subseteq stale2,
         \A p \in list : Owner(list2, p.name, p.id)
  PROVE  LegacyOwned(list2, stale2)
<1> SUFFICES ASSUME NEW f \in LegacyFiles
             PROVE  \/ \E p \in list2 : p.id = f.id /\ LegacyPath[p.name] = f.path
                    \/ \A n \in ProfileNames : LegacyPath[n] = f.path => <<"cache", n>> \in stale2
  BY DEF LegacyOwned
<1>1. CASE \E p \in list : p.id = f.id /\ LegacyPath[p.name] = f.path
  BY <1>1 DEF Owner
<1> QED  BY <1>1 DEF LegacyOwned

\* A profile that a write tore off leaves its cache of the older version to its heirs.
LEMMA LegacyLost ==
  ASSUME NEW list, NEW stale, LegacyOwned(list, stale),
         NEW list2, NEW stale2, stale \subseteq stale2,
         \A p \in list : Owner(list2, p.name, p.id) \/ LeftOf(p.name) \subseteq stale2
  PROVE  LegacyOwned(list2, stale2)
<1> SUFFICES ASSUME NEW f \in LegacyFiles
             PROVE  \/ \E p \in list2 : p.id = f.id /\ LegacyPath[p.name] = f.path
                    \/ \A n \in ProfileNames : LegacyPath[n] = f.path => <<"cache", n>> \in stale2
  BY DEF LegacyOwned
<1>1. ASSUME NEW p \in list, p.id = f.id, LegacyPath[p.name] = f.path
      PROVE  \/ \E q \in list2 : q.id = f.id /\ LegacyPath[q.name] = f.path
             \/ \A n \in ProfileNames : LegacyPath[n] = f.path => <<"cache", n>> \in stale2
  <2>1. CASE Owner(list2, p.name, p.id)
    BY <1>1, <2>1 DEF Owner
  <2>2. CASE LeftOf(p.name) \subseteq stale2
    <3>1. LegacyHeirs(p.name) = SharesLegacy(p.name)
      BY <1>1 DEF LegacyHeirs, LegacyOf
    <3> QED  BY <1>1, <2>2, <3>1 DEF LeftOf, SharesLegacy
  <2> QED  BY <2>1, <2>2
<1>2. CASE \E p \in list : p.id = f.id /\ LegacyPath[p.name] = f.path
  BY <1>1, <1>2
<1> QED  BY <1>2 DEF LegacyOwned

\* What a write that fails leaves of a list: profiles of the list, under their own names.
LEMMA BeginningsAre ==
  ASSUME NEW list, ProfilesOK(list), NEW torn \in Beginnings(list)
  PROVE  /\ ProfilesOK(torn)
         /\ \A q \in torn : \E p \in list :
              p.name = q.name /\ p.id = q.id /\ (q.updated => p.updated)
<1>1. CASE torn \subseteq list
  BY <1>1 DEF ProfilesOK
<1>2. ASSUME NEW p \in list, torn = {q \in list : q.id < p.id} \cup {Profile(p.name, p.url, FALSE, p.id)}
      PROVE  /\ ProfilesOK(torn)
             /\ \A q \in torn : \E r \in list :
                  r.name = q.name /\ r.id = q.id /\ (q.updated => r.updated)
  <2>1. PICK stub : stub = Profile(p.name, p.url, FALSE, p.id)
    OBVIOUS
  <2>2. stub.name = p.name /\ stub.id = p.id /\ ~ stub.updated
    BY <2>1 DEF Profile
  <2>3. ASSUME NEW q \in torn, q # stub
        PROVE  q \in list /\ q.name # p.name
    <3>1. q \in list /\ q.id < p.id
      BY <1>2, <2>1, <2>3
    <3>2. p.id \in Nat
      BY DEF ProfilesOK
    <3>3. q # p
      BY <3>1, <3>2
    <3> QED  BY <3>1, <3>3 DEF ProfilesOK
  <2>4. \A q \in torn : \E r \in list :
          r.name = q.name /\ r.id = q.id /\ (q.updated => r.updated)
    BY <2>2, <2>3
  <2>5. ProfilesOK(torn)
    BY <2>2, <2>3 DEF ProfilesOK
  <2> QED  BY <2>4, <2>5
<1>3. \/ torn \subseteq list
      \/ \E p \in list : torn = {q \in list : q.id < p.id} \cup {Profile(p.name, p.url, FALSE, p.id)}
  <2>1. ASSUME NEW part, torn \in part,
               NEW p \in list, part = LET before == {q \in list : q.id < p.id}
                                       IN  {before, before \cup {Profile(p.name, p.url, FALSE, p.id)}}
        PROVE  \/ torn \subseteq list
               \/ torn = {q \in list : q.id < p.id} \cup {Profile(p.name, p.url, FALSE, p.id)}
    <3>1. PICK before : before = {q \in list : q.id < p.id}
      OBVIOUS
    <3>2. torn = before \/ torn = before \cup {Profile(p.name, p.url, FALSE, p.id)}
      BY <2>1, <3>1
    <3> QED  BY <3>1, <3>2
  <2>2. CASE torn = {}
    BY <2>2
  <2>3. CASE torn # {}
    <3>1. PICK part : /\ torn \in part
                      /\ \E p \in list :
                           part = LET before == {q \in list : q.id < p.id}
                                  IN  {before, before \cup {Profile(p.name, p.url, FALSE, p.id)}}
      BY <2>3, Zenon DEF Beginnings
    <3> QED  BY <2>1, <3>1
  <2> QED  BY <2>2, <2>3
<1>4. CASE torn \subseteq list
  BY <1>1, <1>4
<1>5. CASE \E p \in list : torn = {q \in list : q.id < p.id} \cup {Profile(p.name, p.url, FALSE, p.id)}
  BY <1>2, <1>5
<1> QED  BY <1>3, <1>4, <1>5

LEMMA RemnantsAre ==
  ASSUME NEW e, ProfilesOK(e.list), NEW s \in Remnants(e)
  PROVE  /\ DOMAIN s = {"list", "active", "mode", "broken", "torn"} /\ s.torn
         /\ ProfilesOK(s.list)
         /\ \A q \in s.list : \E p \in e.list :
              p.name = q.name /\ p.id = q.id /\ (q.updated => p.updated)
<1>1. {} \in Beginnings(e.list)
  BY DEF Beginnings
<1>2. PICK list, active, broken :
        list \in Beginnings(e.list) /\ s = WithList(list, active, broken, TRUE)
  BY <1>1 DEF Remnants
<1>3. DOMAIN s = {"list", "active", "mode", "broken", "torn"} /\ s.torn /\ s.list = list
  BY <1>2 DEF WithList
<1> QED  BY <1>2, <1>3, BeginningsAre

LEMMA ActiveInList ==
  ASSUME NEW e, ProfilesOK(e.list), HasActive(e)
  PROVE  Active(e) \in e.list /\ Active(e).name = e.active
<1>1. PICK p \in e.list : p.name = e.active
  BY DEF HasActive, NamesOf
<1>2. Named(e.list, e.active) = {p}
  BY <1>1 DEF Named, ProfilesOK
<1>3. Earliest({p}) = p
  BY <1>1 DEF Earliest, ProfilesOK
<1> QED  BY <1>1, <1>2, <1>3 DEF Active

LEMMA FetchingOwned ==
  ASSUME NEW e, ProfilesOK(e.list), DOMAIN e = MemoryFields, NEW stale
  PROVE  /\ DOMAIN Fetching(e) = MemoryFields
         /\ Fetching(e).list = e.list /\ Fetching(e).refuses = e.refuses
         /\ Fetching(e).job = e.job \/ JobOwned(Fetching(e).job, e.list, stale)
<1>1. CASE ~ HasActive(e) \/ Active(e).url = NoUrl
  BY <1>1 DEF Fetching
<1>2. CASE HasActive(e) /\ Active(e).url # NoUrl
  <2>1. PICK p : p = Active(e) /\ p \in e.list
    BY <1>2, ActiveInList
  <2>2. Fetching(e) = [e EXCEPT !.job = [kind |-> "fetch", name |-> p.name, url |-> p.url, id |-> p.id]]
    BY <1>2, <2>1 DEF Fetching
  <2> QED  BY <2>1, <2>2 DEF MemoryFields, JobOwned, Owner
<1> QED  BY <1>1, <1>2

\* A step that leaves the profiles and the files alone.
LEMMA QuietStep ==
  ASSUME LibraryInv, memory # Missing,
         caches' = caches, overrides' = overrides, kept' = kept, leftBehind' = leftBehind,
         store'.list = store.list, store'.torn = store.torn, LibraryTypes',
         memory'.list = memory.list, memory'.refuses = memory.refuses,
         memory'.job \in {Missing, memory.job} \/ JobOwned(memory'.job, memory.list, leftBehind)
  PROVE  LibraryInv'
<1>1. StoreInv'
  BY DEF LibraryInv, StoreInv
<1>2. MemoryInv'
  <2>1. memory'.job # Missing => JobOwned(memory'.job, memory.list, leftBehind)
    BY DEF LibraryInv, MemoryInv
  <2> QED  BY <2>1 DEF LibraryInv, MemoryInv
<1> QED  BY <1>1, <1>2 DEF LibraryInv

\* A step that saves the memory e: stored, refused, or torn off midway.
LEMMA SaveStep ==
  ASSUME LibraryInv, memory # Missing, NEW e, NEW stored \in BOOLEAN, NEW expected, NEW behind,
         Save(e, stored, expected, behind),
         stored => ~ memory.refuses, LibraryTypes', expected \subseteq kept,
         memory'.list = e.list, memory'.refuses = memory.refuses, e.refuses = memory.refuses,
         ProfilesOK(e.list),
         FilesOwned(e.list, NamesOf(e.list), caches', overrides', behind),
         UpdatedCached(e.list, caches'),
         ~ memory.refuses =>
           /\ FilesOwned(e.list, ProfileNames, caches', overrides', behind)
           /\ LegacyOwned(e.list, behind)
           /\ expected \subseteq IdsOf(e.list),
         ~ stored =>
           /\ FilesOwned(store.list, ProfileNames, caches', overrides', behind)
           /\ UpdatedCached(store.list, caches')
           /\ leftBehind \subseteq behind
           /\ Recorded(e.list, store.list, behind),
         memory'.job # Missing => JobOwned(memory'.job, e.list, behind)
  PROVE  LibraryInv'
<1>1. CASE stored
  <2>1. store'.list = e.list /\ ~ store'.torn /\ leftBehind' = behind
        /\ kept' = expected \cup IdsOf(e.list)
    BY <1>1 DEF Save, Stored, WithList
  <2>2. kept' = IdsOf(e.list)
    BY <1>1, <2>1
  <2>3. StoreInv'
    BY <1>1, <2>1, <2>2 DEF StoreInv
  <2>4. Recorded(e.list, e.list, leftBehind')
    BY DEF Recorded, Owner
  <2>5. MemoryInv'
    BY <1>1, <2>1, <2>2, <2>4 DEF MemoryInv
  <2> QED  BY <2>3, <2>5 DEF LibraryInv
<1>2. CASE ~ stored /\ store' = store /\ leftBehind' = behind
  <2>1. kept' = expected
    BY <1>2 DEF Save
  <2>2. LegacyOwned(store.list, leftBehind')
    <3>1. \A p \in store.list : Owner(store.list, p.name, p.id)
      BY DEF Owner
    <3> QED  BY <1>2, <3>1, LegacyStays DEF LibraryInv, StoreInv
  <2>3. StoreInv'
    BY <1>2, <2>1, <2>2 DEF StoreInv, LibraryInv
  <2>4. MemoryInv'
    BY <1>2, <2>1 DEF MemoryInv
  <2> QED  BY <2>3, <2>4 DEF LibraryInv
<1>3. CASE /\ ~ stored /\ ~ memory.refuses /\ store' \in Remnants(e)
           /\ leftBehind' = behind \cup UNION {LeftOf(n) : n \in NamesOf(e.list) \ NamesOf(store'.list)}
  <2>1. kept' = expected /\ behind \subseteq leftBehind'
    BY <1>3 DEF Save
  <2>2. /\ store'.torn /\ ProfilesOK(store'.list)
        /\ \A q \in store'.list : \E p \in e.list :
             p.name = q.name /\ p.id = q.id /\ (q.updated => p.updated)
    BY <1>3, RemnantsAre
  <2>3. ASSUME NEW p \in e.list
        PROVE  Owner(store'.list, p.name, p.id) \/ LeftOf(p.name) \subseteq leftBehind'
    <3>1. CASE p.name \in NamesOf(store'.list)
      BY <2>2, <3>1 DEF NamesOf, Owner, ProfilesOK
    <3>2. CASE p.name \notin NamesOf(store'.list)
      <4>1. p.name \in NamesOf(e.list) \ NamesOf(store'.list)
        BY <3>2 DEF NamesOf
      <4> QED  BY <1>3, <4>1
    <3> QED  BY <3>1, <3>2
  <2>4. \A p \in e.list : Owner(store'.list, p.name, p.id) \/ Both(p.name) \subseteq leftBehind'
    BY <2>3 DEF LeftOf
  <2>5. FilesOwned(store'.list, ProfileNames, caches', overrides', leftBehind')
    BY <1>3, <2>1, <2>4, FilesStay
  <2>6. LegacyOwned(store'.list, leftBehind')
    BY <1>3, <2>1, <2>3, LegacyLost
  <2>7. UpdatedCached(store'.list, caches')
    BY <2>2 DEF UpdatedCached
  <2>8. StoreInv'
    BY <2>2, <2>5, <2>6, <2>7 DEF StoreInv
  <2>9. \A p \in e.list : Owner(e.list, p.name, p.id)
    BY DEF Owner
  <2>10. /\ FilesOwned(e.list, NamesOf(e.list), caches', overrides', leftBehind')
         /\ FilesOwned(e.list, ProfileNames, caches', overrides', leftBehind')
    BY <1>3, <2>1, <2>9, FilesStay
  <2>11. LegacyOwned(e.list, leftBehind')
    BY <1>3, <2>1, <2>9, LegacyStays
  <2>12. memory'.job # Missing => JobOwned(memory'.job, e.list, leftBehind')
    BY <2>1 DEF JobOwned
  <2>13. Recorded(e.list, store'.list, leftBehind')
    BY <2>4 DEF Recorded
  <2>14. MemoryInv'
    BY <1>3, <2>1, <2>10, <2>11, <2>12, <2>13 DEF MemoryInv
  <2> QED  BY <2>8, <2>14 DEF LibraryInv
<1> QED  BY <1>1, <1>2, <1>3 DEF Save

LEMMA SpentTypes ==
  ASSUME spent \in Spendings, NEW failed
  PROVE  /\ SpendCommand(failed) \/ SpendImport(failed) => spent' \in Spendings
         /\ Spend("faults") \/ Spend("opens") => spent' \in Spendings
<1>1. PICK n : n = (IF failed THEN spent.faults + 1 ELSE spent.faults)
  OBVIOUS
<1>2. n \in Nat
  <2>1. spent.faults \in Nat /\ spent.faults + 1 \in Nat
    BY DEF Spendings
  <2> QED  BY <1>1, <2>1, Zenon
<1>3. PICK c \in Nat, i \in Nat : c = spent.commands + 1 /\ i = spent.imports + 1
  BY DEF Spendings
<1>4. /\ SpendCommand(failed) => spent' = [spent EXCEPT !.commands = c, !.faults = n]
      /\ SpendImport(failed) => spent' = [spent EXCEPT !.commands = c, !.imports = i, !.faults = n]
  BY <1>1, <1>3 DEF SpendCommand, SpendImport
<1>5. [spent EXCEPT !.commands = c, !.faults = n] \in Spendings
  BY <1>2 DEF Spendings
<1>6. [spent EXCEPT !.commands = c, !.imports = i, !.faults = n] \in Spendings
  BY <1>2 DEF Spendings
<1>7. Spend("faults") => spent' \in Spendings
  BY DEF Spend, Spendings
<1>8. Spend("opens") => spent' \in Spendings
  BY DEF Spend, Spendings
<1> QED  BY <1>4, <1>5, <1>6, <1>7, <1>8

LEMMA StartJobOwned ==
  ASSUME LibraryInv, memory # Missing, HasActive(memory)
  PROVE  JobOwned(StartJob(memory), memory.list, leftBehind)
<1>1. PICK p : p = Active(memory) /\ p \in memory.list
  BY ActiveInList DEF LibraryInv, MemoryInv
<1>2. PICK file : file = IF p.name \in DOMAIN overrides THEN overrides[p.name]
                         ELSE OverrideFile(NoOverride, p.id)
  OBVIOUS
<1>3. StartJob(memory) = [kind |-> "start", name |-> p.name, id |-> p.id, mode |-> memory.mode,
                          override |-> file]
  BY <1>1, <1>2 DEF StartJob
<1>4. file.id = p.id \/ <<"override", p.name>> \in leftBehind
  <2>1. CASE p.name \in DOMAIN overrides
    <3>1. p.name \in NamesOf(memory.list)
      BY <1>1 DEF NamesOf
    <3>2. <<"override", p.name>> \in leftBehind \/ Owner(memory.list, p.name, file.id)
      BY <1>2, <2>1, <3>1 DEF LibraryInv, MemoryInv, FilesOwned
    <3> QED  BY <1>1, <3>2 DEF Owner, LibraryInv, MemoryInv, ProfilesOK
  <2>2. CASE p.name \notin DOMAIN overrides
    BY <1>2, <2>2 DEF OverrideFile
  <2> QED  BY <2>1, <2>2
<1>5. Owner(memory.list, p.name, p.id)
  BY <1>1 DEF Owner
<1> QED  BY <1>3, <1>4, <1>5 DEF JobOwned

LEMMA UpdateKeeps ==
  ASSUME LibraryInv, UpdateSubscription
  PROVE  LibraryInv'
<1>1. /\ memory # Missing /\ memory' = Fetching(memory)
      /\ UNCHANGED <<store, caches, overrides, kept, leftBehind>> /\ SpendCommand(FALSE)
  BY DEF UpdateSubscription, Ready, files, history
<1>2. /\ DOMAIN memory' = MemoryFields
      /\ memory'.list = memory.list /\ memory'.refuses = memory.refuses
      /\ memory'.job = memory.job \/ JobOwned(memory'.job, memory.list, leftBehind)
  BY <1>1, FetchingOwned DEF LibraryInv, LibraryTypes, MemoryInv
<1>3. LibraryTypes'
  BY <1>1, <1>2, SpentTypes DEF LibraryInv, LibraryTypes
<1> QED  BY <1>1, <1>2, <1>3, QuietStep

LEMMA JobSteps ==
  ASSUME LibraryInv, StartCore \/ StopCore \/ RestartCore \/ CoreExits \/ JobFails \/ StartEnds
  PROVE  LibraryInv'
<1> DEFINE Calm == UNCHANGED <<store, caches, overrides, kept, leftBehind>>
           job   == IF Startable(memory) THEN StartJob(memory) ELSE Missing
<1>1. memory # Missing /\ DOMAIN memory = MemoryFields
  BY DEF StartCore, Ready, StopCore, RestartCore, CoreExits, JobFails, StartEnds, LibraryInv,
         LibraryTypes
<1>2. job = Missing \/ JobOwned(job, memory.list, leftBehind)
  BY <1>1, StartJobOwned DEF Startable
<1> HIDE DEF job
<1>3. ASSUME NEW j, NEW r, j \in {Missing, memory.job} \/ JobOwned(j, memory.list, leftBehind),
             memory' = [memory EXCEPT !.job = j, !.run = r], Calm,
             spent' = spent \/ SpendCommand(FALSE)
      PROVE  LibraryInv'
  <2>1. /\ DOMAIN memory' = MemoryFields /\ memory'.job = j
        /\ memory'.list = memory.list /\ memory'.refuses = memory.refuses
    BY <1>1, <1>3 DEF MemoryFields
  <2>2. LibraryTypes'
    BY <1>1, <1>3, <2>1, SpentTypes DEF LibraryInv, LibraryTypes
  <2> QED  BY <1>1, <1>3, <2>1, <2>2, QuietStep
<1>4. ASSUME NEW j, memory' = [memory EXCEPT !.job = j]
      PROVE  memory' = [memory EXCEPT !.job = j, !.run = memory.run]
  BY <1>1, <1>4 DEF MemoryFields
<1>5. ASSUME NEW r, memory' = [memory EXCEPT !.run = r]
      PROVE  memory' = [memory EXCEPT !.job = memory.job, !.run = r]
  BY <1>1, <1>5 DEF MemoryFields
<1>6. CASE StartCore
  <2>1. memory' = [memory EXCEPT !.job = job] /\ Calm /\ SpendCommand(FALSE)
    BY <1>6 DEF StartCore, files, history, job
  <2> QED  BY <1>2, <1>3, <1>4, <2>1
<1>7. CASE StopCore
  <2>1. memory' = [memory EXCEPT !.job = Missing, !.run = Missing] /\ Calm /\ spent' = spent
    BY <1>7 DEF StopCore, files, history
  <2> QED  BY <1>3, <2>1
<1>8. CASE RestartCore
  <2>1. memory' = [memory EXCEPT !.job = job, !.run = Missing] /\ Calm /\ SpendCommand(FALSE)
    BY <1>1, <1>8 DEF RestartCore, files, history, job, MemoryFields
  <2> QED  BY <1>2, <1>3, <2>1
<1>9. CASE CoreExits
  <2>1. memory' = [memory EXCEPT !.run = Missing] /\ Calm /\ spent' = spent
    BY <1>9 DEF CoreExits, files, history
  <2> QED  BY <1>3, <1>5, <2>1
<1>10. CASE JobFails
  <2>1. memory' = [memory EXCEPT !.job = Missing] /\ Calm /\ spent' = spent
    BY <1>10 DEF JobFails, files, history
  <2> QED  BY <1>3, <1>4, <2>1
<1>11. CASE StartEnds
  <2>1. Calm /\ spent' = spent /\ \E r : memory' = [memory EXCEPT !.job = Missing, !.run = r]
    BY <1>11 DEF StartEnds, files, history
  <2> QED  BY <1>3, <2>1
<1> QED  BY <1>6, <1>7, <1>8, <1>9, <1>10, <1>11

LEMMA SaveSucceeds ==
  ASSUME NEW e, NEW stored, stored \in SaveOutcomes(e), e.refuses \in BOOLEAN
  PROVE  stored \in BOOLEAN /\ (stored => ~ e.refuses)
BY DEF SaveOutcomes

\* A step that saves the profiles under their names, and leaves the files alone.
LEMMA SaveSameProfiles ==
  ASSUME LibraryInv, memory # Missing, NEW e, NEW stored \in SaveOutcomes(e),
         Save(e, stored, kept, leftBehind), e.refuses = memory.refuses, LibraryTypes',
         memory'.list = e.list, memory'.refuses = memory.refuses,
         caches' = caches, overrides' = overrides,
         \A p \in memory.list : Owner(e.list, p.name, p.id),
         ProfilesOK(e.list),
         \A p \in e.list : \E q \in memory.list :
           q.name = p.name /\ q.id = p.id /\ (p.updated => q.updated),
         memory'.job # Missing => JobOwned(memory'.job, e.list, leftBehind)
  PROVE  LibraryInv'
<1>1. stored \in BOOLEAN /\ (stored => ~ memory.refuses)
  BY SaveSucceeds DEF LibraryInv, LibraryTypes
<1>2. NamesOf(e.list) \subseteq NamesOf(memory.list)
  BY DEF NamesOf
<1>3. FilesOwned(e.list, NamesOf(e.list), caches, overrides, leftBehind)
  BY <1>2, FilesStay DEF LibraryInv, MemoryInv
<1>4. UpdatedCached(e.list, caches)
  BY DEF LibraryInv, MemoryInv, UpdatedCached
<1>5. ASSUME ~ memory.refuses
      PROVE  /\ FilesOwned(e.list, ProfileNames, caches, overrides, leftBehind)
             /\ LegacyOwned(e.list, leftBehind)
             /\ kept \subseteq IdsOf(e.list)
  <2>1. FilesOwned(e.list, ProfileNames, caches, overrides, leftBehind)
    BY <1>5, FilesStay DEF LibraryInv, MemoryInv
  <2>2. LegacyOwned(e.list, leftBehind)
    BY <1>5, LegacyStays DEF LibraryInv, MemoryInv
  <2>3. kept \subseteq IdsOf(e.list)
    BY <1>5 DEF LibraryInv, MemoryInv, IdsOf, Owner
  <2> QED  BY <2>1, <2>2, <2>3
<1>6. Recorded(e.list, store.list, leftBehind)
  BY DEF LibraryInv, MemoryInv, Recorded
<1>7. /\ FilesOwned(store.list, ProfileNames, caches, overrides, leftBehind)
      /\ UpdatedCached(store.list, caches)
  BY DEF LibraryInv, StoreInv
<1> QED  BY <1>1, <1>3, <1>4, <1>5, <1>6, <1>7, SaveStep

LEMMA SaveTypes ==
  ASSUME LibraryInv, NEW e, NEW stored, NEW expected, NEW behind, Save(e, stored, expected, behind)
  PROVE  {"list", "torn"} \subseteq DOMAIN store'
<1>1. ASSUME NEW list, NEW active, NEW broken, NEW torn, store' = WithList(list, active, broken, torn)
      PROVE  {"list", "torn"} \subseteq DOMAIN store'
  BY <1>1 DEF WithList
<1> QED  BY <1>1 DEF LibraryInv, LibraryTypes, Save, Stored, Remnants

LEMMA SaveThenKeeps ==
  ASSUME LibraryInv, memory # Missing, NEW e, NEW next, SaveThen(e, next),
         DOMAIN e = MemoryFields, e.refuses = memory.refuses,
         DOMAIN next = MemoryFields, next.list = e.list, next.refuses = e.refuses,
         caches' = caches, overrides' = overrides,
         \A p \in memory.list : Owner(e.list, p.name, p.id),
         ProfilesOK(e.list),
         \A p \in e.list : \E q \in memory.list :
           q.name = p.name /\ q.id = p.id /\ (p.updated => q.updated),
         e.job = Missing, next.job = Missing \/ JobOwned(next.job, e.list, leftBehind)
  PROVE  LibraryInv'
<1>1. PICK stored \in SaveOutcomes(e) :
        /\ Save(e, stored, kept, leftBehind)
        /\ memory' = IF stored THEN next ELSE e
        /\ SpendCommand(~ stored /\ ~ e.refuses)
  BY DEF SaveThen
<1>2. memory' \in {next, e}
  BY <1>1
<1>3. /\ DOMAIN memory' = MemoryFields /\ memory'.list = e.list
      /\ memory'.refuses = memory.refuses
      /\ memory'.job # Missing => JobOwned(memory'.job, e.list, leftBehind)
  BY <1>2
<1>4. LibraryTypes'
  BY <1>1, <1>3, SpentTypes, SaveTypes DEF LibraryInv, LibraryTypes
<1> QED  BY <1>1, <1>3, <1>4, SaveSameProfiles

LEMMA SwitchKeeps ==
  ASSUME LibraryInv, SwitchProfile
  PROVE  LibraryInv'
<1>1. memory # Missing /\ memory.job = Missing /\ UNCHANGED <<caches, overrides>>
  BY DEF SwitchProfile, Ready
<1>2. PICK name, e : e = [memory EXCEPT !.active = name] /\ SaveThen(e, e)
  BY DEF SwitchProfile
<1>3. DOMAIN e = MemoryFields /\ e.list = memory.list /\ e.refuses = memory.refuses /\ e.job = memory.job
  BY <1>1, <1>2 DEF LibraryInv, LibraryTypes, MemoryFields
<1>4. ProfilesOK(memory.list) /\ \A p \in memory.list : Owner(memory.list, p.name, p.id)
  BY <1>1 DEF LibraryInv, MemoryInv, Owner
<1> QED  BY <1>1, <1>2, <1>3, <1>4, SaveThenKeeps

LEMMA SetUrlKeeps ==
  ASSUME LibraryInv, SetProfileUrl
  PROVE  LibraryInv'
<1>1. memory # Missing /\ memory.job = Missing /\ UNCHANGED <<caches, overrides>>
  BY DEF SetProfileUrl, Ready
<1>2. PICK p \in memory.list :
        \E q, e : /\ q.name = p.name /\ q.id = p.id /\ q.updated = p.updated
                  /\ e = [memory EXCEPT !.list = (@ \ {p}) \cup {q}]
                  /\ SaveThen(e, e)
  <2>1. PICK p \in memory.list, pasted \in Urls :
          LET q == Profile(p.name, NormalizeUrl(pasted), p.updated, p.id)
              e == [memory EXCEPT !.list = (@ \ {p}) \cup {q}]
          IN  SaveThen(e, e)
    BY Zenon DEF SetProfileUrl
  <2>2. PICK q : q = Profile(p.name, NormalizeUrl(pasted), p.updated, p.id)
    OBVIOUS
  <2>3. PICK e : e = [memory EXCEPT !.list = (@ \ {p}) \cup {q}]
    OBVIOUS
  <2>4. SaveThen(e, e)
    BY <2>1, <2>2, <2>3
  <2>5. q.name = p.name /\ q.id = p.id /\ q.updated = p.updated
    BY <2>2 DEF Profile
  <2> QED  BY <2>3, <2>4, <2>5
<1>3. PICK q, e : /\ q.name = p.name /\ q.id = p.id /\ q.updated = p.updated
                  /\ e = [memory EXCEPT !.list = (@ \ {p}) \cup {q}]
                  /\ SaveThen(e, e)
  BY <1>2
<1>4. /\ DOMAIN e = MemoryFields /\ e.list = (memory.list \ {p}) \cup {q}
      /\ e.refuses = memory.refuses /\ e.job = memory.job
  BY <1>1, <1>3 DEF LibraryInv, LibraryTypes, MemoryFields
<1>5. ProfilesOK(memory.list)
  BY <1>1 DEF LibraryInv, MemoryInv
<1>6. ProfilesOK(e.list)
  BY <1>3, <1>4, <1>5 DEF ProfilesOK
<1>7. \A r \in memory.list : Owner(e.list, r.name, r.id)
  BY <1>3, <1>4 DEF Owner
<1>8. \A r \in e.list : \E s \in memory.list :
        s.name = r.name /\ s.id = r.id /\ (r.updated => s.updated)
  BY <1>3, <1>4
<1> QED  BY <1>1, <1>3, <1>4, <1>6, <1>7, <1>8, SaveThenKeeps

LEMMA ModeKeeps ==
  ASSUME LibraryInv, SetTrafficMode
  PROVE  LibraryInv'
<1>1. PICK mode \in TrafficModes \ {memory.mode}, stored \in SaveOutcomes(memory) :
        /\ memory' = [memory EXCEPT !.mode = mode]
        /\ store' \in SettingsAfter(mode, stored)
        /\ SpendCommand(~ stored /\ ~ memory.refuses)
  BY DEF SetTrafficMode
<1>6. store' = store \/ \E m, broken : store' = WithMode(m, broken)
  <2>1. CASE stored
    BY <1>1, <2>1, Zenon DEF SettingsAfter
  <2>2. CASE ~ stored
    BY <1>1, <2>2, Zenon DEF SettingsAfter
  <2> QED  BY <2>1, <2>2
<1>2. memory # Missing /\ UNCHANGED <<caches, overrides, kept, leftBehind>>
  BY DEF SetTrafficMode, Ready, history
<1>3. /\ DOMAIN memory' = MemoryFields /\ memory'.list = memory.list
      /\ memory'.refuses = memory.refuses /\ memory'.job = memory.job
  BY <1>1, <1>2 DEF LibraryInv, LibraryTypes, MemoryFields
<1>4. {"list", "torn"} \subseteq DOMAIN store' /\ store'.list = store.list /\ store'.torn = store.torn
  BY <1>6 DEF LibraryInv, LibraryTypes, WithMode
<1>5. LibraryTypes'
  BY <1>1, <1>2, <1>3, <1>4, SpentTypes DEF LibraryInv, LibraryTypes
<1> QED  BY <1>2, <1>3, <1>4, <1>5, QuietStep

-----------------------------------------------------------------------------
\* A profile that is new: what an earlier one of the name left counts until it is stored.
LEMMA NewProfileKeeps ==
  ASSUME LibraryInv, memory # Missing, NEW name \in ProfileNames \ NamesOf(memory.list), NEW p, NEW e,
         p.name = name, p.id \in Nat \ {0}, p.updated => name \in DOMAIN caches',
         e.list = memory.list \cup {p}, e.refuses = memory.refuses,
         NEW stored \in SaveOutcomes(e), NEW behind, Save(e, stored, kept, behind), LibraryTypes',
         memory'.list = e.list, memory'.refuses = memory.refuses,
         behind = (IF stored THEN leftBehind ELSE leftBehind \cup Both(name)),
         overrides' = overrides,
         caches' = caches \/ \E doc : caches' = Put(caches, name, Cached(doc, p.id)),
         memory'.job # Missing => JobOwned(memory'.job, e.list, behind)
  PROVE  LibraryInv'
<1>0. stored \in BOOLEAN /\ (stored => ~ memory.refuses)
  BY SaveSucceeds DEF LibraryInv, LibraryTypes
<1>1. leftBehind \subseteq behind /\ (~ stored => Both(name) \subseteq behind)
  BY <1>0
<1>2. /\ ProfilesOK(memory.list) /\ UpdatedCached(memory.list, caches)
      /\ Recorded(memory.list, store.list, leftBehind)
      /\ FilesOwned(memory.list, NamesOf(memory.list), caches, overrides, leftBehind)
      /\ UpdatedCached(store.list, caches)
      /\ FilesOwned(store.list, ProfileNames, caches, overrides, leftBehind)
  BY DEF LibraryInv, MemoryInv, StoreInv
<1>3. ProfilesOK(e.list)
  BY <1>2 DEF ProfilesOK, NamesOf
<1>4. \A q \in memory.list : Owner(e.list, q.name, q.id)
  BY DEF Owner
<1>5. Owner(e.list, name, p.id) /\ NamesOf(e.list) = NamesOf(memory.list) \cup {name}
  BY DEF Owner, NamesOf
<1>6. DOMAIN caches \subseteq DOMAIN caches'
  BY DEF Put
<1>7. ASSUME NEW list, NEW names, FilesOwned(list, names, caches, overrides, behind),
             Owner(list, name, p.id) \/ ~ stored
      PROVE  FilesOwned(list, names, caches', overrides', behind)
  <2>1. CASE caches' = caches
    BY <1>7, <2>1
  <2>2. ASSUME NEW doc, caches' = Put(caches, name, Cached(doc, p.id))
        PROVE  FilesOwned(list, names, caches', overrides', behind)
    <3>1. <<"cache", name>> \in behind \/ Owner(list, name, Cached(doc, p.id).id)
      BY <1>1, <1>7 DEF Both, Cached
    <3> QED  BY <1>7, <2>2, <3>1, PutCache
  <2> QED  BY <2>1, <2>2
<1>8. ASSUME ~ stored
      PROVE  /\ FilesOwned(e.list, NamesOf(e.list), caches, overrides, behind)
             /\ FilesOwned(store.list, ProfileNames, caches, overrides, behind)
             /\ Recorded(e.list, store.list, behind)
  <2>1. \A n \in NamesOf(e.list) : n \in NamesOf(memory.list) \/ Both(n) \subseteq behind
    BY <1>1, <1>5, <1>8
  <2>2. FilesOwned(e.list, NamesOf(e.list), caches, overrides, behind)
    <3>1. FilesOwned(memory.list, NamesOf(memory.list), caches, overrides, leftBehind)
      BY <1>2
    <3>2. FilesOwned(e.list, NamesOf(memory.list), caches, overrides, behind)
      BY <1>1, <1>4, <3>1, FilesStay
    <3> QED  BY <2>1, <3>2, FilesOfNames
  <2>3. \A q \in store.list : Owner(store.list, q.name, q.id)
    BY DEF Owner
  <2>4. FilesOwned(store.list, ProfileNames, caches, overrides, behind)
    BY <1>1, <1>2, <2>3, FilesStay
  <2>5. Recorded(e.list, store.list, behind)
    BY <1>1, <1>2, <1>8 DEF Recorded
  <2> QED  BY <2>2, <2>4, <2>5
<1>9. ASSUME ~ memory.refuses
      PROVE  /\ FilesOwned(e.list, ProfileNames, caches, overrides, behind)
             /\ LegacyOwned(e.list, behind)
             /\ kept \subseteq IdsOf(e.list)
  <2>1. FilesOwned(e.list, ProfileNames, caches, overrides, behind)
    BY <1>1, <1>4, <1>9, FilesStay DEF LibraryInv, MemoryInv
  <2>2. LegacyOwned(e.list, behind)
    BY <1>1, <1>4, <1>9, LegacyStays DEF LibraryInv, MemoryInv
  <2>3. kept \subseteq IdsOf(e.list)
    BY <1>9 DEF LibraryInv, MemoryInv, IdsOf
  <2> QED  BY <2>1, <2>2, <2>3
<1>10. FilesOwned(e.list, NamesOf(e.list), caches, overrides, behind)
  <2>1. CASE ~ stored
    BY <1>8, <2>1
  <2>2. CASE stored
    <3>1. FilesOwned(e.list, ProfileNames, caches, overrides, behind)
      BY <1>0, <1>9, <2>2
    <3>2. NamesOf(e.list) \subseteq ProfileNames
      BY <1>3 DEF ProfilesOK, NamesOf
    <3> QED  BY <3>1, <3>2, FilesOfNames
  <2> QED  BY <1>0, <2>1, <2>2
<1>11. UpdatedCached(e.list, caches') /\ UpdatedCached(store.list, caches')
  BY <1>2, <1>6 DEF UpdatedCached
<1>12. FilesOwned(e.list, NamesOf(e.list), caches', overrides', behind)
  BY <1>5, <1>7, <1>10
<1>13. ~ memory.refuses =>
         /\ FilesOwned(e.list, ProfileNames, caches', overrides', behind)
         /\ LegacyOwned(e.list, behind)
         /\ kept \subseteq IdsOf(e.list)
  BY <1>5, <1>7, <1>9
<1>14. ~ stored =>
         /\ FilesOwned(store.list, ProfileNames, caches', overrides', behind)
         /\ Recorded(e.list, store.list, behind)
  BY <1>7, <1>8
<1> QED  BY <1>0, <1>1, <1>3, <1>11, <1>12, <1>13, <1>14, SaveStep

LEMMA FreeNamesFree ==
  ASSUME NEW list, NEW wanted \in ProfileNames, NEW name \in FreeNames(list, wanted)
  PROVE  name \in ProfileNames \ NamesOf(list)
BY DEF FreeNames

LEMMA WithProfileIs ==
  ASSUME LibraryInv, memory # Missing, NEW name \in ProfileNames \ NamesOf(memory.list), NEW url,
         NEW updated, NEW e, e = WithProfile(name, url, updated)
  PROVE  \E p : /\ p = Profile(name, url, updated, spent.imports + 1)
                /\ p.name = name /\ p.id \in Nat \ {0} /\ p.id = spent.imports + 1
                /\ p.updated = updated
                /\ e.list = memory.list \cup {p}
                /\ DOMAIN e = MemoryFields /\ e.refuses = memory.refuses /\ e.job = memory.job
                /\ ProfilesOK(e.list)
<1>1. PICK p : p = Profile(name, url, updated, spent.imports + 1)
  OBVIOUS
<1>2. spent.imports + 1 \in Nat \ {0}
  BY DEF LibraryInv, LibraryTypes, Spendings
<1>3. p.name = name /\ p.id \in Nat \ {0} /\ p.id = spent.imports + 1 /\ p.updated = updated
  BY <1>1, <1>2 DEF Profile
<1>4. e = [memory EXCEPT !.list = @ \cup {p}, !.active = name]
  BY <1>1 DEF WithProfile
<1>5. /\ e.list = memory.list \cup {p}
      /\ DOMAIN e = MemoryFields /\ e.refuses = memory.refuses /\ e.job = memory.job
  BY <1>4 DEF LibraryInv, LibraryTypes, MemoryFields
<1>6. ProfilesOK(memory.list)
  BY DEF LibraryInv, MemoryInv
<1>7. ProfilesOK(e.list)
  BY <1>3, <1>5, <1>6 DEF ProfilesOK, NamesOf
<1> QED  BY <1>1, <1>3, <1>5, <1>7

LEMMA ImportKnownKeeps ==
  ASSUME LibraryInv, Ready, NEW url, ImportKnown(url), caches' = caches, overrides' = overrides
  PROVE  LibraryInv'
<1>1. memory # Missing /\ memory.job = Missing
  BY DEF Ready
<1>2. PICK name : name = Earliest({p \in memory.list : p.url = url}).name
  OBVIOUS
<1>3. PICK e : e = [memory EXCEPT !.active = name]
  OBVIOUS
<1>4. SaveThen(e, Fetching(e))
  BY <1>2, <1>3 DEF ImportKnown
<1>5. DOMAIN e = MemoryFields /\ e.list = memory.list /\ e.refuses = memory.refuses /\ e.job = Missing
  BY <1>1, <1>3 DEF LibraryInv, LibraryTypes, MemoryFields
<1>6. ProfilesOK(e.list) /\ \A p \in memory.list : Owner(e.list, p.name, p.id)
  BY <1>1, <1>5 DEF LibraryInv, MemoryInv, Owner
<1>7. PICK next : next = Fetching(e)
  OBVIOUS
<1>8. /\ DOMAIN next = MemoryFields /\ next.list = e.list /\ next.refuses = e.refuses
      /\ next.job = Missing \/ JobOwned(next.job, e.list, leftBehind)
  BY <1>5, <1>6, <1>7, FetchingOwned
<1>9. SaveThen(e, next)
  BY <1>4, <1>7
<1>10. \A p \in e.list : \E q \in memory.list :
         q.name = p.name /\ q.id = p.id /\ (p.updated => q.updated)
  BY <1>5
<1> QED  BY <1>1, <1>5, <1>6, <1>8, <1>9, <1>10, SaveThenKeeps

LEMMA ImportNewKeeps ==
  ASSUME LibraryInv, Ready, NEW name \in ProfileNames \ NamesOf(memory.list), NEW url,
         ImportNew(name, url), caches' = caches, overrides' = overrides
  PROVE  LibraryInv'
<1>1. memory # Missing /\ memory.job = Missing
  BY DEF Ready
<1>0. PICK never : never = FALSE
  OBVIOUS
<1>2. PICK e : e = WithProfile(name, url, never)
  OBVIOUS
<1>3. PICK stored \in SaveOutcomes(e) :
        /\ Save(e, stored, kept, IF stored THEN leftBehind ELSE leftBehind \cup Both(name))
        /\ memory' = IF stored THEN Fetching(e) ELSE e
        /\ SpendImport(~ stored /\ ~ e.refuses)
  BY <1>0, <1>2, Zenon DEF ImportNew
<1>10. PICK behind :
         /\ behind = IF stored THEN leftBehind ELSE leftBehind \cup Both(name)
         /\ Save(e, stored, kept, behind)
         /\ memory' = IF stored THEN Fetching(e) ELSE e
         /\ SpendImport(~ stored /\ ~ e.refuses)
  BY <1>3, Zenon
<1>4. PICK p : /\ p.name = name /\ p.id \in Nat \ {0} /\ p.updated = never
               /\ e.list = memory.list \cup {p}
               /\ DOMAIN e = MemoryFields /\ e.refuses = memory.refuses /\ e.job = memory.job
               /\ ProfilesOK(e.list)
  BY <1>1, <1>2, WithProfileIs
<1>5. PICK next : next = Fetching(e)
  OBVIOUS
<1>6. /\ DOMAIN next = MemoryFields /\ next.list = e.list /\ next.refuses = e.refuses
      /\ next.job = e.job \/ JobOwned(next.job, e.list, behind)
  BY <1>4, <1>5, FetchingOwned
<1>7. /\ DOMAIN memory' = MemoryFields /\ memory'.list = e.list
      /\ memory'.refuses = memory.refuses
      /\ memory'.job # Missing => JobOwned(memory'.job, e.list, behind)
  <2>1. memory' = next \/ memory' = e
    BY <1>10, <1>5
  <2>2. CASE memory' = next
    BY <1>1, <1>4, <1>6, <2>2
  <2>3. CASE memory' = e
    BY <1>1, <1>4, <2>3
  <2> QED  BY <2>1, <2>2, <2>3
<1>8. LibraryTypes'
  BY <1>1, <1>10, <1>7, SpentTypes, SaveTypes DEF LibraryInv, LibraryTypes
<1>9. p.updated => name \in DOMAIN caches'
  BY <1>0, <1>4
<1> QED  BY <1>1, <1>10, <1>4, <1>7, <1>8, <1>9, NewProfileKeeps

LEMMA ImportKeeps ==
  ASSUME LibraryInv, ImportSubscription
  PROVE  LibraryInv'
<1>1. Ready /\ UNCHANGED <<caches, overrides>>
  BY DEF ImportSubscription
<1>2. PICK pasted \in Urls, wanted \in ProfileNames :
        \/ ImportKnown(NormalizeUrl(pasted))
        \/ \E name \in FreeNames(memory.list, wanted) : ImportNew(name, NormalizeUrl(pasted))
  BY DEF ImportSubscription
<1> QED  BY <1>1, <1>2, ImportKnownKeeps, ImportNewKeeps, FreeNamesFree

LEMMA PutTypes ==
  ASSUME NEW there, DOMAIN there \subseteq ProfileNames, NEW name \in ProfileNames, NEW file
  PROVE  DOMAIN Put(there, name, file) = DOMAIN there \cup {name}
         /\ DOMAIN Put(there, name, file) \subseteq ProfileNames
BY DEF Put

\* A write that fails leaves nothing that a core would be started with.
LEMMA TornKeeps ==
  ASSUME LibraryInv, memory # Missing, NEW name \in ProfileNames, caches' = Put(caches, name, Torn),
         overrides' = overrides, store' = store, kept' = kept, leftBehind' = leftBehind,
         DOMAIN memory' = MemoryFields, memory'.list = memory.list, memory'.refuses = memory.refuses,
         memory'.job \in {Missing, memory.job}, spent' \in Spendings
  PROVE  LibraryInv'
<1>1. LibraryTypes'
  BY PutTypes DEF LibraryInv, LibraryTypes
<1>2. DOMAIN caches \subseteq DOMAIN caches'
  BY DEF Put
<1>3. ASSUME NEW list, NEW names, FilesOwned(list, names, caches, overrides, leftBehind)
      PROVE  FilesOwned(list, names, caches', overrides', leftBehind')
  BY <1>3, PutCache
<1>4. StoreInv'
  BY <1>2, <1>3 DEF LibraryInv, StoreInv, UpdatedCached
<1>5. MemoryInv'
  <2>1. UpdatedCached(memory.list, caches')
    BY <1>2 DEF LibraryInv, MemoryInv, UpdatedCached
  <2>2. memory'.job # Missing => JobOwned(memory'.job, memory.list, leftBehind)
    BY DEF LibraryInv, MemoryInv
  <2> QED  BY <1>3, <2>1, <2>2 DEF LibraryInv, MemoryInv
<1> QED  BY <1>1, <1>4, <1>5 DEF LibraryInv

LEMMA ImportFileKeeps ==
  ASSUME LibraryInv, ImportProfileFile
  PROVE  LibraryInv'
<1>1. memory # Missing /\ memory.job = Missing /\ overrides' = overrides
  BY DEF ImportProfileFile, Ready
<1>2. PICK wanted \in ProfileNames :
        \E doc, name : /\ name \in FreeNames(memory.list, wanted)
                       /\ ImportFile(name, doc) \/ ImportFileFails(name)
  BY Zenon DEF ImportProfileFile
<1>3. PICK doc, name : /\ name \in ProfileNames \ NamesOf(memory.list)
                       /\ ImportFile(name, doc) \/ ImportFileFails(name)
  BY <1>2, FreeNamesFree
<1>4. CASE ImportFile(name, doc)
  <2>0. PICK now : now = TRUE
    OBVIOUS
  <2>1. PICK e : e = WithProfile(name, NoUrl, now)
    OBVIOUS
  <2>2. PICK stored \in SaveOutcomes(e) :
          /\ \E behind : /\ behind = IF stored THEN leftBehind ELSE leftBehind \cup Both(name)
                       /\ Save(e, stored, kept, behind)
          /\ memory' = e
          /\ caches' = Put(caches, name, Cached(doc, spent.imports + 1))
          /\ SpendImport(~ stored /\ ~ e.refuses)
    BY <1>4, <2>0, <2>1 DEF ImportFile
  <2>3. PICK p : /\ p.name = name /\ p.id \in Nat \ {0} /\ p.id = spent.imports + 1
                 /\ e.list = memory.list \cup {p}
                 /\ DOMAIN e = MemoryFields /\ e.refuses = memory.refuses /\ e.job = memory.job
    BY <1>1, <1>3, <2>1, WithProfileIs
  <2>4. LibraryTypes'
    BY <1>1, <1>3, <2>2, <2>3, SpentTypes, SaveTypes, PutTypes DEF LibraryInv, LibraryTypes
  <2>5. caches' = Put(caches, name, Cached(doc, p.id)) /\ name \in DOMAIN caches'
    BY <2>2, <2>3 DEF Put
  <2> QED  BY <1>1, <1>3, <2>2, <2>3, <2>4, <2>5, NewProfileKeeps
<1>5. CASE ImportFileFails(name)
  <2>1. /\ caches' = Put(caches, name, Torn) /\ memory' = memory /\ store' = store /\ kept' = kept
        /\ leftBehind' = leftBehind /\ SpendCommand(TRUE)
    BY <1>5 DEF ImportFileFails, history
  <2>2. spent' \in Spendings
    BY <2>1, SpentTypes DEF LibraryInv, LibraryTypes
  <2>3. DOMAIN memory = MemoryFields
    BY <1>1 DEF LibraryInv, LibraryTypes
  <2> QED  BY <1>1, <1>3, <2>1, <2>2, <2>3, TornKeeps
<1> QED  BY <1>3, <1>4, <1>5

-----------------------------------------------------------------------------
LEMMA OverrideStep ==
  ASSUME LibraryInv, memory # Missing, UNCHANGED <<memory, store, caches, kept, leftBehind>>,
         spent' \in Spendings, NEW p \in memory.list,
         \/ overrides' = Drop(overrides, p.name)
         \/ \E file : /\ overrides' = Put(overrides, p.name, file)
                      /\ file.id = p.id \/ <<"override", p.name>> \in leftBehind
  PROVE  LibraryInv'
<1>1. p.name \in ProfileNames
  BY DEF LibraryInv, MemoryInv, ProfilesOK
<1>2. LibraryTypes'
  BY <1>1, PutTypes DEF LibraryInv, LibraryTypes, Drop
<1>3. Owner(store.list, p.name, p.id) \/ <<"override", p.name>> \in leftBehind
  BY DEF LibraryInv, MemoryInv, Recorded, Both
<1>4. Owner(memory.list, p.name, p.id)
  BY DEF Owner
<1>5. ASSUME NEW list, NEW names, FilesOwned(list, names, caches, overrides, leftBehind),
             Owner(list, p.name, p.id) \/ <<"override", p.name>> \in leftBehind
      PROVE  FilesOwned(list, names, caches', overrides', leftBehind')
  <2>1. CASE overrides' = Drop(overrides, p.name)
    BY <1>5, <2>1, DropOverride
  <2>2. ASSUME NEW file, overrides' = Put(overrides, p.name, file),
               file.id = p.id \/ <<"override", p.name>> \in leftBehind
        PROVE  FilesOwned(list, names, caches', overrides', leftBehind')
    BY <1>5, <2>2, PutOverride
  <2> QED  BY <2>1, <2>2
<1>6. StoreInv'
  BY <1>3, <1>5 DEF LibraryInv, StoreInv
<1>7. MemoryInv'
  BY <1>4, <1>5 DEF LibraryInv, MemoryInv
<1> QED  BY <1>2, <1>6, <1>7 DEF LibraryInv

LEMMA OverridesKeep ==
  ASSUME LibraryInv, SetOverride \/ ClearOverride \/ ToggleOverrideFragment \/ EditByHand
  PROVE  LibraryInv'
<1>1. /\ memory # Missing /\ UNCHANGED <<memory, store, caches, kept, leftBehind>>
      /\ SpendCommand(FALSE)
  BY DEF SetOverride, ClearOverride, ToggleOverrideFragment, EditByHand, Ready, history
<1>2. spent' \in Spendings
  BY <1>1, SpentTypes DEF LibraryInv, LibraryTypes
<1>3. ASSUME NEW p \in memory.list, NEW text,
             overrides' = Put(overrides, p.name, OverrideFile(text, p.id))
      PROVE  LibraryInv'
  <2>1. OverrideFile(text, p.id).id = p.id
    BY DEF OverrideFile
  <2> QED  BY <1>1, <1>2, <1>3, <2>1, OverrideStep
<1>4. CASE SetOverride
  BY <1>3, <1>4 DEF SetOverride
<1>5. CASE EditByHand
  BY <1>3, <1>5 DEF EditByHand
<1>6. CASE ClearOverride
  <2>1. PICK p \in memory.list : overrides' = Drop(overrides, p.name)
    BY <1>6 DEF ClearOverride, NamesOf
  <2> QED  BY <1>1, <1>2, <2>1, OverrideStep
<1>7. CASE ToggleOverrideFragment
  <2>1. PICK name \in NamesOf(memory.list) \cap DOMAIN overrides :
          \E text : overrides' = Put(overrides, name, OverrideFile(text, overrides[name].id))
    BY <1>7 DEF ToggleOverrideFragment
  <2>2. PICK p \in memory.list : p.name = name
    BY DEF NamesOf
  <2>3. overrides[name].id = p.id \/ <<"override", name>> \in leftBehind
    BY <1>1, <2>2 DEF LibraryInv, MemoryInv, FilesOwned, Owner, ProfilesOK
  <2>4. \A text : OverrideFile(text, overrides[name].id).id = overrides[name].id
    BY DEF OverrideFile
  <2> QED  BY <1>1, <1>2, <2>1, <2>2, <2>3, <2>4, OverrideStep
<1> QED  BY <1>4, <1>5, <1>6, <1>7

-----------------------------------------------------------------------------
LEMMA StampedIs ==
  ASSUME NEW list, ProfilesOK(list), NEW name
  PROVE  /\ ProfilesOK(Stamped(list, name))
         /\ \A p \in list : Owner(Stamped(list, name), p.name, p.id)
         /\ \A q \in Stamped(list, name) :
              \E p \in list : p.name = q.name /\ p.id = q.id /\ (q.updated => p.updated \/ q.name = name)
<1>1. ASSUME NEW p
      PROVE  /\ Stamp(p, name).name = p.name /\ Stamp(p, name).id = p.id
             /\ Stamp(p, name).updated => p.updated \/ p.name = name
  <2>1. PICK now : now = (p.updated \/ p.name = name)
    OBVIOUS
  <2>2. PICK q : q = Stamp(p, name)
    OBVIOUS
  <2>3. q = Profile(p.name, p.url, now, p.id)
    BY <2>1, <2>2 DEF Stamp
  <2>4. q.name = p.name /\ q.id = p.id /\ q.updated = now
    BY <2>3 DEF Profile
  <2> QED  BY <2>1, <2>2, <2>4
<1>2. ProfilesOK(Stamped(list, name))
  BY <1>1 DEF ProfilesOK, Stamped
<1>3. \A p \in list : Owner(Stamped(list, name), p.name, p.id)
  BY <1>1 DEF Owner, Stamped
<1>4. \A q \in Stamped(list, name) :
        \E p \in list : p.name = q.name /\ p.id = q.id /\ (q.updated => p.updated \/ q.name = name)
  <2> SUFFICES ASSUME NEW q \in Stamped(list, name)
               PROVE  \E p \in list : p.name = q.name /\ p.id = q.id
                                     /\ (q.updated => p.updated \/ q.name = name)
    OBVIOUS
  <2>1. PICK p \in list : q = Stamp(p, name)
    BY DEF Stamped
  <2>2. q.name = p.name /\ q.id = p.id
    BY <1>1, <2>1
  <2>3. q.updated => p.updated \/ q.name = name
    BY <1>1, <2>1, Zenon
  <2> QED  BY <2>2, <2>3
<1> QED  BY <1>2, <1>3, <1>4

LEMMA AnswerCachedKeeps ==
  ASSUME LibraryInv, memory # Missing, memory.job # Missing, NEW body,
         AnswerCached(memory.job, body), overrides' = overrides
  PROVE  LibraryInv'
<1>1. PICK name, id : name = memory.job.name /\ id = memory.job.id
  OBVIOUS
<1>2. PICK e : e = [memory EXCEPT !.job = Missing, !.list = Stamped(@, name)]
  OBVIOUS
<1>3. PICK doc, stored :
        /\ stored \in SaveOutcomes(e) /\ memory' = e /\ caches' = Put(caches, name, Cached(doc, id))
        /\ Save(e, stored, kept, leftBehind)
        /\ IF stored \/ e.refuses THEN UNCHANGED spent ELSE Spend("faults")
  BY <1>1, <1>2 DEF AnswerCached
<1>4. PICK list : list = Stamped(memory.list, name)
  OBVIOUS
<1>5. DOMAIN e = MemoryFields /\ e.list = list /\ e.refuses = memory.refuses /\ e.job = Missing
  BY <1>2, <1>4 DEF LibraryInv, LibraryTypes, MemoryFields
<1>6. stored \in BOOLEAN /\ (stored => ~ memory.refuses)
  BY <1>3, <1>5, SaveSucceeds DEF LibraryInv, LibraryTypes
<1>7. /\ ProfilesOK(memory.list) /\ UpdatedCached(memory.list, caches)
      /\ Recorded(memory.list, store.list, leftBehind)
      /\ FilesOwned(memory.list, NamesOf(memory.list), caches, overrides, leftBehind)
      /\ Owner(memory.list, name, id)
  BY <1>1 DEF LibraryInv, MemoryInv, JobOwned
<1>8. /\ ProfilesOK(list)
      /\ \A p \in memory.list : Owner(list, p.name, p.id)
      /\ \A q \in list : \E p \in memory.list :
           p.name = q.name /\ p.id = q.id /\ (q.updated => p.updated \/ q.name = name)
  BY <1>4, <1>7, StampedIs
<1>9. PICK p \in memory.list : p.name = name /\ p.id = id
  BY <1>7 DEF Owner
<1>10. Owner(list, name, id) /\ name \in ProfileNames
  BY <1>7, <1>8, <1>9 DEF ProfilesOK
<1>11. spent' \in Spendings
  BY <1>3, SpentTypes DEF LibraryInv, LibraryTypes
<1>12. LibraryTypes'
  BY <1>3, <1>5, <1>10, <1>11, PutTypes, SaveTypes DEF LibraryInv, LibraryTypes
<1>13. ASSUME NEW names, FilesOwned(memory.list, names, caches, overrides, leftBehind)
       PROVE  FilesOwned(list, names, caches', overrides', leftBehind)
  <2>1. FilesOwned(list, names, caches, overrides, leftBehind)
    BY <1>8, <1>13, FilesStay
  <2>2. Cached(doc, id).id = id
    BY DEF Cached
  <2> QED  BY <1>3, <1>10, <2>1, <2>2, PutCache
<1>14. NamesOf(list) = NamesOf(memory.list)
  BY <1>8 DEF NamesOf, Owner
<1>15. FilesOwned(list, NamesOf(list), caches', overrides', leftBehind)
  BY <1>7, <1>13, <1>14
<1>16. ~ memory.refuses =>
         /\ FilesOwned(list, ProfileNames, caches', overrides', leftBehind)
         /\ LegacyOwned(list, leftBehind)
         /\ kept \subseteq IdsOf(list)
  <2>1. ASSUME ~ memory.refuses
        PROVE  /\ LegacyOwned(list, leftBehind) /\ kept \subseteq IdsOf(list)
               /\ FilesOwned(list, ProfileNames, caches', overrides', leftBehind)
    <3>1. LegacyOwned(list, leftBehind)
      BY <1>8, <2>1, LegacyStays DEF LibraryInv, MemoryInv
    <3>2. kept \subseteq IdsOf(list)
      BY <1>8, <2>1 DEF LibraryInv, MemoryInv, IdsOf, Owner
    <3>3. FilesOwned(list, ProfileNames, caches', overrides', leftBehind)
      BY <1>13, <2>1 DEF LibraryInv, MemoryInv
    <3> QED  BY <3>1, <3>2, <3>3
  <2> QED  BY <2>1
<1>17. DOMAIN caches' = DOMAIN caches \cup {name}
  BY <1>3 DEF Put
<1>18. UpdatedCached(list, caches') /\ UpdatedCached(store.list, caches')
  <2>1. UpdatedCached(list, caches')
    BY <1>7, <1>8, <1>17 DEF UpdatedCached
  <2>2. UpdatedCached(store.list, caches')
    BY <1>17 DEF LibraryInv, StoreInv, UpdatedCached
  <2> QED  BY <2>1, <2>2
<1>19. FilesOwned(store.list, ProfileNames, caches', overrides', leftBehind)
  <2>1. Owner(store.list, name, id) \/ <<"cache", name>> \in leftBehind
    BY <1>7, <1>9 DEF Recorded, Both
  <2>2. Cached(doc, id).id = id
    BY DEF Cached
  <2>3. FilesOwned(store.list, ProfileNames, caches, overrides, leftBehind)
    BY DEF LibraryInv, StoreInv
  <2> QED  BY <1>3, <2>1, <2>2, <2>3, PutCache
<1>20. Recorded(list, store.list, leftBehind)
  BY <1>7, <1>8 DEF Recorded
<1> QED  BY <1>3, <1>5, <1>6, <1>8, <1>12, <1>15, <1>16, <1>18, <1>19, <1>20, SaveStep

LEMMA FetchKeeps ==
  ASSUME LibraryInv, FetchEnds
  PROVE  LibraryInv'
<1>1. memory # Missing /\ memory.job # Missing /\ overrides' = overrides
  BY DEF FetchEnds
<1>2. PICK body : AnswerUnread(memory.job, body) \/ AnswerTorn(memory.job, body)
                  \/ AnswerCached(memory.job, body)
  BY DEF FetchEnds
<1>3. ASSUME memory' = [memory EXCEPT !.job = Missing]
      PROVE  /\ DOMAIN memory' = MemoryFields /\ memory'.list = memory.list
             /\ memory'.refuses = memory.refuses /\ memory'.job = Missing
  BY <1>1, <1>3 DEF LibraryInv, LibraryTypes, MemoryFields
<1>4. CASE AnswerUnread(memory.job, body)
  <2>1. /\ memory' = [memory EXCEPT !.job = Missing] /\ caches' = caches
        /\ store' = store /\ kept' = kept /\ leftBehind' = leftBehind /\ spent' = spent
    BY <1>4 DEF AnswerUnread, CacheUnread, history
  <2>2. LibraryTypes'
    BY <1>1, <1>3, <2>1 DEF LibraryInv, LibraryTypes
  <2> QED  BY <1>1, <1>3, <2>1, <2>2, QuietStep
<1>5. CASE AnswerTorn(memory.job, body)
  <2>1. /\ memory' = [memory EXCEPT !.job = Missing] /\ caches' = Put(caches, memory.job.name, Torn)
        /\ store' = store /\ kept' = kept /\ leftBehind' = leftBehind /\ Spend("faults")
    BY <1>5 DEF AnswerTorn, history
  <2>2. memory.job.name \in ProfileNames
    BY <1>1 DEF LibraryInv, MemoryInv, JobOwned, Owner, ProfilesOK
  <2>3. spent' \in Spendings
    BY <2>1, SpentTypes DEF LibraryInv, LibraryTypes
  <2> QED  BY <1>1, <1>3, <2>1, <2>2, <2>3, TornKeeps
<1> QED  BY <1>1, <1>2, <1>4, <1>5, AnswerCachedKeeps

-----------------------------------------------------------------------------
LEMMA WithoutIs ==
  ASSUME NEW e, DOMAIN e = MemoryFields, NEW name
  PROVE  LET f == WithoutProfile(e, name)
         IN  /\ DOMAIN f = MemoryFields
             /\ f.list = {p \in e.list : p.name # name}
             /\ f.refuses = e.refuses /\ f.job = e.job /\ f.run = e.run
<1>1. PICK list : list = {p \in e.list : p.name # name}
  OBVIOUS
<1>2. e.list \ Named(e.list, name) = list
  BY <1>1 DEF Named
<1>3. PICK active : WithoutProfile(e, name) = [e EXCEPT !.list = list, !.active = active]
  BY <1>2 DEF WithoutProfile
<1> QED  BY <1>1, <1>3 DEF MemoryFields

\* What a removal does to the files, and what it leaves behind.
LEMMA RemovedFiles ==
  ASSUME NEW name, NEW reached,
         caches' = CachesAfter(name, reached), overrides' = OverridesAfter(name, reached),
         NEW behind, behind = LeftAfter(name, reached),
         NEW list, NEW names, FilesOwned(list, names, caches, overrides, leftBehind)
  PROVE  FilesOwned({p \in list : p.name # name}, names, caches', overrides', behind)
<1> DEFINE list2 == {p \in list : p.name # name}
<1>1. leftBehind \ Both(name) \subseteq behind
  BY DEF LeftAfter
<1>2. /\ DOMAIN caches' \subseteq DOMAIN caches /\ \A n \in DOMAIN caches' : caches'[n] = caches[n]
      /\ DOMAIN overrides' \subseteq DOMAIN overrides /\ \A n \in DOMAIN overrides' : overrides'[n] = overrides[n]
  BY DEF CachesAfter, OverridesAfter, Drop
<1>3. reached # "done" => Both(name) \subseteq behind
  BY DEF LeftAfter
<1>4. reached = "done" => name \notin DOMAIN caches' /\ name \notin DOMAIN overrides'
  BY DEF CachesAfter, OverridesAfter, Drop
<1>5. ASSUME NEW n, n # name, NEW id, Owner(list, n, id)
      PROVE  Owner(list2, n, id)
  BY <1>5 DEF Owner
<1>6. ASSUME NEW n, n # name
      PROVE  <<"cache", n>> \notin Both(name) /\ <<"override", n>> \notin Both(name)
  BY <1>6 DEF Both
<1>7. <<"cache", name>> \in Both(name) /\ <<"override", name>> \in Both(name)
  BY DEF Both
<1> HIDE DEF list2
<1>8. ASSUME NEW n \in DOMAIN caches' \cap names
      PROVE  caches'[n] = Torn \/ <<"cache", n>> \in behind \/ Owner(list2, n, caches'[n].id)
  <2>1. caches[n] = Torn \/ <<"cache", n>> \in leftBehind \/ Owner(list, n, caches[n].id)
    BY <1>2 DEF FilesOwned
  <2>2. CASE n = name
    BY <1>3, <1>4, <1>7, <2>2
  <2>3. CASE n # name
    BY <1>1, <1>2, <1>5, <1>6, <2>1, <2>3
  <2> QED  BY <2>2, <2>3
<1>9. ASSUME NEW n \in DOMAIN overrides' \cap names
      PROVE  <<"override", n>> \in behind \/ Owner(list2, n, overrides'[n].id)
  <2>1. <<"override", n>> \in leftBehind \/ Owner(list, n, overrides[n].id)
    BY <1>2 DEF FilesOwned
  <2>2. CASE n = name
    BY <1>3, <1>4, <1>7, <2>2
  <2>3. CASE n # name
    BY <1>1, <1>2, <1>5, <1>6, <2>1, <2>3
  <2> QED  BY <2>2, <2>3
<1>10. FilesOwned(list2, names, caches', overrides', behind)
  BY <1>8, <1>9 DEF FilesOwned
<1> QED  BY <1>10 DEF list2

\* The caches of the older version survive the removal, and are left to every name they may
\* be copied to.
LEMMA RemovedLegacy ==
  ASSUME NEW name, NEW reached, NEW behind, behind = LeftAfter(name, reached),
         NEW list, LegacyOwned(list, leftBehind)
  PROVE  LegacyOwned({p \in list : p.name # name}, behind)
<1> SUFFICES ASSUME NEW f \in LegacyFiles
             PROVE  \/ \E p \in {p \in list : p.name # name} : p.id = f.id /\ LegacyPath[p.name] = f.path
                    \/ \A n \in ProfileNames : LegacyPath[n] = f.path => <<"cache", n>> \in behind
  BY DEF LegacyOwned
<1>1. ASSUME LegacyPath[name] = f.path
      PROVE  \A n \in ProfileNames : LegacyPath[n] = f.path => <<"cache", n>> \in behind
  <2>1. LegacyOf(name) # {}
    BY <1>1 DEF LegacyOf
  <2>2. {<<"cache", n>> : n \in SharesLegacy(name)} \subseteq behind
    BY <2>1 DEF LeftAfter, LegacyHeirs
  <2> QED  BY <1>1, <2>2 DEF SharesLegacy
<1>2. CASE \E p \in list : p.id = f.id /\ LegacyPath[p.name] = f.path
  BY <1>1, <1>2
<1>3. CASE \A n \in ProfileNames : LegacyPath[n] = f.path => <<"cache", n>> \in leftBehind
  <2>1. ASSUME NEW n \in ProfileNames, LegacyPath[n] = f.path, n # name
        PROVE  <<"cache", n>> \in behind
    <3>1. <<"cache", n>> \in leftBehind /\ <<"cache", n>> \notin Both(name)
      BY <1>3, <2>1 DEF Both
    <3> QED  BY <3>1 DEF LeftAfter
  <2> QED  BY <1>1, <2>1
<1> QED  BY <1>2, <1>3 DEF LegacyOwned

LEMMA RemoveKeeps ==
  ASSUME LibraryInv, RemoveProfile
  PROVE  LibraryInv'
<1>1. memory # Missing /\ memory.job = Missing /\ DOMAIN memory = MemoryFields
      /\ memory.refuses \in BOOLEAN
  BY DEF RemoveProfile, Ready, LibraryInv, LibraryTypes
<1>2. PICK name, reached, expected, behind :
        /\ name \in NamesOf(memory.list) /\ reached \in RemovalEnds(memory, name)
        /\ memory' = WithoutProfile(memory, name)
        /\ expected = kept \ IdsOf(Named(memory.list, name))
        /\ behind = LeftAfter(name, reached)
        /\ Save(memory', reached # "save", expected, behind)
        /\ caches' = CachesAfter(name, reached)
        /\ overrides' = OverridesAfter(name, reached)
        /\ SpendCommand(reached # "done" /\ ~ memory.refuses)
  <2>1. PICK name \in NamesOf(memory.list) :
          \E reached \in RemovalEnds(memory, name) :
            LET e == WithoutProfile(memory, name)
            IN  /\ memory' = e
                /\ Save(e, reached # "save", kept \ IdsOf(Named(memory.list, name)),
                        LeftAfter(name, reached))
                /\ caches' = CachesAfter(name, reached)
                /\ overrides' = OverridesAfter(name, reached)
                /\ SpendCommand(reached # "done" /\ ~ memory.refuses)
    BY Zenon DEF RemoveProfile
  <2> QED  BY <2>1
<1>3. PICK list : list = {p \in memory.list : p.name # name}
  OBVIOUS
<1>4. /\ DOMAIN memory' = MemoryFields /\ memory'.list = list
      /\ memory'.refuses = memory.refuses /\ memory'.job = Missing
  BY <1>1, <1>2, <1>3, WithoutIs
<1>5. PICK stored, e :
        /\ stored \in BOOLEAN /\ stored = (reached # "save") /\ e = memory' /\ Save(e, stored, expected, behind)
  BY <1>2
<1>6. stored => ~ memory.refuses
  BY <1>2, <1>5 DEF RemovalEnds
<1>7. spent' \in Spendings /\ {"list", "torn"} \subseteq DOMAIN store'
  BY <1>2, <1>5, SpentTypes, SaveTypes DEF LibraryInv, LibraryTypes
<1>8. /\ DOMAIN caches' \subseteq DOMAIN caches /\ DOMAIN overrides' \subseteq DOMAIN overrides
      /\ ~ stored => caches' = caches /\ overrides' = overrides
      /\ DOMAIN caches \ {name} \subseteq DOMAIN caches'
  BY <1>2, <1>5 DEF CachesAfter, OverridesAfter, Drop
<1>9. LibraryTypes'
  BY <1>1, <1>4, <1>7, <1>8 DEF LibraryInv, LibraryTypes
<1>10. ProfilesOK(list) /\ NamesOf(list) \subseteq NamesOf(memory.list)
  BY <1>1, <1>3 DEF LibraryInv, MemoryInv, ProfilesOK, NamesOf
<1>11. ASSUME NEW names, FilesOwned(memory.list, names, caches, overrides, leftBehind)
       PROVE  FilesOwned(list, names, caches', overrides', behind)
  BY <1>2, <1>3, <1>11, RemovedFiles
<1>12. FilesOwned(list, NamesOf(list), caches', overrides', behind)
  <2>1. FilesOwned(list, NamesOf(memory.list), caches', overrides', behind)
    BY <1>1, <1>11 DEF LibraryInv, MemoryInv
  <2> QED  BY <1>10, <2>1, FilesOfNames
<1>13. UpdatedCached(list, caches')
  BY <1>1, <1>3, <1>8 DEF LibraryInv, MemoryInv, UpdatedCached
<1>14. ASSUME ~ memory.refuses
       PROVE  /\ FilesOwned(list, ProfileNames, caches', overrides', behind)
              /\ LegacyOwned(list, behind)
              /\ expected \subseteq IdsOf(list)
  <2>1. FilesOwned(list, ProfileNames, caches', overrides', behind)
    BY <1>1, <1>11, <1>14 DEF LibraryInv, MemoryInv
  <2>2. LegacyOwned(list, behind)
    BY <1>1, <1>2, <1>3, <1>14, RemovedLegacy DEF LibraryInv, MemoryInv
  <2>3. kept \subseteq IdsOf(memory.list)
    BY <1>1, <1>14 DEF LibraryInv, MemoryInv
  <2>4. IdsOf(memory.list) \ IdsOf(Named(memory.list, name)) \subseteq IdsOf(list)
    BY <1>3 DEF IdsOf, Named
  <2> QED  BY <1>2, <2>1, <2>2, <2>3, <2>4
<1>15. ASSUME ~ stored
       PROVE  /\ FilesOwned(store.list, ProfileNames, caches', overrides', behind)
              /\ UpdatedCached(store.list, caches')
              /\ leftBehind \subseteq behind
              /\ Recorded(list, store.list, behind)
  <2>1. leftBehind \subseteq behind
    BY <1>2, <1>5, <1>15 DEF LeftAfter
  <2>2. \A p \in store.list : Owner(store.list, p.name, p.id)
    BY DEF Owner
  <2>3. FilesOwned(store.list, ProfileNames, caches', overrides', behind)
    BY <1>8, <1>15, <2>1, <2>2, FilesStay DEF LibraryInv, StoreInv
  <2>4. Recorded(list, store.list, behind)
    BY <1>1, <1>3, <2>1 DEF LibraryInv, MemoryInv, Recorded
  <2> QED  BY <1>8, <1>15, <2>1, <2>3, <2>4 DEF LibraryInv, StoreInv
<1>16. expected \subseteq kept
  BY <1>2
<1>17. /\ e.list = list /\ e.refuses = memory.refuses
       /\ memory'.list = e.list /\ memory'.job = Missing
  BY <1>4, <1>5
<1> QED
  BY <1>1, <1>4, <1>5, <1>6, <1>9, <1>10, <1>12, <1>13, <1>14, <1>15, <1>16, <1>17, SaveStep

-----------------------------------------------------------------------------
LEMMA OpenKeeps ==
  ASSUME LibraryInv, Open
  PROVE  LibraryInv'
<1>1. PICK unreadable \in SUBSET {"profiles", "settings"} :
        \E list : /\ list = IF "profiles" \in unreadable THEN {} ELSE store.list
                  /\ \E active, mode :
                       memory' = [list |-> list, active |-> active, mode |-> mode,
                                  refuses |-> unreadable # {}, job |-> Missing, run |-> Missing]
                  /\ caches' = Migrated(list, caches)
                  /\ kept' = IF store.torn /\ ~ ("profiles" \in unreadable)
                             THEN kept \cap IdsOf(list) ELSE kept
  BY DEF Open
<1>2. PICK list, active, mode, refuses :
        /\ list = IF "profiles" \in unreadable THEN {} ELSE store.list
        /\ refuses = (unreadable # {})
        /\ memory' = [list |-> list, active |-> active, mode |-> mode, refuses |-> refuses,
                      job |-> Missing, run |-> Missing]
        /\ caches' = Migrated(list, caches)
        /\ kept' \subseteq kept
        /\ store.torn /\ "profiles" \notin unreadable => kept' \subseteq IdsOf(list)
  BY <1>1
<1>3. /\ memory'.list = list /\ memory'.refuses = refuses /\ memory'.job = Missing
      /\ DOMAIN memory' = MemoryFields
  BY <1>2 DEF MemoryFields
<1>4. /\ refuses \in BOOLEAN
      /\ list = {} \/ list = store.list
      /\ ~ refuses => list = store.list
  BY <1>2
<1>5. UNCHANGED <<store, overrides, leftBehind>> /\ spent' \in Spendings
  <2>1. UNCHANGED <<store, overrides, leftBehind>> /\ Spend("opens")
    BY DEF Open
  <2> QED  BY <2>1, SpentTypes DEF LibraryInv, LibraryTypes
<1>6. /\ ProfilesOK(store.list) /\ LegacyOwned(store.list, leftBehind)
      /\ FilesOwned(store.list, ProfileNames, caches, overrides, leftBehind)
  BY DEF LibraryInv, StoreInv
<1>7. NamesOf(store.list) \subseteq ProfileNames /\ NamesOf(list) \subseteq NamesOf(store.list)
  BY <1>4, <1>6 DEF NamesOf, ProfilesOK
<1>8. /\ DOMAIN caches' = DOMAIN caches \cup Migrating(list, caches)
      /\ Migrating(list, caches) \subseteq NamesOf(list)
      /\ \A n \in DOMAIN caches : caches'[n] = caches[n]
  BY <1>2 DEF Migrated, Migrating
<1>9. LibraryTypes'
  BY <1>3, <1>4, <1>5, <1>7, <1>8 DEF LibraryInv, LibraryTypes
<1>10. ASSUME NEW n \in Migrating(list, caches), n \notin DOMAIN caches
       PROVE  <<"cache", n>> \in leftBehind \/ Owner(store.list, n, caches'[n].id)
  <2>1. LegacyOf(n) # {} /\ \A m \in NamesOf(list) \ {n} : LegacyPath[m] # LegacyPath[n]
    BY DEF Migrating
  <2>2. PICK f \in LegacyOf(n) : caches'[n] = Cached(f.doc, f.id)
    BY <1>2, <1>8, <1>10, <2>1 DEF Migrated
  <2>3. caches'[n].id = f.id /\ f \in LegacyFiles /\ f.path = LegacyPath[n]
    BY <2>2 DEF Cached, LegacyOf
  <2>4. n \in ProfileNames /\ list = store.list
    BY <1>4, <1>7, <1>8 DEF NamesOf
  <2>5. CASE \E p \in store.list : p.id = f.id /\ LegacyPath[p.name] = f.path
    BY <2>1, <2>3, <2>4, <2>5 DEF Owner, NamesOf
  <2>6. CASE \A m \in ProfileNames : LegacyPath[m] = f.path => <<"cache", m>> \in leftBehind
    BY <2>3, <2>4, <2>6
  <2> QED  BY <1>6, <2>3, <2>5, <2>6 DEF LegacyOwned
<1>11. FilesOwned(store.list, ProfileNames, caches', overrides, leftBehind)
  BY <1>6, <1>8, <1>10 DEF FilesOwned
<1>12. UpdatedCached(store.list, caches')
  BY <1>8 DEF LibraryInv, StoreInv, UpdatedCached
<1>13. StoreInv'
  BY <1>2, <1>5, <1>11, <1>12 DEF LibraryInv, StoreInv
<1>14. MemoryInv'
  <2>1. CASE list = store.list
    <3>1. FilesOwned(list, NamesOf(list), caches', overrides, leftBehind)
      BY <1>7, <1>11, <2>1, FilesOfNames
    <3>2. Recorded(list, store.list, leftBehind)
      BY <2>1 DEF Recorded, Owner
    <3>3. ~ refuses => kept' \subseteq IdsOf(list)
      BY <1>2, <2>1 DEF LibraryInv, StoreInv
    <3> QED  BY <1>3, <1>5, <1>6, <1>11, <1>12, <2>1, <3>1, <3>2, <3>3 DEF MemoryInv
  <2>2. CASE list = {} /\ refuses
    <3>1. ProfilesOK(list) /\ UpdatedCached(list, caches') /\ Recorded(list, store.list, leftBehind)
      BY <2>2 DEF ProfilesOK, UpdatedCached, Recorded
    <3>2. FilesOwned(list, NamesOf(list), caches', overrides, leftBehind)
      BY <2>2 DEF FilesOwned, NamesOf
    <3> QED  BY <1>3, <1>5, <2>2, <3>1, <3>2 DEF MemoryInv
  <2> QED  BY <1>4, <2>1, <2>2
<1> QED  BY <1>9, <1>13, <1>14 DEF LibraryInv

LEMMA EndKeeps ==
  ASSUME LibraryInv, End
  PROVE  LibraryInv'
<1>1. memory' = Missing /\ UNCHANGED <<store, caches, overrides, kept, leftBehind, spent>>
  BY DEF End, files, history
<1>2. LibraryTypes' /\ StoreInv'
  BY <1>1 DEF LibraryInv, LibraryTypes, StoreInv
<1> QED  BY <1>1, <1>2 DEF LibraryInv

LEMMA LibraryInvInit ==
  ASSUME NEW opens \in Nat, LibraryInit(opens)
  PROVE  LibraryInv
<1>1. Cardinality(FirstProfiles) \in Nat
  BY FirstAssumption, FS_CardinalityType
<1>2. /\ memory = Missing /\ store.list = FirstProfiles /\ {"list", "torn"} \subseteq DOMAIN store
      /\ DOMAIN caches = {} /\ DOMAIN overrides = {} /\ kept = IdsOf(FirstProfiles)
      /\ leftBehind = {<<"cache", n>> : n \in {m \in ProfileNames : \E f \in LegacyOf(m) : Orphan(f)}}
  BY DEF LibraryInit, FirstStore
<1>3. spent \in Spendings
  BY <1>1 DEF LibraryInit, Spendings
<1>4. ProfilesOK(FirstProfiles)
  BY <1>1, FirstAssumption DEF ProfilesOK
<1>5. UpdatedCached(FirstProfiles, caches)
  BY FirstAssumption DEF UpdatedCached
<1>6. FilesOwned(FirstProfiles, ProfileNames, caches, overrides, leftBehind)
  BY <1>2 DEF FilesOwned
<1>7. LegacyOwned(FirstProfiles, leftBehind)
  <2> SUFFICES ASSUME NEW f \in LegacyFiles, Orphan(f), NEW n \in ProfileNames, LegacyPath[n] = f.path
               PROVE  <<"cache", n>> \in leftBehind
    BY DEF LegacyOwned, Orphan
  <2>1. f \in LegacyOf(n)
    BY DEF LegacyOf
  <2> QED  BY <1>2, <2>1
<1> QED  BY <1>2, <1>3, <1>4, <1>5, <1>6, <1>7 DEF LibraryInv, LibraryTypes, StoreInv

LEMMA LibraryInvStep ==
  ASSUME LibraryInv, [LibraryNext]_libraryVars
  PROVE  LibraryInv'
<1>1. CASE LibraryNext
  BY <1>1, OpenKeeps, EndKeeps, UpdateKeeps, ImportKeeps, ImportFileKeeps, SwitchKeeps, SetUrlKeeps,
     RemoveKeeps, ModeKeeps, OverridesKeep, JobSteps, FetchKeeps DEF LibraryNext
<1>2. CASE UNCHANGED libraryVars
  BY <1>2 DEF libraryVars, files, history, LibraryInv, LibraryTypes, StoreInv, MemoryInv
<1> QED  BY <1>1, <1>2

\* Every cache and override is of the profile of its name, or has been left behind under it; every
\* address that was saved is still in the list, unless the store could not be read or was cut
\* short by a write that failed.  This is what
\* the controller's memory, store and files keep through every command, answer and crash.
THEOREM LibraryInvariant == LibrarySpec => []LibraryInv
<1>1. LibraryInit(0) => LibraryInv
  BY LibraryInvInit
<1> QED  BY <1>1, LibraryInvStep, PTL DEF LibrarySpec

\* A subscription that has been saved leaves the store at the user's request only, or when a
\* write of the list fails midway, and then the client that could read its store still has it;
\* a client that could not read the store never writes it (Profiles::save, store_unreadable).
THEOREM SavedLinksKept == LibrarySpec => []LinksKept
<1>1. LibraryInv => LinksKept
  BY DEF LibraryInv, StoreInv, MemoryInv, LinksKept
<1> QED  BY <1>1, LibraryInvariant, PTL

-----------------------------------------------------------------------------
LEMMA FetchingRun ==
  ASSUME NEW e, DOMAIN e = MemoryFields
  PROVE  Fetching(e).run = e.run
BY DEF Fetching, MemoryFields

LEMMA SaveThenRun ==
  ASSUME NEW e, NEW next, SaveThen(e, next), next.run = e.run
  PROVE  memory'.run = e.run
<1>1. memory' = e \/ memory' = next
  BY DEF SaveThen
<1> QED  BY <1>1

\* Only a start that ends brings a core up.
LEMMA OnlyStartsRun ==
  ASSUME LibraryInv, LibraryNext, ~ StartEnds, ~ Running
  PROVE  ~ Running'
<1>1. CASE Open
  BY <1>1 DEF Open, Running
<1>2. CASE End
  BY <1>2 DEF End, Running
<1> DEFINE Same == memory # Missing /\ (memory' = memory \/ memory'.run \in {memory.run, Missing})
<1>3. CASE Same
  BY <1>3 DEF Running
<1> HIDE DEF Same
<1>4. memory # Missing => DOMAIN memory = MemoryFields
  BY DEF LibraryInv, LibraryTypes
<1>5. ASSUME UpdateSubscription  PROVE Same
  BY <1>4, <1>5, FetchingRun DEF UpdateSubscription, Ready, Same
<1>6. ASSUME ImportSubscription  PROVE Same
  <2>1. memory # Missing
    BY <1>6 DEF ImportSubscription, Ready
  <2>2. PICK url : ImportKnown(url) \/ \E name : ImportNew(name, url)
    BY <1>6 DEF ImportSubscription
  <2>3. CASE ImportKnown(url)
    <3>1. PICK active, e : e = [memory EXCEPT !.active = active] /\ SaveThen(e, Fetching(e))
      BY <2>3 DEF ImportKnown
    <3>2. e.run = memory.run /\ DOMAIN e = MemoryFields
      BY <1>4, <2>1, <3>1 DEF MemoryFields
    <3> QED  BY <2>1, <3>1, <3>2, FetchingRun, SaveThenRun DEF Same
  <2>4. ASSUME NEW name, ImportNew(name, url)
        PROVE  Same
    <3>1. PICK list, e : e = [memory EXCEPT !.list = list, !.active = name]
                         /\ (memory' = Fetching(e) \/ memory' = e)
      BY <2>4 DEF ImportNew, WithProfile
    <3>2. e.run = memory.run /\ DOMAIN e = MemoryFields
      BY <1>4, <2>1, <3>1 DEF MemoryFields
    <3> QED  BY <2>1, <3>1, <3>2, FetchingRun DEF Same
  <2> QED  BY <2>2, <2>3, <2>4
<1>7. ASSUME ImportProfileFile  PROVE Same
  <2>1. memory # Missing
    BY <1>7 DEF ImportProfileFile, Ready
  <2>2. memory' = memory \/ \E list, name : memory' = [memory EXCEPT !.list = list, !.active = name]
    BY <1>7 DEF ImportProfileFile, ImportFile, ImportFileFails, WithProfile
  <2> QED  BY <1>4, <2>1, <2>2 DEF MemoryFields, Same
<1>8. ASSUME SwitchProfile  PROVE Same
  <2>1. PICK name, e : e = [memory EXCEPT !.active = name] /\ SaveThen(e, e)
    BY <1>8 DEF SwitchProfile
  <2>2. memory # Missing
    BY <1>8 DEF SwitchProfile, Ready
  <2> QED  BY <1>4, <2>1, <2>2, SaveThenRun DEF MemoryFields, Same
<1>9. ASSUME SetProfileUrl  PROVE Same
  <2>1. PICK list, e : e = [memory EXCEPT !.list = list] /\ SaveThen(e, e)
    BY <1>9 DEF SetProfileUrl
  <2>2. memory # Missing
    BY <1>9 DEF SetProfileUrl, Ready
  <2> QED  BY <1>4, <2>1, <2>2, SaveThenRun DEF MemoryFields, Same
<1>10. ASSUME RemoveProfile  PROVE Same
  <2>1. PICK name : memory' = WithoutProfile(memory, name)
    BY <1>10 DEF RemoveProfile
  <2>2. memory # Missing
    BY <1>10 DEF RemoveProfile, Ready
  <2> QED  BY <1>4, <2>1, <2>2, WithoutIs DEF Same
<1>11. ASSUME SetTrafficMode  PROVE Same
  <2>1. PICK mode : memory' = [memory EXCEPT !.mode = mode]
    BY <1>11 DEF SetTrafficMode
  <2>2. memory # Missing
    BY <1>11 DEF SetTrafficMode, Ready
  <2> QED  BY <1>4, <2>1, <2>2 DEF MemoryFields, Same
<1>12. ASSUME SetOverride \/ ClearOverride \/ ToggleOverrideFragment \/ EditByHand  PROVE Same
  BY <1>12 DEF SetOverride, ClearOverride, ToggleOverrideFragment, EditByHand, Ready, Same
<1>13. ASSUME StartCore \/ StopCore \/ RestartCore \/ CoreExits \/ JobFails  PROVE Same
  BY <1>4, <1>13 DEF StartCore, Ready, StopCore, RestartCore, CoreExits, JobFails, Same, MemoryFields
<1>14. ASSUME FetchEnds  PROVE Same
  <2>1. PICK list : memory' = [memory EXCEPT !.job = Missing] \/ memory' = [memory EXCEPT !.job = Missing, !.list = list]
    BY <1>14 DEF FetchEnds, AnswerUnread, AnswerTorn, AnswerCached
  <2>2. memory # Missing
    BY <1>14 DEF FetchEnds
  <2> QED  BY <1>4, <2>1, <2>2 DEF MemoryFields, Same
<1> QED
  BY <1>1, <1>2, <1>3, <1>5, <1>6, <1>7, <1>8, <1>9, <1>10, <1>11, <1>12, <1>13, <1>14 DEF LibraryNext

\* What a start that ends takes is the profile's own, or has been left behind.
LEMMA StartsOwn ==
  ASSUME LibraryInv, StartEnds
  PROVE  LET run == memory'.run
         IN  /\ run.cache.id # run.id => <<"cache", run.name>> \in leftBehind
             /\ run.override.id # run.id => <<"override", run.name>> \in leftBehind
<1>1. PICK job : job = memory.job
  OBVIOUS
<1>2. /\ memory # Missing /\ job # Missing /\ job.kind = "start"
      /\ job.name \in DOMAIN caches /\ caches[job.name] # Torn
      /\ memory' = [memory EXCEPT !.job = Missing,
                      !.run = [id |-> job.id, name |-> job.name, mode |-> job.mode,
                               cache |-> caches[job.name], override |-> job.override]]
  BY <1>1 DEF StartEnds
<1>3. memory'.run = [id |-> job.id, name |-> job.name, mode |-> job.mode,
                     cache |-> caches[job.name], override |-> job.override]
  BY <1>2 DEF LibraryInv, LibraryTypes, MemoryFields
<1>4. JobOwned(job, memory.list, leftBehind)
  BY <1>1, <1>2 DEF LibraryInv, MemoryInv
<1>5. PICK p \in memory.list : p.name = job.name /\ p.id = job.id
  BY <1>4 DEF JobOwned, Owner
<1>6. caches[job.name].id # job.id => <<"cache", job.name>> \in leftBehind
  <2>1. job.name \in NamesOf(memory.list)
    BY <1>5 DEF NamesOf
  <2>2. <<"cache", job.name>> \in leftBehind \/ Owner(memory.list, job.name, caches[job.name].id)
    BY <1>2, <2>1 DEF LibraryInv, MemoryInv, FilesOwned
  <2> QED  BY <1>2, <1>5, <2>2 DEF Owner, LibraryInv, MemoryInv, ProfilesOK
<1>7. job.override.id # job.id => <<"override", job.name>> \in leftBehind
  BY <1>2, <1>4 DEF JobOwned
<1> QED  BY <1>3, <1>6, <1>7

\* A core that comes up has the document and the override of the very profile it was started for,
\* whatever had the name before, unless a failed step left that file behind (start_core).
THEOREM CoresRunOwnFiles == LibrarySpec => OwnFiles
<1> DEFINE Own == Running' /\ ~ Running =>
                    LET run == memory'.run
                    IN  /\ run.cache.id # run.id => <<"cache", run.name>> \in leftBehind
                        /\ run.override.id # run.id => <<"override", run.name>> \in leftBehind
<1>1. LibraryInv /\ [LibraryNext]_libraryVars => [Own]_libraryVars
  <2>1. ASSUME LibraryInv, LibraryNext, Running', ~ Running  PROVE StartEnds
    BY <2>1, OnlyStartsRun
  <2> QED  BY <2>1, StartsOwn
<1>2. LibrarySpec => [][Own]_libraryVars
  BY <1>1, LibraryInvariant, PTL DEF LibrarySpec
<1> QED  BY <1>2 DEF OwnFiles

-----------------------------------------------------------------------------
\* A step that fails counts.
LEMMA SpentFaults ==
  ASSUME spent \in Spendings
  PROVE  /\ SpendCommand(TRUE) => spent'.faults > spent.faults
         /\ Spend("faults") => spent'.faults > spent.faults
<1>1. PICK n \in Nat : n = spent.faults + 1
  BY DEF Spendings
<1>2. PICK c \in Nat : c = spent.commands + 1
  BY DEF Spendings
<1>3. n > spent.faults
  BY <1>1 DEF Spendings
<1>4. ASSUME SpendCommand(TRUE)  PROVE spent'.faults > spent.faults
  <2>1. spent' = [spent EXCEPT !.commands = c, !.faults = n]
    BY <1>1, <1>2, <1>4 DEF SpendCommand, Spendings
  <2>2. spent'.faults = n
    BY <2>1 DEF Spendings
  <2> QED  BY <1>3, <2>2
<1>5. ASSUME Spend("faults")  PROVE spent'.faults > spent.faults
  <2>1. spent' = [spent EXCEPT !["faults"] = n]
    BY <1>1, <1>5 DEF Spend, Spendings
  <2>2. spent'.faults = n
    BY <2>1 DEF Spendings
  <2> QED  BY <1>3, <2>2
<1> QED  BY <1>4, <1>5

\* What a step may do to the caches.
LEMMA CachesChange ==
  ASSUME LibraryInv, LibraryNext
  PROVE  \/ caches' = caches
         \/ \E name, doc, id : id # 0 /\ caches' = Put(caches, name, Cached(doc, id))
         \/ \E name : caches' = Put(caches, name, Torn) /\ spent'.faults > spent.faults
         \/ \E list : caches' = Migrated(list, caches)
         \/ \E name : caches' = Drop(caches, name) /\ name \notin NamesOf(store'.list)
<1>0. spent \in Spendings
  BY DEF LibraryInv, LibraryTypes
<1>1. CASE Open
  BY <1>1 DEF Open
<1>2. CASE ImportProfileFile
  <2>1. PICK doc, name : ImportFile(name, doc) \/ ImportFileFails(name)
    BY <1>2 DEF ImportProfileFile
  <2>2. CASE ImportFile(name, doc)
    <3>1. caches' = Put(caches, name, Cached(doc, spent.imports + 1))
      BY <2>2 DEF ImportFile
    <3>2. spent.imports + 1 # 0
      BY <1>0 DEF Spendings
    <3> QED  BY <3>1, <3>2
  <2>3. CASE ImportFileFails(name)
    BY <1>0, <2>3, SpentFaults DEF ImportFileFails
  <2> QED  BY <2>1, <2>2, <2>3
<1>3. CASE FetchEnds
  <2>1. memory # Missing /\ memory.job # Missing
    BY <1>3 DEF FetchEnds
  <2>2. PICK job, body : /\ job = memory.job
                         /\ AnswerUnread(job, body) \/ AnswerTorn(job, body) \/ AnswerCached(job, body)
    BY <1>3 DEF FetchEnds
  <2>3. CASE AnswerUnread(job, body)
    BY <2>3 DEF AnswerUnread, CacheUnread
  <2>4. CASE AnswerTorn(job, body)
    BY <1>0, <2>4, SpentFaults DEF AnswerTorn
  <2>5. CASE AnswerCached(job, body)
    <3>1. PICK doc : caches' = Put(caches, job.name, Cached(doc, job.id))
      BY <2>5 DEF AnswerCached
    <3>2. job.id # 0
      BY <2>1, <2>2 DEF LibraryInv, MemoryInv, JobOwned, Owner, ProfilesOK
    <3> QED  BY <3>1, <3>2
  <2> QED  BY <2>2, <2>3, <2>4, <2>5
<1>4. CASE RemoveProfile
  <2>1. PICK name, reached :
          /\ caches' = CachesAfter(name, reached)
          /\ reached # "save" => store' = Stored(WithoutProfile(memory, name))
    BY <1>4 DEF RemoveProfile, Save
  <2>2. CASE reached \in {"override", "done"}
    <3>1. DOMAIN memory = MemoryFields
      BY <1>4 DEF RemoveProfile, Ready, LibraryInv, LibraryTypes
    <3>2. store'.list = {p \in memory.list : p.name # name}
      BY <2>1, <2>2, <3>1, WithoutIs DEF Stored, WithList
    <3> QED  BY <2>1, <2>2, <3>2 DEF CachesAfter, NamesOf
  <2>3. CASE reached \notin {"override", "done"}
    BY <2>1, <2>3 DEF CachesAfter
  <2> QED  BY <2>2, <2>3
<1> QED
  BY <1>1, <1>2, <1>3, <1>4
  DEF LibraryNext, End, UpdateSubscription, ImportSubscription, SwitchProfile, SetProfileUrl,
      SetTrafficMode, SetOverride, ClearOverride, ToggleOverrideFragment, EditByHand, StartCore,
      StopCore, RestartCore, CoreExits, JobFails, StartEnds, files

\* A document that is cached is replaced by another one or, when a write fails, by a torn one, and
\* goes only with its profile; a profile that says it was updated has one (update_subscription).
THEOREM CachesAreKept == LibrarySpec => KeepsLastGood
<1> DEFINE Good ==
      /\ DOMAIN caches \cap NamesOf(store.list) \cap NamesOf(store'.list) \subseteq DOMAIN caches'
      /\ \A n \in DOMAIN caches' :
           caches'[n] = Torn /\ ~ (n \in DOMAIN caches /\ caches[n] = Torn)
             => spent'.faults > spent.faults
      /\ \A p \in store'.list : p.updated => p.name \in DOMAIN caches'
<1>1. \A doc, id : id # 0 => Cached(doc, id) # Torn
  BY DEF Cached, Torn
<1>2. ASSUME LibraryInv, LibraryNext
      PROVE  /\ DOMAIN caches \cap NamesOf(store.list) \cap NamesOf(store'.list) \subseteq DOMAIN caches'
             /\ \A n \in DOMAIN caches' :
                  caches'[n] = Torn /\ ~ (n \in DOMAIN caches /\ caches[n] = Torn)
                    => spent'.faults > spent.faults
  <2>1. CASE caches' = caches
    BY <2>1
  <2>2. ASSUME NEW name, NEW doc, NEW id, id # 0, caches' = Put(caches, name, Cached(doc, id))
        PROVE  /\ DOMAIN caches \subseteq DOMAIN caches'
               /\ \A n \in DOMAIN caches' : caches'[n] = Torn => n \in DOMAIN caches /\ caches[n] = Torn
    BY <1>1, <2>2 DEF Put
  <2>3. ASSUME NEW name, caches' = Put(caches, name, Torn), spent'.faults > spent.faults
        PROVE  DOMAIN caches \subseteq DOMAIN caches'
    BY <2>3 DEF Put
  <2>4. ASSUME NEW list, caches' = Migrated(list, caches)
        PROVE  /\ DOMAIN caches \subseteq DOMAIN caches'
               /\ \A n \in DOMAIN caches' : caches'[n] = Torn => n \in DOMAIN caches /\ caches[n] = Torn
    <3>1. /\ DOMAIN caches' = DOMAIN caches \cup Migrating(list, caches)
          /\ \A n \in DOMAIN caches : caches'[n] = caches[n]
      BY <2>4 DEF Migrated
    <3>2. ASSUME NEW n \in Migrating(list, caches), n \notin DOMAIN caches
          PROVE  caches'[n] # Torn
      <4>1. LegacyOf(n) # {}
        BY DEF Migrating
      <4>2. PICK f \in LegacyOf(n) : caches'[n] = Cached(f.doc, f.id)
        BY <2>4, <3>1, <3>2, <4>1 DEF Migrated
      <4>3. f.id # 0
        BY LegacyAssumption DEF LegacyOf
      <4> QED  BY <1>1, <4>2, <4>3
    <3> QED  BY <3>1, <3>2
  <2>5. ASSUME NEW name, caches' = Drop(caches, name), name \notin NamesOf(store'.list)
        PROVE  /\ DOMAIN caches \cap NamesOf(store.list) \cap NamesOf(store'.list) \subseteq DOMAIN caches'
               /\ \A n \in DOMAIN caches' : caches'[n] = Torn => n \in DOMAIN caches /\ caches[n] = Torn
    BY <2>5 DEF Drop
  <2> QED  BY <1>2, <2>1, <2>2, <2>3, <2>4, <2>5, CachesChange
<1>3. LibraryInv' => \A p \in store'.list : p.updated => p.name \in DOMAIN caches'
  BY DEF LibraryInv, StoreInv, UpdatedCached
<1>4. LibraryInv /\ LibraryInv' /\ [LibraryNext]_libraryVars => [Good]_libraryVars
  BY <1>2, <1>3
<1>5. LibrarySpec => [][Good]_libraryVars
  BY <1>4, LibraryInvariant, PTL DEF LibrarySpec
<1> QED  BY <1>5 DEF KeepsLastGood

\* No saved subscription and no cached document is lost, whatever an address answers, whichever
\* step fails and however often the client is started anew: but for a write of the list that
\* fails midway, after which the client that runs still has every subscription, until it ends
\* (save_profiles, Profiles::save, update_subscription).
THEOREM LibraryKeeps == LibrarySpec => NothingIsLost
BY SavedLinksKept, CachesAreKept DEF NothingIsLost

===============================================================================
