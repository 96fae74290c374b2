----------------------------- MODULE ClientLibrary -----------------------------
(***************************************************************************)
(* The client's subscriptions: its profiles, the cached document and the   *)
(* override file of each, and what the core is started with.  ClientEngine *)
(* models the life of the core and of the system proxy; here a start only  *)
(* asks which files it used.                                               *)
(*                                                                         *)
(* The engine changes its memory first and then its files, one after the   *)
(* other; any of these steps may fail, which ends the command.  One long    *)
(* operation, a fetch or a start, runs beside the commands; all others but *)
(* a stop are refused meanwhile.  The client may end at any time.          *)
(*                                                                         *)
(* A profile is known to the engine by its name alone.  Each import has a   *)
(* number here, and so has every file that was written for it; the list of  *)
(* profiles is in the order of these numbers.                              *)
(***************************************************************************)
EXTENDS Naturals, FiniteSets, SequencesExt

CONSTANTS
  Missing,
  ProfileNames,   \* by which the files are addressed
  LegacyPath,     \* the cache path an older version derived from a name
  FirstProfiles,  \* the profiles the client starts out with
  LegacyFiles,    \* the caches of that version: the path, whose it is, the document
  Urls,           \* addresses the user pastes
  Replies,        \* what an address may answer, as a set of bodies
  LocalFiles,     \* local subscription files, as bodies
  Documents(_),   \* the documents a body is read as: none when it cannot be read
  OverrideTexts,  \* override texts a user may write
  TrafficModes,
  Faults,         \* which steps may fail: "save", "cache", "delete"
  \* bounds
  MaxImports, MaxCommands, MaxFaults, MaxOpens

VARIABLES
  memory,      \* the engine's memory, Missing when the client is not running
  store,       \* profiles.toml and settings.toml
  caches,      \* cache/profiles: the documents, by name
  overrides,   \* overrides: the texts, by name
  \* history and bounds
  kept,        \* the profiles that have been saved and the user has not asked to remove, but
               \* for those a write that failed had torn off when the client started anew
  leftBehind,  \* the caches and overrides, by name, that an earlier profile may have left
  spent        \* how many imports, commands, failures and starts of the client occurred

history     == <<kept, leftBehind>>
files       == <<store, caches, overrides>>
libraryVars == <<memory, files, history, spent>>

\* `updated': whether this version has fetched or read a document of it.
Profile(name, url, updated, id) == [name |-> name, url |-> url, updated |-> updated, id |-> id]
Named(list, name) == {p \in list : p.name = name}
NamesOf(list) == {p.name : p \in list}
IdsOf(list)   == {p.id : p \in list}
NoUrl == [sub |-> FALSE, at |-> Missing, suffix |-> Missing, query |-> FALSE]

\* The first of some profiles in the list.
Earliest(profiles) == CHOOSE p \in profiles : \A q \in profiles : p.id <= q.id

\* Names tell profiles apart from the outset, and none of them has been updated.
ASSUME FirstAssumption ==
  /\ IsFiniteSet(FirstProfiles)
  /\ \A p \in FirstProfiles :
       p.name \in ProfileNames /\ p.id \in 1 .. Cardinality(FirstProfiles) /\ ~ p.updated
  /\ \A p, q \in FirstProfiles : p.name = q.name \/ p.id = q.id => p = q

ASSUME LegacyAssumption == \A f \in LegacyFiles : f.id \in Nat \ {0}

Torn == [doc |-> Missing, id |-> 0]
Cached(doc, id) == [doc |-> doc, id |-> id]
OverrideFile(text, id) == [text |-> text, id |-> id]

\* The files with another one, or without that of a name.
Put(there, name, file) ==
  [n \in DOMAIN there \cup {name} |-> IF n = name THEN file ELSE there[n]]
Drop(there, name) == [n \in DOMAIN there \ {name} |-> there[n]]

HasActive(e) == e.active \in NamesOf(e.list)
Active(e) == Earliest(Named(e.list, e.active))

LegacyOf(name) == {f \in LegacyFiles : f.path = LegacyPath[name]}
SharesLegacy(name) == {n \in ProfileNames : LegacyPath[n] = LegacyPath[name]}

Both(name) == {<<"cache", name>>, <<"override", name>>}

\* A cache of the older version that belongs to none of the first profiles.
Orphan(file) == ~ \E p \in FirstProfiles : p.id = file.id /\ LegacyPath[p.name] = file.path

-------------------------------------------------------------------------------
(* Addresses *)

\* An address of a subscription service, or any other; the path of the first is a
\* credential and a suffix.
TargetFormat == "sing-box-full.json"
BareFormat   == "sing-box.json"

NormalizeUrl(url) == IF url.sub THEN [url EXCEPT !.suffix = TargetFormat] ELSE url

\* The addresses an update tries one after the other: the older endpoint is asked only
\* when the first fails, and never with a query.
FetchOrder(url) ==
  IF url.sub /\ ~ url.query /\ url.suffix = TargetFormat
  THEN <<url, [url EXCEPT !.suffix = BareFormat]>> ELSE <<url>>

-------------------------------------------------------------------------------
(* The text of an override file *)

Fragment(id, enabled, overlay) == [id |-> id, enabled |-> enabled, overlay |-> overlay]

\* It can be read or not, in one of two shapes: named fragments that can be switched, or
\* one bare object, a fragment nobody can switch.
Fragments(list)  == [broken |-> FALSE, implicit |-> FALSE, fragments |-> list]
BareObject(json) == [broken |-> FALSE, implicit |-> TRUE,
                     fragments |-> <<Fragment("override", TRUE, json)>>]
NoOverride       == Fragments(<<>>)  \* no file, or a blank one
Malformed        == [broken |-> TRUE, implicit |-> FALSE, fragments |-> <<>>]

\* What parse accepts: JSON of either shape, every fragment with an id of its own.
WellFormed(text) ==
  /\ ~ text.broken
  /\ \A i, j \in DOMAIN text.fragments : i # j => text.fragments[i].id # text.fragments[j].id

EnabledFragments(text) == SelectSeq(text.fragments, LAMBDA f : f.enabled)

Toggleable(text, id) == ~ text.implicit /\ \E i \in DOMAIN text.fragments : text.fragments[i].id = id

Toggle(text, id) ==
  [text EXCEPT !.fragments = [i \in DOMAIN @ |-> IF @[i].id = id THEN [@[i] EXCEPT !.enabled = ~ @]
                                                                 ELSE @[i]]]

-------------------------------------------------------------------------------
(* The client starts and ends *)

\* profiles.toml and settings.toml: of the settings, the mode the next start uses.
\* `broken': which of them is a text that cannot be read; `torn' (history): whether the
\* last write of the profiles failed midway.
FirstStore ==
  [list |-> FirstProfiles, mode |-> "SystemProxy", broken |-> {}, torn |-> FALSE,
   active |-> IF FirstProfiles = {} THEN Missing ELSE Earliest(FirstProfiles).name]

LibraryInit(opens) ==
  /\ memory = Missing
  /\ store = FirstStore
  /\ caches = [n \in {} |-> Torn]
  /\ overrides = [n \in {} |-> OverrideFile(NoOverride, 0)]
  /\ kept = IdsOf(FirstProfiles)
  /\ leftBehind = {<<"cache", n>> : n \in {m \in ProfileNames : \E f \in LegacyOf(m) : Orphan(f)}}
  /\ spent = [imports |-> Cardinality(FirstProfiles), commands |-> 0, faults |-> 0, opens |-> opens]

Spend(what) == spent' = [spent EXCEPT ![what] = @ + 1]

\* The profiles without a cache to which one of the older version can only belong.
Migrating(list, old) ==
  {n \in NamesOf(list) \ ({"active-config"} \cup DOMAIN old) :  \* the running configuration's
     /\ LegacyOf(n) # {}
     /\ \A m \in NamesOf(list) \ {n} : LegacyPath[m] # LegacyPath[n]}

Migrated(list, old) ==
  [n \in DOMAIN old \cup Migrating(list, old) |->
     IF n \in DOMAIN old THEN old[n]
     ELSE LET f == CHOOSE f \in LegacyOf(n) : TRUE IN Cached(f.doc, f.id)]

\* A store that cannot be read counts as empty, and is not written until the client is
\* started anew; what a failing write tore off is lost when it is read.
Open ==
  /\ memory = Missing
  /\ spent.opens < MaxOpens
  /\ Spend("opens")
  /\ \E unreadable \in SUBSET {"profiles", "settings"} :
       LET lost == "profiles" \in unreadable
           list == IF lost THEN {} ELSE store.list
       IN  /\ store.broken \subseteq unreadable
           /\ memory' = [list |-> list, active |-> IF lost THEN Missing ELSE store.active,
                         mode |-> IF "settings" \in unreadable THEN "SystemProxy" ELSE store.mode,
                         refuses |-> unreadable # {}, job |-> Missing, run |-> Missing]
           /\ caches' = Migrated(list, caches)
           /\ kept' = IF store.torn /\ ~ lost THEN kept \cap IdsOf(list) ELSE kept
  /\ UNCHANGED <<store, overrides, leftBehind>>

\* The user leaves, or the process is killed.
End ==
  /\ memory # Missing
  /\ memory' = Missing
  /\ UNCHANGED <<files, history, spent>>

-------------------------------------------------------------------------------
(* Commands *)

Ready == memory # Missing /\ memory.job = Missing /\ spent.commands < MaxCommands

MayFail(step) == step \in Faults /\ spent.faults < MaxFaults

\* A command counts once; a failure it meets counts as well.
SpendCommand(failed) ==
  spent' = [spent EXCEPT !.commands = @ + 1, !.faults = IF failed THEN @ + 1 ELSE @]

\* An import counts as one as well.
SpendImport(failed) ==
  spent' = [spent EXCEPT !.commands = @ + 1, !.imports = @ + 1,
                         !.faults = IF failed THEN @ + 1 ELSE @]

\* Mutant: the store is written although it could not be read.
SaveOutcomesForced(e) == {TRUE} \cup IF MayFail("save") THEN {FALSE} ELSE {}

\* Whether save_profiles succeeds.
SaveOutcomes(e) == IF e.refuses THEN {FALSE} ELSE {TRUE} \cup IF MayFail("save") THEN {FALSE} ELSE {}

WithList(list, active, broken, torn) ==
  [list |-> list, active |-> active, mode |-> store.mode, broken |-> broken, torn |-> torn]

Stored(e) == WithList(e.list, e.active, store.broken \ {"profiles"}, FALSE)

\* The beginnings of a list of profiles: an entry counts as one once its address is
\* there, and the time of its update comes last.
Beginnings(list) ==
  {{}} \cup UNION {LET before == {q \in list : q.id < p.id}
                  IN  {before, before \cup {Profile(p.name, p.url, FALSE, p.id)}} : p \in list}

\* The file is emptied before it is written: a failure midway, or the end of the process,
\* leaves a beginning of the text, which may be a shorter list or no text at all.
Remnants(e) ==
  {WithList(list, IF list = {} THEN Missing ELSE e.active, store.broken \ {"profiles"}, TRUE) :
     list \in Beginnings(e.list)}
    \cup {WithList({}, Missing, store.broken \cup {"profiles"}, TRUE)}

\* The names a cache of the older version may be copied to when this one is gone.
LegacyHeirs(name) == IF LegacyOf(name) = {} THEN {} ELSE SharesLegacy(name)

LeftOf(name) == Both(name) \cup {<<"cache", n>> : n \in LegacyHeirs(name)}

\* Saves the memory e; of the profiles saved before, the user expects `expected', and
\* `left' is what has been left behind so far.
Save(e, saved, expected, left) ==
  /\ kept' = IF saved THEN expected \cup IdsOf(e.list) ELSE expected
  /\ \/ /\ saved
        /\ store' = Stored(e)
        /\ leftBehind' = left
     \/ /\ ~ saved
        /\ store' = store
        /\ leftBehind' = left
     \/ /\ ~ saved /\ ~ e.refuses
        /\ store' \in Remnants(e)
        /\ leftBehind' = left \cup UNION {LeftOf(n) : n \in NamesOf(e.list) \ NamesOf(store'.list)}

\* What follows when it succeeds is `next', the engine's state then.
SaveThen(e, next) ==
  \E saved \in SaveOutcomes(e) :
    /\ Save(e, saved, kept, leftBehind)
    /\ memory' = IF saved THEN next ELSE e
    /\ SpendCommand(~ saved /\ ~ e.refuses)

\* Without an active profile, or with one that has no address, there is nothing to fetch.
Fetching(e) ==
  LET p == Active(e)
  IN  IF ~ HasActive(e) \/ p.url = NoUrl THEN e
      ELSE [e EXCEPT !.job = [kind |-> "fetch", name |-> p.name, url |-> p.url, id |-> p.id]]

\* A name that no profile has; another one when the wanted one is taken.
FreeNames(list, wanted) ==
  IF wanted \notin NamesOf(list) THEN {wanted} ELSE ProfileNames \ NamesOf(list)

\* Also the timer of automatic updates.
UpdateSubscription ==
  /\ Ready
  /\ HasActive(memory)
  /\ Active(memory).url # NoUrl
  /\ memory' = Fetching(memory)
  /\ SpendCommand(FALSE)
  /\ UNCHANGED <<files, history>>

\* An address that is already known activates its profile.
ImportKnown(url) ==
  LET known == {p \in memory.list : p.url = url}
      e     == [memory EXCEPT !.active = Earliest(known).name]
  IN  /\ known # {}
      /\ SaveThen(e, Fetching(e))

\* The memory with a new profile, which is active.
WithProfile(name, url, updated) ==
  [memory EXCEPT !.list = @ \cup {Profile(name, url, updated, spent.imports + 1)}, !.active = name]

ImportNew(name, url) ==
  LET e == WithProfile(name, url, FALSE)
  IN  \E saved \in SaveOutcomes(e) :
        /\ Save(e, saved, kept, IF saved THEN leftBehind ELSE leftBehind \cup Both(name))
        /\ memory' = IF saved THEN Fetching(e) ELSE e
        /\ SpendImport(~ saved /\ ~ e.refuses)

ImportSubscription ==
  /\ Ready
  /\ \E pasted \in Urls, wanted \in ProfileNames :
       LET url == NormalizeUrl(pasted)
       IN  \/ ImportKnown(url)
           \/ /\ \A p \in memory.list : p.url # url
              /\ spent.imports < MaxImports
              /\ \E name \in FreeNames(memory.list, wanted) : ImportNew(name, url)
  /\ UNCHANGED <<caches, overrides>>

\* The document is cached before the profile is there.
ImportFile(name, doc) ==
  LET e == WithProfile(name, NoUrl, TRUE)
  IN  \E saved \in SaveOutcomes(e) :
        /\ Save(e, saved, kept, IF saved THEN leftBehind ELSE leftBehind \cup Both(name))
        /\ memory' = e
        /\ caches' = Put(caches, name, Cached(doc, spent.imports + 1))
        /\ SpendImport(~ saved /\ ~ e.refuses)

ImportFileFails(name) ==
  /\ MayFail("cache")
  /\ caches' = Put(caches, name, Torn)
  /\ SpendCommand(TRUE)
  /\ UNCHANGED <<memory, store, history>>

ImportProfileFile ==
  /\ Ready
  /\ spent.imports < MaxImports
  /\ \E body \in LocalFiles, wanted \in ProfileNames :
       \E doc \in Documents(body), name \in FreeNames(memory.list, wanted) :
         ImportFile(name, doc) \/ ImportFileFails(name)
  /\ UNCHANGED overrides

SwitchProfile ==
  /\ Ready
  /\ \E name \in NamesOf(memory.list) \ {memory.active} :
       LET e == [memory EXCEPT !.active = name] IN SaveThen(e, e)
  /\ UNCHANGED <<caches, overrides>>

\* What has been cached of the old address stays until the next update.
SetProfileUrl ==
  /\ Ready
  /\ \E p \in memory.list, pasted \in Urls :
       LET q == Profile(p.name, NormalizeUrl(pasted), p.updated, p.id)
           e == [memory EXCEPT !.list = (@ \ {p}) \cup {q}]
       IN  p.url # q.url /\ SaveThen(e, e)
  /\ UNCHANGED <<caches, overrides>>

WithoutProfile(e, name) ==
  LET list == e.list \ Named(e.list, name)
  IN  [e EXCEPT !.list = list,
                !.active = IF @ # name THEN @ ELSE IF list = {} THEN Missing ELSE Earliest(list).name]

\* Mutant: the override outlives its profile.
OverridesAfterKept(name, reached) == overrides

\* How far a removal gets: the first step that fails, or "done".
RemovalEnds(e, name) ==
  IF e.refuses THEN {"save"}
  ELSE {"done"} \cup (IF MayFail("save") THEN {"save"} ELSE {})
                \cup (IF MayFail("delete") /\ name \in DOMAIN caches THEN {"cache"} ELSE {})
                \cup (IF MayFail("delete") /\ name \in DOMAIN overrides THEN {"override"} ELSE {})

CachesAfter(name, reached) ==
  IF reached \in {"override", "done"} THEN Drop(caches, name) ELSE caches

OverridesAfter(name, reached) == IF reached = "done" THEN Drop(overrides, name) ELSE overrides

\* What stays behind: a failed removal's files, and any cache of the older version.
LeftAfter(name, reached) ==
  (IF reached = "done" THEN leftBehind \ Both(name) ELSE leftBehind \cup Both(name))
    \cup {<<"cache", n>> : n \in LegacyHeirs(name)}

\* The profile leaves memory, the store, and then its files go.
RemoveProfile ==
  /\ Ready
  /\ \E name \in NamesOf(memory.list) :
       /\ ~ (memory.run # Missing /\ memory.active = name)
       /\ \E reached \in RemovalEnds(memory, name) :
            LET e == WithoutProfile(memory, name)
            IN  /\ memory' = e
                /\ Save(e, reached # "save", kept \ IdsOf(Named(memory.list, name)),
                        LeftAfter(name, reached))
                /\ caches' = CachesAfter(name, reached)
                /\ overrides' = OverridesAfter(name, reached)
                /\ SpendCommand(reached # "done" /\ ~ memory.refuses)

WithMode(mode, broken) == [store EXCEPT !.mode = mode, !.broken = broken]

\* The settings are written like the profiles; one that is missing has its default.
SettingsAfter(mode, saved) ==
  IF saved THEN {WithMode(mode, store.broken \ {"settings"})}
  ELSE {store} \cup IF memory.refuses THEN {}
                    ELSE {WithMode("SystemProxy", store.broken \ {"settings"}),
                          WithMode(store.mode, store.broken \cup {"settings"})}

SetTrafficMode ==
  /\ Ready
  /\ memory.run = Missing
  /\ \E mode \in TrafficModes \ {memory.mode}, saved \in SaveOutcomes(memory) :
       /\ memory' = [memory EXCEPT !.mode = mode]
       /\ store' \in SettingsAfter(mode, saved)
       /\ SpendCommand(~ saved /\ ~ memory.refuses)
  /\ UNCHANGED <<caches, overrides, history>>

-------------------------------------------------------------------------------
(* Overrides *)

\* A file is replaced as a whole, so a failure changes nothing; a text that cannot be
\* read is refused.
SetOverride ==
  /\ Ready /\ ~ memory.refuses
  /\ \E p \in memory.list, text \in OverrideTexts :
       /\ WellFormed(text)
       /\ overrides' = Put(overrides, p.name, OverrideFile(text, p.id))
  /\ SpendCommand(FALSE)
  /\ UNCHANGED <<memory, store, caches, history>>

ClearOverride ==
  /\ Ready /\ ~ memory.refuses
  /\ \E name \in NamesOf(memory.list) \cap DOMAIN overrides :
       overrides' = Drop(overrides, name)
  /\ SpendCommand(FALSE)
  /\ UNCHANGED <<memory, store, caches, history>>

ToggleOverrideFragment ==
  /\ Ready /\ ~ memory.refuses
  /\ \E name \in NamesOf(memory.list) \cap DOMAIN overrides :
       LET text == overrides[name].text
       IN  /\ WellFormed(text)
           /\ \E i \in DOMAIN text.fragments :
                LET id == text.fragments[i].id
                IN  /\ Toggleable(text, id)
                    /\ overrides' = Put(overrides, name,
                                        OverrideFile(Toggle(text, id), overrides[name].id))
  /\ SpendCommand(FALSE)
  /\ UNCHANGED <<memory, store, caches, history>>

\* The user writes the file of one of the profiles with an editor.
EditByHand ==
  /\ memory # Missing /\ spent.commands < MaxCommands
  /\ \E p \in memory.list, text \in OverrideTexts :
       overrides' = Put(overrides, p.name, OverrideFile(text, p.id))
  /\ SpendCommand(FALSE)
  /\ UNCHANGED <<memory, store, caches, history>>

-------------------------------------------------------------------------------
(* The background operation *)

\* A start reads the override at once, and refuses one that cannot be read.
StartJob(e) ==
  LET p == Active(e)
  IN  [kind |-> "start", name |-> p.name, id |-> p.id, mode |-> e.mode,
       override |-> IF p.name \in DOMAIN overrides THEN overrides[p.name]
                    ELSE OverrideFile(NoOverride, p.id)]

Startable(e) ==
  /\ HasActive(e)
  /\ e.active \in DOMAIN overrides => WellFormed(overrides[e.active].text)

StartCore ==
  /\ Ready
  /\ memory.run = Missing
  /\ Startable(memory)
  /\ memory' = [memory EXCEPT !.job = StartJob(memory)]
  /\ SpendCommand(FALSE)
  /\ UNCHANGED <<files, history>>

\* Stopping, restarting or losing the core; the first two cancel what is pending.
StopCore ==
  /\ memory # Missing
  /\ memory.job # Missing \/ memory.run # Missing
  /\ memory' = [memory EXCEPT !.job = Missing, !.run = Missing]
  /\ UNCHANGED <<files, history, spent>>

RestartCore ==
  /\ memory # Missing /\ spent.commands < MaxCommands
  /\ memory' = [memory EXCEPT !.run = Missing,
                              !.job = IF Startable(memory) THEN StartJob(memory) ELSE Missing]
  /\ SpendCommand(FALSE)
  /\ UNCHANGED <<files, history>>

CoreExits ==
  /\ memory # Missing
  /\ memory.run # Missing
  /\ memory' = [memory EXCEPT !.run = Missing]
  /\ UNCHANGED <<files, history, spent>>

\* The bodies a fetch may end with, none when every address fails.
BodiesOf(url) == UNION {Replies[a] : a \in ToSet(FetchOrder(url))}

JobFails ==
  /\ memory # Missing /\ memory.job # Missing
  /\ memory' = [memory EXCEPT !.job = Missing]
  /\ UNCHANGED <<files, history, spent>>

Stamp(p, name) == Profile(p.name, p.url, p.updated \/ p.name = name, p.id)
Stamped(list, name) == {Stamp(p, name) : p \in list}

\* Mutant: the cache is cleared before the new document is there.
CacheBefore(name) == Drop(caches, name)

\* A body that cannot be read is an error, and the cache is left as it is.
CacheUnread(name) == caches

\* The answer cannot be read, or it cannot be cached.
AnswerUnread(job, body) ==
  /\ Documents(body) = {}
  /\ memory' = [memory EXCEPT !.job = Missing]
  /\ caches' = CacheUnread(job.name)
  /\ UNCHANGED <<store, history, spent>>

AnswerTorn(job, body) ==
  /\ Documents(body) # {}
  /\ MayFail("cache")
  /\ memory' = [memory EXCEPT !.job = Missing]
  /\ caches' = Put(caches, job.name, Torn)
  /\ Spend("faults")
  /\ UNCHANGED <<store, history>>

\* It is cached, and the time of the update is saved.
AnswerCached(job, body) ==
  LET e == [memory EXCEPT !.job = Missing, !.list = Stamped(@, job.name)]
  IN  \E doc \in Documents(body), saved \in SaveOutcomes(e) :
        /\ memory' = e
        /\ caches' = Put(caches, job.name, Cached(doc, job.id))
        /\ Save(e, saved, kept, leftBehind)
        /\ IF saved \/ e.refuses THEN UNCHANGED spent ELSE Spend("faults")

FetchEnds ==
  /\ memory # Missing /\ memory.job # Missing /\ memory.job.kind = "fetch"
  /\ LET job == memory.job
     IN  \E body \in BodiesOf(job.url) :
           AnswerUnread(job, body) \/ AnswerTorn(job, body) \/ AnswerCached(job, body)
  /\ UNCHANGED overrides

\* The core has checked the configuration and answers.
StartEnds ==
  /\ memory # Missing /\ memory.job # Missing /\ memory.job.kind = "start"
  /\ LET job == memory.job
     IN  /\ job.name \in DOMAIN caches
         /\ caches[job.name] # Torn
         /\ memory' = [memory EXCEPT !.job = Missing,
                         !.run = [id |-> job.id, name |-> job.name, mode |-> job.mode,
                                  cache |-> caches[job.name], override |-> job.override]]
  /\ UNCHANGED <<files, history, spent>>

LibraryNext ==
  \/ Open \/ End
  \/ UpdateSubscription \/ ImportSubscription \/ ImportProfileFile
  \/ SwitchProfile \/ SetProfileUrl \/ RemoveProfile \/ SetTrafficMode
  \/ SetOverride \/ ClearOverride \/ ToggleOverrideFragment \/ EditByHand
  \/ StartCore \/ StopCore \/ RestartCore \/ CoreExits
  \/ JobFails \/ FetchEnds \/ StartEnds

LibrarySpec == LibraryInit(0) /\ [][LibraryNext]_libraryVars

-------------------------------------------------------------------------------
(* Properties *)

Running == memory # Missing /\ memory.run # Missing

\* A core that has come up runs with the document and the override of the very profile
\* that was active: never with those of another one that had the name before it, unless a
\* removal, an import or a write of the list failed midway, or a cache of the older version
\* survived a removal (start_core, remove_profile, migrate_caches).
OwnFiles ==
  [][Running' /\ ~ Running =>
       LET run == memory'.run
       IN  /\ run.cache.id # run.id => <<"cache", run.name>> \in leftBehind
           /\ run.override.id # run.id => <<"override", run.name>> \in leftBehind]_libraryVars

\* A subscription that has been saved is in the store until the user asks to remove it,
\* whatever could not be read in between, but for a write of the list that fails midway;
\* and then the client that could read its store still has every one of them, to write
\* with its next save, until it ends (save_profiles, store_unreadable).
LinksKept ==
  /\ ~ store.torn => kept \subseteq IdsOf(store.list)
  /\ memory # Missing /\ ~ memory.refuses => kept \subseteq IdsOf(memory.list)

\* As long as the profile is there, what is cached for it is replaced by another document
\* or by what a failing write leaves, and never goes.  And a profile that says it was
\* updated has a document (update_subscription, remove_profile).
KeepsLastGood ==
  [][/\ DOMAIN caches \cap NamesOf(store.list) \cap NamesOf(store'.list) \subseteq DOMAIN caches'
     /\ \A n \in DOMAIN caches' :
          caches'[n] = Torn /\ ~ (n \in DOMAIN caches /\ caches[n] = Torn)
            => spent'.faults > spent.faults
     /\ \A p \in store'.list : p.updated => p.name \in DOMAIN caches']_libraryVars

\* No saved subscription and no cached document is lost (save_profiles, update_subscription).
NothingIsLost == []LinksKept /\ KeepsLastGood
=============================================================================
