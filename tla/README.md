# Verification of sbctl

TLA+ models of sbctl: one command line program that manages a sing-box VPS
(`src/src`), its long-running daemon (`sbctl serve`), a periodic accounting task,
and a client (`src/crates/client-core`) with a terminal and a desktop interface.
The models follow the Rust source; every modelled definition is mapped to source
lines in `PROJECT.json` ("map").

Run a model with `tlc -config <run>.cfg <module>` (the module of each run is in
section 3), check a proof with `tlapm <module>.tla`.

## 1. The system

| Part | State it keeps | Operations | Interacts with |
|---|---|---|---|
| Deployment store (`config.rs`) | `etc/sbctl/config.toml`, `var/lib/sbctl/state.json`, `var/lib/sbctl/artifacts/*`, the operation lock file | load, replace, update_state, locked writes (temporary file, fsync, rename, ownership) | used by every command |
| Configuration model and wizard (`config.rs`, `wizard.rs`, `cli/prompt.rs`) | the configuration under edit | questions, topics, `apply_options`, `validate` | committed by a transaction |
| Configuration transactions (`subscription/artifacts.rs`, `cli/commands/config.rs`, `cli/commands/system.rs`) | the same files and the active `etc/sing-box/config.json` | wizard commit, credential rotation, mode switch, regeneration, rollback | restarts both services after the lock is released |
| Renderers and templates (`canonical.rs`, `subscription/render/*`, `subscription/template.rs`, `subscription/profile.rs`) | none | node model to documents, links and routes | artifacts, daemon |
| Subscription daemon (`cli/commands/serve.rs`, `subscription/serve.rs`) | the configuration it loaded at start, listeners with permits, a certificate stamp, request budgets | serve artifacts, ACME challenges, index page | reads artifacts and the accounting state without the lock |
| Traffic accounting (`traffic.rs`) | TrafficState, kernel counters, the period calendar | reset task (every minute), total and direction corrections, reports | operation lock, configuration |
| Certificates (`certificate.rs`) | Certbot's lineages, the pinned pair and its source stamp | obtain, renew, validate, deploy hook, pin | Certbot and its timer, the TLS listener, sing-box |
| Releases and updates (`release.rs`, `update.rs`) | manifests, private candidates, binaries, rollback points | check, download, verify, install, apply, roll back | operation lock held throughout an update, systemd |
| Lifecycle (`lifecycle.rs`, `cli/commands/install.rs`) | units, hooks, accounts, owners and modes, the ownership marker | install, reinstall with backup, roll back, uninstall, purge, reconcile units | systemd, the operation lock |
| Menu (`cli/menu.rs`) | none between questions | sections, confirmations, the commands behind them | all commands |
| Client engine (`client-core/controller.rs`, `settings.rs`, `system_proxy.rs`) | settings, profiles, the core process, the system proxy and its backup | an actor that handles commands, one operation in a worker thread, polls, automatic restart | interfaces over channels |
| Client library (`subscription.rs`, `config_override.rs`, `core.rs`) | caches, override files, the downloaded core and its ledger of digests | fetch, wrap, merge, migrate, download | the engine's operations |
| User interfaces (`sbgui`, `sbtui`) | a copy of the snapshot, view state | draw, arm confirmations, send commands | the engine |
| JSON merge (`crates/json-merge`) | none | recursive merge | overrides on both sides |

### What is hard here

- Every configuration command **loads before it locks** and publishes after; the
  wizard waits for a human in between.
- A commit replaces several files by one rename each; a failure or a crash can
  fall between any two, and ownership is set after the rename.
- **Restarts and their rollback happen after the lock is released.** Certificates
  are replaced without the lock, and an uninstall takes none.
- The reset measures the counters before it takes the lock; counters restart from
  zero; months differ in length and clocks are changed.
- One rule, node or link is rendered for many clients from separate code.
- The client's engine handles commands while an operation runs beside it, answers
  arrive late, processes die, and interfaces act on an old copy of its state.
- A desktop's proxy is several keys; a core is downloaded without a published
  digest; override, cache and profile are three files known by a name that may be
  used again.

The hazards, each at its line and with the properties that look for it, are in
`PROJECT.json` ("hazards").

### What makes each part correct

- *Configuration transactions*: a transaction that succeeds has a complete
  generation on disk; a failed one restores; a rotated credential never authorises
  again; everybody gets the lock in the end.
- *Documents*: whatever a page, link or group refers to exists; clients of one
  deployment route alike; every node handed out can be reached.
- *Daemon*: an answer without the credential tells nothing; no address exceeds its
  budget, none is refused too early; permits come back.
- *Accounting*: no byte counted twice, none lost, the corrected total carries on,
  and the period ends when the report said it would.
- *Certificates*: what is pinned belongs together; the listener never keeps a torn
  pair, and reloads a new one.
- *Releases and updates*: only verified bytes are installed; all managed files are
  the new ones and run, or all are the old ones.
- *Lifecycle*: a failed installation leaves what was there; files are readable to
  the services that need them and to nobody else.
- *Client*: a stop wins over an automatic restart; the user's proxy setting and
  saved subscriptions are never lost; a core runs the files of its own profile;
  a confirmation acts on what it named.

## 2. Modules

| Module | Models |
|---|---|
| `ConfigTransactions` | configuration transactions, the operation lock, the two services |
| `AtomicDeployment` | abstract specification: what a commit promises to those who respect the lock |
| `Accounting`, `AccountingCalendar` | counters, TrafficState, resets, corrections, reports; the periods they refer to |
| `SubscriptionFormats` | formats, versions, links, routes, files: pure operators |
| `DeploymentConfig`, `Renderers` | the configuration and its validation; groups, rules and rule sets of a template, and every document: pure operators |
| `Deployment` | complete dialogues of the wizard as actions; composes `SubscriptionFormats`, `DeploymentConfig` and `Renderers` |
| `RequestBudget` | the token buckets per address |
| `SubscriptionService` | listeners, permits, connections, routing, answers; extends `RequestBudget` and `SubscriptionFormats` |
| `SubscriptionHost` | composes `Deployment` and `SubscriptionService` |
| `PinnedCertificate` | the pinned pair, the deploy hook, the listener that reloads it |
| `UpdateTransaction` | an update under the lock, rollback points, services; extends `PinnedCertificate` |
| `CertificateRenewal` | obtaining, renewing, validating, pinning beside Certbot and its timer |
| `ReleaseInstall` | manifests, versions, signatures, trust; the release commands from the manifest to the binaries |
| `Dialogues`, `AdminMenu` | the questions of wizard and installation; the menu, which extends both `Dialogues` and `ReleaseInstall` |
| `Administration` | composes menu, releases, certificates and calendar |
| `Lifecycle` | installation, replacement, rollback, restoration, uninstall, purge, unit reconciliation |
| `ServiceStorage` | service accounts, owners and modes of the files, storage preparation |
| `HostFiles` | composes `Lifecycle` and `ServiceStorage` |
| `ClientEngine` | the life of the core, automatic restarts, the system proxy, exit, death and restart of clients |
| `DesktopProxy` | the proxy setting of each platform as the keys it consists of |
| `SubscriptionReader` | JSON trees and their merge; subscriptions and links: pure operators |
| `ClientLibrary` | profiles, caches, overrides, fetches and starts, for any reading of the bodies |
| `ConfigOverride` | the configuration the core is started with; extends `ClientLibrary` and `SubscriptionReader` |
| `CoreDownload` | the download of a core and its record of digests |
| `ClientDirectory` | composes `ConfigOverride`, `DesktopProxy` and `CoreDownload` |
| `EngineLoop` | the engine's queue, gate, polls, log tail and snapshot |
| `ClientInterface` | the user at either client; extends `EngineLoop` |
| `ConfigTransactionsProofs`, `AccountingProofs`, `ClientEngineProofs`, `UpdateTransactionProofs`, `SubscriptionServiceProofs`, `HostFilesProofs`, `ClientProofs`, `AdministrationProofs` | inductive invariants and theorems |
| `MC*` | values of constants for TLC |

Modules that follow one another in a composition share state (EXTENDS) where the
code does. `HostFiles`, `SubscriptionHost`, `ClientDirectory` and `Administration` put
parts beside each other that read nothing of each other; a behaviour there is about one of them, and
the bounds of the others are zero. This saves runs, not states, and loses nothing:
with no shared state an interleaving shows no more than its parts.

### The host

**ConfigTransactions.** A configuration is a node model, a subscription mode and a
credential; the content of a file is the node model it was generated from, and
`"legacy"` stands for the profiles that some node models cannot fill, so artifact
files come and go. A command loads `config.toml` (`Begin*`), the wizard waits for its
administrator (`Confirm`, `Cancel`), `Replace` is `DeploymentStore::replace`.
`AcquireLock`, `Check`, `WriteArtifact`, `WriteActive`, `WriteConfig`, `Undo` and
`Prune` are the steps of `apply_config_transaction` and `regenerate` under the lock,
one per rename; `PrepareStorage`, `RestartCore`, `RestartDaemon` and the `Restore*`
and `*Again` actions come after it. Failures are injected by kind (`FaultKinds`).

**Accounting.** `Begin` loads interface and period; `ReadCounters` and `Reset` are the
halves of `reset_with_runtime` before and under the lock (`overtaken` are the resets between the
two when another writer sets the baseline, and `late` marks a state one of them has
accumulated into); `PlanCorrection` and
`WriteCorrection` are `set_used_with_runtime`; `ReadState` and `Report` the lock-free
read. Traffic, the clock, a changed interface, counter rollbacks and reboots happen
on their own. Ghost fields relate the persisted state to an odometer that never
restarts. Periods are numbers here; `AccountingCalendar` says which instants they
begin at, with months of different lengths, natural and anchored, in timezones whose
clock is put forward and back.

**Deployment.** Every action is one dialogue that is confirmed and committed:
`ConfigInit`, the full `Wizard`, or one of its topics. The documents of the new
configuration are operators (`Renderers`): tags, members, targets, rule sets, resolvers
and what a rule matches, for every client version. A rule is recorded by what it does to
a destination, so that two renderings can be compared. A downloaded rule set may have
names its compiled-in twin does not have; `Listed` destinations are those of which it says no more.

**SubscriptionService.** A connection waits in its listener's queue (`Connect`), takes
a permit or is dropped (`AcceptPlain`, `AcceptTls`), makes its handshake, is answered
(`Respond`, which is `subscription_http_response` from the budget to the file, or
`RespondAcme`), leaves or times out; `Stop` and `Restart` are the process. `RequestBudget` keeps the
table of buckets, and two ideal buckets per address as ghosts (section 4).

**PinnedCertificate, UpdateTransaction.** `Renew` and `Publish` begin a publication,
`PinChain`, `PinKey`, `Grant` are its renames and its change of group; none takes the
lock. `Accept`, `Compare`, `LoadChain`, `LoadKey` are the listener, one step per file it
looks at. An update is `Begin`, `AcquireLock`, `Check`, `CreatePoint`, `BackUp`,
`WriteSbctl`, `WriteSingBox`, `RestartCore`, `RestartDaemon`, `Observe`, `Undo`, and
`Crash` at any of them.

**CertificateRenewal.** Certbot replaces certificate and key of a lineage one after the
other and runs the hook under its own lock; a command publishes once more after its
Certbot has ended. The configuration may change host and mode meanwhile; certificates
expire.

**ReleaseInstall.** The release commands, their private candidates and the
administrator's files, which may change between any two steps: `ReadManifest`,
`FetchCandidates` or `FetchOfficial`, `ReadCandidates` (one read, verified),
`CheckCandidates`, `Apply`; `Curl*`, `VerifyDownload`, `RenameDownload` for a download to
a path; `CopyKernel`, `PlaceKernel` for `sing-box install`. The ghost `origin`
remembers what was verified. A kernel is known by what it prints as well (`mentions`), since the
code looks for the version in that text.

**Dialogues, AdminMenu.** A dialogue is the list of the questions that are left; a line
is empty, unusable or a value, and the end of the input answers everything that is
asked from then on. An item of a section is the confirmations and lines it asks for, and a command.

**Lifecycle, ServiceStorage.** A file is known by the deployment it belongs to. Each
step of an installation, of the restoration of the archive and of an uninstall is an
action; a purge unlinks the lock file, which is modelled as an inode. `ServiceStorage`
has the same commands over owner, group and readers of every path.

### The client

**ClientEngine.** `engine[c]` is the memory of the actor: settings, mode, the core it
owns, the operation under way, restart attempts and an armed restart. A start runs in
the background (`Launch`, `Settle`) and its result is picked up in `FinishStarted` or
`FinishFailed`; `DetectExit`, `StableRun`, `AutoRestart`, `AutoUpdate` are the interval
tick; `AskQuit`, `AnyKey`, `LeaveUI`, `Shutdown`, `ClientDies`, `ClientStart` the life of
the process. Here a proxy setting is one value; in **DesktopProxy** it is the keys of
the platform, one write each, any of which may fail.

**ClientLibrary.** The engine changes its memory and then its files, one per step; a
long operation (fetch, start) runs beside the commands and its result is applied
later. Every import has a number, and so has every file written for it, so that a
core that runs another's files can be told. `leftBehind` records which caches and
overrides a failed step, or the older version, may have left under a name. What a body is
read as is the constant `Documents`, which a run replaces by `Parse` of
`SubscriptionReader`: the commands only ask whether it can be read. The list and the settings
are written in place, so a write that fails, or the death of the process, leaves a beginning of
the text (`Remnants`): a shorter list, no list, or a text that cannot be read.

**CoreDownload.** `VerifyOrRecordHash` reads the ledger, `RecordBegins` and `RecordEnds`
rewrite it as a whole, `WriteBegins` and `WriteEnds` overwrite a file; a client may die
between any two and another may share the directory.

**EngineLoop, ClientInterface.** A poll waits at each stage and is dropped when a
command arrives; a tick applies the result of an operation. The interface refreshes
its copy, and a key or click acts on the copy: each key is one action with what it
arms, clears and sends.

## 3. Runs

| Run (module) | Bounds | Checks |
|---|---|---|
| `config_safety` (`MCConfigTransactions`) | one process publishes (wizard, rotation, mode switch), one regenerates; 3 commands, 2 faults of nine kinds, installed or not, 2 modes, 3 credentials | `CommittedBundle`, `RevokedNeverServed` |
| `config_atomic` (`MCConfigTransactions`) | 2 wizards at a time, 3 in all, 2 faults | `AtomicCommit` (refinement), `FailedTransactionRestores`, `CommandsEnd` |
| `accounting_meter` (`MCAccounting`) | timer and administrator, 2 interfaces, 2 bytes of traffic, counters up to 3, two of: a reboot or rollback, a new period, a changed interface; one correction | `NeverOvercounted`, `NothingLost`, `TotalFollowsCorrection`, `StateBecomesCurrent` |
| `reset_race` (`MCAccounting`) | the timer's reset and one correction of both directions, nothing else happens | violates `CorrectionsSerialized` |
| `published` (`SubscriptionHost`) | 2 addresses, 2 connections, one permit per listener, a bucket of 2 tokens, a table that is full at once, 5 ticks, one stop; or 2 protocols, 2 protocol ports, 2 high ports, one to three committed dialogues, every mode, template, rule profile and DNS mode | `BudgetKept`, `AnswersGiveNothingAway`, `DropsOnlyWhenFull`; `NothingDangles`, `RoutesAgree`, `NodesReachable`, `EditsKeep` |
| `update` (`UpdateTransaction`) | one update of either kind with a good or a broken release, one publication, one fault of eight kinds, one other command, 2 rollback points at first, one kept | `FailedUpdateRestores`, `RollbackPointComplete`, `PinnedIsServed` |
| `administration` (`MCAdministration`) | a menu at a terminal that may hang up; or 2 terminals, 3 release commands, publications and edits; or 2 certificate commands or changes beside Certbot, 4 days; or a calendar of 3 months in 4 timezones with every anchor | `InstalledAsVerified`, `PublishedIsServed`, `HangUpEndsSession`, `ResetWhenAnnounced` |
| `lifecycle` (`HostFiles`) | 2 commands, one of which may install, on four kinds of host, one fault of nine kinds; or an installation and two changes, one publication, one failure over the owners of the files | `NothingLost`, `OnlyServicesRead`, `FailedInstallRestores`, `UnitsFitMode` |
| `client_engine` (`MCClientEngine`) | one client, 2 ports, 3 commands, 2 crashes of a core, one death of the client, one change of the user's proxy, 2 restarts | `StoppedStaysStopped`, `ProxyServed`, `UserProxyKept`, `ComesToRest` |
| `client_library` (`MCClientLibrary`) | 2 profiles that share a legacy cache path, 5 commands, 2 imports, one failing step, one restart; or one desktop of four kinds, 3 lives, any write failing; or 2 clients, 2 releases, 3 archives, 3 downloads | `RunsTheMerge`, `NothingIsLost` (`LinksKept`, `KeepsLastGood`), `OwnFiles`, `UserSettingKept`, `DownloadsAreSafe` |
| `interface` (`MCClientInterface`) | one sitting per matter at either client, 1 to 5 keys, 2 runs of a core, one failure | `ShowsOwnRun`, `LinkGoesToItsProfile`, `AskedThenDone`, `SeenSettles` |
| `exit_race` (`MCClientInterface`) | the sittings that end in an exit | violates `ProxyClearedAtExit` |

What each property says is written above its definition.

### Why the bounds are enough

*Two processes* show every order of a step of one against a step of the other; a
third command shows what the leftovers of an earlier failure do to a later one. *One
fault* covers every failed step followed by its clean-up; two add a failure of the
rollback or of the following command. *Two contents* suffice where contents are only
compared. Byte counts saturate at three, and two units of traffic are a byte before
and one after any step, on the same or on both interfaces and directions.

In `update` clock and history let the new rollback point sort before, between and
after the ones that are there, and be pruned. In `published` the table holds no spare
bucket, so every second address makes it clear itself, and a token takes two ticks, so
fractions matter. Of its dialogues one of the two protocols needs a certificate and one
does not, one of the two ports may be the subscription's, and three edits take a
protocol away, bring it back and look at what it got; the other protocols differ in
fields that are carried unchanged. Months of `administration` are three to five days
of four hours, so that an anchor at any hour of the last days falls outside some month;
clocks skip and repeat an hour inside a month, at its end and half an hour, over its
beginning excepted (see below). In `client_library` two fragments contradict each other
in a list of rules and one reaches for what the client reserves; two names share a
cache path, which is the only way in which profiles meet. Three downloads let a second
client use what the first recorded, and a third what the second overwrote. In
`interface` a sitting has as many keys as arm, distract and confirm.

### Fairness

- `config_atomic`: weak fairness of every command that is past its prompts: it is
  scheduled and its calls return. Waiting for the administrator is not fair. `flock`
  waiters are served because every holder releases.
- `accounting_meter`: the timer starts the reset again and again
  (`OnCalendar=minutely`, `Persistent=true` in `lifecycle.rs`), a correction that has
  the lock ends, and a reset that gets the lock infinitely often also writes
  infinitely often.
- `published`: none. `FairSpec` of `SubscriptionService` (section 5) has accept loops that run,
  timers of connections that fire and a systemd that restarts the service
  (`Restart=on-failure`); peers and the clock promise nothing.
- `update`: clients keep connecting and the listener finishes a connection; nothing is
  assumed of updates, hooks or other commands.
- `administration`: the menu's process reads what there is to read and the release
  command it has called ends. Nothing is assumed of the person at the terminal.
- `client_engine`: operations end, since every wait in them has a timeout, and the
  interval ticks: `select!` picks among its ready branches at random, so commands
  cannot starve it. The user's commands are not fair.
- `interface`: the same, and each stage of a poll becomes due again and again and is
  then taken (strong fairness, as commands drop polls under way); the interface
  refreshes its copy on a timer. The user promises nothing.

`CHECK_DEADLOCK FALSE` stands where nothing may rightly be left to do once the bounds
are used up: a host on which no command runs, a client with no core, a user who has
left.

## 4. Proofs

All theorems hold for every value of the constants that satisfies the named
assumptions.

**ConfigTransactionsProofs**: `TypeCorrect`, `CriticalSectionsExclude`
(`MutualExclusion`) and `CommitsAreComplete` (`CommittedBundle`). The invariant `IInv`
is type correctness, mutual exclusion, the kind of command each program counter
belongs to (`OpInv`) and `DiskInv`: what the holder of the lock has written so far is
on disk, and what it has skipped was there when it took the lock. `CommittedBundle` is
not inductive: at `"write"` the files written so far must be remembered. A step of
another process leaves `DiskInv` alone because, by mutual exclusion, it does not write.
Assumption: `ConstantsAssumption`.

Three more follow the failure path and the order of publications. `FailurePutsBack`
(`FailedTransactionRestores`) under `WritesAreClean`: no injected failure leaves a write
half done (`"owner"`) or breaks the undo itself (`"undo"`); section 5 shows that the code
does not restore in those cases. Its invariant `RestoreInv` says of the holder of the lock
that up to the commit nothing differs from its snapshot but what it has written: the
artifacts it generated, and the active configuration only past its own stage.
`RevokedStaysRevoked` (`RevokedNeverServed`) under `SinglePublisher`: beside one
administrator only `regenerate` runs, since two publishers do revive a credential
(section 5). `WizardsAreAtomic` (`AtomicCommit`) under `WizardsOnly`: transactions of the
wizard on an installed deployment, of which none is killed and whose restorations
do not fail, implement the abstract deployment step by step.

**AccountingProofs**: `AccountingTypes`; `NoByteCountedTwice` (`NeverOvercounted`),
`NoByteLost` (`NothingLost`) and `TotalsFollowCorrections` (`TotalFollowsCorrection`), for any
processes and operations. Nothing is claimed of a state a reset has accumulated into after
another writer had set the baseline between its two halves, which is where the code counts
twice (`late`, section 5); with the next correction of directions, period or interface the claim is back.
`TimerAndTotalsAreSafe` shows that under `SingleMeter` (only the timer resets and nobody sets
directions) no reset is overtaken, so that the three hold without the exception
(`CorrectionsSerialized`). `MeterInv` says of the state on disk and of every
state a process has read or planned that what it accumulated was carried before its
baseline, and that its counter has moved at most as far as the interface carried since
(and exactly so far where no break of the counter was missed); so a stale reader never
plans more than was carried. `NeverOvercounted` alone says nothing of planned states.

Of the calendar, `ResetsAreAnnounced` (`ResetWhenAnnounced`): while the months are in
order (`MonthsInOrder`: the local calendar never goes back a month, and each period
begins in its month) the periods of successive months follow one another without gap or
overlap (`PeriodsAscend`, `PeriodFound`, `PeriodUnique`), whatever the clock is put
forward or back by inside a month. An `ASSUME` of `MCAdministration` has TLC evaluate that
the run's timezones, gaps and repetitions included, are such. `FixedOffsetsAreAnnounced`
needs no such condition: for months of any lengths and any anchor, a timezone that keeps
its offset, such as UTC, has its months in order. That needs the sums of month lengths, by
induction over numbers. The default, `America/Los_Angeles`, changes its clock in the
second week of March and the first of November, so the first theorem is about it.

**ClientEngineProofs**: `EngineTypes`, `StopWins` (`StoppedStaysStopped`), `OneLiveCore`,
`RestartsLimited`. `IInv` adds to the types what `running`, `child`, `pending` and
`proxyOn` say of each other (`Coherent`) and how they relate to the user's last request
(`Requested`). `ProxyPointsAtCore` and `UserProxyRestored` hold under
`OneCarefulClient` (one client; `StorageFails`, `StaleBackups`, `LateSteps` FALSE), from
`ProxyInv`: a backup that exists is the user's setting, and a proxy at a port is owned
by the engine or the system refused to take it away.

**UpdateTransactionProofs**: `Types`, `Coherence` (`CacheCoherent`), `NoDataLost`
(`DataNeverGoesBack`), `PointComplete`, `UpdateRuns` (`SucceededUpdateRuns`), and
`FailureRestores` (`FailedUpdateRestores`) assuming `~ CoreReadsPair`. `PairInv`: no stamp
is from the future and the stamp is read before the content, so a stamp that still
stands vouches for what was read. `IInv` adds what each step of the lock holder has
established (`Shape`, `DataKept`, `Filled`, `BinariesAt`, `ServicesAt`, `RunAgain`);
`Clean` guards what is only true of undisturbed rollbacks. Assumptions:
`CertificateAssumption`, `NoneAssumption`, `UpdateAssumption`.

**SubscriptionServiceProofs**: `BudgetIsKept` (`BudgetKept`) about the table alone, with
any requests at any times (`BudgetSpec`). `BudgetIInv` relates what a bucket is worth
now, in ticks and with the fraction it has gathered (`Credit`), to the two ideal buckets:
never above the generous one, never below the strict one (`CreditBetween`), and an
address without a bucket has its burst in the generous one (`UntrackedHasBurst`). Then
about the whole service: `ServiceTypesCorrect`; `ServiceKeepsBudget`, as every step of the
service is a step of the table or leaves it; `NothingIsGivenAway`
(`AnswersGiveNothingAway`); and `ListenersAreIndependent` (`DropsOnlyWhenFull`), from
`PermitsHeld`: on each listener the free permits and the connections that are served make
up its limit, also across time-outs and handshakes that fail.

The same module proves what the service is given to serve. `DeploymentInvariant`: after
any committed dialogues the configuration is valid and exactly its enabled protocols have
a node, each with a secret drawn for that protocol (`NodesOK`). It carries `EditsAreKept`
(`EditsKeep`), whose core is that `merge_protocol_order` keeps the order of what stays
enabled (`OrderIsMerged`), and `EveryNodeReachable` (`NodesReachable`): ports differ
because `validate` says so, and no group or legacy outbound is taken for a node. Both rest
on what filtering a list does (`ThoseAre`, `ThoseOfBoth`, `ThoseTwice`), by induction over
lists. `ListInduction` is proved from the well-foundedness of finite sets, with sets in
the place of predicates. Assumption: `DeploymentAssumption`, which offers only protocols
there are and keeps `None` apart from ports and nodes.

**HostFilesProofs**: `CommandTypesCorrect`, and theorems about both halves of `HostFiles`.
- `DeploymentsAreKept` (`NothingLost`) under `OneInstaller`, because two fresh
  installations lose files (section 5). A deployment is whole on the host or whole in
  archives (`WholeInv`), which `NothingLost` file by file does not say; beside it `LossInv`
  says of an installation what it may already have removed (everything precious is in
  an archive) and what its rollback may remove (nothing that predates it).
- `SwitchedUnitsFit` (`UnitsFitMode`) and `FailedInstallationRestores`
  (`FailedInstallRestores`) are about commands that run undisturbed; `AloneInv` says that
  all others are then idle. `SwitchInv` relates the mode on disk to the one before the
  change, by the attempt that is under way, and says what the reconciliation has
  established when the restart begins. `InstallInv` divides an installation by its
  `Stage`: the host is untouched; it is put away and partly stopped or removed (`PutAway`,
  `Within`); nothing is left (`Cleared`); it has changed; it is cleared again and on its
  way back. Recoverable throughout is the archive, which holds exactly what was there,
  or there was nothing. `NoneAssumption` says that `None` is no archive.
- `ServicesAloneRead` (`OnlyServicesRead`) for any hosts and names, changes, publications and
  failures. Its invariant `StorageInv` says of the files that only paths of the deployment
  exist, that no secret is open to others and that what is kept under a name is open to
  its group (`FilesSound`); of a command what has been written and made before each of its
  steps (`CommandInv`, `InstalledInv`); and of a preparation what the steps taken so far have
  done (`Prepared`), which must outlive the writes of the daemon and publications
  that begin or end in between, but for the host that is being published (`PreparedInv`).
  That a path's parents are what they seem is proved from the sequences the paths are.
  `StorageAssumption` says that a host may be the name of a certificate.

**ClientProofs**, about the parts of the client other than the life of the core.
- `LibraryKeeps` (`NothingIsLost`: `LinksKept` of the saved subscriptions and
  `KeepsLastGood` of the cached documents) and `CoresRunOwnFiles` (`OwnFiles`), for any
  profiles, addresses, answers, override texts and failing steps, writes of the list that
  fail midway included: then the store may have lost some subscriptions (`torn`), and the
  claim is about the client that runs. Files carry a name only, and a name is given to one profile after another, so none of
  the three is inductive. `LibraryInv` says whose every file is: of the profile of the
  list with that name, or `leftBehind` (`FilesOwned`, `LegacyOwned`). It says so twice,
  because the engine's list and the saved one come apart when a save fails: of the store,
  which the next start reads, and of the memory, whose profiles are all in the store or
  have left their files (`Recorded`). A memory that comes from an unreadable store claims
  less (`MemoryInv`); it never writes. An operation under way belongs to a profile of the
  list (`JobOwned`). `FirstAssumption` says that the profiles at the outset have names and
  numbers of their own, `LegacyAssumption` that a file of the older version is somebody's.
- `OneArchivePerRelease` (`FirstArchiveOnly`, part of `DownloadsAreSafe`), assuming that
  there are releases and that archives list their entries (`GoodArchives`). `DownloadInv`
  says that a record (`RecordIsFirst`), a rewrite of the ledger under way (`WritesKnown`)
  and an extraction under way (`ExtractsFirst`) all name the first archive of their
  release, unless the record was lost. It holds for any number of clients that overwrite
  each other's ledger.
- `DesktopKeepsUserSetting` (`UserSettingKept`) for any of the platforms and any settings
  the user starts from. Between two writes of a call the setting is neither the user's nor
  the client's, so `ProxyInv` says of the call under way which keys it still has to
  write and that all others hold their values of the backup (`Restoring`), and that
  the user's setting is in force or in the backup wherever it was captured (`Captured`).
- `InterfaceInvariant`: `InterfaceInv`, from which follow `ShowsRunningCore`
  (`ShowsOwnRun`), `LogIsShownOnce` (`LogShownOnce`), `LinksGoHome` (`LinkGoesToItsProfile`)
  and, as a property of steps, `IrrevocableIsAsked` (`AskedThenDone`). `LoopInv` is the
  engine's half: a core that is shown is the one that was started last and a poll under
  way asks that one (`RunsOne`), what was read of the log is what is shown
  (`ReadIsShown`), commands in the queue that carry a link carry their own profile's
  (`GoodQueue`). `ViewInv` is the user's: the editor holds a link of the profile it
  was opened for (`GoodEditor`), and what is armed has been asked about (`ArmsAsked`).
  Assumption: `LoopAssumption`.

**AdministrationProofs**: `OnlyVerifiedIsInstalled` (`InstalledAsVerified`), assuming that
an empty file is no manifest anybody signed. `ReleaseInv` follows what a command knows:
past its first step it has a trusted manifest (`Trusts`), an official candidate is one that the
release's digest, where there is one, and the check of its output let pass
(`AcceptedKernel`), and from `"check"` on the buffer is what was verified
(`HasRead`), so changes of the files cannot matter any more. `MenuInstallsVerified` says
the same of the administration as a whole, where sessions of the menu start the release
commands. `PublicationsAreServed` (`PublishedIsServed`) assumes `~ Overlap`: one
publication at a time, which nothing in the code ensures between Certbot's hook and a
command (section 5). `CertificateInv` says that what is being pinned was validated for
the host it is pinned for, certificate before key (`Pins`), that the host is still the one
of the task (`Addressed`), and that nobody else is between the two (`OnePublication`).

Only model-checked:
- liveness (`CommandsEnd`, `StateBecomesCurrent`, `ComesToRest`, `PinnedIsServed`,
  `SeenSettles`, `HangUpEndsSession`), which like ENABLED is out of
  the prover's reach;
- what a document says as a whole: `NothingDangles` and `RoutesAgree` of `Deployment`. The
  second depends on nothing but the client preferences, all of which its run reaches;
- what rests on recursive operators: `RunsTheMerge` of `ConfigOverride` and its
  `CacheOffersNodes`, the other part of `DownloadsAreSafe`. Merging descends into trees, and
  the prover has no solver for modules that declare recursive operators.

Stated and not run, because another property of a run says more or a theorem says it
for all values: `TypeOK` of each module, `MutualExclusion`, `CoherentGeneration`, `OneCore`,
`RestartsBounded`, `SucceededUpdateRuns`, `CacheCoherent`, `HistoryBounded`,
`DataNeverGoesBack`, `OneLockHolder`, `EveryCommandEnds`, `MarkerIsLast`,
`LogShownOnce`. They can be added to the cfg of their module.

## 5. Where code and promise part

Runs that expect a violation exist for two of these (`exit_race`, `reset_race`). Most others are
stated as properties too; such a one fails in a small instance given here (the constants
named replace those of the cfg named) or is kept out of a run by a bound or an
exception that its comment names.

### Configuration

- *A rotation can be undone.* The wizard publishes the whole record it loaded before
  its questions, so a credential rotated meanwhile authorises again
  (`cli/commands/config.rs:388`), although the administrator was told that "all previous
  subscription URLs are now invalid" (`cli/commands/system.rs:79`). `config_safety` with
  `OpsOf <- RotateWizardOps`, no faults: `RevokedNeverServed` fails.
- *Not every failure restores.* `prepare_daemon_storage` returns its error before the
  rollback is armed (`cli/commands/config.rs:495`), against "Any failure restores the
  previous known-good deployment" (`:430`). `config_atomic` with `FaultKinds = {"storage"}`:
  `AnyFailureRestores` fails. It also fails with `{"owner"}` (`config.toml` keeps its new
  content when its ownership cannot be set), with `{"write"}` and
  `LegacyCapable = {n2}` (an artifact that did not exist before stays), and with
  `{"restart"}` and `LegacyCapable = {n1}` (a pruned one is not brought back).
- `regenerate` publishes what it generated before it waited for the lock, so the
  published nodes may be those of an earlier configuration; the rollback of a failed
  restart may put back a snapshot that predates another command's commit.
- Owners and modes: a failed switch away from Direct restores the files but not the
  storage preparation, so the pinned key stays with sing-box and the daemon cannot read
  it (`ServicesRead` of `ServiceStorage` fails; `OnlyServicesRead` excepts it); a failed `groupadd` or
  `usermod` leaves the group missing or incomplete; a publication killed between rename and `chgrp` leaves a copy sing-box
  cannot read; `chown -R` also gives away the rollback points that should stay with root
  (`config.rs:1452`).
- Wizard: labels say an empty answer clears a value (`wizard.rs:91`, `:216`, `:359`) but
  `ask_value` keeps it; `[Y/n]` questions of a quick installation take the end of the input
  for a yes (`confirm_protocol`), unlike all others; the SNI of a protocol is kept in
  domain mode where it is of no use; credentials of a disabled protocol in `config.toml`
  make every topic but the protocols' fail.
- *The minimal rule profile decides otherwise*, against "keeps making the
  same routing *decisions*" (`template.rs:16`). A downloaded list may have more than its
  compiled-in twin: `category-ads-all` has qq.com and baidu.com (`template.rs:659`), which
  are in `CN_DOMAIN_SUFFIXES` (`:738`), so under `split` and `global` a client of the standard
  profile rejects them and one of the minimal profile routes them, and so does the legacy
  line of clash, which never downloads (`:448`). `published` with `MinimalDecidesAlike` fails; `RoutesAgree` therefore compares the clients that
  download among themselves, those that do not among themselves, and both on names of which the
  downloads say no more.

### Accounting

- *A reset beside a direction correction counts twice* (`reset_race`): the reset reads the
  counters before it takes the lock (`traffic.rs:344`), takes the newer baseline of a
  correction for a counter that went back, stores the older one, and the next delta counts
  the bytes between again; a comment says that the two "are serialized" and "later counter
  deltas accumulate on top" (`traffic.rs:431`). `CorrectionsSerialized` fails, and
  `NeverOvercounted`, `NothingLost` and `TotalFollowsCorrection` except the states it leaves.
- *A period may end at another instant than announced* where the clock is put back across
  the beginning of a month, skips from before to after midnight of the first, or skips
  an anchored time at the end of a month's last day (`ResetWhenAnnounced`, with a timezone
  that does).

### Daemon and certificates

- *A TLS handshake has no time limit*: a peer that connects and stays
  silent keeps its task and its permit for ever, since only the answer is awaited with a
  timeout (`subscription/serve.rs:415`), against "Bounds applied to every HTTP connection so
  [...] an idle client [...] cannot exhaust the process" (`subscription/serve.rs:108`). `SubscriptionService` under
  `FairSpec` with one address, one slot and `MaxStops = 0`: `EveryConnectionEnds` fails.
- *A renewal can be lost.* The rollback of a failed update writes back the pair it read at
  the start over the one the hook has pinned since (`update.rs:700`), against "a successful
  renewal takes effect on the next handshake" (`certificate.rs:344`). `update` with
  `PinFails = FALSE`, `MaxFaults = 0`, `MaxOthers = 0`: `RenewalTakesEffect` fails.
- *Two publications at once* may pin the certificate of one and the key of the other:
  `administration` with `Overlap = TRUE`, `PublishedIsServed` fails.
- `ensure_self_signed_certificate` takes a `key.pem` that a crash cut short for a key.
  "A failure makes Certbot keep the previous certificate" at the deploy hook is not how
  Certbot works: it has replaced it by then.

### Releases, updates, lifecycle

- *Rollback of an update on a host whose nodes use the pinned pair*: the pair is given to
  the daemon's account alone, so sing-box does not start (`update.rs:700`, `config.rs:1634`).
  `update` with `CoreReadsPair = TRUE`, no faults, publications or others:
  `FailedUpdateRestores` fails. Also: when the ownership of `sbctl` cannot be set after its
  rename `update` returns without the rollback it does for `sing-box`; when the second
  binary cannot be written the services another command restarted meanwhile run a
  binary that is not there any more.
- `sing-box install` copies the file again after it was verified; two downloads to one
  output share the temporary file; a version tagged with two numbers cannot be downloaded, since the digest
  and the directory in the archive are looked up as written and the URL is not.
- *An official kernel may be of another version.* It must run and print the wanted version
  somewhere (`update.rs:416`), so 1.13.10 passes for 1.13.1, although it is said to be
  confirmed that it "identifies itself as" that version (`:401`). Where GitHub publishes no
  digest of the archive nothing else ties it to the release, and `InstalledAsVerified` promises
  no more than the code checks; the run has such a release and such a kernel.
- *A restored deployment does not run*: the archive of a replacement holds no
  `usr/local/bin/sbctl` (`RestoredDeploymentRuns` fails in `lifecycle`).
- A purge unlinks the lock file another command holds, so `OneLockHolder` is stated up to
  the first purge; with `Installers = {c1, c2}` two fresh installations pass the same
  preflight and the one that fails removes the other's files (`NothingLost`).

### Client

- *The proxy stays on after an exit* (`exit_race`): the key that turns it on is still queued
  when the interface looks for the last time, or a signal is taken for the
  confirmation.
- *A failed switch of the mode is not undone.* The start after it runs in the background,
  so `set_traffic_mode` never sees its failure (`controller.rs:613` against `:599`).
  `client_engine` with `Ports = {p1}`, `ProxyFails = FALSE`, `Bound <- Session`:
  `FailedSwitchRestores` fails.
- `UserProxyKept` fails with two clients (the second backs up the first one's port), with
  `StaleBackups` (a backup outlives the user's next choice) and with `LateSteps` (a second
  restore without a backup clears the user's setting); `ProxyServed` fails with
  `StorageFails` (a changed port is used before it is saved). A restart armed when the
  user asks for one is not disarmed (hence the `+ 1` in `RestartsBounded`).
- Desktop: a desktop that could not be read when it was captured, and a backup torn while
  it was written, are accepted, restore nothing and report success; automatic proxy
  configuration on Linux and the empty server and exceptions of Windows are not given
  back (`system_proxy.rs:31`). `UserSettingKept` is about captured settings. Whether one call
  of `networksetup` takes both options is outside the code; both variants run.
- Library: in tunnel mode an override's inbounds reach the core (`InboundsReserved` fails,
  against `RESERVED_POINTERS`); a scalar over the parent of a reserved key is not
  reported; caches of the older version survive a removal and go to the next profile of
  the path; a removal that failed cannot be tried again; `import_profile_file` overwrites a
  cache when the store cannot be read; a changed link keeps the old cache; and `active-config.json` is written before it is
  checked.
- *The list of subscriptions is not written atomically* (`settings.rs:131`): a full disk or a
  kill in the middle of a write leaves an empty or shorter `profiles.toml`, which reads as a
  valid list, and the next start goes on with it (an unreadable one is at least not
  overwritten). `LinksKept` claims the store only up to such a write, and the running client
  after it; `OwnFiles` counts the files of a profile that is lost in this way as left behind.
- *JSON is passed on as it came* (`subscription.rs:258`): a profile, or a bare list that is
  wrapped, with two outbounds of one tag, and a link named like the selector, give a
  document the core may refuse. `CacheOffersNodes` promises names of their own to what is
  made of links, and of the rest that it is the server's or that a selector offers every tag.
- Download: a ledger that is torn or unreadable forgets every record, so "every later
  download of the same tag must reproduce the recorded hash" (`core.rs:460`) holds while the
  record does (`forgotten`); another client's rewrite can lose one. Extraction writes
  straight over the installed core.
- Interface: the terminal's questions for the override and the mode are flags, not names,
  so `ClearedAsAsked` fails for its `O` (the terminal's sitting on profiles and overrides with
  nine keys instead of five, so that both profiles have an override); the desktop's restart confirmation survives the
  sidebar, other navigation clears no question (against `chrome.rs:249`); an unfocused edit
  is overwritten by the refresh; of the five patches of a save one may be refused and
  the message replaced by the next; a mode chosen while stopped is lost at the start; a
  log line longer than a read stalls the tail; the last lines of a failed start may be
  missing.

## 6. Not modelled, and what could follow

- *Texts*: argument parsing, formatting of reports and pages, JSON and TOML syntax, URL
  escapes, QR codes, headers, log lines. Documents are modelled by what refers to
  what; the repository's snapshot tests compare their texts.
- *Fields that are carried unchanged* from a node to a document, names in Chinese, private
  names under fake-ip, the manual override documents of the server.
- *Cryptography*: digests and signatures are what they were made from, keys are names.
- *Drawing*: layouts, filters, help pages, delays of nodes, rates, event history.
- *External programs*: Certbot, curl, systemd, networksetup and the core are modelled by
  how the code calls them and what it looks at; systemd's own restarts only for the
  daemon, and `--no-start` installations not at all.
- In `UpdateTransaction`: deployments other than Direct, a renewal with the modification
  time of the one before it, two publications at a time.

Components are therefore `partly` modelled but for the JSON merge. What could follow: an
abstract specification of an update that `UpdateTransaction` refines, and a merge of
documents written as a function on their paths, on which a proof of `RunsTheMerge` could
stand.
