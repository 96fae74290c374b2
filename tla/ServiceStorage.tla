---------------------------- MODULE ServiceStorage ----------------------------
(***************************************************************************)
(* Who may read the files of a deployment: the accounts of the two services *)
(* and the group they share, what creates a file or gives it to them, and   *)
(* the preparation of the storage that installation, configuration changes  *)
(* and regeneration end with (src/src/lifecycle.rs, config.rs,              *)
(* certificate.rs).  What the files say is the subject of                   *)
(* ConfigTransactions, their fate in a failing installation of Lifecycle.   *)
(***************************************************************************)
EXTENDS Naturals, Sequences

CONSTANTS
  StorageHosts,   \* subscription hosts
  ServerNames,    \* names the protocols present, the hosts among them
  Absent

VARIABLES
  access,     \* owner, group and further readers of the paths that exist
  accounts,   \* the service accounts, the certificate group and its members
  settled,    \* config.toml
  command,    \* what the administrator runs: its step, what it commits and replaces
  hook,       \* a publication of the certificate: its step and host
  readied,    \* ghost: the mode of the last preparation that went through
  allowance   \* bounds: configuration changes, publications and failures to come

storageVars == <<access, accounts, settled, command, hook, readied, allowance>>

Services == {"sbctl", "sing-box"}
CertificateGroup == "sbctl-cert"

Settings ==
  [direct : BOOLEAN, certificate : {"self-signed", "domain"}, host : StorageHosts,
   name : ServerNames]

\* A host presents certificates under its own name.
ASSUME StorageAssumption == StorageHosts \subseteq ServerNames /\ Absent \notin Settings

-------------------------------------------------------------------------------
(* Paths *)

Etc          == <<"etc", "sbctl">>
Core         == <<"etc", "sing-box">>
VarLib       == <<"var", "lib">>
Data         == Append(VarLib, "sbctl")
ConfigFile   == Append(Etc, "config.toml")
ActiveConfig == Append(Core, "config.json")
LockFile     == Append(Data, ".operation.lock")
StateFile    == Append(Data, "state.json")
Artifacts    == Append(Data, "artifacts")
Artifact     == Append(Artifacts, "uri")
Certificates == Append(Data, "certificates")

CertificateDirectory(name) == Append(Certificates, name)
Pinned(host)     == Append(CertificateDirectory(host), "privkey.pem")
SelfSigned(name) == Append(CertificateDirectory(name), "key.pem")

\* The directories a path lies in, but for /etc and /var.
Parents(path) == {SubSeq(path, 1, n) : n \in 2..(Len(path) - 1)}
Directory(path) == SubSeq(path, 1, Len(path) - 1)
Under(a, path) == {p \in DOMAIN a : path \in Parents(p) \cup {p}}
FilesUnder(a, path) == {p \in Under(a, path) : \A q \in DOMAIN a : p \notin Parents(q)}

-------------------------------------------------------------------------------
(* Permissions: beside its owner a path is open to its group, or to everyone. *)

Rights(user, group, to) == [user |-> user, group |-> group, to |-> to]
Private   == {}
ToGroup   == {"group"}
ToEveryone == {"group", "others"}

\* The first class an account belongs to decides.
Admits(rights, account, groups) ==
  IF rights.user = account THEN TRUE
  ELSE IF rights.group \in groups THEN "group" \in rights.to
  ELSE "others" \in rights.to

GroupsOf(account) ==
  {account} \cup (IF account \in accounts.certificate THEN {CertificateGroup} ELSE {})

CanRead(account, path) ==
  \A p \in Parents(path) \cup {path} :
    p \in DOMAIN access => Admits(access[p], account, GroupsOf(account))

Chown(a, paths, user, group) ==
  [p \in DOMAIN a |-> IF p \in paths THEN Rights(user, group, a[p].to) ELSE a[p]]
Chgrp(a, paths, group) ==
  [p \in DOMAIN a |-> IF p \in paths THEN [a[p] EXCEPT !.group = group] ELSE a[p]]
Chmod(a, paths, to) ==
  [p \in DOMAIN a |-> IF p \in paths THEN [a[p] EXCEPT !.to = to] ELSE a[p]]

Create(a, path, to) ==
  [p \in DOMAIN a \cup {path} |-> IF p = path THEN Rights("root", "root", to) ELSE a[p]]

\* create_dir_all: what is missing is open to everyone.
CreateDirectories(a, path) ==
  [p \in DOMAIN a \cup Parents(path) \cup {path} |->
     IF p \in DOMAIN a THEN a[p] ELSE Rights("root", "root", ToEveryone)]

\* create_private_directory: one that is there keeps its mode.
PrivateDirectory(a, path) ==
  IF path \in DOMAIN a THEN a ELSE Chmod(CreateDirectories(a, path), {path}, Private)

\* atomic_write by root: a private file beside the old one, renamed over it.
AtomicWrite(a, path) == Create(PrivateDirectory(a, Directory(path)), path, Private)

\* Mutant: the core's configuration is one more file of the daemon.
LiveOwnerOfState(path) == Rights("sbctl", "sbctl", Private)

\* Whom enforce_live_file_owner gives a file to.
LiveOwner(path) ==
  IF path = ActiveConfig THEN Rights("sing-box", "sing-box", ToGroup)
  ELSE Rights("sbctl", "sbctl", Private)

\* An account that does not exist yet cannot be given anything.
EnforceLiveFileOwner(a, path) ==
  IF LiveOwner(path).user \in accounts.users
  THEN [a EXCEPT ![path] = LiveOwner(path)] ELSE a

ManagedWrite(a, path) == EnforceLiveFileOwner(AtomicWrite(a, path), path)

\* Opening the operation lock creates it.
LockOpened(a) ==
  IF LockFile \in DOMAIN a THEN a ELSE Create(PrivateDirectory(a, Data), LockFile, Private)

-------------------------------------------------------------------------------
(* Certificates *)

\* ensure_self_signed_certificate: the pair there is is used again.
SelfSignedEnsured(a, config) ==
  LET path == SelfSigned(config.name)
      made == CreateDirectories(a, Directory(path)) IN
  IF config.certificate # "self-signed" \/ path \in DOMAIN a THEN a
  ELSE Create(Chmod(made, {Directory(path)}, ToGroup), path, ToGroup)

\* pin: the copies are replaced, the directory restricted, and all of it handed to
\* the certificate group, if there is one.
PinWritten(a, host) ==
  Create(CreateDirectories(a, CertificateDirectory(host)), Pinned(host), ToGroup)
PinRestricted(a, host) == Chmod(a, {CertificateDirectory(host)}, ToGroup)
PinHandedOver(a, host) ==
  IF accounts.group THEN Chgrp(a, Under(a, CertificateDirectory(host)), CertificateGroup) ELSE a

-------------------------------------------------------------------------------
(* The preparation of the storage *)

\* The services' own directories; the core's configuration is root's to change.
PreparedForServices(a, step) ==
  CASE step = 1 -> Chown(a, Under(a, Etc) \cup Under(a, Data), "sbctl", "sbctl")
    [] step = 2 -> Chown(a, {Core}, "root", "sing-box")
    [] step = 3 -> Chmod(a, {Core}, ToGroup)
    [] step = 4 -> Chown(a, {ActiveConfig}, "sing-box", "sing-box")
    [] step = 5 -> Chmod(a, {ActiveConfig}, ToGroup)

\* grant_certificate_storage
GrantedToBoth(a, step) ==
  CASE step = 1 -> Chgrp(a, {Data}, CertificateGroup)
    [] step = 2 -> Chmod(a, {Data}, ToGroup)
    [] step = 3 -> Chgrp(a, Under(a, Certificates), CertificateGroup)

\* grant_self_signed_certificate_access
GrantedToCore(a, step) ==
  LET files == FilesUnder(a, Certificates) IN
  CASE step = 1 -> Chmod(a, {Data}, ToEveryone)
    [] step = 2 -> Chown(a, Under(a, Certificates), "root", "sing-box")
    [] step = 3 -> Chmod(a, Under(a, Certificates) \ files, ToEveryone)
    [] step = 4 -> Chmod(a, files, ToGroup)

LastStep(direct) == IF direct THEN 8 ELSE 9

PrepareDaemonStorage(a, direct, step) ==
  IF step <= 5 THEN PreparedForServices(a, step)
  ELSE IF direct THEN GrantedToBoth(a, step - 5) ELSE GrantedToCore(a, step - 5)

\* ensure_daemon_accounts, then, for Direct mode, ensure_certificate_group: groupadd and
\* usermod where they are needed, one after the other.
DaemonAccounts == [accounts EXCEPT !.users = Services]
CertificateGroupWith(members) ==
  [accounts EXCEPT !.users = Services, !.group = TRUE, !.certificate = @ \cup members]
AccountsEnsured(direct) == IF direct THEN CertificateGroupWith(Services) ELSE DaemonAccounts

\* chgrp knows the group.
Grantable(direct, step) == direct /\ step \in {6, 8} => accounts.group

-------------------------------------------------------------------------------
(* Commands *)

Idle == [step |-> "none", at |-> 0, from |-> Absent, to |-> Absent]

\* A new host, and hosts sbctl has been installed on before, without and with Direct mode.
NoAccounts == [users |-> {}, group |-> FALSE, certificate |-> {}]
EarlierAccounts ==
  {NoAccounts, [users |-> Services, group |-> FALSE, certificate |-> {}],
   [users |-> Services, group |-> TRUE, certificate |-> Services]}

StorageInit(existing, changes, publications, failures) ==
  /\ access = <<>>
  /\ accounts \in existing
  /\ settled = Absent
  /\ command = Idle
  /\ hook = [step |-> "none", host |-> Absent]
  /\ readied = "none"
  /\ allowance = [changes |-> changes, publications |-> publications, failures |-> failures]

Spend(what) ==
  /\ allowance[what] > 0
  /\ allowance' = [allowance EXCEPT ![what] = @ - 1]

Mode(config) == IF config.direct THEN "direct" ELSE "external"

Installed == settled # Absent /\ ActiveConfig \in DOMAIN access

\* The first documents, artifacts and configuration, before there are accounts.
InstallFiles(config) ==
  /\ command = Idle /\ settled = Absent
  /\ Spend("changes")
  /\ LET generated == LockOpened(SelfSignedEnsured(access, config)) IN
     access' = ManagedWrite(ManagedWrite(generated, Artifact), ConfigFile)
  /\ settled' = config
  /\ command' = [step |-> "accounts", at |-> 0, from |-> Absent, to |-> config]
  /\ UNCHANGED <<accounts, hook, readied>>

\* The transaction of a change, and a regeneration, which changes nothing.
ApplyConfig(config) ==
  /\ command = Idle /\ Installed
  /\ Spend("changes")
  /\ LET generated == SelfSignedEnsured(access, config) IN
     access' = ManagedWrite(ManagedWrite(ManagedWrite(generated, Artifact), ActiveConfig), ConfigFile)
  /\ settled' = config
  /\ readied' = IF config = settled THEN readied ELSE "none"
  /\ command' = [step |-> IF config = settled THEN "storage" ELSE "accounts", at |-> 1,
                 from |-> settled, to |-> config]
  /\ UNCHANGED <<accounts, hook>>

\* In an installation the certificate that is there is pinned, and the state, the
\* units and the core's configuration follow.
Accounts ==
  /\ command.step = "accounts"
  /\ accounts' = AccountsEnsured(command.to.direct)
  /\ command' = [command EXCEPT !.step = IF command.from = Absent THEN "units" ELSE "storage", !.at = 1]
  /\ UNCHANGED <<access, settled, hook, readied, allowance>>

InstallPinned ==
  /\ command.step = "units"
  /\ \E issued \in {command.to.direct, FALSE} :
       LET host   == command.to.host
           pinned == IF issued THEN PinHandedOver(PinRestricted(PinWritten(access, host), host), host)
                     ELSE access IN
       access' = ManagedWrite(ManagedWrite(pinned, StateFile), ActiveConfig)
  /\ command' = [command EXCEPT !.step = "storage", !.at = 1]
  /\ UNCHANGED <<accounts, settled, hook, readied, allowance>>

Storage ==
  /\ command.step = "storage"
  /\ Grantable(command.to.direct, command.at)
  /\ LET direct == command.to.direct IN
     /\ access' = PrepareDaemonStorage(access, direct, command.at)
     /\ IF command.at < LastStep(direct)
        THEN command' = [command EXCEPT !.at = @ + 1] /\ readied' = "none"
        ELSE /\ readied' = Mode(command.to)
             /\ command' = IF command.from \in {Absent, command.to} THEN Idle
                           ELSE [command EXCEPT !.step = "restart"]
  /\ UNCHANGED <<accounts, settled, hook, allowance>>

\* The command ends, and nothing is put back.
StorageFails ==
  /\ command.from # Absent
  /\ \/ /\ command.step = "accounts" /\ Spend("failures")
        /\ accounts' \in {accounts, DaemonAccounts} \cup
             (IF command.to.direct THEN {CertificateGroupWith(some) : some \in {{}, {"sbctl"}}} ELSE {})
     \/ /\ command.step = "storage"
        /\ IF Grantable(command.to.direct, command.at) THEN Spend("failures") ELSE UNCHANGED allowance
        /\ UNCHANGED accounts
  /\ command' = Idle
  /\ readied' = "none"
  /\ UNCHANGED <<access, settled, hook>>

RestartServices ==
  /\ command.step = "restart"
  /\ command' = Idle
  /\ UNCHANGED <<access, accounts, settled, hook, readied, allowance>>

\* The files are put back; the storage is not prepared for them again.
RestartServicesFails ==
  /\ command.step = "restart"
  /\ Spend("failures")
  /\ access' = ManagedWrite(ManagedWrite(ManagedWrite(access, Artifact), ActiveConfig), ConfigFile)
  /\ settled' = command.from
  /\ command' = Idle
  /\ UNCHANGED <<accounts, hook, readied>>

\* Another command, or the daemon, replaces the accounting state.
WriteState ==
  /\ Installed /\ StateFile \in DOMAIN access
  /\ access' = ManagedWrite(access, StateFile)
  /\ UNCHANGED <<accounts, settled, command, hook, readied, allowance>>

\* Certbot's deploy hook, or the administrator's obtain and verify.
Publish ==
  \/ /\ hook.step = "none" /\ Installed /\ settled.direct
     /\ Spend("publications")
     /\ hook' = [step |-> "write", host |-> settled.host]
     /\ UNCHANGED access
  \/ /\ hook.step = "write"
     /\ access' = PinWritten(access, hook.host)
     /\ hook' = [hook EXCEPT !.step = "restrict"] /\ UNCHANGED allowance
  \/ /\ hook.step = "restrict"
     /\ access' = PinRestricted(access, hook.host)
     /\ hook' = [hook EXCEPT !.step = "hand over"] /\ UNCHANGED allowance
  \/ /\ hook.step = "hand over"
     /\ access' = PinHandedOver(access, hook.host)
     /\ hook' = [step |-> "none", host |-> Absent] /\ UNCHANGED allowance

StorageNext ==
  \/ \E config \in Settings : InstallFiles(config) \/ ApplyConfig(config)
  \/ Accounts \/ InstallPinned \/ Storage \/ StorageFails
  \/ RestartServices \/ RestartServicesFails \/ WriteState
  \/ Publish /\ UNCHANGED <<accounts, settled, command, readied>>

-------------------------------------------------------------------------------
(* Properties *)

\* What a service opens under a configuration, of the files there are.
Opened(service, config) ==
  IF service = "sbctl"
  THEN {ConfigFile, Artifact, StateFile, LockFile} \cup
       (IF config.direct THEN {Pinned(config.host)} ELSE {})
  ELSE {ActiveConfig} \cup
       (IF config.certificate = "self-signed" THEN {SelfSigned(config.name)}
        ELSE IF config.direct THEN {Pinned(config.host)} ELSE {})

Secrets ==
  {ConfigFile, ActiveConfig, Artifact, StateFile} \cup
  {Pinned(n) : n \in StorageHosts} \cup {SelfSigned(n) : n \in ServerNames}

AtRest == command = Idle /\ hook.step = "none" /\ Installed

\* No groupadd or usermod has failed that was not repeated since.
GroupComplete ==
  settled.direct \/ accounts.group => accounts.group /\ accounts.certificate = Services

\* Whenever no command is under way, each service reads what the committed
\* configuration makes it open, unless the last preparation of accounts or storage did not
\* go through, or was for external mode and the change to that mode was taken back; and
\* at no time can another account read credentials, keys or the state
\* (prepare_daemon_storage, enforce_live_file_owner).
OnlyServicesRead ==
  /\ AtRest /\ readied # "none" /\ GroupComplete =>
       \A s \in Services : \A p \in Opened(s, settled) \cap DOMAIN access :
         CanRead(s, p) \/ (s = "sbctl" /\ p = Pinned(settled.host) /\ readied = "external")
  /\ \A p \in Secrets \cap DOMAIN access : ~ CanRead("nobody", p)

\* Without the exceptions, as the comments at prepare_daemon_storage have it.
ServicesRead ==
  AtRest => \A s \in Services : \A p \in Opened(s, settled) \cap DOMAIN access : CanRead(s, p)
=============================================================================
