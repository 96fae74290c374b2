---------------------------- MODULE ClientDirectory ----------------------------
(***************************************************************************)
(* What a client keeps in its data directory: its profiles, caches and      *)
(* overrides (ClientLibrary), the backup of the desktop's proxy             *)
(* (DesktopProxy) and the core (CoreDownload).  None of the three reads     *)
(* what another keeps, so a behaviour is about one of them.                 *)
(***************************************************************************)
EXTENDS ConfigOverride, DesktopProxy

CONSTANTS
  Clients, Releases, Archives, NoArchive, Systems, Latest,
  \* bounds: how often the client starts while its proxy is looked at, and downloads
  MaxLives, MaxDownloads

VARIABLES
  system, ledger, coreFiles, download, first, forgotten, installed, downloads

Core == INSTANCE CoreDownload

coreVars == <<system, ledger, coreFiles, download, first, forgotten, installed, downloads>>

OneProxy == ProxyInit({"linux"}, 0) /\ settings.mode = "auto"
OneCore  == Core!DownloadInit({"linux"}, 0)

DirectoryInit ==
  \/ LibraryInit(0) /\ OneProxy /\ OneCore
  \/ LibraryInit(MaxOpens) /\ ProxyInit(Platforms, MaxLives) /\ OneCore
  \/ LibraryInit(MaxOpens) /\ OneProxy /\ Core!DownloadInit(Systems, MaxDownloads)

DirectoryNext ==
  \/ LibraryNext /\ UNCHANGED <<proxyVars, coreVars>>
  \/ ProxyNext /\ UNCHANGED <<libraryVars, coreVars>>
  \/ Core!DownloadNext /\ UNCHANGED <<libraryVars, proxyVars>>

DirectorySpec == DirectoryInit /\ [][DirectoryNext]_<<libraryVars, proxyVars, coreVars>>

\* What is downloaded is what it stands for: a cached document offers the nodes of the
\* answer, and a core is of the one archive recorded for its release (parse,
\* verify_or_record_hash).
DownloadsAreSafe == CacheOffersNodes /\ Core!FirstArchiveOnly
=============================================================================
