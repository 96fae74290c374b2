------------------------------- MODULE HostFiles -------------------------------
(***************************************************************************)
(* The files of a host: which deployment they belong to (Lifecycle) and    *)
(* who may read them (ServiceStorage).  Both are about the same commands,   *)
(* sbctl install and a change of the configuration; a behaviour is about    *)
(* one of the two, since neither reads what the other keeps.               *)
(***************************************************************************)
EXTENDS Lifecycle, ServiceStorage

CONSTANTS
  StorageChanges, StoragePublications, StorageFailures   \* bounds

ASSUME HostFilesAssumption ==
  {StorageChanges, StoragePublications, StorageFailures} \subseteq Nat

HostInit ==
  \/ Init /\ StorageInit({NoAccounts}, 0, 0, 0)
  \/ /\ LifecycleInit({"clean"}, {FALSE}, MaxCommands)
     /\ StorageInit(EarlierAccounts, StorageChanges, StoragePublications, StorageFailures)

HostNext ==
  \/ Next /\ UNCHANGED storageVars
  \/ StorageNext /\ UNCHANGED vars

HostSpec == HostInit /\ [][HostNext]_<<vars, storageVars>>
=============================================================================
