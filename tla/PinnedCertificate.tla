--------------------------- MODULE PinnedCertificate ---------------------------
(***************************************************************************)
(* The pinned certificate of a Direct deployment: Certbot's deploy hook    *)
(* copies a renewed pair into var/lib/sbctl/certificates by two renames,   *)
(* without the operation lock, and then grants it to the service accounts. *)
(* The TLS listener of the daemon reloads the pair when the modification   *)
(* times of the files differ from those it saw before its last load.       *)
(*                                                                         *)
(* A certificate and a key are numbered by the renewal that made them; a   *)
(* pair is valid when both come from the same one.  Every rename gives the *)
(* file a modification time of its own.                                    *)
(***************************************************************************)
EXTENDS Integers

CONSTANTS
  None,         \* a missing file, nothing loaded, a stopped service
  PinFails,     \* whether a step of the hook may fail
  MaxPublications \* bound on the pairs published

ASSUME CertificateAssumption ==
  /\ None \notin Int
  /\ PinFails \in BOOLEAN
  /\ MaxPublications \in Nat

PairFiles == {"fullchain", "privkey"}

VARIABLES
  live,      \* the renewal in etc/letsencrypt/live, None before the first
  pinned,    \* what the two files of the pinned directory hold
  access,    \* the account that may read each besides root
  mtime,     \* their modification times
  writes,    \* renames so far
  hook,      \* the deploy hook, or the certificate command that publishes
  publications, \* pairs published so far
  \* the TLS listener of the daemon
  listener,  \* where its loop is, None while the daemon does not run
  seen,      \* the stamp read for the accepted connection
  chain,     \* the certificate file read for it
  tls,       \* the pair it serves
  tlsStamp   \* the stamp cached with it

pairVars     == <<pinned, access, mtime, writes>>
listenerVars == <<listener, seen, chain, tls, tlsStamp>>
hookVars     == <<live, hook, publications>>
certVars     == <<hookVars, pairVars, listenerVars>>

Versions == Nat \cup {None}
Stamps   == [PairFiles -> Versions]

\* No account, the daemon's, or those of the daemon and of sing-box.
Accounts == {"root", "sbctl", "services"}

HookStates     == {"idle", "fullchain", "privkey", "grant", "done", "failed"}
ListenerStates == {"accept", "stamp", "fullchain", "privkey"}

ASSUME NoneAssumption ==
  /\ None \notin Stamps
  /\ None \notin ListenerStates

CertTypeOK ==
  /\ live \in Versions
  /\ pinned \in [PairFiles -> Versions]
  /\ access \in [PairFiles -> Accounts]
  /\ mtime \in Stamps
  /\ writes \in Nat
  /\ hook \in HookStates
  /\ publications \in Nat
  /\ listener \in ListenerStates \cup {None}
  /\ seen \in Stamps
  /\ chain \in Versions
  /\ tls \in Versions
  /\ tlsStamp \in Stamps \cup {None}

NoStamp == [f \in PairFiles |-> None]

\* A host without a certificate, or with the first one pinned.
CertInit ==
  /\ live \in {None, 0}
  /\ pinned = [f \in PairFiles |-> live]
  /\ access = [f \in PairFiles |-> "services"]
  /\ mtime = pinned
  /\ writes = 0
  /\ hook = "idle" /\ publications = 0
  /\ listener = "accept"
  /\ seen = NoStamp /\ chain = None
  /\ tls = None /\ tlsStamp = None

-------------------------------------------------------------------------------
(* Writers of the pinned pair *)

\* A file replaced by a rename: new content, new modification time.
PutFile(f, v, account) ==
  /\ pinned' = [pinned EXCEPT ![f] = v]
  /\ access' = [access EXCEPT ![f] = account]
  /\ mtime' = [mtime EXCEPT ![f] = writes + 1]
  /\ writes' = writes + 1

RemoveFile(f) ==
  /\ pinned' = [pinned EXCEPT ![f] = None]
  /\ mtime' = [mtime EXCEPT ![f] = None]
  /\ UNCHANGED <<access, writes>>

PublishBegins ==
  /\ hook \in {"idle", "done", "failed"}
  /\ publications < MaxPublications
  /\ publications' = publications + 1
  /\ hook' = "fullchain"
  /\ UNCHANGED <<pairVars, listenerVars>>

\* Certbot renews the pair and runs the deploy hook, which loads and validates it.
Renew ==
  /\ live' = IF live = None THEN 0 ELSE live + 1
  /\ PublishBegins

\* certificate obtain, renew and verify publish the live pair once more.
Publish ==
  /\ live # None
  /\ PublishBegins
  /\ UNCHANGED live

\* pin: the certificate first, then the key, both with their group still root's.
PinChain ==
  /\ hook = "fullchain"
  /\ \/ PutFile("fullchain", live, "root") /\ hook' = "privkey"
     \/ PinFails /\ hook' = "failed" /\ UNCHANGED pairVars
  /\ UNCHANGED <<live, publications, listenerVars>>

PinKey ==
  /\ hook = "privkey"
  /\ \/ PutFile("privkey", live, "root") /\ hook' = "grant"
     \/ PinFails /\ hook' = "failed" /\ UNCHANGED pairVars
  /\ UNCHANGED <<live, publications, listenerVars>>

\* chgrp -R: a file with mode 0640 becomes the services', one with 0600 does not.
Granted ==
  access' = [f \in PairFiles |-> IF access[f] = "root" THEN "services" ELSE access[f]]

\* restrict_certificate_permissions.
Grant ==
  /\ hook = "grant"
  /\ \/ Granted /\ hook' = "done"
     \/ PinFails /\ hook' = "failed" /\ UNCHANGED access
  /\ UNCHANGED <<live, publications, pinned, mtime, writes, listenerVars>>

-------------------------------------------------------------------------------
(* The TLS listener *)

\* The daemon's account may read the file.
Readable(f) == pinned[f] # None /\ access[f] # "root"

\* A daemon that starts has loaded nothing; one that stops forgets.
ListenerStarts(running) ==
  /\ listener' = IF running THEN "accept" ELSE None
  /\ seen' = NoStamp /\ chain' = None
  /\ tls' = None /\ tlsStamp' = None

\* A connection is accepted and the stamp of the certificate file read.
Accept ==
  /\ listener = "accept"
  /\ listener' = "stamp"
  /\ seen' = [seen EXCEPT !["fullchain"] = mtime["fullchain"]]
  /\ UNCHANGED <<hookVars, pairVars, chain, tls, tlsStamp>>

\* Mutant: a listener that has a pair never loads again.
CompareNever ==
  LET stamp == [seen EXCEPT !["privkey"] = mtime["privkey"]] IN
  /\ listener = "stamp"
  /\ \/ tls = None /\ listener' = "fullchain" /\ seen' = stamp
     \/ tls # None /\ listener' = "accept" /\ seen' = NoStamp
  /\ UNCHANGED <<hookVars, pairVars, chain, tls, tlsStamp>>

\* The stamp of the key file; a stamp that equals the cached one needs no load.
Compare ==
  LET stamp == [seen EXCEPT !["privkey"] = mtime["privkey"]] IN
  /\ listener = "stamp"
  /\ \/ /\ tls = None \/ stamp # tlsStamp
        /\ listener' = "fullchain"
        /\ seen' = stamp
     \/ /\ tls # None /\ stamp = tlsStamp
        /\ listener' = "accept"
        /\ seen' = NoStamp
  /\ UNCHANGED <<hookVars, pairVars, chain, tls, tlsStamp>>

\* A load that fails keeps the pair served so far and forgets its stamp.
LoadFails ==
  /\ listener' = "accept"
  /\ seen' = NoStamp /\ chain' = None
  /\ tlsStamp' = None
  /\ UNCHANGED tls

LoadChain ==
  /\ listener = "fullchain"
  /\ \/ /\ Readable("fullchain")
        /\ listener' = "privkey"
        /\ chain' = pinned["fullchain"]
        /\ UNCHANGED <<seen, tls, tlsStamp>>
     \/ ~ Readable("fullchain") /\ LoadFails
  /\ UNCHANGED <<hookVars, pairVars>>

\* Mutant: the stamp is read after the load.
LoadKeyThenStamp ==
  /\ listener = "privkey"
  /\ \/ /\ Readable("privkey") /\ pinned["privkey"] = chain
        /\ listener' = "accept"
        /\ tls' = chain
        /\ tlsStamp' = mtime
        /\ seen' = NoStamp /\ chain' = None
     \/ ~ (Readable("privkey") /\ pinned["privkey"] = chain) /\ LoadFails
  /\ UNCHANGED <<hookVars, pairVars>>

\* The key must be the certificate's; the stamp cached is the one read before.
LoadKey ==
  /\ listener = "privkey"
  /\ \/ /\ Readable("privkey") /\ pinned["privkey"] = chain
        /\ listener' = "accept"
        /\ tls' = chain
        /\ tlsStamp' = seen
        /\ seen' = NoStamp /\ chain' = None
     \/ ~ (Readable("privkey") /\ pinned["privkey"] = chain) /\ LoadFails
  /\ UNCHANGED <<hookVars, pairVars>>

Hook     == Renew \/ Publish \/ PinChain \/ PinKey \/ Grant
Listener == Accept \/ Compare \/ LoadChain \/ LoadKey

-------------------------------------------------------------------------------
(* Properties *)

\* A listener whose cached stamp still matches the files, so that it will not
\* load again, serves the pair that is pinned, however the hook's two renames and
\* other writers interleave with its reads (serve_tls_listener).
CacheCoherent ==
  (tlsStamp = mtime /\ None \notin {mtime[f] : f \in PairFiles}) =>
    \A f \in PairFiles : pinned[f] = tls

\* "A successful renewal takes effect on the next handshake": once the deploy hook
\* has reported success, the pinned pair is the renewed one (certificate::renew).
RenewalTakesEffect ==
  hook = "done" => \A f \in PairFiles : pinned[f] = live

ValidPair == \A f \in PairFiles : Readable(f) /\ pinned[f] = pinned["fullchain"]

\* While clients keep connecting, a valid pair that stays readable is served in the
\* end, without a restart or a signal (serve_tls_listener).
PinnedIsServed ==
  <>[](ValidPair /\ listener # None) => <>[](tls = pinned["fullchain"])
=============================================================================
