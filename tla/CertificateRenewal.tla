-------------------------- MODULE CertificateRenewal --------------------------
(***************************************************************************)
(* Obtaining, renewing, validating and pinning the certificate of a Direct *)
(* deployment (src/src/certificate.rs,                                     *)
(* src/src/cli/commands/certificate.rs) beside Certbot and its timer.      *)
(* Certbot replaces the certificate and the key of a lineage one after the *)
(* other and runs the deploy hook while it holds its own lock; a command   *)
(* publishes once more after its Certbot has ended.  How the listener      *)
(* reloads what is pinned is PinnedCertificate.                            *)
(***************************************************************************)
EXTENDS Naturals, Sequences, FiniteSets

CONSTANTS
  Terminals,     \* where certificate commands are given
  CertbotTimer,  \* certbot.timer
  Hosts,         \* subscription hosts, as sequences of labels
  Wildcard,      \* the label *
  Life, RenewBefore, MaxTime,
  Overlap        \* whether two publications may overlap

Runners == Terminals \cup {CertbotTimer}

VARIABLES
  now,        \* days
  config,     \* subscription mode and host
  live,       \* etc/letsencrypt/live of every host
  pinned,     \* var/lib/sbctl/certificates of every host
  certbot,    \* whether Certbot runs; it excludes itself
  task,       \* what every runner does
  issued,     \* certificates so far
  completed,  \* ghost: what the last publication for a host completed, if it did
  changes     \* bound: commands and changes of the configuration to come

renewalVars == <<now, config, live, pinned, certbot, task, issued, completed, changes>>

Missing == [serial |-> 0, from |-> 0, until |-> 0, names |-> {}]
NoPair  == [chain |-> Missing, key |-> 0]
Idle    == [cmd |-> "idle", step |-> "idle", host |-> <<>>, hook |-> FALSE,
            lineage |-> <<>>, chain |-> Missing, key |-> 0]

RenewalInit(host, budget) ==
  /\ now = 0
  /\ config = [mode |-> "direct", host |-> host]
  /\ live = [h \in Hosts |-> NoPair]
  /\ pinned = [h \in Hosts |-> NoPair]
  /\ certbot = FALSE
  /\ task = [r \in Runners |-> Idle]
  /\ issued = 0
  /\ completed = [h \in Hosts |-> 0]
  /\ changes = budget

Changes == changes > 0 /\ changes' = changes - 1

-------------------------------------------------------------------------------
(* Validation *)

\* One leftmost wildcard label covers one label.
DnsNameMatches(name, host) ==
  \/ name = host
  \/ /\ name # <<>> /\ Head(name) = Wildcard
     /\ Len(name) = Len(host) /\ Tail(name) = Tail(host)

\* Mutant: the key is not compared with the certificate.
LoadedUncompared(chain, key, host) ==
  /\ chain.serial # 0 /\ key # 0
  /\ chain.from <= now /\ now <= chain.until
  /\ \E name \in chain.names : DnsNameMatches(name, host)

\* load_directory_at: readable, in its time, for the host, with its own key.
Loaded(chain, key, host) ==
  /\ chain.serial # 0 /\ key # 0
  /\ chain.from <= now /\ now <= chain.until
  /\ \E name \in chain.names : DnsNameMatches(name, host)
  /\ key = chain.serial

\* sbctl status and sbctl certificate status look at both copies.
Status(h) ==
  IF ~Loaded(live[h].chain, live[h].key, h) THEN "error"
  ELSE IF ~Loaded(pinned[h].chain, pinned[h].key, h) THEN "error"
  ELSE IF pinned[h].chain.serial = live[h].chain.serial THEN "ok" ELSE "pinned drift"

-------------------------------------------------------------------------------
(* The clock and the configuration *)

\* A day before the first certificate changes nothing.
Day ==
  /\ now < MaxTime
  /\ issued > 0
  /\ now' = now + 1
  /\ UNCHANGED <<config, live, pinned, certbot, task, issued, completed, changes>>

Reconfigured ==
  /\ config' \in [mode : {"direct", "private"}, host : Hosts] \ {config}
  /\ Changes
  /\ UNCHANGED <<now, live, pinned, certbot, task, issued, completed>>

-------------------------------------------------------------------------------
(* A command, or Certbot's own renewal *)

In(r, step) == task[r].step = step

Goes(r, step) == task' = [task EXCEPT ![r].step = step]

Ends(r) == task' = [task EXCEPT ![r] = Idle]

\* require_direct and, for obtain, Certbot and an address or its confirmed
\* absence come before anything else.
BeginCertificate(r, cmd) ==
  /\ In(r, "idle")
  /\ r \in Terminals
  /\ config.mode = "direct"
  /\ task' = [task EXCEPT ![r] = [Idle EXCEPT !.cmd = cmd, !.host = config.host,
                 !.lineage = config.host,
                 !.step = IF cmd = "verify" THEN "load" ELSE "certbot"]]
  /\ Changes
  /\ UNCHANGED <<now, config, live, pinned, certbot, issued, completed>>

TimerRenews ==
  /\ In(CertbotTimer, "idle")
  /\ \E h \in Hosts :
       /\ live[h].chain.serial # 0
       /\ live[h].chain.until <= now + RenewBefore
       /\ task' = [task EXCEPT ![CertbotTimer] = [Idle EXCEPT !.cmd = "timer",
                     !.lineage = h, !.step = "certbot"]]
  /\ Changes
  /\ UNCHANGED <<now, config, live, pinned, certbot, issued, completed>>

\* --keep-until-expiring
Due(h) == live[h].chain.serial = 0 \/ live[h].chain.until <= now + RenewBefore

\* A lineage covers the host it is named after, its domain, or was made for
\* something else.
NamesFor(h) == {{h}, {<<Wildcard>> \o Tail(h)}, {<<Wildcard>> \o h}}

\* After Certbot the command publishes; the timer has nothing more to do.
AfterCertbot(r) == IF task[r].cmd = "timer" THEN "end" ELSE "load"

CertbotRuns(r) ==
  LET h == task[r].lineage IN
  /\ In(r, "certbot")
  /\ ~certbot
  /\ \/ /\ Due(h)
        /\ task[r].cmd = "renew" => live[h].chain.serial # 0
        /\ \E names \in NamesFor(h) :
             live' = [live EXCEPT ![h].chain =
               [serial |-> issued + 1, from |-> now, until |-> now + Life, names |-> names]]
        /\ issued' = issued + 1
        /\ certbot' = TRUE
        /\ Goes(r, "key")
     \/ /\ ~Due(h)
        /\ Goes(r, AfterCertbot(r))
        /\ UNCHANGED <<live, issued, certbot>>
     \/ Ends(r) /\ UNCHANGED <<live, issued, certbot>>
  /\ UNCHANGED <<now, config, pinned, completed, changes>>

\* The key follows; then the deploy hook runs with the configuration of that
\* moment, if there is one: it is installed in Direct mode only.
CertbotPutsKey(r) ==
  LET h == task[r].lineage IN
  /\ In(r, "key")
  /\ live' = [live EXCEPT ![h].key = live[h].chain.serial]
  /\ IF config.mode = "direct"
     THEN task' = [task EXCEPT ![r].step = "load", ![r].hook = TRUE, ![r].host = config.host]
          /\ UNCHANGED certbot
     ELSE Goes(r, AfterCertbot(r)) /\ certbot' = FALSE
  /\ UNCHANGED <<now, config, pinned, issued, completed, changes>>

\* Where a publication leads: out of the hook back to Certbot, which ends.
Published(r) ==
  IF task[r].hook
  THEN /\ certbot' = FALSE
       /\ task' = [task EXCEPT ![r].hook = FALSE, ![r].step = AfterCertbot(r),
                     ![r].host = task[r].lineage, ![r].chain = Missing, ![r].key = 0]
  ELSE Ends(r) /\ UNCHANGED certbot

TimerEnds(r) ==
  /\ In(r, "end")
  /\ Ends(r)
  /\ UNCHANGED <<now, config, live, pinned, certbot, issued, completed, changes>>

-------------------------------------------------------------------------------
(* publish: load the live pair, pin it, restrict it *)

Publishing(r) == task[r].step \in {"loadKey", "pinChain", "pinKey"}

LoadLiveChain(r) ==
  /\ In(r, "load")
  /\ Overlap \/ \A other \in Runners : ~Publishing(other)
  /\ task' = [task EXCEPT ![r].step = "loadKey", ![r].chain = live[task[r].host].chain]
  /\ UNCHANGED <<now, config, live, pinned, certbot, issued, completed, changes>>

\* What does not validate leaves the pinned copy as it is.
LoadLiveKey(r) ==
  /\ In(r, "loadKey")
  /\ IF Loaded(task[r].chain, live[task[r].host].key, task[r].host)
     THEN /\ task' = [task EXCEPT ![r].step = "pinChain", ![r].key = live[task[r].host].key]
          /\ UNCHANGED certbot
     ELSE Published(r)
  /\ UNCHANGED <<now, config, live, pinned, issued, completed, changes>>

\* The rename of the certificate; the publication may end before or after it.
PinsChain(r) ==
  LET h == task[r].host IN
  /\ In(r, "pinChain")
  /\ \/ /\ pinned' = [pinned EXCEPT ![h].chain = task[r].chain]
        /\ completed' = [completed EXCEPT ![h] = 0]
        /\ Goes(r, "pinKey")
        /\ UNCHANGED certbot
     \/ Published(r) /\ UNCHANGED <<pinned, completed>>
  /\ UNCHANGED <<now, config, live, issued, changes>>

\* The key, and both are granted to the services.
PinsKey(r) ==
  LET h == task[r].host IN
  /\ In(r, "pinKey")
  /\ \/ /\ pinned' = [pinned EXCEPT ![h].key = task[r].key]
        /\ completed' = [completed EXCEPT ![h] = task[r].chain.serial]
     \/ UNCHANGED <<pinned, completed>>
  /\ Published(r)
  /\ UNCHANGED <<now, config, live, issued, changes>>

RenewalStep(r) ==
  \/ \E cmd \in {"obtain", "renew", "verify"} : BeginCertificate(r, cmd)
  \/ CertbotRuns(r) \/ CertbotPutsKey(r) \/ TimerEnds(r)
  \/ LoadLiveChain(r) \/ LoadLiveKey(r) \/ PinsChain(r) \/ PinsKey(r)

-------------------------------------------------------------------------------
\* After a publication that completed, and until the next one or the expiry,
\* the daemon can load what is pinned, whatever Certbot has been doing to the
\* live files while they were read, and the status reports what renewed since.
PublishedIsServed ==
  \A h \in Hosts :
    LET pair == pinned[h] IN
    completed[h] # 0 /\ now <= pair.chain.until =>
      /\ Loaded(pair.chain, pair.key, h)
      /\ pair.key = completed[h]
      /\ Loaded(live[h].chain, live[h].key, h) =>
           Status(h) = IF live[h].chain.serial = completed[h] THEN "ok" ELSE "pinned drift"
=============================================================================
