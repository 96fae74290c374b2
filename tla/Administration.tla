----------------------------- MODULE Administration -----------------------------
(***************************************************************************)
(* The administrator's side of a host: the menu, the release commands, the *)
(* certificate commands beside Certbot, and the accounting calendar        *)
(* (src/src/main.rs dispatches them).  A behaviour is about one of the     *)
(* four, by how often things happen in each; menu and release commands     *)
(* share the binaries and the deployment.                                  *)
(***************************************************************************)
EXTENDS AdminMenu, AccountingCalendar

CONSTANTS
  Terminals, CertbotTimer, Hosts, Wildcard, Life, RenewBefore, MaxTime, Overlap,
  MenuUser,        \* the terminal that shows the menu
  FirstInstant, ReleaseEvents, CertificateChanges   \* bounds

VARIABLES
  now, config, live, pinned, certbot, task, issued, completed, changes

Renewal == INSTANCE CertificateRenewal

ASSUME AdministrationAssumption ==
  /\ CertbotTimer \notin Terminals
  /\ MenuUser \in Sessions
  /\ {Life, RenewBefore, MaxTime, ReleaseEvents, CertificateChanges} \subseteq Nat
  /\ Overlap \in BOOLEAN /\ Hosts # {}
  /\ FirstInstant \in Nat /\ LastInstant \in Nat /\ FirstInstant <= LastInstant

certificateVars == <<now, config, live, pinned, certbot, task, issued, completed, changes>>

vars == <<menuVars, releaseVars, certificateVars, calendarVars>>

\* The subscription host at the beginning.
Host == CHOOSE h \in Hosts : TRUE

\* A calendar that stands still.
NoCalendar ==
  CalendarInit(LastInstant,
    {CHOOSE s \in Schedules : s.policy = "natural-month"})

\* A kernel of an installation.
Kernels == {a \in Artifacts : Runs(a)}

Init ==
  \/ /\ MenuInit({MenuUser})
     /\ deployed \in {"missing", "ready", "unreadable"}
     /\ \E kernel \in Kernels \cup {None} :
          ReleaseInit([Nothing EXCEPT !["sing-box"] = kernel], Nothing, 0)
     /\ Renewal!RenewalInit(Host, 0) /\ NoCalendar
  \/ /\ MenuInit({})
     /\ deployed = "ready"
     /\ \E d \in Drafts :
          ReleaseInit(Nothing, [n \in Components |-> d.artifacts[n].digest], ReleaseEvents)
     /\ Renewal!RenewalInit(Host, 0) /\ NoCalendar
  \/ /\ MenuInit({})
     /\ deployed = "ready"
     /\ ReleaseInit(Nothing, Nothing, 0)
     /\ Renewal!RenewalInit(Host, CertificateChanges) /\ NoCalendar
  \/ /\ MenuInit({})
     /\ deployed = "ready"
     /\ ReleaseInit(Nothing, Nothing, 0)
     /\ Renewal!RenewalInit(Host, 0)
     /\ CalendarInit(FirstInstant, Schedules)

\* A release command given in a shell.
CommandLine(s) ==
  /\ In(s, "left")
  /\ Happens
  /\ \E j \in Commands : BeginRelease(s, j)
  /\ UNCHANGED menuVars

Releases ==
  \/ (Publish \/ EditFile) /\ UNCHANGED menuVars
  \/ \E s \in Sessions : CommandLine(s)
  \/ \E s \in Sessions : ReleaseStep(s) /\ UNCHANGED menuVars

Menu == Elsewhere \/ \E s \in Sessions : InputEnds(s) \/ MenuStep(s)

Certificates ==
  \/ Renewal!Day \/ Renewal!Reconfigured \/ Renewal!TimerRenews
  \/ \E r \in Renewal!Runners : Renewal!RenewalStep(r)

Next ==
  \/ (Menu \/ Releases) /\ UNCHANGED <<certificateVars, calendarVars>>
  \/ Certificates /\ UNCHANGED <<menuVars, releaseVars, calendarVars>>
  \/ Passes /\ UNCHANGED <<menuVars, releaseVars, certificateVars>>

\* The process of the menu runs: it reads what there is to read, and the commands it
\* calls come to an end.
Fairness ==
  /\ WF_vars(MenuStep(MenuUser) /\ UNCHANGED <<certificateVars, calendarVars>>)
  /\ WF_vars(ReleaseStep(MenuUser) /\ UNCHANGED <<menuVars, certificateVars, calendarVars>>)

Spec == Init /\ [][Next]_vars /\ Fairness

PublishedIsServed == Renewal!PublishedIsServed
=============================================================================
