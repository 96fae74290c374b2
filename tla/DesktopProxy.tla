----------------------------- MODULE DesktopProxy -----------------------------
(***************************************************************************)
(* How a client sets the proxy of the desktop and gives the user's setting *)
(* back (client-core/src/system_proxy.rs).  ClientEngine takes one setting  *)
(* to be one value that changes in one step; here it is the keys the        *)
(* platform keeps it in, written by one call each, any of which may fail,   *)
(* and the client may die between two of them.                             *)
(***************************************************************************)
EXTENDS Naturals, Sequences, SequencesExt

CONSTANTS
  Platforms,   \* of "windows", "linux", "macos", and "macos-first", where one call of
               \* networksetup takes notice of its first option only
  Absent

VARIABLES
  platform,
  settings,    \* what the desktop keeps: the value of each key
  saved,       \* cache/system-proxy-backup.json: the settings it holds
  client,      \* whether the client runs, and whether it takes its proxy to be on
  call,        \* the operation under way, and the writes it has left
  own,         \* ghost: what the user chose last
  uncaptured,  \* ghost: a backup could not be written since then
  last,        \* how the last operation ended
  lives        \* bound: how often the client will start

proxyVars == <<platform, settings, saved, client, call, own, uncaptured, last, lives>>

Local == "127.0.0.1"
Port  == "2080"
Server == "127.0.0.1:2080"
Macos == {"macos", "macos-first"}

-------------------------------------------------------------------------------
(* Settings *)

WindowsSettings(enable, server, overrides) ==
  [ProxyEnable |-> enable, ProxyServer |-> server, ProxyOverride |-> overrides]
LinuxSettings(mode, host, port) == [mode |-> mode, host |-> host, port |-> port]
MacosSettings(web, webServer, secure, secureServer) ==
  [web |-> web, webServer |-> webServer, secure |-> secure, secureServer |-> secureServer]

\* What users have: no proxy, one of their own, one that is switched off, and what else
\* the platform knows.
UserSettings(p) ==
  CASE p = "windows" -> {WindowsSettings("0", "", ""), WindowsSettings("0", "corporate:3128", ""),
                         WindowsSettings("1", "corporate:3128", "intranet"),
                         WindowsSettings("1", "corporate:3128", "")}
    [] p = "linux"   -> {LinuxSettings("none", "", "0"), LinuxSettings("none", "corporate", "3128"),
                         LinuxSettings("manual", "corporate", "3128"), LinuxSettings("auto", "", "0")}
    [] p \in Macos   -> {MacosSettings("off", "", "off", ""), MacosSettings("on", "corporate", "off", ""),
                         MacosSettings("on", "corporate", "on", "secure")}

\* Where the settings send traffic.
Effective(s) ==
  CASE platform = "windows" -> IF s.ProxyEnable = "0" THEN <<>> ELSE <<s.ProxyServer, s.ProxyOverride>>
    [] platform = "linux"   -> IF s.mode = "manual" THEN <<s.host, s.port>>
                               ELSE IF s.mode = "none" THEN <<>> ELSE <<s.mode>>
    [] platform \in Macos   -> <<IF s.web = "on" THEN s.webServer ELSE "",
                                 IF s.secure = "on" THEN s.secureServer ELSE "">>

AtClient(s) == ToSet(Effective(s)) \cap {Local, Server} # {}

\* What the restoration can give back: on Windows no empty server or list of exceptions
\* beside a proxy that is on, on Linux no automatic configuration.
Restorable(s) ==
  CASE platform = "windows" -> s.ProxyEnable = "1" => s.ProxyServer # "" /\ s.ProxyOverride # ""
    [] platform = "linux"   -> s.mode # "auto"
    [] platform \in Macos   -> TRUE

-------------------------------------------------------------------------------
(* The calls of each platform, as functions from keys to values *)

\* What a write leaves of the settings.
Wrote(write, s) == [k \in DOMAIN s |-> IF k \in DOMAIN write THEN write[k] ELSE s[k]]

SetWindows(on) ==
  IF on THEN <<[ProxyEnable |-> "1"], [ProxyServer |-> Server], [ProxyOverride |-> "<local>"]>>
  ELSE <<[ProxyEnable |-> "0"]>>

SetLinux(on) ==
  IF on THEN <<[mode |-> "manual"], [host |-> Local], [port |-> Port]>> ELSE <<[mode |-> "none"]>>

\* External: the options of one call of networksetup that take effect.
Heard(first, both) == IF platform = "macos" THEN both ELSE first

\* One call for both kinds of traffic.
SetMacos(on) ==
  IF on
  THEN <<Heard([web |-> "on", webServer |-> Server], MacosSettings("on", Server, "on", Server))>>
  ELSE <<Heard([web |-> "off"], [web |-> "off", secure |-> "off"])>>

SetProxy(on) ==
  CASE platform = "windows" -> SetWindows(on)
    [] platform = "linux"   -> SetLinux(on)
    [] platform \in Macos   -> SetMacos(on)

IfSet(key, value) == IF value = "" THEN <<>> ELSE <<[k \in {key} |-> value]>>

ApplyWindows(s) ==
  <<[ProxyEnable |-> s.ProxyEnable]>>
    \o IfSet("ProxyServer", s.ProxyServer) \o IfSet("ProxyOverride", s.ProxyOverride)

ApplyLinux(s) ==
  IF s.mode = "manual"
  THEN <<[host |-> s.host], [port |-> s.port], [mode |-> "manual"]>>
  ELSE <<[mode |-> "none"]>>

ApplyMacos(s) ==
  <<IF s.web = "on" THEN [web |-> "on", webServer |-> s.webServer] ELSE [web |-> "off"],
    IF s.secure = "on" THEN [secure |-> "on", secureServer |-> s.secureServer]
    ELSE [secure |-> "off"]>>

RestoreBackup(s) ==
  CASE platform = "windows" -> ApplyWindows(s)
    [] platform = "linux"   -> ApplyLinux(s)
    [] platform \in Macos   -> ApplyMacos(s)

\* disable: the backup, or without one the proxy is cleared.
DisableCalls == IF saved = Absent THEN SetProxy(FALSE) ELSE RestoreBackup(saved)

-------------------------------------------------------------------------------
(* The operations *)

NoCall == [op |-> "none", rest |-> <<>>]
Away   == [runs |-> FALSE, proxyOn |-> FALSE]

ProxyInit(platforms, starts) ==
  /\ platform \in platforms
  /\ settings \in UserSettings(platform) /\ own = settings
  /\ saved = Absent
  /\ client = Away /\ call = NoCall
  /\ uncaptured = FALSE /\ last = "none"
  /\ lives = starts

\* Mutant: each enable captures what it finds.
CaptureAnew == settings

\* capture_backup: what there is, once; later enables leave the backup alone.
CaptureBackup == IF saved # Absent THEN saved ELSE settings

\* The backup may fail to be written, which stops nothing.
Enable ==
  /\ client.runs /\ call = NoCall /\ ~ client.proxyOn
  /\ \/ saved' = CaptureBackup /\ UNCHANGED uncaptured
     \/ saved = Absent /\ uncaptured' = TRUE /\ UNCHANGED saved
  /\ call' = [op |-> "enable", rest |-> SetProxy(TRUE)]
  /\ last' = "none"
  /\ UNCHANGED <<platform, settings, client, own, lives>>

\* By the user's switch, or because the core has stopped or the client is leaving.
Disable ==
  /\ client.runs /\ call = NoCall /\ client.proxyOn
  /\ \E op \in {"disable", "stop"} : call' = [op |-> op, rest |-> DisableCalls]
  /\ last' = "none"
  /\ UNCHANGED <<platform, settings, saved, client, own, uncaptured, lives>>

\* A client that starts restores what an earlier one has left.
OpenClient ==
  /\ ~ client.runs /\ lives > 0
  /\ lives' = lives - 1
  /\ client' = [Away EXCEPT !.runs = TRUE]
  /\ call' = IF saved = Absent THEN NoCall ELSE [op |-> "stop", rest |-> DisableCalls]
  /\ last' = "none"
  /\ UNCHANGED <<platform, settings, saved, own, uncaptured>>

\* One write; the last one of a restoration removes the backup.
Write ==
  /\ call # NoCall
  /\ settings' = Wrote(Head(call.rest), settings)
  /\ IF Len(call.rest) > 1
     THEN call' = [call EXCEPT !.rest = Tail(@)] /\ UNCHANGED <<saved, client, last>>
     ELSE /\ call' = NoCall
          /\ client' = [client EXCEPT !.proxyOn = call.op = "enable"]
          /\ saved' = IF call.op = "enable" THEN saved ELSE Absent
          /\ last' = IF call.op = "enable" THEN "enabled"
                     ELSE IF saved = Absent THEN "cleared" ELSE "restored"
  /\ UNCHANGED <<platform, own, uncaptured, lives>>

\* One that fails ends the operation; the switch stays where it was, while one who
\* stops looks at no result.
CallFails ==
  /\ call # NoCall
  /\ call' = NoCall
  /\ client' = [client EXCEPT !.proxyOn = call.op = "disable"]
  /\ last' = "failed"
  /\ UNCHANGED <<platform, settings, saved, own, uncaptured, lives>>

Dies ==
  /\ client.runs
  /\ client' = Away /\ call' = NoCall /\ last' = "none"
  /\ UNCHANGED <<platform, settings, saved, own, uncaptured, lives>>

\* The user chooses another setting; one who does so while a backup waits to be
\* restored loses it to the next start.
UserChooses ==
  /\ ~ client.proxyOn /\ call = NoCall /\ saved = Absent /\ lives > 0
  /\ settings' \in UserSettings(platform) /\ own' = settings'
  /\ uncaptured' = FALSE /\ last' = "none"
  /\ UNCHANGED <<platform, saved, client, call, lives>>

ProxyNext == Enable \/ Disable \/ OpenClient \/ Write \/ CallFails \/ Dies \/ UserChooses

-------------------------------------------------------------------------------
(* Properties *)

\* Whatever write fails and whenever the client dies, the user's own setting is in force
\* or in the backup, from where the next restoration brings it back; and where the
\* backup could not be written, a disable that succeeds leaves nothing at the client's
\* port (capture_backup, restore_backup, enable, disable).
UserSettingKept ==
  /\ ~ uncaptured /\ Restorable(own) =>
       \/ Effective(settings) = Effective(own)
       \/ saved # Absent /\ Effective(saved) = Effective(own)
  /\ last = "cleared" => ~ AtClient(settings)
=============================================================================
