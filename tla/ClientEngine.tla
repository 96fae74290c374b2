----------------------------- MODULE ClientEngine -----------------------------
(***************************************************************************)
(* The client core: one engine per running client, a task that handles the *)
(* commands of its user interface, starts the sing-box core in a background *)
(* operation, polls it, restarts it after a crash and points the operating *)
(* system's proxy at it.  The user interface makes its last decision about *)
(* the proxy itself, beside the engine, before it sends Shutdown.          *)
(*                                                                         *)
(* Commands come in any order: an engine's queue is the order in which its *)
(* user sent them.  Durations (back-off, a minute of stable running,       *)
(* readiness timeouts) are steps that may happen at any time.              *)
(***************************************************************************)
EXTENDS Naturals

CONSTANTS
  Clients,      \* data directories: the terminal client and the desktop client
  Ports,        \* local ports a core may listen on
  UserProxies,  \* proxy settings of the user's own, "no proxy" among them
  Off,          \* the setting "no proxy"
  None,
  MaxRestarts,  \* MAX_AUTO_RESTARTS
  \* which failures occur
  StorageFails, \* settings.toml or the proxy backup cannot be written
  ProxyFails,   \* the operating system refuses a proxy setting
  StaleBackups, \* the user changes the proxy setting although a client still
                \* keeps a backup of an earlier one
  LateSteps,    \* an engine may still act between the last decision of its
                \* user interface and the Shutdown command
  \* bounds
  Bound         \* how many commands, crashes of a core, deaths of a client
                \* and changes of the user's own proxy occur

Modes  == {"SystemProxy", "Tun"}
Events == {"command", "crash", "death", "change"}

ASSUME ClientAssumption ==
  /\ Off \in UserProxies
  /\ UserProxies \cap Ports = {}
  /\ None \notin Ports \cup UserProxies \cup Modes
  /\ MaxRestarts \in Nat
  /\ {StorageFails, ProxyFails, StaleBackups, LateSteps} \subseteq BOOLEAN
  /\ Bound \in [Events -> Nat]

VARIABLES
  engine,    \* the memory of every client's engine; None when it is not running
  ui,        \* what its user interface is about to do
  disk,      \* settings.toml
  backup,    \* cache/system-proxy-backup.json, one per client
  leftover,  \* ports held by cores that no engine has a handle of any more
  osProxy,   \* the operating system's proxy setting
  \* history and bounds
  user,      \* the proxy setting the user last chose
  asked,     \* the user's last request was to run the core
  autos,     \* automatic restarts since that request or the last stable run
  stuck,     \* the last attempt of the client to set the proxy was refused
  spent

proxy   == <<osProxy, backup, stuck>>
history == <<user, asked, autos>>
vars    == <<engine, ui, disk, leftover, proxy, history, spent>>

Settings == [mode : Modes, port : Ports]

\* A core process and what it was started with.
Cores == [mode : Modes, port : Ports, alive : BOOLEAN]

ASSUME NoneAssumption == None \notin Cores

\* PendingOperation.  "undo" is the mode before a switch this start belongs to.
Ops == [kind : {"start", "other"}, phase : {"probe", "launched", "ready", "failed"},
        core : Cores \cup {None}, restarting : BOOLEAN, undo : Modes \cup {None}]

\* Engine: "shown" is snapshot.traffic_mode, "armed" is restart_at; "lost" is
\* the mode before the last switch, if that switch failed.
Engines == [settings : Settings, shown : Modes, running : BOOLEAN,
            child : Cores \cup {None}, pending : Ops \cup {None},
            attempts : 0..MaxRestarts, armed : BOOLEAN, proxyOn : BOOLEAN,
            lost : Modes \cup {None}]

\* Engine::new
Fresh(s) ==
  [settings |-> s, shown |-> s.mode, running |-> FALSE, child |-> None,
   pending |-> None, attempts |-> 0, armed |-> FALSE, proxyOn |-> FALSE, lost |-> None]

Spend(k) == spent[k] < Bound[k] /\ spent' = [spent EXCEPT ![k] = @ + 1]

-------------------------------------------------------------------------------
(* The operating system's proxy.  An attempt has an outcome: whether it      *)
(* succeeded, the setting and the backup it leaves.                          *)

Refused(c) ==
  IF ProxyFails THEN {[ok |-> FALSE, os |-> osProxy, saved |-> backup[c]]} ELSE {}

\* Mutant: every enable captures the setting it finds.
CapturesAlways(c) == {osProxy}

\* capture_backup: the setting found before the first enable, unless it cannot
\* be stored
Captures(c) ==
  IF backup[c] # None THEN {backup[c]}
  ELSE {osProxy} \cup (IF StorageFails THEN {None} ELSE {})

EnableOutcomes(c, port) ==
  UNION {{[ok |-> TRUE, os |-> port, saved |-> s]} \cup
         (IF ProxyFails THEN {[ok |-> FALSE, os |-> osProxy, saved |-> s]} ELSE {})
           : s \in Captures(c)}

\* disable: restore the backup, or clear the proxy when there is none
DisableOutcomes(c) ==
  Refused(c) \cup
  {[ok |-> TRUE, os |-> IF backup[c] # None THEN backup[c] ELSE Off, saved |-> None]}

Take(c, o) ==
  /\ osProxy' = o.os
  /\ backup' = [backup EXCEPT ![c] = o.saved]
  /\ stuck' = [stuck EXCEPT ![c] = ~o.ok]

\* disable if "on", whatever becomes of it
RestoreIf(c, on) ==
  IF on THEN \E o \in DisableOutcomes(c) : Take(c, o) ELSE UNCHANGED proxy

-------------------------------------------------------------------------------
(* Cores, operations and ports *)

Pending(e, kind) == e.pending # None /\ e.pending.kind = kind

\* The port a core listens on; in TUN mode there is no mixed inbound.
Held(core) ==
  IF core # None /\ core.alive /\ core.mode = "SystemProxy" THEN {core.port} ELSE {}

HeldByOperation(e) == IF e.pending = None THEN {} ELSE Held(e.pending.core)

PortBusy(port) ==
  \E c \in Clients :
    \/ port \in leftover[c]
    \/ engine[c] # None /\ port \in Held(engine[c].child) \cup HeldByOperation(engine[c])

\* spawn_operation of start_core
Spawned(e, undo) ==
  [e EXCEPT !.pending =
     [kind |-> "start", phase |-> "probe",
      core |-> [mode |-> e.settings.mode, port |-> e.settings.port, alive |-> FALSE],
      restarting |-> e.attempts > 0, undo |-> undo]]

\* Mutant: a start does not look whether a core already runs.
StartsAnyway(e, undo) == {Spawned(e, undo)}

\* start_core: nothing to do, or an operation, or a refusal (no privilege for
\* TUN, no profile, no core, an override that cannot be applied).
Starts(e, undo) == IF e.running THEN {e} ELSE {e, Spawned(e, undo)}

\* Mutant: stopping leaves an armed restart alone.
StoppedKeepsTimer(e) ==
  [e EXCEPT !.running = FALSE, !.child = None, !.pending = None, !.attempts = 0,
            !.proxyOn = FALSE]

\* stop_core: cancel the operation, disarm the restart, reap the child.
Stopped(e) ==
  [e EXCEPT !.running = FALSE, !.child = None, !.pending = None, !.attempts = 0,
            !.armed = FALSE, !.proxyOn = FALSE]

\* Mutant: the last attempt is armed again and again.
ScheduledForever(e) ==
  [e EXCEPT !.running = FALSE, !.proxyOn = FALSE, !.armed = TRUE,
            !.attempts = IF @ < MaxRestarts THEN @ + 1 ELSE @]

\* Mutant: the attempts are counted but not limited.
ScheduledUncapped(e) ==
  [e EXCEPT !.running = FALSE, !.proxyOn = FALSE, !.armed = TRUE, !.attempts = @ + 1]

\* schedule_restart, up to MAX_AUTO_RESTARTS
Scheduled(e) ==
  [e EXCEPT !.running = FALSE, !.proxyOn = FALSE, !.armed = e.attempts < MaxRestarts,
            !.attempts = IF @ < MaxRestarts THEN @ + 1 ELSE @]

\* A core of a cancelled operation is killed when its handle is dropped, but
\* nobody waits for it: its port is free only some time later.
Abandon(c, e) == leftover' = [leftover EXCEPT ![c] = @ \cup HeldByOperation(e)]

-------------------------------------------------------------------------------
(* Commands.  While an operation is pending only StopCore and RestartCore are *)
(* accepted.                                                                  *)

Acts(c) == engine[c] # None /\ (ui[c] # "leaving" \/ LateSteps)

Command(c) == Acts(c) /\ Spend("command")
Idle(c)    == Command(c) /\ engine[c].pending = None

Become(c, e) == engine' = [engine EXCEPT ![c] = e]

Ask(c, run) == asked' = [asked EXCEPT ![c] = run] /\ autos' = [autos EXCEPT ![c] = 0]

StartCore(c) ==
  /\ Idle(c)
  /\ IF engine[c].running
     THEN /\ \E e \in Starts(engine[c], None) : Become(c, e)
          /\ UNCHANGED <<asked, autos>>
     ELSE /\ \E e \in Starts([engine[c] EXCEPT !.attempts = 0], None) : Become(c, e)
          /\ Ask(c, TRUE)
  /\ UNCHANGED <<ui, disk, leftover, proxy, user>>

StopCore(c) ==
  /\ Command(c)
  /\ Become(c, Stopped(engine[c]))
  /\ Abandon(c, engine[c])
  /\ RestoreIf(c, engine[c].proxyOn)
  /\ Ask(c, FALSE)
  /\ UNCHANGED <<ui, disk, user>>

RestartCore(c) ==
  /\ Command(c)
  /\ \E e \in Starts(Stopped(engine[c]), None) : Become(c, e)
  /\ Abandon(c, engine[c])
  /\ RestoreIf(c, engine[c].proxyOn)
  /\ Ask(c, TRUE)
  /\ UNCHANGED <<ui, disk, user>>

ToggleSystemProxy(c) ==
  LET e == engine[c] IN
  /\ Idle(c)
  /\ \/ /\ e.proxyOn
        /\ \E o \in DisableOutcomes(c) :
             Take(c, o) /\ Become(c, [e EXCEPT !.proxyOn = ~o.ok])
     \/ /\ ~e.proxyOn /\ e.shown = "SystemProxy" /\ e.running
        /\ \E o \in EnableOutcomes(c, e.settings.port) :
             Take(c, o) /\ Become(c, [e EXCEPT !.proxyOn = o.ok])
  /\ UNCHANGED <<ui, disk, leftover, history>>

\* The memory changes before the file does, and the snapshot only with it.
Changed(c, e, s) ==
  \/ /\ Become(c, [e EXCEPT !.settings = s, !.shown = s.mode, !.lost = None])
     /\ disk' = [disk EXCEPT ![c] = s]
  \/ StorageFails /\ Become(c, [e EXCEPT !.settings = s]) /\ UNCHANGED disk

\* update_settings, and set_traffic_mode without a core
ChangeSettings(c, s) ==
  /\ Idle(c)
  /\ ~engine[c].running
  /\ s # engine[c].settings
  /\ Changed(c, engine[c], s)
  /\ UNCHANGED <<ui, leftover, proxy, history>>

\* set_traffic_mode with a restart: a start that is refused is undone at once,
\* one that fails later is not.
SwitchMode(c, mode) ==
  LET e    == engine[c]
      old  == e.settings
      new  == [old EXCEPT !.mode = mode]
      down == Stopped([e EXCEPT !.settings = new, !.shown = mode, !.lost = None])
  IN
  /\ Idle(c)
  /\ e.running
  /\ \/ /\ StorageFails
        /\ Become(c, [e EXCEPT !.settings = new])
        /\ UNCHANGED <<disk, proxy, asked, autos>>
     \/ /\ RestoreIf(c, e.proxyOn)
        /\ Ask(c, TRUE)
        /\ \/ /\ Become(c, Spawned(down, old.mode))
              /\ disk' = [disk EXCEPT ![c] = new]
           \/ /\ \E back \in Starts([down EXCEPT !.settings = old, !.shown = old.mode], None) :
                   Become(c, back)
              /\ disk' = [disk EXCEPT ![c] = old]
           \/ /\ StorageFails
              /\ Become(c, [down EXCEPT !.settings = old])
              /\ disk' = [disk EXCEPT ![c] = new]
  /\ UNCHANGED <<ui, leftover, user>>

\* A command that runs in the background and leaves the core alone: node
\* switches, latency tests, subscription updates, downloads.
Occupied(e) ==
  [e EXCEPT !.pending = [kind |-> "other", phase |-> "launched", core |-> None,
                         restarting |-> FALSE, undo |-> None]]

Operate(c) ==
  /\ Idle(c)
  /\ Become(c, Occupied(engine[c]))
  /\ UNCHANGED <<ui, disk, leftover, proxy, history>>

-------------------------------------------------------------------------------
(* The background operation *)

InOperation(c, kind, phase) ==
  /\ engine[c] # None
  /\ Pending(engine[c], kind)
  /\ engine[c].pending.phase = phase

Advance(c, phase, core) ==
  /\ engine' = [engine EXCEPT ![c].pending.phase = phase, ![c].pending.core = core]
  /\ UNCHANGED <<ui, disk, leftover, proxy, history, spent>>

\* start_managed up to the spawned core: the mixed port is probed first; reading
\* the cache, the check and the spawn may fail too.
Launch(c) ==
  LET core == engine[c].pending.core IN
  /\ InOperation(c, "start", "probe")
  /\ \/ Advance(c, "failed", core)
     \/ /\ core.mode = "SystemProxy" => ~PortBusy(core.port)
        /\ Advance(c, "launched", [core EXCEPT !.alive = TRUE])

\* wait_ready: the core answers, or it exits, or it is killed after the timeout.
Settle(c) ==
  LET core == engine[c].pending.core IN
  \/ InOperation(c, "start", "launched") /\ Advance(c, "ready", core)
  \/ /\ InOperation(c, "start", "launched")
     /\ Advance(c, "failed", [core EXCEPT !.alive = FALSE])
  \/ InOperation(c, "other", "launched") /\ Advance(c, "ready", None)

-------------------------------------------------------------------------------
(* The engine's tick *)

FinishOther(c) ==
  /\ Acts(c)
  /\ InOperation(c, "other", "ready")
  /\ Become(c, [engine[c] EXCEPT !.pending = None])
  /\ UNCHANGED <<ui, disk, leftover, proxy, history, spent>>

\* The completion of a start: the engine owns the core, and the proxy follows
\* if auto_system_proxy is set.
FinishStarted(c) ==
  LET core == engine[c].pending.core
      up   == [engine[c] EXCEPT !.child = core, !.pending = None, !.running = TRUE,
                                !.armed = FALSE]
  IN
  /\ Acts(c)
  /\ InOperation(c, "start", "ready")
  /\ \/ Become(c, up) /\ UNCHANGED proxy
     \/ /\ core.mode = "SystemProxy"
        /\ \E o \in EnableOutcomes(c, core.port) :
             Take(c, o) /\ Become(c, [up EXCEPT !.proxyOn = o.ok])
  /\ UNCHANGED <<ui, disk, leftover, history, spent>>

FinishFailed(c) ==
  LET op   == engine[c].pending
      over == [engine[c] EXCEPT !.pending = None,
                                !.lost = IF op.undo = None THEN @ ELSE op.undo]
  IN
  /\ Acts(c)
  /\ InOperation(c, "start", "failed")
  /\ Become(c, IF op.restarting THEN Scheduled(over) ELSE over)
  /\ RestoreIf(c, op.restarting /\ over.proxyOn)
  /\ UNCHANGED <<ui, disk, leftover, history, spent>>

\* Mutant: the proxy keeps pointing at the core that is gone.
DetectOnly(c) ==
  LET e == engine[c] IN
  /\ Acts(c)
  /\ e.running /\ e.child # None /\ ~e.child.alive
  /\ Become(c, [Scheduled(e) EXCEPT !.child = None, !.pending = None])
  /\ UNCHANGED <<ui, disk, leftover, proxy, history, spent>>

\* watch_core_exit: whatever operation is pending is cancelled.
DetectExit(c) ==
  LET e == engine[c] IN
  /\ Acts(c)
  /\ e.running /\ e.child # None /\ ~e.child.alive
  /\ Become(c, [Scheduled(e) EXCEPT !.child = None, !.pending = None])
  /\ RestoreIf(c, e.proxyOn)
  /\ UNCHANGED <<ui, disk, leftover, history, spent>>

\* reset_restarts_after_stable_run
StableRun(c) ==
  LET e == engine[c] IN
  /\ Acts(c)
  /\ e.running /\ e.child # None /\ e.child.alive
  /\ e.attempts > 0
  /\ Become(c, [e EXCEPT !.attempts = 0])
  /\ autos' = [autos EXCEPT ![c] = 0]
  /\ UNCHANGED <<ui, disk, leftover, proxy, user, asked, spent>>

\* Mutant: a start that is refused is not tried again.
AutoRestartOnce(c) ==
  LET due == [engine[c] EXCEPT !.armed = FALSE] IN
  /\ Acts(c)
  /\ ~engine[c].running /\ engine[c].pending = None /\ engine[c].armed
  /\ Become(c, Spawned(due, None)) \/ Become(c, due)
  /\ autos' = [autos EXCEPT ![c] = @ + 1]
  /\ UNCHANGED <<ui, disk, leftover, proxy, user, asked, spent>>

\* The back-off is over.  A start that is refused counts as a failed restart.
AutoRestart(c) ==
  LET due == [engine[c] EXCEPT !.armed = FALSE] IN
  /\ Acts(c)
  /\ ~engine[c].running /\ engine[c].pending = None /\ engine[c].armed
  /\ \/ Become(c, Spawned(due, None)) /\ UNCHANGED proxy
     \/ Become(c, Scheduled(due)) /\ RestoreIf(c, due.proxyOn)
  /\ autos' = [autos EXCEPT ![c] = @ + 1]
  /\ UNCHANGED <<ui, disk, leftover, user, asked, spent>>

\* The poll of a running core updates the subscription when it is due.
AutoUpdate(c) ==
  /\ Acts(c)
  /\ engine[c].running /\ engine[c].pending = None
  /\ Become(c, Occupied(engine[c]))
  /\ UNCHANGED <<ui, disk, leftover, proxy, history, spent>>

-------------------------------------------------------------------------------
(* The user interface and the life of a client *)

\* The first q: the proxy is on, so the user is asked.
AskQuit(c) ==
  /\ engine[c] # None /\ ui[c] = "open" /\ engine[c].proxyOn
  /\ ui' = [ui EXCEPT ![c] = "asked"]
  /\ UNCHANGED <<engine, disk, leftover, proxy, history, spent>>

\* Any other key takes the question back.
AnyKey(c) ==
  /\ ui[c] = "asked"
  /\ ui' = [ui EXCEPT ![c] = "open"]
  /\ UNCHANGED <<engine, disk, leftover, proxy, history, spent>>

\* The loop of the interface ends: the user quit (keeping the proxy after having
\* been asked, or having it restored by the desktop client), or a signal or a
\* terminal error forced it.  The interface restores the proxy itself.
LeaveUI(c) ==
  /\ engine[c] # None /\ ui[c] \in {"open", "asked"}
  /\ ui' = [ui EXCEPT ![c] = "leaving"]
  /\ \/ ui[c] = "asked" /\ UNCHANGED proxy
     \/ RestoreIf(c, engine[c].proxyOn)
  /\ Spend("death")
  /\ UNCHANGED <<engine, disk, leftover, user, asked, autos>>

\* The engine ends its loop: the operation is cancelled, the child is reaped and
\* the proxy is left as it is.
Shutdown(c) ==
  /\ engine[c] # None /\ ui[c] = "leaving"
  /\ Become(c, None)
  /\ Abandon(c, engine[c])
  /\ ui' = [ui EXCEPT ![c] = "closed"]
  /\ asked' = [asked EXCEPT ![c] = FALSE]
  /\ UNCHANGED <<disk, proxy, user, autos, spent>>

\* A kill or a power cut: the guard of the operating system reaps the core, or
\* there is none and the core lives on.
ClientDies(c) ==
  LET e == engine[c] IN
  /\ e # None
  /\ Spend("death")
  /\ Become(c, None)
  /\ ui' = [ui EXCEPT ![c] = "dead"]
  /\ asked' = [asked EXCEPT ![c] = FALSE]
  /\ leftover' \in {leftover,
                    [leftover EXCEPT ![c] = @ \cup Held(e.child) \cup HeldByOperation(e)]}
  /\ UNCHANGED <<disk, proxy, user, autos>>

\* Engine::new: a backup left behind is restored; the automatic start
ClientStart(c) ==
  /\ engine[c] = None
  /\ RestoreIf(c, backup[c] # None)
  /\ \E e \in Starts(Fresh(disk[c]), None) :
       Become(c, e) /\ Ask(c, e.pending # None)
  /\ ui' = [ui EXCEPT ![c] = "open"]
  /\ UNCHANGED <<disk, leftover, user, spent>>

-------------------------------------------------------------------------------
(* The environment *)

\* The core of an engine, or of an operation that has finished, exits.
CoreExits(c) ==
  LET e == engine[c] IN
  /\ e # None
  /\ Spend("crash")
  /\ \/ e.child # None /\ e.child.alive /\ Become(c, [e EXCEPT !.child.alive = FALSE])
     \/ /\ InOperation(c, "start", "ready") /\ e.pending.core.alive
        /\ Become(c, [e EXCEPT !.pending.core.alive = FALSE])
  /\ UNCHANGED <<ui, disk, leftover, proxy, history>>

\* A core nobody owns any more is gone.
PortFreed(c, port) ==
  /\ port \in leftover[c]
  /\ leftover' = [leftover EXCEPT ![c] = @ \ {port}]
  /\ UNCHANGED <<engine, ui, disk, proxy, history, spent>>

\* The user changes the proxy setting while no client has it switched on.
UserSets(v) ==
  /\ Spend("change")
  /\ v # osProxy
  /\ ~ \E c \in Clients : engine[c] # None /\ engine[c].proxyOn
  /\ StaleBackups \/ (osProxy \notin Ports /\ \A c \in Clients : backup[c] = None)
  /\ osProxy' = v
  /\ user' = v
  /\ UNCHANGED <<engine, ui, disk, backup, leftover, asked, autos, stuck>>

-------------------------------------------------------------------------------
Init ==
  /\ engine = [c \in Clients |-> None]
  /\ ui = [c \in Clients |-> "closed"]
  /\ disk \in [Clients -> [mode : {"SystemProxy"}, port : Ports]]
  /\ backup = [c \in Clients |-> None]
  /\ leftover = [c \in Clients |-> {}]
  /\ osProxy \in UserProxies
  /\ user = osProxy
  /\ asked = [c \in Clients |-> FALSE]
  /\ autos = [c \in Clients |-> 0]
  /\ stuck = [c \in Clients |-> FALSE]
  /\ spent = [k \in Events |-> 0]

Commands(c) ==
  \/ StartCore(c) \/ StopCore(c) \/ RestartCore(c) \/ ToggleSystemProxy(c) \/ Operate(c)
  \/ \E s \in Settings : ChangeSettings(c, s)
  \/ \E m \in Modes : SwitchMode(c, m)

Tick(c) ==
  \/ FinishOther(c) \/ FinishStarted(c) \/ FinishFailed(c)
  \/ DetectExit(c) \/ StableRun(c) \/ AutoRestart(c) \/ AutoUpdate(c)

Life(c) ==
  \/ AskQuit(c) \/ AnyKey(c) \/ LeaveUI(c) \/ Shutdown(c) \/ ClientDies(c) \/ ClientStart(c)

Client(c) ==
  \/ Commands(c) \/ Launch(c) \/ Settle(c) \/ Tick(c) \/ Life(c)
  \/ CoreExits(c) \/ \E port \in Ports : PortFreed(c, port)

Next == (\E c \in Clients : Client(c)) \/ (\E v \in UserProxies : UserSets(v))

Spec == Init /\ [][Next]_vars

-------------------------------------------------------------------------------
(* Properties *)

TypeOK ==
  /\ engine \in [Clients -> Engines \cup {None}]
  /\ ui \in [Clients -> {"open", "asked", "leaving", "closed", "dead"}]
  /\ disk \in [Clients -> Settings]
  /\ backup \in [Clients -> Ports \cup UserProxies \cup {None}]
  /\ leftover \in [Clients -> SUBSET Ports]
  /\ osProxy \in Ports \cup UserProxies
  /\ user \in UserProxies
  /\ {asked, stuck} \subseteq [Clients -> BOOLEAN]
  /\ autos \in [Clients -> Nat]
  /\ spent \in [Events -> Nat]

Running(c) == engine[c] # None

\* Stop wins over everything that was under way: a start that completes late, a
\* restart that was armed, a crash detected afterwards.  Nothing runs, starts or
\* waits to start the core of a user whose last request was to stop it.
StoppedStaysStopped ==
  \A c \in Clients : Running(c) /\ ~asked[c] =>
    /\ ~engine[c].running
    /\ ~engine[c].armed
    /\ engine[c].child = None
    /\ ~Pending(engine[c], "start")

\* A client never has two live cores: the one it owns and one being started.
OneCore ==
  \A c \in Clients : Running(c) =>
    ~ /\ engine[c].child # None /\ engine[c].child.alive
      /\ Pending(engine[c], "start") /\ engine[c].pending.core.alive

\* A core that cannot stay up is restarted at most MaxRestarts times after the
\* user's last request or its last stable run, and once more if a restart was
\* already armed when the user asked.
RestartsBounded == \A c \in Clients : autos[c] <= MaxRestarts + 1

\* The proxy never points at nothing: as long as the operating system accepts
\* what the client sets, a proxy at a local port is one the client reports as
\* on, and the core it was last started with listens there.  (The core may have
\* exited since the last poll.)
ProxyServed ==
  osProxy \in Ports =>
    \A c \in Clients : Running(c) /\ ui[c] # "leaving" /\ ~stuck[c] =>
      /\ engine[c].proxyOn
      /\ engine[c].running
      /\ engine[c].child # None
      /\ engine[c].child.mode = "SystemProxy"
      /\ engine[c].child.port = osProxy

\* The user's own setting survives the client: when no client keeps a backup,
\* the proxy is what the user last chose.
UserProxyKept ==
  (\A c \in Clients : backup[c] = None) => osProxy = user

\* set_traffic_mode: "If the restarted core will not come up in the new mode ...
\* the previous mode is restored and started again".
FailedSwitchRestores ==
  \A c \in Clients : Running(c) /\ engine[c].lost # None =>
    engine[c].settings.mode = engine[c].lost

-------------------------------------------------------------------------------
(* Liveness: operations end (every wait in them has a timeout), the engine's  *)
(* interval ticks, and select! does not prefer commands forever.              *)

Fairness ==
  \A c \in Clients :
    /\ WF_vars(Launch(c)) /\ WF_vars(Settle(c))
    /\ WF_vars(FinishOther(c)) /\ WF_vars(FinishStarted(c)) /\ WF_vars(FinishFailed(c))
    /\ WF_vars(DetectExit(c)) /\ WF_vars(AutoRestart(c))
    /\ WF_vars(Shutdown(c))

FairSpec == Spec /\ Fairness

AtRest(e) ==
  /\ ~e.armed
  /\ ~Pending(e, "start")
  /\ e.running => e.child.alive

\* Every client comes to rest: its core runs, or it is down because the user
\* wants it so, because its start failed, or because all restarts are used up;
\* no crash goes unnoticed and no restart is forgotten or tried forever.
ComesToRest ==
  <>[](\A c \in Clients : Running(c) =>
         /\ AtRest(engine[c])
         /\ (asked[c] /\ ~engine[c].running) => engine[c].attempts \in {0, MaxRestarts})
=============================================================================
