------------------------------ MODULE EngineLoop ------------------------------
(***************************************************************************)
(* The loop of the client's engine as an interface sees it: the queue of   *)
(* commands, the gate of the one operation under way, the polls of the     *)
(* core and of its log, and the snapshot that is published.                *)
(*                                                                         *)
(* One task does all of this.  A poll waits for the core at every stage    *)
(* and is dropped at once when a command arrives; an operation runs beside *)
(* it and its result is applied by a later tick.  What a command does to   *)
(* the files is ClientLibrary's matter, what becomes of a core that keeps  *)
(* crashing and of the user's own proxy ClientEngine's.                    *)
(***************************************************************************)
EXTENDS Integers, SequencesExt

CONSTANTS
  None,
  Nodes,        \* the members of the selector group
  Conns,        \* connections of the applications
  Names,        \* names of profiles
  FirstList,    \* the profiles at first; the first one is active and has an override
  AutoProxy,    \* the setting auto_system_proxy
  RingSize,     \* lines of the log that are kept for display
  ReadLimit     \* lines of the log that one poll reads

VARIABLES
  queue,    \* commands on their way to the engine
  engine,   \* its memory beside the snapshot; None after it has ended
  snap,     \* ClientSnapshot, published
  poll,     \* the stage of the poll, and the answer that is on its way
  core,     \* the core process
  logFile,  \* cache/core.log, as numbered lines of a run
  osProxy,  \* the operating system's proxy points at the client's port
  left      \* bound: the cores that may still be started, the lines they may write, the
            \* failures and crashes that may come, the changes of their connections

loopVars == <<queue, engine, snap, poll, core, logFile, osProxy, left>>

Modes == {"SystemProxy", "Tun"}

\* Nothing is no name and no mode, there are profiles at first, and the log is read and
\* displayed in parts of some size.
ASSUME LoopAssumption ==
  /\ None \notin Names \cup Modes
  /\ FirstList \in Seq(Names) /\ FirstList # <<>>
  /\ RingSize \in Nat /\ ReadLimit \in Nat

Other(mode) == IF mode = "Tun" THEN "SystemProxy" ELSE "Tun"

NoCore == [run |-> 0, alive |-> FALSE, node |-> None, conns |-> <<>>, written |-> 0]
NoPoll == [stage |-> "none", answer |-> None]

Op(kind, of) == [kind |-> kind, of |-> of, phase |-> "running", restarting |-> FALSE]

\* The core is started at once when auto_start says so.
FirstEngine(auto) ==
  [child |-> 0, op |-> IF auto THEN Op("start", None) ELSE None, offset |-> 0, armed |-> FALSE,
   overrides |-> [n \in Names |-> IF n = FirstList[1] THEN "file" ELSE None]]

FirstSnapshot(auto) ==
  [running |-> FALSE, starting |-> auto, busy |-> auto, list |-> FirstList, active |-> FirstList[1],
   links |-> [n \in Names |-> IF n = FirstList[1] THEN n ELSE None],
   override |-> FirstEngine(auto).overrides[FirstList[1]], mode |-> "SystemProxy",
   port |-> 1, proxy |-> FALSE, groups |-> None, conns |-> [run |-> 0, rows |-> <<>>],
   memory |-> 0, logs |-> <<>>, status |-> "ready"]

LoopInit(budget, auto) ==
  /\ queue = <<>>
  /\ engine = FirstEngine(auto)
  /\ snap = FirstSnapshot(auto)
  /\ poll = NoPoll
  /\ core = NoCore
  /\ logFile = <<>>
  /\ osProxy = FALSE
  /\ left = budget

Alive == engine # None
Failure == left.failures > 0 /\ left' = [left EXCEPT !.failures = @ - 1]

-------------------------------------------------------------------------------
(* The core *)

CoreDies ==
  /\ core.alive
  /\ core' = [core EXCEPT !.alive = FALSE]
  /\ Failure
  /\ UNCHANGED <<queue, engine, snap, poll, logFile, osProxy>>

CoreWrites ==
  /\ core.alive
  /\ left.lines > 0
  /\ left' = [left EXCEPT !.lines = @ - 1]
  /\ core' = [core EXCEPT !.written = @ + 1]
  /\ logFile' = Append(logFile, <<core.run, core.written + 1>>)
  /\ UNCHANGED <<queue, engine, snap, poll, osProxy>>

\* Applications have connections open from the first, they close, and their order changes
\* with their traffic.
ConnectionsChange ==
  /\ core.alive
  /\ core.conns # <<>>
  /\ \E rows \in {Reverse(core.conns), Tail(core.conns)} : core' = [core EXCEPT !.conns = rows]
  /\ left.changes > 0
  /\ left' = [left EXCEPT !.changes = @ - 1]
  /\ UNCHANGED <<queue, engine, snap, poll, logFile, osProxy>>

-------------------------------------------------------------------------------
(* The operation under way *)

OpIn(phases) == Alive /\ engine.op # None /\ engine.op.phase \in phases

Ended(phase) == engine' = [engine EXCEPT !.op.phase = phase]

\* A start empties the log and launches the core; another request reaches the core.
OpActs ==
  /\ OpIn({"running"})
  /\ \/ /\ engine.op.kind = "start"
        /\ left.runs > 0
        /\ core' = [NoCore EXCEPT !.run = core.run + 1, !.alive = TRUE,
                            !.node = CHOOSE n \in Nodes : TRUE, !.conns = SetToSeq(Conns)]
        /\ logFile' = <<>>
        /\ left' = [left EXCEPT !.runs = @ - 1]
        /\ Ended("acted")
     \/ /\ engine.op.kind = "select"
        /\ core.alive
        /\ core' = [core EXCEPT !.node = engine.op.of]
        /\ Ended("acted")
        /\ UNCHANGED <<logFile, left>>
     \/ /\ engine.op.kind = "close"
        /\ core.alive
        /\ core' = [core EXCEPT !.conns = SelectSeq(@, LAMBDA c : c \notin engine.op.of)]
        /\ Ended("acted")
        /\ UNCHANGED <<logFile, left>>
     \/ /\ engine.op.kind = "fetch"
        /\ Ended("acted")
        /\ UNCHANGED <<core, logFile, left>>
  /\ UNCHANGED <<queue, snap, poll, osProxy>>

\* The answer arrives, or the operation has failed: a start kills its core then.
OpEnds ==
  /\ OpIn({"running", "acted"})
  /\ \/ /\ engine.op.phase = "acted"
        /\ engine.op.kind # "fetch" => core.alive
        /\ Ended("done")
        /\ UNCHANGED <<core, left>>
     \/ /\ Ended("failed")
        /\ IF engine.op.kind = "start"
           THEN core' = [core EXCEPT !.alive = FALSE] ELSE UNCHANGED core
        /\ IF engine.op.kind # "fetch" /\ ~core.alive THEN UNCHANGED left ELSE Failure
  /\ UNCHANGED <<queue, snap, poll, logFile, osProxy>>

-------------------------------------------------------------------------------
(* The tick *)

\* Mutant: the restart leaves the groups of the core that is gone.
WithoutCoreKept(s) ==
  [s EXCEPT !.running = FALSE, !.memory = 0, !.conns = [run |-> 0, rows |-> <<>>], !.proxy = FALSE]

\* What the snapshot says when no core runs.
WithoutCore(s) ==
  [s EXCEPT !.running = FALSE, !.memory = 0, !.groups = None,
            !.conns = [run |-> 0, rows |-> <<>>], !.proxy = FALSE]

\* schedule_restart: either another attempt is armed, or all are used up.
Scheduled(e, s) ==
  /\ \E arms \in BOOLEAN : engine' = [e EXCEPT !.armed = arms]
  /\ snap' = [WithoutCore(s) EXCEPT !.status = "crashed"]
  /\ osProxy' = (osProxy /\ ~s.proxy)

\* Mutant: the reader goes on where it was in the log of the core before.
StartedKeepingOffset(e, run) == [e EXCEPT !.op = None, !.child = run, !.armed = FALSE]

\* The completion of a start.
Started(e, run) == [e EXCEPT !.op = None, !.child = run, !.armed = FALSE, !.offset = 0]

\* finish_operation, at the tick; the poll begins after it.
Tick ==
  /\ Alive
  /\ poll.stage = "none"
  /\ poll' = [NoPoll EXCEPT !.stage = "begin"]
  /\ LET op   == engine.op
         over == [engine EXCEPT !.op = None]
         done == [snap EXCEPT !.starting = FALSE, !.busy = FALSE]
     IN  \/ /\ ~OpIn({"done", "failed"})
            /\ UNCHANGED <<engine, snap, osProxy>>
         \/ /\ OpIn({"failed"})
            /\ IF op.restarting THEN Scheduled(over, done)
               ELSE /\ engine' = over
                    /\ snap' = [done EXCEPT !.status = "failed"]
                    /\ UNCHANGED osProxy
         \/ /\ OpIn({"done"}) /\ op.kind = "start"
            /\ LET proxied == AutoProxy /\ snap.mode = "SystemProxy"
               IN  /\ engine' = Started(engine, core.run)
                   /\ snap' = [done EXCEPT !.running = TRUE, !.logs = <<>>,
                                 !.override = engine.overrides[snap.active],
                                 !.proxy = @ \/ proxied, !.status = "started"]
                   /\ osProxy' = (osProxy \/ proxied)
         \/ /\ OpIn({"done"}) /\ op.kind = "select"
            /\ engine' = over
            /\ snap' = [done EXCEPT !.groups = IF @ = None THEN None ELSE [@ EXCEPT !.node = op.of],
                                    !.status = "selected"]
            /\ UNCHANGED osProxy
         \/ /\ OpIn({"done"}) /\ op.kind \in {"close", "fetch"}
            /\ engine' = over
            /\ snap' = [done EXCEPT !.status = op.kind]
            /\ UNCHANGED osProxy
  /\ UNCHANGED <<queue, core, logFile, left>>

LastOf(seq, n) == SubSeq(seq, IF Len(seq) > n THEN Len(seq) - n + 1 ELSE 1, Len(seq))

\* tail_core_log: a file shorter than what has been read is a new one.
TailFrom(offset) == IF Len(logFile) < offset THEN 0 ELSE offset
TailTo(offset)   == IF Len(logFile) - offset > ReadLimit THEN offset + ReadLimit ELSE Len(logFile)

Tailed(s, offset) ==
  [s EXCEPT !.logs = LastOf(@ \o SubSeq(logFile, offset + 1, TailTo(offset)), RingSize)]

\* A restart that is due, and its operation.
Due(e)  == e.armed /\ e.op = None
StartOp == [Op("start", None) EXCEPT !.restarting = TRUE]

\* The first, synchronous part of a poll: the log, the exit of the core, a restart that
\* is due.
PollBegins ==
  /\ Alive
  /\ poll.stage = "begin"
  /\ LET from == TailFrom(engine.offset)
         e    == [engine EXCEPT !.offset = TailTo(from)]
         s    == Tailed(snap, from)
     IN  \/ /\ snap.running /\ core.run = engine.child /\ ~core.alive
            /\ Scheduled([e EXCEPT !.child = 0, !.op = None], [s EXCEPT !.starting = FALSE, !.busy = FALSE])
            /\ poll' = NoPoll
         \/ /\ snap.running /\ core.alive
            /\ engine' = e /\ snap' = s
            /\ poll' = [poll EXCEPT !.stage = "connections"]
            /\ UNCHANGED osProxy
         \/ /\ ~snap.running
            /\ ~Due(e)
            /\ engine' = e
            /\ snap' = [s EXCEPT !.groups = None]
            /\ poll' = NoPoll
            /\ UNCHANGED osProxy
         \/ /\ ~snap.running
            /\ Due(e)
            /\ IF s.active = None THEN Scheduled([e EXCEPT !.armed = FALSE], s)
               ELSE /\ engine' = [e EXCEPT !.armed = FALSE, !.op = StartOp]
                    /\ snap' = [s EXCEPT !.groups = None, !.starting = TRUE, !.busy = TRUE]
                    /\ UNCHANGED osProxy
            /\ poll' = NoPoll
  /\ UNCHANGED <<queue, core, logFile, left>>

NextStage == [connections |-> "memory", memory |-> "proxies", proxies |-> "none"]

\* The core answers what it knows now, or the request fails.
NoAnswer == [run |-> 0, node |-> None, rows |-> <<>>]
Answers ==
  IF core.alive
  THEN {[run |-> core.run, node |-> core.node, rows |-> core.conns]}
       \cup (IF left.failures > 0 THEN {NoAnswer} ELSE {})
  ELSE {NoAnswer}

PollAsks ==
  /\ Alive
  /\ poll.stage \in DOMAIN NextStage /\ poll.answer = None
  /\ \E answer \in Answers :
       /\ poll' = [poll EXCEPT !.answer = answer]
       /\ IF answer = NoAnswer /\ core.alive THEN Failure ELSE UNCHANGED left
  /\ UNCHANGED <<queue, engine, snap, core, logFile, osProxy>>

\* refresh_connections, refresh_traffic and memory, refresh_proxies
Refreshed(s, stage, answer) ==
  CASE stage = "connections" ->
         IF answer = NoAnswer THEN [s EXCEPT !.status = "refresh failed"]
         ELSE [s EXCEPT !.conns = [run |-> answer.run, rows |-> answer.rows]]
    [] stage = "memory" -> [s EXCEPT !.memory = IF answer = NoAnswer THEN 0 ELSE answer.run]
    [] stage = "proxies" ->
         IF answer = NoAnswer THEN [s EXCEPT !.status = "refresh failed"]
         ELSE [s EXCEPT !.groups = [run |-> answer.run, node |-> answer.node]]

PollStores ==
  /\ Alive
  /\ poll.stage \in DOMAIN NextStage /\ poll.answer # None
  /\ snap' = Refreshed(snap, poll.stage, poll.answer)
  /\ poll' = [stage |-> NextStage[poll.stage], answer |-> None]
  /\ UNCHANGED <<queue, engine, core, logFile, osProxy, left>>

\* A stage that is not due yet.
PollSkips ==
  /\ Alive
  /\ poll.stage \in DOMAIN NextStage /\ poll.answer = None
  /\ poll' = [poll EXCEPT !.stage = NextStage[@]]
  /\ UNCHANGED <<queue, engine, snap, core, logFile, osProxy, left>>

-------------------------------------------------------------------------------
(* Commands *)

Cmd(what, of, value) == [what |-> what, of |-> of, value |-> value]

\* cancel_operation aborts a start together with the core it has launched, and reap_child
\* the engine's own.
Stopped(e) == [e EXCEPT !.op = None, !.child = 0, !.armed = FALSE]
StoppedCore == [core EXCEPT !.alive = FALSE]
StoppedSnap(s) == [WithoutCore(s) EXCEPT !.starting = FALSE, !.busy = FALSE, !.status = "stopped"]

NeedsCore == {"SwitchNode", "CloseConnection", "CloseAllConnections"}

Refuse == snap' = [snap EXCEPT !.status = "refused"] /\ UNCHANGED <<engine, core, osProxy>>

\* start_core, from the engine e and snapshot s
Starting(e, s) ==
  IF s.running \/ s.starting \/ s.active = None
  THEN /\ engine' = e
       /\ snap' = IF s.active = None THEN [s EXCEPT !.status = "refused"] ELSE s
  ELSE /\ engine' = [e EXCEPT !.op = Op("start", None)]
       /\ snap' = [s EXCEPT !.starting = TRUE, !.busy = TRUE]

Spawn(kind, of) ==
  /\ engine' = [engine EXCEPT !.op = Op(kind, of)]
  /\ snap' = [snap EXCEPT !.busy = TRUE]
  /\ UNCHANGED <<core, osProxy>>

Has(name) == \E i \in DOMAIN snap.list : snap.list[i] = name

\* Names are unique.
Without(name) == RemoveAt(snap.list, CHOOSE i \in DOMAIN snap.list : snap.list[i] = name)

\* The memory after the active profile or an override has changed: refresh_override.
Refreshing(e, s, status) ==
  /\ engine' = e
  /\ snap' = [s EXCEPT !.override = IF s.active = None THEN None ELSE e.overrides[s.active],
                       !.status = status]
  /\ UNCHANGED <<core, osProxy>>

Apply(c) ==
  \/ /\ c.what \in NeedsCore /\ ~snap.running
     /\ Refuse
  \/ /\ c.what = "StartCore"
     /\ Starting(engine, snap)
     /\ UNCHANGED <<core, osProxy>>
  \/ /\ c.what = "StopCore"
     /\ engine' = Stopped(engine)
     /\ core' = StoppedCore
     /\ snap' = StoppedSnap(snap)
     /\ osProxy' = (osProxy /\ ~snap.proxy)
  \/ /\ c.what = "RestartCore"
     /\ Starting(Stopped(engine), StoppedSnap(snap))
     /\ core' = StoppedCore
     /\ osProxy' = (osProxy /\ ~snap.proxy)
  \/ /\ c.what = "ToggleSystemProxy"
     /\ \/ /\ ~snap.proxy /\ (snap.mode = "Tun" \/ ~snap.running)
           /\ Refuse
        \/ /\ snap.proxy \/ (snap.mode # "Tun" /\ snap.running)
           /\ snap' = [snap EXCEPT !.proxy = ~@, !.status = "proxy"]
           /\ osProxy' = ~snap.proxy
           /\ UNCHANGED <<engine, core>>
  \/ /\ c.what = "SetTrafficMode"
     /\ IF snap.running
        THEN /\ Starting(Stopped(engine), [StoppedSnap(snap) EXCEPT !.mode = c.of])
             /\ core' = StoppedCore
             /\ osProxy' = (osProxy /\ ~snap.proxy)
        ELSE /\ snap' = [snap EXCEPT !.mode = c.of, !.status = "mode"]
             /\ UNCHANGED <<engine, core, osProxy>>
  \/ /\ c.what = "SwitchNode" /\ snap.running
     /\ Spawn("select", c.of)
  \/ /\ c.what = "CloseConnection" /\ snap.running
     /\ Spawn("close", {c.of})
  \/ /\ c.what = "CloseAllConnections" /\ snap.running
     /\ Spawn("close", Conns)
  \/ /\ c.what = "UpdateSubscription"
     /\ IF snap.active = None THEN Refuse ELSE Spawn("fetch", snap.active)
  \/ /\ c.what = "UpdateSettings"
     /\ IF snap.running THEN Refuse
        ELSE /\ snap' = [snap EXCEPT ![c.of] = c.value, !.status = "saved"]
             /\ UNCHANGED <<engine, core, osProxy>>
  \/ /\ c.what \in {"SwitchProfile", "RemoveProfile", "SetProfileUrl", "SetOverride", "ClearOverride"}
     /\ ~Has(c.of) \/ (c.what = "RemoveProfile" /\ snap.running /\ snap.active = c.of)
     /\ Refuse
  \/ /\ c.what = "SwitchProfile" /\ Has(c.of)
     /\ Refreshing(engine, [snap EXCEPT !.active = c.of], "switched")
  \/ /\ c.what = "RemoveProfile" /\ Has(c.of) /\ ~(snap.running /\ snap.active = c.of)
     /\ LET list == Without(c.of)
        IN  Refreshing([engine EXCEPT !.overrides[c.of] = None],
                       [snap EXCEPT !.list = list, !.links[c.of] = None,
                          !.active = IF @ # c.of THEN @ ELSE IF list = <<>> THEN None ELSE list[1]],
                       "removed")
  \/ /\ c.what = "SetProfileUrl" /\ Has(c.of)
     /\ Refreshing(engine, [snap EXCEPT !.links[c.of] = c.value], "link saved")
  \/ /\ c.what = "SetOverride" /\ Has(c.of)
     /\ Refreshing([engine EXCEPT !.overrides[c.of] = c.value], snap, "override saved")
  \/ /\ c.what = "ClearOverride" /\ Has(c.of)
     /\ Refreshing([engine EXCEPT !.overrides[c.of] = None], snap, "override cleared")

\* The engine takes a command and drops the poll.  While an operation is under way all but
\* a stop and a restart are refused; an interface that leaves is never refused.
Take ==
  /\ Alive
  /\ queue # <<>>
  /\ queue' = Tail(queue)
  /\ poll' = NoPoll
  /\ LET c == Head(queue)
     IN  \/ /\ c.what = "Shutdown"
            /\ engine' = None
            /\ core' = StoppedCore
            /\ UNCHANGED <<snap, osProxy>>
         \/ /\ c.what # "Shutdown"
            /\ engine.op # None /\ c.what \notin {"StopCore", "RestartCore"}
            /\ snap' = [snap EXCEPT !.status = "busy"]
            /\ UNCHANGED <<engine, core, osProxy>>
         \/ /\ c.what # "Shutdown"
            /\ engine.op = None \/ c.what \in {"StopCore", "RestartCore"}
            /\ Apply(c)
  /\ UNCHANGED <<logFile, left>>

LoopNext ==
  \/ CoreDies \/ CoreWrites \/ ConnectionsChange
  \/ OpActs \/ OpEnds
  \/ Tick \/ PollBegins \/ PollAsks \/ PollStores \/ PollSkips
  \/ Take

-------------------------------------------------------------------------------
(* Properties *)

\* What is shown of a core is of the one that runs: not of the one before, whose answers
\* may have been on their way when it crashed or was stopped; and of none when none runs
\* (schedule_restart, stop_core, poll).
ShowsOwnRun ==
  Alive =>
    /\ snap.groups # None => snap.running /\ snap.groups.run = engine.child
    /\ snap.conns.run # 0 => snap.running /\ snap.conns.run = engine.child
    /\ snap.memory # 0 => snap.running /\ snap.memory = engine.child

\* Every line a running core has logged is shown once and in order, up to the last line
\* read, whatever earlier launches have left behind; only lines beyond the size of the
\* ring are gone (tail_core_log).
LogShownOnce ==
  Alive /\ snap.running =>
    snap.logs = LastOf(SubSeq(logFile, 1, engine.offset), RingSize)

\* The engine's tasks go on: its operations have timeouts, its interval ticks, each
\* stage of the poll becomes due again, and commands end.
LoopFairness ==
  /\ WF_loopVars(OpActs) /\ WF_loopVars(OpEnds)
  /\ WF_loopVars(Tick) /\ WF_loopVars(PollBegins)
  /\ \A stage \in DOMAIN NextStage : SF_loopVars(PollAsks /\ poll.stage = stage)
  /\ WF_loopVars(PollStores)
  /\ WF_loopVars(Take)
=============================================================================
