-------------------------- MODULE ClientEngineProofs --------------------------
(***************************************************************************)
(* What is proved of ClientEngine: for any number of clients, ports and    *)
(* failures, type correctness, that a stop wins over everything under way, *)
(* that a client has one live core and that automatic restarts are         *)
(* bounded; for a single client under the named assumptions of the runs,   *)
(* that the proxy points at a core and that the user's own setting is      *)
(* kept.                                                                   *)
(***************************************************************************)
EXTENDS ClientEngine, TLAPS

-------------------------------------------------------------------------------
(* The invariants *)

\* An engine's memory: a start is only under way without a core, the engine
\* runs exactly as long as it has a core, and only then is its proxy on.
Coherent(e) ==
  /\ Pending(e, "start") => ~e.running /\ e.pending.core \in Cores
  /\ e.running => e.child \in Cores
  /\ ~e.running => e.child = None
  /\ e.proxyOn => e.running

\* Its relation to the user's last request.  A restart that is armed has been
\* counted in the attempts and not yet in the automatic restarts.
Requested(e, wanted, restarts) ==
  /\ wanted \/ (~e.running /\ ~e.armed /\ ~Pending(e, "start"))
  /\ restarts <= e.attempts + 1
  /\ e.armed => restarts <= e.attempts

Good(c) ==
  /\ Running(c) => Coherent(engine[c]) /\ Requested(engine[c], asked[c], autos[c])
  /\ autos[c] <= MaxRestarts + 1

IInv == TypeOK /\ \A c \in Clients : Good(c)

\* The settings a core runs with are the ones the engine shows and would use
\* for the next start.
SameSettings(e) ==
  /\ e.settings.mode = e.shown
  /\ e.running => e.child.mode = e.settings.mode /\ e.child.port = e.settings.port
  /\ Pending(e, "start") =>
       e.pending.core.mode = e.settings.mode /\ e.pending.core.port = e.settings.port

\* A proxy that is on has a backup, and a proxy at a port is on.
ProxyOwned(e, c) ==
  /\ e.proxyOn => backup[c] # None
  /\ osProxy \in Ports /\ ~stuck[c] =>
       /\ e.proxyOn
       /\ e.settings.mode = "SystemProxy"
       /\ e.settings.port = osProxy

BackupIsUsers(c) ==
  /\ backup[c] = None => osProxy = user
  /\ backup[c] # None => backup[c] = user

ProxyInv ==
  \A c \in Clients :
    /\ BackupIsUsers(c)
    /\ Running(c) => SameSettings(engine[c])
    /\ Running(c) /\ ui[c] # "leaving" => ProxyOwned(engine[c], c)

-------------------------------------------------------------------------------
(* What the operators on an engine preserve *)

EnginePart == engine \in [Clients -> Engines \cup {None}]

ProxyPart ==
  /\ backup \in [Clients -> Ports \cup UserProxies \cup {None}]
  /\ osProxy \in Ports \cup UserProxies
  /\ stuck \in [Clients -> BOOLEAN]

OtherPart ==
  /\ ui \in [Clients -> {"open", "asked", "leaving", "closed", "dead"}]
  /\ disk \in [Clients -> Settings]
  /\ leftover \in [Clients -> SUBSET Ports]
  /\ user \in UserProxies
  /\ asked \in [Clients -> BOOLEAN]
  /\ autos \in [Clients -> Nat]
  /\ spent \in [Events -> Nat]

LEMMA TypeParts == TypeOK <=> EnginePart /\ ProxyPart /\ OtherPart
BY DEF TypeOK, EnginePart, ProxyPart, OtherPart

LEMMA MaxRestartsType == MaxRestarts \in Nat
BY ClientAssumption

LEMMA FreshSound ==
  ASSUME NEW s \in Settings, NEW a \in BOOLEAN
  PROVE  /\ Fresh(s) \in Engines
         /\ Coherent(Fresh(s))
         /\ Fresh(s).pending = None
         /\ Requested(Fresh(s), a, 0)
BY ClientAssumption DEF Fresh, Engines, Settings, Coherent, Requested, Pending

LEMMA SpawnedSound ==
  ASSUME NEW e \in Engines, NEW undo \in Modes \cup {None}, Coherent(e), ~e.running
  PROVE  /\ Spawned(e, undo) \in Engines
         /\ Coherent(Spawned(e, undo))
         /\ \A n : Requested(e, TRUE, n) => Requested(Spawned(e, undo), TRUE, n)
<1> DEFINE core == [mode |-> e.settings.mode, port |-> e.settings.port, alive |-> FALSE]
           op == [kind |-> "start", phase |-> "probe", core |-> core,
                  restarting |-> e.attempts > 0, undo |-> undo]
<1>1. core \in Cores
  BY DEF Engines, Settings, Cores
<1>2. op \in Ops
  BY <1>1 DEF Ops
<1>3. Spawned(e, undo) = [e EXCEPT !.pending = op]
  BY DEF Spawned
<1>4. Spawned(e, undo) \in Engines
  BY <1>2, <1>3 DEF Engines
<1>5. /\ Spawned(e, undo).pending = op
      /\ Spawned(e, undo).running = e.running
      /\ Spawned(e, undo).child = e.child
      /\ Spawned(e, undo).proxyOn = e.proxyOn
      /\ Spawned(e, undo).armed = e.armed
      /\ Spawned(e, undo).attempts = e.attempts
  BY <1>3 DEF Engines
<1>6. op.core = core
  OBVIOUS
<1>7. Coherent(Spawned(e, undo))
  BY <1>1, <1>5, <1>6 DEF Coherent
<1> QED  BY <1>4, <1>5, <1>7 DEF Requested

LEMMA StartsSound ==
  ASSUME NEW e \in Engines, NEW undo \in Modes \cup {None}, Coherent(e),
         NEW f \in Starts(e, undo)
  PROVE  /\ f \in Engines
         /\ Coherent(f)
         /\ \A n : Requested(e, TRUE, n) => Requested(f, TRUE, n)
BY SpawnedSound DEF Starts

LEMMA StoppedSound ==
  ASSUME NEW e \in Engines, NEW a \in BOOLEAN
  PROVE  /\ Stopped(e) \in Engines
         /\ Coherent(Stopped(e))
         /\ ~Stopped(e).running
         /\ Requested(Stopped(e), a, 0)
<1>1. Stopped(e) \in Engines
  <2> DEFINE e1 == [e EXCEPT !.running = FALSE, !.child = None]
             e2 == [e1 EXCEPT !.pending = None]
             e3 == [e2 EXCEPT !.attempts = 0]
             e4 == [e3 EXCEPT !.armed = FALSE, !.proxyOn = FALSE]
  <2>1. e1 \in Engines
    BY DEF Engines
  <2>2. \A x \in Engines : [x EXCEPT !.pending = None] \in Engines
    BY DEF Engines
  <2>3. \A x \in Engines, n \in 0..MaxRestarts : [x EXCEPT !.attempts = n] \in Engines
    BY DEF Engines
  <2>4. \A x \in Engines : [x EXCEPT !.armed = FALSE, !.proxyOn = FALSE] \in Engines
    BY DEF Engines
  <2>5. 0 \in 0..MaxRestarts
    BY MaxRestartsType
  <2>6. e3 \in Engines
    BY <2>1, <2>2, <2>3, <2>5
  <2>7. e4 \in Engines
    BY <2>4, <2>6
  <2> QED  BY <2>7 DEF Stopped
<1>2. /\ Stopped(e).running = FALSE
      /\ Stopped(e).child = None
      /\ Stopped(e).pending = None
      /\ Stopped(e).attempts = 0
      /\ Stopped(e).armed = FALSE
      /\ Stopped(e).proxyOn = FALSE
  BY DEF Stopped, Engines
<1> QED  BY <1>1, <1>2 DEF Coherent, Requested, Pending

LEMMA ScheduledFields ==
  ASSUME NEW e \in Engines
  PROVE  /\ Scheduled(e) \in Engines
         /\ Scheduled(e).running = FALSE
         /\ Scheduled(e).child = e.child
         /\ Scheduled(e).pending = e.pending
         /\ Scheduled(e).proxyOn = FALSE
         /\ Scheduled(e).armed => e.attempts < MaxRestarts
         /\ Scheduled(e).attempts
              = IF e.attempts < MaxRestarts THEN e.attempts + 1 ELSE e.attempts
<1> DEFINE e1 == [e EXCEPT !.running = FALSE, !.proxyOn = FALSE]
           e2 == [e1 EXCEPT !.armed = e.attempts < MaxRestarts]
           more == IF e.attempts < MaxRestarts THEN e.attempts + 1 ELSE e.attempts
<1>1. Scheduled(e) \in Engines
  <2>1. e1 \in Engines
    BY DEF Engines
  <2>2. \A x \in Engines, b \in BOOLEAN : [x EXCEPT !.armed = b] \in Engines
    BY DEF Engines
  <2>3. \A x \in Engines, n \in 0..MaxRestarts : [x EXCEPT !.attempts = n] \in Engines
    BY DEF Engines
  <2>4. (e.attempts < MaxRestarts) \in BOOLEAN
    OBVIOUS
  <2>5. e2 \in Engines
    BY <2>1, <2>2, <2>4
  <2>6. more \in 0..MaxRestarts
    BY MaxRestartsType DEF Engines
  <2>7. [e2 EXCEPT !.attempts = more] \in Engines
    BY <2>3, <2>5, <2>6
  <2>8. Scheduled(e) = [e2 EXCEPT !.attempts = more]
    BY DEF Scheduled
  <2> QED  BY <2>7, <2>8
<1>2. /\ Scheduled(e).running = FALSE
      /\ Scheduled(e).child = e.child
      /\ Scheduled(e).pending = e.pending
      /\ Scheduled(e).proxyOn = FALSE
      /\ Scheduled(e).armed = (e.attempts < MaxRestarts)
      /\ Scheduled(e).attempts = more
  BY DEF Scheduled, Engines
<1>3. Scheduled(e).armed => e.attempts < MaxRestarts
  BY <1>2
<1> QED  BY <1>1, <1>2, <1>3

LEMMA ScheduledSound ==
  ASSUME NEW e \in Engines, NEW n \in Nat, e.child = None, e.pending = None,
         n <= e.attempts + 1
  PROVE  /\ Scheduled(e) \in Engines
         /\ Coherent(Scheduled(e))
         /\ Requested(Scheduled(e), TRUE, n)
<1>1. /\ Scheduled(e).running = FALSE
      /\ Scheduled(e).child = None
      /\ Scheduled(e).pending = None
      /\ Scheduled(e).proxyOn = FALSE
  BY ScheduledFields
<1>2. Coherent(Scheduled(e))
  BY <1>1 DEF Coherent, Pending
<1>3. Requested(Scheduled(e), TRUE, n)
  <2>1. e.attempts \in 0..MaxRestarts
    BY DEF Engines
  <2>2. Scheduled(e).armed => e.attempts < MaxRestarts
    BY ScheduledFields
  <2>3. Scheduled(e).attempts
          = IF e.attempts < MaxRestarts THEN e.attempts + 1 ELSE e.attempts
    BY ScheduledFields
  <2> QED  BY <2>1, <2>2, <2>3, MaxRestartsType DEF Requested
<1> QED  BY <1>2, <1>3, ScheduledFields

LEMMA OccupiedSound ==
  ASSUME NEW e \in Engines, Coherent(e), NEW a, NEW n, Requested(e, a, n)
  PROVE  /\ Occupied(e) \in Engines
         /\ Coherent(Occupied(e))
         /\ Requested(Occupied(e), a, n)
<1> DEFINE op == [kind |-> "other", phase |-> "launched", core |-> None,
                  restarting |-> FALSE, undo |-> None]
<1>1. op \in Ops
  BY DEF Ops
<1>2. Occupied(e) = [e EXCEPT !.pending = op]
  BY DEF Occupied
<1>3. Occupied(e) \in Engines
  BY <1>1, <1>2 DEF Engines
<1>4. /\ Occupied(e).pending = op
      /\ Occupied(e).running = e.running
      /\ Occupied(e).child = e.child
      /\ Occupied(e).proxyOn = e.proxyOn
      /\ Occupied(e).armed = e.armed
      /\ Occupied(e).attempts = e.attempts
  BY <1>2 DEF Engines
<1>5. op.kind # "start"
  OBVIOUS
<1> QED  BY <1>3, <1>4, <1>5 DEF Coherent, Requested, Pending

LEMMA HeldType ==
  ASSUME NEW e \in Engines
  PROVE  /\ Held(e.child) \subseteq Ports
         /\ HeldByOperation(e) \subseteq Ports
BY DEF Held, HeldByOperation, Engines, Ops, Cores

LEMMA AbandonType ==
  ASSUME OtherPart, NEW c \in Clients, NEW e \in Engines, Abandon(c, e)
  PROVE  leftover' \in [Clients -> SUBSET Ports]
BY HeldType DEF Abandon, OtherPart

-------------------------------------------------------------------------------
(* Typing of attempts at the proxy *)

Outcomes == [ok : BOOLEAN, os : Ports \cup UserProxies,
             saved : Ports \cup UserProxies \cup {None}]

LEMMA EnableType ==
  ASSUME ProxyPart, NEW c \in Clients, NEW port \in Ports
  PROVE  EnableOutcomes(c, port) \subseteq Outcomes
<1>1. Captures(c) \subseteq Ports \cup UserProxies \cup {None}
  BY DEF Captures, ProxyPart
<1> SUFFICES ASSUME NEW s \in Captures(c)
             PROVE  /\ [ok |-> TRUE, os |-> port, saved |-> s] \in Outcomes
                    /\ [ok |-> FALSE, os |-> osProxy, saved |-> s] \in Outcomes
  BY DEF EnableOutcomes
<1> QED  BY <1>1 DEF Outcomes, ProxyPart

LEMMA DisableType ==
  ASSUME ProxyPart, NEW c \in Clients
  PROVE  DisableOutcomes(c) \subseteq Outcomes
<1>1. [ok |-> FALSE, os |-> osProxy, saved |-> backup[c]] \in Outcomes
  BY DEF Outcomes, ProxyPart
<1>2. [ok |-> TRUE, os |-> IF backup[c] # None THEN backup[c] ELSE Off, saved |-> None]
        \in Outcomes
  BY ClientAssumption DEF Outcomes, ProxyPart
<1> QED  BY <1>1, <1>2 DEF DisableOutcomes, Refused

LEMMA TakeType ==
  ASSUME ProxyPart, NEW c \in Clients, NEW o \in Outcomes, Take(c, o)
  PROVE  ProxyPart'
BY DEF ProxyPart, Take, Outcomes

LEMMA RestoreIfType ==
  ASSUME ProxyPart, NEW c \in Clients, NEW on, RestoreIf(c, on)
  PROVE  ProxyPart'
<1>1. CASE on
  BY <1>1, DisableType, TakeType DEF RestoreIf
<1>2. CASE ~on
  BY <1>2 DEF RestoreIf, proxy, ProxyPart
<1> QED  BY <1>1, <1>2

LEMMA SameProxy ==
  ASSUME ProxyPart, UNCHANGED proxy
  PROVE  ProxyPart'
BY DEF proxy, ProxyPart

LEMMA SpendType ==
  ASSUME OtherPart, NEW k \in Events, Spend(k)
  PROVE  spent' \in [Events -> Nat]
BY DEF Spend, OtherPart

-------------------------------------------------------------------------------
(* A step changes the engine, the request and the restarts of one client *)

LEMMA StepOf ==
  ASSUME IInv, NEW c \in Clients, NEW f \in Engines \cup {None}, Become(c, f),
         NEW a \in BOOLEAN, NEW n \in Nat,
         asked' = [asked EXCEPT ![c] = a],
         autos' = [autos EXCEPT ![c] = n],
         n <= MaxRestarts + 1,
         f # None => Coherent(f) /\ Requested(f, a, n)
  PROVE  /\ EnginePart'
         /\ asked' \in [Clients -> BOOLEAN]
         /\ autos' \in [Clients -> Nat]
         /\ \A d \in Clients : Good(d)'
<1>1. engine \in [Clients -> Engines \cup {None}] /\ asked \in [Clients -> BOOLEAN]
      /\ autos \in [Clients -> Nat]
  BY TypeParts DEF IInv, EnginePart, OtherPart
<1>2. EnginePart' /\ asked' \in [Clients -> BOOLEAN] /\ autos' \in [Clients -> Nat]
  BY <1>1 DEF EnginePart, Become
<1>3. engine'[c] = f /\ asked'[c] = a /\ autos'[c] = n
  BY <1>1 DEF Become
<1>4. Good(c)'
  BY <1>3 DEF Good, Running
<1>5. ASSUME NEW d \in Clients, d # c
      PROVE  Good(d)'
  <2>1. engine'[d] = engine[d] /\ asked'[d] = asked[d] /\ autos'[d] = autos[d]
    BY <1>1, <1>5 DEF Become
  <2> QED  BY <2>1 DEF Good, Running, IInv
<1> QED  BY <1>2, <1>4, <1>5

\* The same when the user asks for nothing and no restart happens.
LEMMA SilentStepOf ==
  ASSUME IInv, NEW c \in Clients, NEW f \in Engines \cup {None}, Become(c, f),
         UNCHANGED <<asked, autos>>,
         f # None => Coherent(f) /\ Requested(f, asked[c], autos[c])
  PROVE  /\ EnginePart'
         /\ asked' \in [Clients -> BOOLEAN]
         /\ autos' \in [Clients -> Nat]
         /\ \A d \in Clients : Good(d)'
<1>1. asked \in [Clients -> BOOLEAN] /\ autos \in [Clients -> Nat]
  BY TypeParts DEF IInv, OtherPart
<1>2. autos[c] <= MaxRestarts + 1
  BY DEF IInv, Good
<1>3. EnginePart' /\ asked' \in [Clients -> BOOLEAN] /\ autos' \in [Clients -> Nat]
  BY <1>1, TypeParts DEF EnginePart, Become, IInv
<1>4. engine'[c] = f /\ asked'[c] = asked[c] /\ autos'[c] = autos[c]
  BY TypeParts DEF EnginePart, Become, IInv
<1>5. Good(c)'
  BY <1>2, <1>4 DEF Good, Running
<1>6. ASSUME NEW d \in Clients, d # c
      PROVE  Good(d)'
  <2>1. engine'[d] = engine[d] /\ asked'[d] = asked[d] /\ autos'[d] = autos[d]
    BY <1>6, TypeParts DEF EnginePart, Become, IInv
  <2> QED  BY <2>1 DEF Good, Running, IInv
<1> QED  BY <1>3, <1>5, <1>6

\* What is known of a running engine.
LEMMA EngineOf ==
  ASSUME IInv, NEW c \in Clients, engine[c] # None
  PROVE  /\ engine[c] \in Engines
         /\ Coherent(engine[c])
         /\ Requested(engine[c], asked[c], autos[c])
         /\ asked[c] \in BOOLEAN
         /\ autos[c] \in Nat
         /\ autos[c] <= MaxRestarts + 1
         /\ MaxRestarts \in Nat
<1>1. engine[c] \in Engines \cup {None} /\ asked[c] \in BOOLEAN /\ autos[c] \in Nat
  BY TypeParts DEF IInv, EnginePart, OtherPart
<1> QED  BY <1>1, ClientAssumption DEF IInv, Good, Running

-------------------------------------------------------------------------------
(* More updates of an engine *)

LEMMA ResetSound ==
  ASSUME NEW e \in Engines, Coherent(e), NEW a, NEW n, Requested(e, a, n)
  PROVE  /\ [e EXCEPT !.attempts = 0] \in Engines
         /\ Coherent([e EXCEPT !.attempts = 0])
         /\ ~e.running => ~[e EXCEPT !.attempts = 0].running
         /\ Requested([e EXCEPT !.attempts = 0], a, 0)
<1> DEFINE z == [e EXCEPT !.attempts = 0]
<1>1. 0 \in 0..MaxRestarts
  BY MaxRestartsType
<1>2. \A i \in 0..MaxRestarts : [e EXCEPT !.attempts = i] \in Engines
  BY DEF Engines
<1>3. z \in Engines
  BY <1>1, <1>2
<1>4. /\ z.attempts = 0 /\ z.running = e.running /\ z.child = e.child
      /\ z.pending = e.pending /\ z.armed = e.armed /\ z.proxyOn = e.proxyOn
  BY DEF Engines
<1> HIDE DEF z
<1>5. Coherent(z)
  BY <1>4 DEF Coherent, Pending
<1>6. Requested(z, a, 0)
  BY <1>4 DEF Requested, Pending
<1>7. ~e.running => ~z.running
  BY <1>4
<1> QED  BY <1>3, <1>5, <1>6, <1>7 DEF z

LEMMA ProxyOnSound ==
  ASSUME NEW e \in Engines, Coherent(e), NEW a, NEW n, Requested(e, a, n),
         NEW on \in BOOLEAN, on => e.running
  PROVE  /\ [e EXCEPT !.proxyOn = on] \in Engines
         /\ Coherent([e EXCEPT !.proxyOn = on])
         /\ Requested([e EXCEPT !.proxyOn = on], a, n)
<1> DEFINE z == [e EXCEPT !.proxyOn = on]
<1>1. z \in Engines
  BY DEF Engines
<1>2. /\ z.attempts = e.attempts /\ z.running = e.running /\ z.child = e.child
      /\ z.pending = e.pending /\ z.armed = e.armed /\ z.proxyOn = on
  BY DEF Engines
<1> HIDE DEF z
<1>3. Coherent(z)
  BY <1>2 DEF Coherent, Pending
<1>4. Requested(z, a, n)
  BY <1>2 DEF Requested, Pending
<1> QED  BY <1>1, <1>3, <1>4 DEF z

\* Everything but the settings is the same.
SameControl(e, f) ==
  /\ f.attempts = e.attempts /\ f.running = e.running /\ f.child = e.child
  /\ f.pending = e.pending /\ f.armed = e.armed /\ f.proxyOn = e.proxyOn

LEMMA SameControlSound ==
  ASSUME NEW e, NEW f, SameControl(e, f), Coherent(e), NEW a, NEW n, Requested(e, a, n)
  PROVE  Coherent(f) /\ Requested(f, a, n)
<1>1. Coherent(f)
  BY DEF SameControl, Coherent, Pending
<1>2. Requested(f, a, n)
  BY DEF SameControl, Requested, Pending
<1> QED  BY <1>1, <1>2

LEMMA SettingsSound ==
  ASSUME NEW e \in Engines, NEW s \in Settings, NEW m \in Modes, NEW l \in Modes \cup {None}
  PROVE  /\ [e EXCEPT !.settings = s, !.shown = m, !.lost = l] \in Engines
         /\ SameControl(e, [e EXCEPT !.settings = s, !.shown = m, !.lost = l])
         /\ [e EXCEPT !.settings = s, !.shown = m] \in Engines
         /\ SameControl(e, [e EXCEPT !.settings = s, !.shown = m])
         /\ [e EXCEPT !.settings = s] \in Engines
         /\ SameControl(e, [e EXCEPT !.settings = s])
<1>1. /\ [e EXCEPT !.settings = s, !.shown = m, !.lost = l] \in Engines
      /\ [e EXCEPT !.settings = s, !.shown = m] \in Engines
      /\ [e EXCEPT !.settings = s] \in Engines
  BY DEF Engines
<1>2. SameControl(e, [e EXCEPT !.settings = s, !.shown = m, !.lost = l])
  BY DEF Engines, SameControl
<1>3. SameControl(e, [e EXCEPT !.settings = s, !.shown = m])
  BY DEF Engines, SameControl
<1>4. SameControl(e, [e EXCEPT !.settings = s])
  BY DEF Engines, SameControl
<1> QED  BY <1>1, <1>2, <1>3, <1>4

\* An operation is over.
LEMMA OverSound ==
  ASSUME NEW e \in Engines, Coherent(e), NEW n \in Nat, Requested(e, TRUE, n),
         NEW l \in Modes \cup {None}
  PROVE  LET z == [e EXCEPT !.pending = None, !.lost = l] IN
         /\ z \in Engines
         /\ Coherent(z)
         /\ Requested(z, TRUE, n)
         /\ z.pending = None /\ z.child = e.child /\ z.attempts = e.attempts
         /\ z.proxyOn = e.proxyOn
<1> DEFINE z == [e EXCEPT !.pending = None, !.lost = l]
<1>1. z \in Engines
  BY DEF Engines
<1>2. /\ z.attempts = e.attempts /\ z.running = e.running /\ z.child = e.child
      /\ z.pending = None /\ z.armed = e.armed /\ z.proxyOn = e.proxyOn
  BY DEF Engines
<1> HIDE DEF z
<1>3. Coherent(z)
  BY <1>2 DEF Coherent, Pending
<1>4. Requested(z, TRUE, n)
  BY <1>2 DEF Requested, Pending
<1> QED  BY <1>1, <1>2, <1>3, <1>4 DEF z

LEMMA DisarmedSound ==
  ASSUME NEW e \in Engines, Coherent(e), e.armed, NEW n \in Nat, Requested(e, TRUE, n)
  PROVE  LET z == [e EXCEPT !.armed = FALSE] IN
         /\ z \in Engines
         /\ Coherent(z)
         /\ Requested(z, TRUE, n + 1)
         /\ z.pending = e.pending /\ z.child = e.child /\ z.attempts = e.attempts
         /\ z.running = e.running /\ z.proxyOn = e.proxyOn
<1> DEFINE z == [e EXCEPT !.armed = FALSE]
<1>1. z \in Engines
  BY DEF Engines
<1>2. /\ z.attempts = e.attempts /\ z.running = e.running /\ z.child = e.child
      /\ z.pending = e.pending /\ z.armed = FALSE /\ z.proxyOn = e.proxyOn
  BY DEF Engines
<1>3. e.attempts \in Nat
  BY MaxRestartsType DEF Engines
<1> HIDE DEF z
<1>4. Coherent(z)
  BY <1>2 DEF Coherent, Pending
<1>5. Requested(z, TRUE, n + 1)
  BY <1>2, <1>3 DEF Requested, Pending
<1> QED  BY <1>1, <1>2, <1>4, <1>5 DEF z

\* The engine has come to own a core.
LEMMA UpSound ==
  ASSUME NEW e \in Engines, Coherent(e), NEW core \in Cores, NEW n \in Nat,
         Requested(e, TRUE, n)
  PROVE  LET z == [e EXCEPT !.child = core, !.pending = None, !.running = TRUE,
                            !.armed = FALSE] IN
         /\ z \in Engines
         /\ Coherent(z)
         /\ z.running
         /\ Requested(z, TRUE, n)
<1> DEFINE y == [e EXCEPT !.child = core, !.pending = None]
           z == [e EXCEPT !.child = core, !.pending = None, !.running = TRUE, !.armed = FALSE]
<1>1. z \in Engines
  <2>1. y \in Engines
    BY DEF Engines
  <2>2. \A x \in Engines : [x EXCEPT !.running = TRUE, !.armed = FALSE] \in Engines
    BY DEF Engines
  <2>3. [y EXCEPT !.running = TRUE, !.armed = FALSE] \in Engines
    BY <2>1, <2>2
  <2> QED  BY <2>3
<1>2. /\ z.attempts = e.attempts /\ z.running = TRUE /\ z.child = core
      /\ z.pending = None /\ z.armed = FALSE
  BY DEF Engines
<1> HIDE DEF z
<1>3. Coherent(z)
  BY <1>2, NoneAssumption DEF Coherent, Pending
<1>4. Requested(z, TRUE, n)
  BY <1>2 DEF Requested, Pending
<1> QED  BY <1>1, <1>2, <1>3, <1>4 DEF z

-------------------------------------------------------------------------------
(* Every action preserves the invariant *)

LEMMA Parts ==
  ASSUME EnginePart', ProxyPart', OtherPart', \A d \in Clients : Good(d)'
  PROVE  IInv'
BY DEF IInv, TypeOK, EnginePart, ProxyPart, OtherPart

LEMMA Now ==
  ASSUME IInv
  PROVE  EnginePart /\ ProxyPart /\ OtherPart
BY TypeParts DEF IInv

LEMMA EventTypes == "command" \in Events /\ "crash" \in Events /\ "death" \in Events
                    /\ "change" \in Events
BY DEF Events

LEMMA StartCoreKeeps ==
  ASSUME IInv, NEW c \in Clients, StartCore(c)
  PROVE  IInv'
<1> DEFINE e == engine[c]
<1>1. /\ e \in Engines /\ Coherent(e) /\ Requested(e, asked[c], autos[c])
  BY EngineOf DEF StartCore, Idle, Command, Acts
<1>2. EnginePart' /\ asked' \in [Clients -> BOOLEAN] /\ autos' \in [Clients -> Nat]
      /\ \A d \in Clients : Good(d)'
  <2>1. CASE e.running
    <3>1. Become(c, e) /\ UNCHANGED <<asked, autos>>
      BY <2>1 DEF StartCore, Starts
    <3> QED  BY <1>1, <3>1, SilentStepOf
  <2>2. CASE ~e.running
    <3> DEFINE z == [e EXCEPT !.attempts = 0]
    <3>1. PICK f \in Starts(z, None) : Become(c, f)
      BY <2>2 DEF StartCore
    <3>2. asked' = [asked EXCEPT ![c] = TRUE] /\ autos' = [autos EXCEPT ![c] = 0]
      BY <2>2 DEF StartCore, Ask
    <3>3. z \in Engines /\ Coherent(z) /\ Requested(z, TRUE, 0)
      <4>1. Requested(e, TRUE, autos[c])
        BY <1>1 DEF Requested
      <4> QED  BY <1>1, <4>1, ResetSound
    <3> HIDE DEF z
    <3>4. f \in Engines /\ Coherent(f) /\ Requested(f, TRUE, 0)
      BY <3>1, <3>3, StartsSound
    <3>5. 0 <= MaxRestarts + 1
      BY MaxRestartsType
    <3> QED  BY <3>1, <3>2, <3>4, <3>5, StepOf
  <2> QED  BY <2>1, <2>2
<1>3. ProxyPart'
  BY Now, SameProxy DEF StartCore
<1>4. spent' \in [Events -> Nat]
  BY Now, EventTypes, SpendType DEF StartCore, Idle, Command
<1>5. OtherPart'
  BY <1>2, <1>4, Now DEF OtherPart, StartCore
<1> QED  BY <1>2, <1>3, <1>5, Parts

LEMMA StopCoreKeeps ==
  ASSUME IInv, NEW c \in Clients, StopCore(c)
  PROVE  IInv'
<1>1. engine[c] \in Engines
  BY EngineOf DEF StopCore, Command, Acts
<1>2. /\ Stopped(engine[c]) \in Engines
      /\ Coherent(Stopped(engine[c]))
      /\ Requested(Stopped(engine[c]), FALSE, 0)
  BY <1>1, StoppedSound
<1>3. EnginePart' /\ asked' \in [Clients -> BOOLEAN] /\ autos' \in [Clients -> Nat]
      /\ \A d \in Clients : Good(d)'
  <2>1. asked' = [asked EXCEPT ![c] = FALSE] /\ autos' = [autos EXCEPT ![c] = 0]
    BY DEF StopCore, Ask
  <2>2. 0 <= MaxRestarts + 1
    BY MaxRestartsType
  <2>3. Become(c, Stopped(engine[c]))
    BY DEF StopCore
  <2> QED  BY <1>2, <2>1, <2>2, <2>3, StepOf
<1>4. ProxyPart'
  BY Now, RestoreIfType DEF StopCore
<1>5. spent' \in [Events -> Nat] /\ leftover' \in [Clients -> SUBSET Ports]
  BY <1>1, Now, EventTypes, SpendType, AbandonType DEF StopCore, Command
<1>6. OtherPart'
  BY <1>3, <1>5, Now DEF OtherPart, StopCore
<1> QED  BY <1>3, <1>4, <1>6, Parts

LEMMA RestartCoreKeeps ==
  ASSUME IInv, NEW c \in Clients, RestartCore(c)
  PROVE  IInv'
<1>1. engine[c] \in Engines
  BY EngineOf DEF RestartCore, Command, Acts
<1>2. /\ Stopped(engine[c]) \in Engines
      /\ Coherent(Stopped(engine[c]))
      /\ Requested(Stopped(engine[c]), TRUE, 0)
  BY <1>1, StoppedSound
<1>3. PICK f \in Starts(Stopped(engine[c]), None) : Become(c, f)
  BY DEF RestartCore
<1>4. f \in Engines /\ Coherent(f) /\ Requested(f, TRUE, 0)
  BY <1>2, <1>3, StartsSound
<1>5. EnginePart' /\ asked' \in [Clients -> BOOLEAN] /\ autos' \in [Clients -> Nat]
      /\ \A d \in Clients : Good(d)'
  <2>1. asked' = [asked EXCEPT ![c] = TRUE] /\ autos' = [autos EXCEPT ![c] = 0]
    BY DEF RestartCore, Ask
  <2>2. 0 <= MaxRestarts + 1
    BY MaxRestartsType
  <2> QED  BY <1>3, <1>4, <2>1, <2>2, StepOf
<1>6. ProxyPart'
  BY Now, RestoreIfType DEF RestartCore
<1>7. spent' \in [Events -> Nat] /\ leftover' \in [Clients -> SUBSET Ports]
  BY <1>1, Now, EventTypes, SpendType, AbandonType DEF RestartCore, Command
<1>8. OtherPart'
  BY <1>5, <1>7, Now DEF OtherPart, RestartCore
<1> QED  BY <1>5, <1>6, <1>8, Parts

LEMMA ToggleSystemProxyKeeps ==
  ASSUME IInv, NEW c \in Clients, ToggleSystemProxy(c)
  PROVE  IInv'
<1> DEFINE e == engine[c]
<1>1. /\ e \in Engines /\ Coherent(e) /\ Requested(e, asked[c], autos[c])
  BY EngineOf DEF ToggleSystemProxy, Idle, Command, Acts
<1>2. PICK o \in Outcomes, on \in BOOLEAN :
        Take(c, o) /\ Become(c, [e EXCEPT !.proxyOn = on]) /\ (on => e.running)
  <2>1. CASE e.proxyOn
    <3>1. PICK o \in DisableOutcomes(c) : Take(c, o) /\ Become(c, [e EXCEPT !.proxyOn = ~o.ok])
      BY <2>1 DEF ToggleSystemProxy
    <3>2. o \in Outcomes /\ (~o.ok) \in BOOLEAN /\ e.running
      BY <1>1, <2>1, <3>1, Now, DisableType DEF Coherent
    <3> QED  BY <3>1, <3>2
  <2>2. CASE ~e.proxyOn
    <3>1. e.running /\ e.settings.port \in Ports
      BY <1>1, <2>2 DEF ToggleSystemProxy, Engines, Settings
    <3>2. PICK o \in EnableOutcomes(c, e.settings.port) :
            Take(c, o) /\ Become(c, [e EXCEPT !.proxyOn = o.ok])
      BY <2>2 DEF ToggleSystemProxy
    <3>3. o \in Outcomes /\ o.ok \in BOOLEAN
      BY <3>1, <3>2, Now, EnableType DEF Outcomes
    <3> QED  BY <3>1, <3>2, <3>3
  <2> QED  BY <2>1, <2>2
<1>3. [e EXCEPT !.proxyOn = on] \in Engines /\ Coherent([e EXCEPT !.proxyOn = on])
      /\ Requested([e EXCEPT !.proxyOn = on], asked[c], autos[c])
  BY <1>1, <1>2, ProxyOnSound
<1>4. EnginePart' /\ asked' \in [Clients -> BOOLEAN] /\ autos' \in [Clients -> Nat]
      /\ \A d \in Clients : Good(d)'
  BY <1>2, <1>3, SilentStepOf DEF ToggleSystemProxy, history
<1>5. ProxyPart'
  BY <1>2, Now, TakeType
<1>6. spent' \in [Events -> Nat]
  BY Now, EventTypes, SpendType DEF ToggleSystemProxy, Idle, Command
<1>7. OtherPart'
  BY <1>4, <1>6, Now DEF OtherPart, ToggleSystemProxy, history
<1> QED  BY <1>4, <1>5, <1>7, Parts

LEMMA OperateKeeps ==
  ASSUME IInv, NEW c \in Clients, Operate(c) \/ AutoUpdate(c)
  PROVE  IInv'
<1>1. /\ engine[c] \in Engines /\ Coherent(engine[c])
      /\ Requested(engine[c], asked[c], autos[c])
  BY EngineOf DEF Operate, AutoUpdate, Idle, Command, Acts
<1>2. /\ Occupied(engine[c]) \in Engines /\ Coherent(Occupied(engine[c]))
      /\ Requested(Occupied(engine[c]), asked[c], autos[c])
  BY <1>1, OccupiedSound
<1>3. EnginePart' /\ asked' \in [Clients -> BOOLEAN] /\ autos' \in [Clients -> Nat]
      /\ \A d \in Clients : Good(d)'
  BY <1>2, SilentStepOf DEF Operate, AutoUpdate, history
<1>4. ProxyPart'
  BY Now, SameProxy DEF Operate, AutoUpdate
<1>5. spent' \in [Events -> Nat]
  BY Now, EventTypes, SpendType DEF Operate, AutoUpdate, Idle, Command, OtherPart
<1>6. OtherPart'
  BY <1>3, <1>5, Now DEF OtherPart, Operate, AutoUpdate, history
<1> QED  BY <1>3, <1>4, <1>6, Parts

LEMMA ChangedSound ==
  ASSUME IInv, NEW c \in Clients, engine[c] # None, NEW s \in Settings,
         Changed(c, engine[c], s), UNCHANGED <<asked, autos>>
  PROVE  /\ EnginePart' /\ asked' \in [Clients -> BOOLEAN] /\ autos' \in [Clients -> Nat]
         /\ \A d \in Clients : Good(d)'
         /\ disk' \in [Clients -> Settings]
<1> DEFINE e == engine[c]
<1>1. /\ e \in Engines /\ Coherent(e) /\ Requested(e, asked[c], autos[c])
  BY EngineOf
<1>2. s.mode \in Modes
  BY DEF Settings
<1>3. CASE /\ Become(c, [e EXCEPT !.settings = s, !.shown = s.mode, !.lost = None])
           /\ disk' = [disk EXCEPT ![c] = s]
  <2> DEFINE z == [e EXCEPT !.settings = s, !.shown = s.mode, !.lost = None]
  <2>1. z \in Engines /\ SameControl(e, z)
    BY <1>1, <1>2, SettingsSound
  <2> HIDE DEF z
  <2>2. Coherent(z) /\ Requested(z, asked[c], autos[c])
    BY <1>1, <2>1, SameControlSound
  <2>3. Become(c, z)
    BY <1>3 DEF z
  <2>4. disk' \in [Clients -> Settings]
    BY <1>3, Now DEF OtherPart
  <2> QED  BY <2>1, <2>2, <2>3, <2>4, SilentStepOf
<1>4. CASE Become(c, [e EXCEPT !.settings = s]) /\ UNCHANGED disk
  <2> DEFINE z == [e EXCEPT !.settings = s]
  <2>1. z \in Engines /\ SameControl(e, z)
    BY <1>1, <1>2, SettingsSound
  <2> HIDE DEF z
  <2>2. Coherent(z) /\ Requested(z, asked[c], autos[c])
    BY <1>1, <2>1, SameControlSound
  <2>3. Become(c, z)
    BY <1>4 DEF z
  <2>4. disk' \in [Clients -> Settings]
    BY <1>4, Now DEF OtherPart
  <2> QED  BY <2>1, <2>2, <2>3, <2>4, SilentStepOf
<1> QED  BY <1>3, <1>4 DEF Changed

LEMMA ChangeSettingsKeeps ==
  ASSUME IInv, NEW c \in Clients, NEW s \in Settings, ChangeSettings(c, s)
  PROVE  IInv'
<1>1. EnginePart' /\ asked' \in [Clients -> BOOLEAN] /\ autos' \in [Clients -> Nat]
      /\ (\A d \in Clients : Good(d)') /\ disk' \in [Clients -> Settings]
  BY ChangedSound DEF ChangeSettings, Idle, Command, Acts, history
<1>2. ProxyPart'
  BY Now, SameProxy DEF ChangeSettings
<1>3. spent' \in [Events -> Nat]
  BY Now, EventTypes, SpendType DEF ChangeSettings, Idle, Command
<1>4. OtherPart'
  BY <1>1, <1>3, Now DEF OtherPart, ChangeSettings, history
<1> QED  BY <1>1, <1>2, <1>4, Parts

LEMMA SwitchModeKeeps ==
  ASSUME IInv, NEW c \in Clients, NEW mode \in Modes, SwitchMode(c, mode)
  PROVE  IInv'
<1> DEFINE e    == engine[c]
           old  == e.settings
           new  == [old EXCEPT !.mode = mode]
           base == [e EXCEPT !.settings = new, !.shown = mode, !.lost = None]
           down == Stopped(base)
<1>1. /\ e \in Engines /\ Coherent(e) /\ Requested(e, asked[c], autos[c])
  BY EngineOf DEF SwitchMode, Idle, Command, Acts
<1>2. old \in Settings /\ old.mode \in Modes /\ new \in Settings
  BY <1>1 DEF Engines, Settings
<1> HIDE DEF new, old
<1>3. base \in Engines /\ [e EXCEPT !.settings = new] \in Engines
      /\ SameControl(e, [e EXCEPT !.settings = new])
  BY <1>1, <1>2, SettingsSound
<1> HIDE DEF base
<1>4. /\ down \in Engines /\ Coherent(down) /\ Requested(down, TRUE, 0) /\ ~down.running
  BY <1>3, StoppedSound
<1> HIDE DEF down
<1>5. Coherent([e EXCEPT !.settings = new])
      /\ Requested([e EXCEPT !.settings = new], asked[c], autos[c])
  BY <1>1, <1>3, SameControlSound
<1>6. /\ EnginePart' /\ asked' \in [Clients -> BOOLEAN] /\ autos' \in [Clients -> Nat]
      /\ \A d \in Clients : Good(d)'
      /\ disk' \in [Clients -> Settings]
      /\ ProxyPart'
  <2>1. CASE /\ Become(c, [e EXCEPT !.settings = new])
             /\ UNCHANGED <<disk, proxy, asked, autos>>
    <3>1. disk' \in [Clients -> Settings] /\ ProxyPart'
      BY <2>1, Now, SameProxy DEF OtherPart
    <3> QED  BY <1>3, <1>5, <2>1, <3>1, SilentStepOf
  <2>2. CASE /\ RestoreIf(c, e.proxyOn)
             /\ Ask(c, TRUE)
             /\ \E f \in Engines, s \in Settings :
                  /\ Become(c, f) /\ Coherent(f) /\ Requested(f, TRUE, 0)
                  /\ disk' = [disk EXCEPT ![c] = s]
    <3>1. PICK f \in Engines, s \in Settings :
            /\ Become(c, f) /\ Coherent(f) /\ Requested(f, TRUE, 0)
            /\ disk' = [disk EXCEPT ![c] = s]
      BY <2>2
    <3>2. asked' = [asked EXCEPT ![c] = TRUE] /\ autos' = [autos EXCEPT ![c] = 0]
      BY <2>2 DEF Ask
    <3>3. 0 <= MaxRestarts + 1
      BY MaxRestartsType
    <3>4. disk' \in [Clients -> Settings] /\ ProxyPart'
      BY <2>2, <3>1, Now, RestoreIfType DEF OtherPart
    <3> QED  BY <3>1, <3>2, <3>3, <3>4, StepOf
  <2>3. ASSUME Become(c, Spawned(down, old.mode)), disk' = [disk EXCEPT ![c] = new]
        PROVE  \E f \in Engines, s \in Settings :
                 /\ Become(c, f) /\ Coherent(f) /\ Requested(f, TRUE, 0)
                 /\ disk' = [disk EXCEPT ![c] = s]
    <3>1. /\ Spawned(down, old.mode) \in Engines /\ Coherent(Spawned(down, old.mode))
          /\ Requested(Spawned(down, old.mode), TRUE, 0)
      BY <1>2, <1>4, SpawnedSound
    <3> QED  BY <1>2, <2>3, <3>1
  <2>4. ASSUME NEW f \in Starts([down EXCEPT !.settings = old, !.shown = old.mode], None),
               Become(c, f), disk' = [disk EXCEPT ![c] = old]
        PROVE  \E g \in Engines, s \in Settings :
                 /\ Become(c, g) /\ Coherent(g) /\ Requested(g, TRUE, 0)
                 /\ disk' = [disk EXCEPT ![c] = s]
    <3> DEFINE z == [down EXCEPT !.settings = old, !.shown = old.mode]
    <3>1. z \in Engines /\ SameControl(down, z)
      BY <1>2, <1>4, SettingsSound
    <3> HIDE DEF z
    <3>2. Coherent(z) /\ Requested(z, TRUE, 0)
      BY <1>4, <3>1, SameControlSound
    <3>3. f \in Starts(z, None)
      BY <2>4 DEF z
    <3>4. f \in Engines /\ Coherent(f) /\ Requested(f, TRUE, 0)
      BY <3>1, <3>2, <3>3, StartsSound
    <3> QED  BY <1>2, <2>4, <3>4
  <2>5. ASSUME Become(c, [down EXCEPT !.settings = old]), disk' = [disk EXCEPT ![c] = new]
        PROVE  \E f \in Engines, s \in Settings :
                 /\ Become(c, f) /\ Coherent(f) /\ Requested(f, TRUE, 0)
                 /\ disk' = [disk EXCEPT ![c] = s]
    <3> DEFINE z == [down EXCEPT !.settings = old]
    <3>1. z \in Engines /\ SameControl(down, z)
      BY <1>2, <1>4, SettingsSound
    <3> HIDE DEF z
    <3>2. Coherent(z) /\ Requested(z, TRUE, 0)
      BY <1>4, <3>1, SameControlSound
    <3> QED  BY <1>2, <2>5, <3>1, <3>2 DEF z
  <2> QED  BY <2>1, <2>2, <2>3, <2>4, <2>5 DEF SwitchMode, down, base, new, old
<1>7. spent' \in [Events -> Nat]
  BY Now, EventTypes, SpendType DEF SwitchMode, Idle, Command
<1>8. OtherPart'
  BY <1>6, <1>7, Now DEF OtherPart, SwitchMode
<1> QED  BY <1>6, <1>8, Parts

\* The operation moves to another phase.
LEMMA PhaseSound ==
  ASSUME NEW e \in Engines, Coherent(e), e.pending # None, NEW a, NEW n, Requested(e, a, n),
         NEW phase \in {"probe", "launched", "ready", "failed"}, NEW core \in Cores \cup {None},
         Pending(e, "start") => core \in Cores
  PROVE  LET z == [e EXCEPT !.pending.phase = phase, !.pending.core = core] IN
         z \in Engines /\ Coherent(z) /\ Requested(z, a, n)
<1> DEFINE op == [[e.pending EXCEPT !.phase = phase] EXCEPT !.core = core]
           z  == [e EXCEPT !.pending.phase = phase, !.pending.core = core]
<1>1. e.pending \in Ops
  BY DEF Engines
<1>2. op \in Ops
  <2>1. [e.pending EXCEPT !.phase = phase] \in Ops
    BY <1>1 DEF Ops
  <2> QED  BY <2>1 DEF Ops
<1>3. op.kind = e.pending.kind /\ op.core = core
  BY <1>1 DEF Ops
<1>4. z = [e EXCEPT !.pending = op]
  BY DEF Engines
<1> HIDE DEF op, z
<1>5. z \in Engines
  BY <1>2, <1>4 DEF Engines
<1>6. /\ z.attempts = e.attempts /\ z.running = e.running /\ z.child = e.child
      /\ z.pending = op /\ z.armed = e.armed /\ z.proxyOn = e.proxyOn
  BY <1>4 DEF Engines
<1>7. Pending(z, "start") => Pending(e, "start")
  BY <1>3, <1>6 DEF Pending
<1>8. Coherent(z)
  BY <1>3, <1>6, <1>7 DEF Coherent
<1>9. Requested(z, a, n)
  BY <1>6, <1>7 DEF Requested
<1> QED  BY <1>5, <1>8, <1>9 DEF z

LEMMA AdvanceKeeps ==
  ASSUME IInv, NEW c \in Clients, engine[c] # None, engine[c].pending # None,
         NEW phase \in {"probe", "launched", "ready", "failed"}, NEW core \in Cores \cup {None},
         Pending(engine[c], "start") => core \in Cores,
         Advance(c, phase, core)
  PROVE  IInv'
<1> DEFINE e == engine[c]
           z == [e EXCEPT !.pending.phase = phase, !.pending.core = core]
<1>1. /\ e \in Engines /\ Coherent(e) /\ Requested(e, asked[c], autos[c])
  BY EngineOf
<1>2. z \in Engines /\ Coherent(z) /\ Requested(z, asked[c], autos[c])
  BY <1>1, PhaseSound
<1>3. Become(c, z)
  BY Now DEF Advance, Become, EnginePart
<1> HIDE DEF z
<1>4. EnginePart' /\ asked' \in [Clients -> BOOLEAN] /\ autos' \in [Clients -> Nat]
      /\ \A d \in Clients : Good(d)'
  BY <1>2, <1>3, SilentStepOf DEF Advance, history
<1>5. ProxyPart'
  BY Now, SameProxy DEF Advance
<1>6. OtherPart'
  BY <1>4, Now DEF OtherPart, Advance, history
<1> QED  BY <1>4, <1>5, <1>6, Parts

LEMMA OperationKeeps ==
  ASSUME IInv, NEW c \in Clients, Launch(c) \/ Settle(c)
  PROVE  IInv'
<1> DEFINE e == engine[c]
           core == e.pending.core
<1>1. e # None /\ e.pending # None
  BY DEF Launch, Settle, InOperation, Pending
<1>2. e \in Engines /\ Coherent(e)
  BY <1>1, EngineOf
<1>3. Pending(e, "start") => core \in Cores
  BY <1>2 DEF Coherent
<1>4. \A k \in Cores, b \in BOOLEAN : [k EXCEPT !.alive = b] \in Cores
  BY DEF Cores
<1>5. PICK phase \in {"probe", "launched", "ready", "failed"}, next \in Cores \cup {None} :
        Advance(c, phase, next) /\ (Pending(e, "start") => next \in Cores)
  <2>1. CASE Launch(c)
    BY <1>3, <1>4, <2>1 DEF Launch, InOperation
  <2>2. CASE InOperation(c, "start", "launched") /\ Advance(c, "ready", core)
    BY <1>3, <2>2 DEF InOperation
  <2>3. CASE InOperation(c, "start", "launched")
             /\ Advance(c, "failed", [core EXCEPT !.alive = FALSE])
    BY <1>3, <1>4, <2>3 DEF InOperation
  <2>4. CASE InOperation(c, "other", "launched") /\ Advance(c, "ready", None)
    BY <2>4 DEF InOperation, Pending
  <2> QED  BY <2>1, <2>2, <2>3, <2>4 DEF Settle
<1> QED  BY <1>1, <1>5, AdvanceKeeps

\* A step of the engine's tick that changes neither the request nor the restarts.
LEMMA TickStep ==
  ASSUME IInv, NEW c \in Clients, NEW f \in Engines, Become(c, f), Coherent(f),
         Requested(f, asked[c], autos[c]), ProxyPart',
         UNCHANGED <<ui, disk, leftover, history, spent>>
  PROVE  IInv'
<1>1. EnginePart' /\ asked' \in [Clients -> BOOLEAN] /\ autos' \in [Clients -> Nat]
      /\ \A d \in Clients : Good(d)'
  BY SilentStepOf DEF history
<1>2. OtherPart'
  BY <1>1, Now DEF OtherPart, history
<1> QED  BY <1>1, <1>2, Parts

LEMMA FinishOtherKeeps ==
  ASSUME IInv, NEW c \in Clients, FinishOther(c)
  PROVE  IInv'
<1> DEFINE e == engine[c]
           z == [e EXCEPT !.pending = None]
<1>1. e \in Engines /\ Coherent(e) /\ Requested(e, asked[c], autos[c])
  BY EngineOf DEF FinishOther, Acts
<1>2. z \in Engines
  BY <1>1 DEF Engines
<1>3. /\ z.attempts = e.attempts /\ z.running = e.running /\ z.child = e.child
      /\ z.pending = None /\ z.armed = e.armed /\ z.proxyOn = e.proxyOn
  BY <1>1 DEF Engines
<1>4. Become(c, z)
  BY DEF FinishOther
<1> HIDE DEF z
<1>5. Coherent(z)
  BY <1>1, <1>3 DEF Coherent, Pending
<1>6. Requested(z, asked[c], autos[c])
  BY <1>1, <1>3 DEF Requested, Pending
<1>7. ProxyPart' /\ UNCHANGED <<ui, disk, leftover, history, spent>>
  BY Now, SameProxy DEF FinishOther
<1> QED  BY <1>2, <1>4, <1>5, <1>6, <1>7, TickStep

\* What a start that is under way tells of the engine.
LEMMA Starting ==
  ASSUME IInv, NEW c \in Clients, NEW phase, InOperation(c, "start", phase)
  PROVE  /\ engine[c] \in Engines /\ Coherent(engine[c])
         /\ asked[c] = TRUE /\ autos[c] \in Nat
         /\ Requested(engine[c], TRUE, autos[c])
         /\ engine[c].pending \in Ops
         /\ engine[c].pending.core \in Cores
         /\ ~engine[c].running /\ engine[c].child = None
<1>1. engine[c] # None /\ Pending(engine[c], "start") /\ engine[c].pending # None
  BY DEF InOperation, Pending
<1>2. /\ engine[c] \in Engines /\ Coherent(engine[c])
      /\ Requested(engine[c], asked[c], autos[c])
      /\ asked[c] \in BOOLEAN /\ autos[c] \in Nat
  BY <1>1, EngineOf
<1>3. asked[c] = TRUE
  BY <1>1, <1>2 DEF Requested
<1>4. engine[c].pending \in Ops
  BY <1>1, <1>2 DEF Engines
<1>5. Requested(engine[c], TRUE, autos[c])
  BY <1>2, <1>3
<1> QED  BY <1>1, <1>2, <1>3, <1>4, <1>5 DEF Coherent

LEMMA FinishStartedKeeps ==
  ASSUME IInv, NEW c \in Clients, FinishStarted(c)
  PROVE  IInv'
<1> DEFINE e    == engine[c]
           core == e.pending.core
           up   == [e EXCEPT !.child = core, !.pending = None, !.running = TRUE,
                             !.armed = FALSE]
<1>1. /\ e \in Engines /\ Coherent(e) /\ core \in Cores /\ asked[c] = TRUE
      /\ autos[c] \in Nat /\ Requested(e, TRUE, autos[c])
  BY Starting DEF FinishStarted
<1>2. up \in Engines /\ Coherent(up) /\ up.running /\ Requested(up, TRUE, autos[c])
  BY <1>1, UpSound
<1>3. UNCHANGED <<ui, disk, leftover, history, spent>>
  BY DEF FinishStarted
<1>4. CASE Become(c, up) /\ UNCHANGED proxy
  <2> HIDE DEF up
  <2>1. ProxyPart'
    BY <1>4, Now, SameProxy
  <2> QED  BY <1>1, <1>2, <1>3, <1>4, <2>1, TickStep
<1>5. CASE \E o \in EnableOutcomes(c, core.port) :
             Take(c, o) /\ Become(c, [up EXCEPT !.proxyOn = o.ok])
  <2> HIDE DEF up
  <2>1. PICK o \in EnableOutcomes(c, core.port) :
          Take(c, o) /\ Become(c, [up EXCEPT !.proxyOn = o.ok])
    BY <1>5
  <2>2. core.port \in Ports
    BY <1>1 DEF Cores
  <2>3. o \in Outcomes /\ o.ok \in BOOLEAN
    BY <2>1, <2>2, Now, EnableType DEF Outcomes
  <2>4. ProxyPart'
    BY <2>1, <2>3, Now, TakeType
  <2> DEFINE f == [up EXCEPT !.proxyOn = o.ok]
  <2>5. f \in Engines /\ Coherent(f) /\ Requested(f, TRUE, autos[c])
    BY <1>2, <2>3, ProxyOnSound
  <2>6. Become(c, f)
    BY <2>1
  <2> HIDE DEF f
  <2> QED  BY <1>1, <1>3, <2>4, <2>5, <2>6, TickStep
<1> QED  BY <1>4, <1>5 DEF FinishStarted

LEMMA FinishFailedKeeps ==
  ASSUME IInv, NEW c \in Clients, FinishFailed(c)
  PROVE  IInv'
<1> DEFINE e    == engine[c]
           op   == e.pending
           l    == IF op.undo = None THEN e.lost ELSE op.undo
           over == [e EXCEPT !.pending = None, !.lost = l]
<1>1. /\ e \in Engines /\ Coherent(e) /\ asked[c] = TRUE /\ autos[c] \in Nat
      /\ Requested(e, TRUE, autos[c]) /\ op \in Ops /\ e.child = None
  BY Starting DEF FinishFailed
<1>2. l \in Modes \cup {None}
  BY <1>1 DEF Engines, Ops
<1>3. UNCHANGED <<ui, disk, leftover, history, spent>>
      /\ RestoreIf(c, op.restarting /\ over.proxyOn)
      /\ Become(c, IF op.restarting THEN Scheduled(over) ELSE over)
  BY DEF FinishFailed
<1> HIDE DEF l
<1>4. /\ over \in Engines /\ Coherent(over) /\ Requested(over, TRUE, autos[c])
      /\ over.pending = None /\ over.child = None
  BY <1>1, <1>2, OverSound
<1> HIDE DEF over
<1>5. ProxyPart'
  BY <1>3, Now, RestoreIfType
<1>6. CASE op.restarting
  <2>1. autos[c] <= over.attempts + 1
    BY <1>4 DEF Requested
  <2>2. /\ Scheduled(over) \in Engines /\ Coherent(Scheduled(over))
        /\ Requested(Scheduled(over), TRUE, autos[c])
    BY <1>1, <1>4, <2>1, ScheduledSound
  <2> QED  BY <1>1, <1>3, <1>5, <1>6, <2>2, TickStep
<1>7. CASE ~op.restarting
  BY <1>1, <1>3, <1>4, <1>5, <1>7, TickStep
<1> QED  BY <1>6, <1>7

LEMMA DetectExitKeeps ==
  ASSUME IInv, NEW c \in Clients, DetectExit(c)
  PROVE  IInv'
<1> DEFINE e == engine[c]
           s == Scheduled(e)
           f == [s EXCEPT !.child = None, !.pending = None]
<1>1. /\ e \in Engines /\ Requested(e, asked[c], autos[c]) /\ e.running
      /\ asked[c] \in BOOLEAN /\ autos[c] \in Nat
  BY EngineOf DEF DetectExit, Acts
<1>2. asked[c] = TRUE /\ autos[c] <= e.attempts + 1
  BY <1>1 DEF Requested
<1>3. s \in Engines
  BY <1>1, ScheduledFields
<1>4. /\ s.running = FALSE /\ s.proxyOn = FALSE
      /\ s.armed => e.attempts < MaxRestarts
      /\ s.attempts = IF e.attempts < MaxRestarts THEN e.attempts + 1 ELSE e.attempts
  BY <1>1, ScheduledFields
<1> HIDE DEF s
<1>5. f \in Engines
  BY <1>3 DEF Engines
<1>6. /\ f.running = s.running /\ f.proxyOn = s.proxyOn /\ f.armed = s.armed
      /\ f.attempts = s.attempts /\ f.child = None /\ f.pending = None
  BY <1>3 DEF Engines
<1>7. Become(c, f)
  BY DEF DetectExit, s
<1> HIDE DEF f
<1>8. Coherent(f)
  BY <1>4, <1>6 DEF Coherent, Pending
<1>9. Requested(f, asked[c], autos[c])
  <2>1. e.attempts \in 0..MaxRestarts
    BY <1>1 DEF Engines
  <2>2. f.armed => e.attempts < MaxRestarts
    BY <1>4, <1>6
  <2>3. f.attempts = IF e.attempts < MaxRestarts THEN e.attempts + 1 ELSE e.attempts
    BY <1>4, <1>6
  <2> QED  BY <1>1, <1>2, <2>1, <2>2, <2>3, MaxRestartsType DEF Requested
<1>10. ProxyPart' /\ UNCHANGED <<ui, disk, leftover, history, spent>>
  BY Now, RestoreIfType DEF DetectExit
<1> QED  BY <1>5, <1>7, <1>8, <1>9, <1>10, TickStep

LEMMA StableRunKeeps ==
  ASSUME IInv, NEW c \in Clients, StableRun(c)
  PROVE  IInv'
<1> DEFINE e == engine[c]
           z == [e EXCEPT !.attempts = 0]
<1>1. /\ e \in Engines /\ Coherent(e) /\ Requested(e, asked[c], autos[c])
      /\ asked[c] \in BOOLEAN
  BY EngineOf DEF StableRun, Acts
<1>2. z \in Engines /\ Coherent(z) /\ Requested(z, asked[c], 0)
  BY <1>1, ResetSound
<1>3. Become(c, z)
  BY DEF StableRun
<1> HIDE DEF z
<1>4. asked' = [asked EXCEPT ![c] = asked[c]] /\ autos' = [autos EXCEPT ![c] = 0]
  BY Now DEF StableRun, OtherPart
<1>5. 0 <= MaxRestarts + 1
  BY MaxRestartsType
<1>6. EnginePart' /\ asked' \in [Clients -> BOOLEAN] /\ autos' \in [Clients -> Nat]
      /\ \A d \in Clients : Good(d)'
  BY <1>1, <1>2, <1>3, <1>4, <1>5, StepOf
<1>7. ProxyPart'
  BY Now, SameProxy DEF StableRun
<1>8. OtherPart'
  BY <1>6, Now DEF OtherPart, StableRun
<1> QED  BY <1>6, <1>7, <1>8, Parts

LEMMA AutoRestartKeeps ==
  ASSUME IInv, NEW c \in Clients, AutoRestart(c)
  PROVE  IInv'
<1> DEFINE e   == engine[c]
           due == [e EXCEPT !.armed = FALSE]
           n   == autos[c] + 1
<1>1. /\ e \in Engines /\ Coherent(e) /\ Requested(e, asked[c], autos[c])
      /\ asked[c] \in BOOLEAN /\ autos[c] \in Nat /\ e.armed /\ e.pending = None
      /\ ~e.running
  BY EngineOf DEF AutoRestart, Acts
<1>2. asked[c] = TRUE /\ Requested(e, TRUE, autos[c])
  BY <1>1 DEF Requested
<1>3. /\ due \in Engines /\ Coherent(due) /\ Requested(due, TRUE, n)
      /\ due.pending = None /\ due.child = None /\ ~due.running
  <2>1. /\ due \in Engines /\ Coherent(due) /\ Requested(due, TRUE, n)
        /\ due.pending = e.pending /\ due.child = e.child /\ due.running = e.running
    BY <1>1, <1>2, DisarmedSound
  <2> QED  BY <1>1, <2>1 DEF Coherent
<1>4. n \in Nat /\ n <= due.attempts + 1 /\ n <= MaxRestarts + 1
  <2>1. due.attempts \in 0..MaxRestarts
    BY <1>3 DEF Engines
  <2>2. n <= due.attempts + 1
    BY <1>3 DEF Requested
  <2> QED  BY <1>1, <2>1, <2>2, MaxRestartsType
<1>5. \/ Become(c, Spawned(due, None)) /\ UNCHANGED proxy
      \/ Become(c, Scheduled(due)) /\ RestoreIf(c, due.proxyOn)
  BY DEF AutoRestart
<1>6. asked' = [asked EXCEPT ![c] = TRUE] /\ autos' = [autos EXCEPT ![c] = n]
  BY <1>2, Now DEF AutoRestart, OtherPart
<1> HIDE DEF due, n
<1>7. PICK f \in Engines : Become(c, f) /\ Coherent(f) /\ Requested(f, TRUE, n)
  <2>1. /\ Spawned(due, None) \in Engines /\ Coherent(Spawned(due, None))
        /\ Requested(Spawned(due, None), TRUE, n)
    BY <1>3, SpawnedSound
  <2>2. /\ Scheduled(due) \in Engines /\ Coherent(Scheduled(due))
        /\ Requested(Scheduled(due), TRUE, n)
    BY <1>3, <1>4, ScheduledSound
  <2> QED  BY <1>5, <2>1, <2>2
<1>8. EnginePart' /\ asked' \in [Clients -> BOOLEAN] /\ autos' \in [Clients -> Nat]
      /\ \A d \in Clients : Good(d)'
  BY <1>4, <1>6, <1>7, StepOf
<1>9. ProxyPart'
  BY <1>5, Now, SameProxy, RestoreIfType
<1>10. OtherPart'
  BY <1>8, Now DEF OtherPart, AutoRestart
<1> QED  BY <1>8, <1>9, <1>10, Parts

\* A step that leaves every engine, request and count alone.
LEMMA OutsideStep ==
  ASSUME IInv, UNCHANGED <<engine, asked, autos>>
  PROVE  /\ EnginePart' /\ asked' \in [Clients -> BOOLEAN] /\ autos' \in [Clients -> Nat]
         /\ \A d \in Clients : Good(d)'
<1>1. EnginePart' /\ asked' \in [Clients -> BOOLEAN] /\ autos' \in [Clients -> Nat]
  BY Now DEF EnginePart, OtherPart
<1>2. ASSUME NEW d \in Clients
      PROVE  Good(d)'
  BY DEF Good, Running, IInv
<1> QED  BY <1>1, <1>2

LEMMA AskQuitKeeps ==
  ASSUME IInv, NEW c \in Clients, AskQuit(c) \/ AnyKey(c)
  PROVE  IInv'
<1>1. UNCHANGED <<engine, disk, leftover, proxy, history, spent>>
      /\ (ui' = [ui EXCEPT ![c] = "asked"] \/ ui' = [ui EXCEPT ![c] = "open"])
  BY DEF AskQuit, AnyKey
<1>2. EnginePart' /\ \A d \in Clients : Good(d)'
  BY <1>1, OutsideStep DEF history
<1>3. ProxyPart'
  BY <1>1, Now, SameProxy
<1>4. OtherPart'
  BY <1>1, Now DEF OtherPart, history
<1> QED  BY <1>2, <1>3, <1>4, Parts

LEMMA LeaveUIKeeps ==
  ASSUME IInv, NEW c \in Clients, LeaveUI(c)
  PROVE  IInv'
<1>1. EnginePart' /\ \A d \in Clients : Good(d)'
  BY OutsideStep DEF LeaveUI
<1>2. ProxyPart'
  BY Now, SameProxy, RestoreIfType DEF LeaveUI
<1>3. spent' \in [Events -> Nat]
  BY Now, EventTypes, SpendType DEF LeaveUI
<1>4. OtherPart'
  BY <1>3, Now DEF OtherPart, LeaveUI
<1> QED  BY <1>1, <1>2, <1>4, Parts

LEMMA ShutdownKeeps ==
  ASSUME IInv, NEW c \in Clients, Shutdown(c) \/ ClientDies(c)
  PROVE  IInv'
<1>1. engine[c] \in Engines /\ autos[c] \in Nat /\ autos[c] <= MaxRestarts + 1
  BY EngineOf DEF Shutdown, ClientDies
<1>2. EnginePart' /\ asked' \in [Clients -> BOOLEAN] /\ autos' \in [Clients -> Nat]
      /\ \A d \in Clients : Good(d)'
  <2>1. asked' = [asked EXCEPT ![c] = FALSE] /\ Become(c, None)
    BY DEF Shutdown, ClientDies
  <2>2. autos' = [autos EXCEPT ![c] = autos[c]]
    BY Now DEF Shutdown, ClientDies, OtherPart
  <2> QED  BY <1>1, <2>1, <2>2, StepOf
<1>3. ProxyPart'
  BY Now, SameProxy DEF Shutdown, ClientDies
<1>4. spent' \in [Events -> Nat]
  BY Now, EventTypes, SpendType DEF Shutdown, ClientDies, OtherPart
<1>5. leftover' \in [Clients -> SUBSET Ports]
  BY <1>1, Now, AbandonType, HeldType DEF Shutdown, ClientDies, OtherPart
<1>6. ui' = [ui EXCEPT ![c] = "closed"] \/ ui' = [ui EXCEPT ![c] = "dead"]
  BY DEF Shutdown, ClientDies
<1>7. OtherPart'
  BY <1>2, <1>4, <1>5, <1>6, Now DEF OtherPart, Shutdown, ClientDies
<1> QED  BY <1>2, <1>3, <1>7, Parts

LEMMA ClientStartKeeps ==
  ASSUME IInv, NEW c \in Clients, ClientStart(c)
  PROVE  IInv'
<1>1. disk[c] \in Settings
  BY Now DEF OtherPart
<1>2. PICK f \in Starts(Fresh(disk[c]), None) : Become(c, f) /\ Ask(c, f.pending # None)
  BY DEF ClientStart
<1>3. /\ Fresh(disk[c]) \in Engines /\ Coherent(Fresh(disk[c]))
      /\ Fresh(disk[c]).pending = None
      /\ Requested(Fresh(disk[c]), TRUE, 0) /\ Requested(Fresh(disk[c]), FALSE, 0)
  BY <1>1, FreshSound
<1>4. f \in Engines /\ Coherent(f) /\ Requested(f, TRUE, 0)
  BY <1>2, <1>3, StartsSound
<1>5. PICK a \in BOOLEAN : /\ asked' = [asked EXCEPT ![c] = a]
                           /\ autos' = [autos EXCEPT ![c] = 0]
                           /\ Requested(f, a, 0)
  <2>1. CASE f.pending # None
    <3>1. asked' = [asked EXCEPT ![c] = TRUE] /\ autos' = [autos EXCEPT ![c] = 0]
      BY <1>2, <2>1 DEF Ask
    <3> QED  BY <1>4, <3>1
  <2>2. CASE f.pending = None
    <3>1. asked' = [asked EXCEPT ![c] = FALSE] /\ autos' = [autos EXCEPT ![c] = 0]
      BY <1>2, <2>2 DEF Ask
    <3>2. ~f.running /\ ~f.armed
      <4>1. f = Fresh(disk[c]) \/ f = Spawned(Fresh(disk[c]), None)
        BY <1>2 DEF Starts
      <4>2. ~Fresh(disk[c]).running /\ ~Fresh(disk[c]).armed
        BY <1>3 DEF Requested
      <4>3. /\ Spawned(Fresh(disk[c]), None).running = Fresh(disk[c]).running
            /\ Spawned(Fresh(disk[c]), None).armed = Fresh(disk[c]).armed
        BY <1>3 DEF Spawned, Engines
      <4> QED  BY <4>1, <4>2, <4>3
    <3>3. ~Pending(f, "start")
      BY <2>2 DEF Pending
    <3>4. Requested(f, FALSE, 0)
      BY <1>4, <3>2, <3>3 DEF Requested
    <3> QED  BY <3>1, <3>4
  <2> QED  BY <2>1, <2>2
<1>6. 0 <= MaxRestarts + 1
  BY MaxRestartsType
<1>7. EnginePart' /\ asked' \in [Clients -> BOOLEAN] /\ autos' \in [Clients -> Nat]
      /\ \A d \in Clients : Good(d)'
  BY <1>2, <1>4, <1>5, <1>6, StepOf
<1>8. ProxyPart'
  BY Now, RestoreIfType DEF ClientStart
<1>9. OtherPart'
  BY <1>7, Now DEF OtherPart, ClientStart
<1> QED  BY <1>7, <1>8, <1>9, Parts

LEMMA CoreExitsKeeps ==
  ASSUME IInv, NEW c \in Clients, CoreExits(c)
  PROVE  IInv'
<1> DEFINE e == engine[c]
<1>1. /\ e \in Engines /\ Coherent(e) /\ Requested(e, asked[c], autos[c])
  BY EngineOf DEF CoreExits
<1>2. \A k \in Cores : [k EXCEPT !.alive = FALSE] \in Cores
  BY DEF Cores
<1>3. PICK f \in Engines : Become(c, f) /\ Coherent(f) /\ Requested(f, asked[c], autos[c])
  <2>1. CASE e.child # None /\ Become(c, [e EXCEPT !.child.alive = FALSE])
    <3> DEFINE dead == [e.child EXCEPT !.alive = FALSE]
               z == [e EXCEPT !.child = dead]
    <3>1. dead \in Cores /\ e.running
      BY <1>1, <1>2, <2>1 DEF Coherent, Engines
    <3>2. Become(c, z)
      BY <2>1
    <3> HIDE DEF dead
    <3>3. z \in Engines
      BY <1>1, <3>1 DEF Engines
    <3>4. /\ z.attempts = e.attempts /\ z.running = e.running /\ z.child = dead
          /\ z.pending = e.pending /\ z.armed = e.armed /\ z.proxyOn = e.proxyOn
      BY <1>1 DEF Engines
    <3> HIDE DEF z
    <3>5. Coherent(z)
      BY <1>1, <3>1, <3>4 DEF Coherent, Pending
    <3>6. Requested(z, asked[c], autos[c])
      BY <1>1, <3>4 DEF Requested, Pending
    <3> QED  BY <3>2, <3>3, <3>5, <3>6
  <2>2. CASE /\ InOperation(c, "start", "ready")
             /\ Become(c, [e EXCEPT !.pending.core.alive = FALSE])
    <3> DEFINE dead == [e.pending.core EXCEPT !.alive = FALSE]
               op == [e.pending EXCEPT !.core = dead]
               z == [e EXCEPT !.pending = op]
    <3>1. e.pending \in Ops /\ e.pending.core \in Cores /\ Pending(e, "start")
      BY <2>2, Starting DEF InOperation
    <3>2. dead \in Cores
      BY <1>2, <3>1
    <3>3. Become(c, z)
      BY <2>2
    <3> HIDE DEF dead
    <3>4. op \in Ops /\ op.core = dead
      BY <3>1, <3>2 DEF Ops
    <3> HIDE DEF op
    <3>5. z \in Engines
      BY <1>1, <3>4 DEF Engines
    <3>6. /\ z.attempts = e.attempts /\ z.running = e.running /\ z.child = e.child
          /\ z.pending = op /\ z.armed = e.armed /\ z.proxyOn = e.proxyOn
      BY <1>1 DEF Engines
    <3> HIDE DEF z
    <3>7. Coherent(z)
      BY <1>1, <3>1, <3>2, <3>4, <3>6 DEF Coherent
    <3>8. Requested(z, asked[c], autos[c])
      BY <1>1, <3>1, <3>6 DEF Requested
    <3> QED  BY <3>3, <3>5, <3>7, <3>8
  <2> QED  BY <2>1, <2>2 DEF CoreExits
<1>4. EnginePart' /\ asked' \in [Clients -> BOOLEAN] /\ autos' \in [Clients -> Nat]
      /\ \A d \in Clients : Good(d)'
  BY <1>3, SilentStepOf DEF CoreExits, history
<1>5. ProxyPart'
  BY Now, SameProxy DEF CoreExits
<1>6. spent' \in [Events -> Nat]
  BY Now, EventTypes, SpendType DEF CoreExits
<1>7. OtherPart'
  BY <1>4, <1>6, Now DEF OtherPart, CoreExits, history
<1> QED  BY <1>4, <1>5, <1>7, Parts

LEMMA PortFreedKeeps ==
  ASSUME IInv, NEW c \in Clients, NEW port \in Ports, PortFreed(c, port)
  PROVE  IInv'
<1>1. EnginePart' /\ \A d \in Clients : Good(d)'
  BY OutsideStep DEF PortFreed, history
<1>2. ProxyPart'
  BY Now, SameProxy DEF PortFreed
<1>3. OtherPart'
  BY Now DEF OtherPart, PortFreed, history
<1> QED  BY <1>1, <1>2, <1>3, Parts

LEMMA UserSetsKeeps ==
  ASSUME IInv, NEW v \in UserProxies, UserSets(v)
  PROVE  IInv'
<1>1. EnginePart' /\ \A d \in Clients : Good(d)'
  BY OutsideStep DEF UserSets
<1>2. ProxyPart'
  BY Now DEF UserSets, ProxyPart
<1>3. spent' \in [Events -> Nat]
  BY Now, EventTypes, SpendType DEF UserSets
<1>4. OtherPart'
  BY <1>3, Now DEF OtherPart, UserSets
<1> QED  BY <1>1, <1>2, <1>4, Parts

-------------------------------------------------------------------------------
(* The invariant holds in every reachable state *)

LEMMA InitIInv == Init => IInv
<1> SUFFICES ASSUME Init
             PROVE  IInv
  OBVIOUS
<1>1. EnginePart /\ ProxyPart /\ OtherPart
  BY ClientAssumption DEF Init, EnginePart, ProxyPart, OtherPart, Settings, Modes, Events
<1>2. \A c \in Clients : Good(c)
  <2>1. \A c \in Clients : engine[c] = None /\ autos[c] = 0
    BY DEF Init
  <2>2. 0 <= MaxRestarts + 1
    BY MaxRestartsType
  <2> QED  BY <2>1, <2>2 DEF Good, Running
<1> QED  BY <1>1, <1>2, TypeParts DEF IInv

LEMMA StutterKeeps ==
  ASSUME IInv, UNCHANGED vars
  PROVE  IInv'
<1>1. EnginePart' /\ \A d \in Clients : Good(d)'
  BY OutsideStep DEF vars, history
<1>2. ProxyPart'
  BY Now, SameProxy DEF vars
<1>3. OtherPart'
  BY Now DEF OtherPart, vars, history
<1> QED  BY <1>1, <1>2, <1>3, Parts

LEMMA NextKeeps == IInv /\ [Next]_vars => IInv'
<1> SUFFICES ASSUME IInv, [Next]_vars
             PROVE  IInv'
  OBVIOUS
<1>1. ASSUME NEW c \in Clients, Commands(c)
      PROVE  IInv'
  BY <1>1, StartCoreKeeps, StopCoreKeeps, RestartCoreKeeps, ToggleSystemProxyKeeps,
     OperateKeeps, ChangeSettingsKeeps, SwitchModeKeeps DEF Commands
<1>2. ASSUME NEW c \in Clients, Tick(c)
      PROVE  IInv'
  BY <1>2, FinishOtherKeeps, FinishStartedKeeps, FinishFailedKeeps, DetectExitKeeps,
     StableRunKeeps, AutoRestartKeeps, OperateKeeps DEF Tick
<1>3. ASSUME NEW c \in Clients, Life(c)
      PROVE  IInv'
  BY <1>3, AskQuitKeeps, LeaveUIKeeps, ShutdownKeeps, ClientStartKeeps DEF Life
<1>4. ASSUME NEW c \in Clients, Client(c)
      PROVE  IInv'
  BY <1>1, <1>2, <1>3, <1>4, OperationKeeps, CoreExitsKeeps, PortFreedKeeps DEF Client
<1>5. ASSUME NEW v \in UserProxies, UserSets(v)
      PROVE  IInv'
  BY <1>5, UserSetsKeeps
<1> QED  BY <1>4, <1>5, StutterKeeps DEF Next

LEMMA Invariant == Spec => []IInv
BY InitIInv, NextKeeps, PTL DEF Spec

\* Type correctness of every engine, of the proxy and of what is on disk.
THEOREM EngineTypes == Spec => []TypeOK
<1>1. IInv => TypeOK
  BY DEF IInv
<1> QED  BY <1>1, Invariant, PTL

\* A stop wins over a start that completes late, a restart that was armed and a
\* crash that is detected afterwards (stop_core, finish_operation, poll).
THEOREM StopWins == Spec => []StoppedStaysStopped
<1>1. IInv => StoppedStaysStopped
  <2> SUFFICES ASSUME IInv, NEW c \in Clients, Running(c), ~asked[c]
               PROVE  /\ ~engine[c].running
                      /\ ~engine[c].armed
                      /\ engine[c].child = None
                      /\ ~Pending(engine[c], "start")
    BY DEF StoppedStaysStopped
  <2>1. Coherent(engine[c]) /\ Requested(engine[c], asked[c], autos[c])
    BY EngineOf DEF Running
  <2> QED  BY <2>1 DEF Coherent, Requested
<1> QED  BY <1>1, Invariant, PTL

\* A client never has two live cores, whatever its commands and operations.
THEOREM OneLiveCore == Spec => []OneCore
<1>1. IInv => OneCore
  <2> SUFFICES ASSUME IInv, NEW c \in Clients, Running(c), Pending(engine[c], "start")
               PROVE  engine[c].child = None
    BY DEF OneCore
  <2>1. Coherent(engine[c])
    BY EngineOf DEF Running
  <2> QED  BY <2>1 DEF Coherent
<1> QED  BY <1>1, Invariant, PTL

\* schedule_restart limits the automatic restarts for every MAX_AUTO_RESTARTS.
THEOREM RestartsLimited == Spec => []RestartsBounded
<1>1. IInv => RestartsBounded
  BY DEF IInv, Good, RestartsBounded
<1> QED  BY <1>1, Invariant, PTL

-------------------------------------------------------------------------------
(* The system proxy, for one client that can write its files, whose user does *)
(* not change the proxy behind a backup and whose engine is at rest while its *)
(* interface leaves.  Without any one of these the properties do not hold.    *)

OneCarefulClient ==
  /\ \E c : Clients = {c}
  /\ ~StorageFails
  /\ ~StaleBackups
  /\ ~LateSteps

\* Nothing points at a port, or the operating system refused to take it away.
Clear(c) == osProxy \notin Ports \/ stuck[c]

LEMMA UsersAreNoPorts ==
  /\ \A v \in UserProxies : v \notin Ports
  /\ \A v \in Ports \cup UserProxies : v # None
BY ClientAssumption

LEMMA EnabledProxy ==
  ASSUME OneCarefulClient, IInv, NEW c \in Clients, BackupIsUsers(c), user' = user,
         NEW port \in Ports, NEW o \in EnableOutcomes(c, port), Take(c, o)
  PROVE  /\ BackupIsUsers(c)'
         /\ backup'[c] # None
         /\ o.ok \in BOOLEAN
         /\ o.ok => osProxy' = port
         /\ ~o.ok => stuck'[c]
<1>1. /\ osProxy \in Ports \cup UserProxies /\ backup[c] \in Ports \cup UserProxies \cup {None}
      /\ o \in Outcomes
  BY Now, EnableType DEF ProxyPart
<1>2. o.saved = IF backup[c] # None THEN backup[c] ELSE osProxy
  BY DEF EnableOutcomes, Captures, OneCarefulClient
<1>3. o.ok => o.os = port
  BY DEF EnableOutcomes
<1>4. backup'[c] = o.saved /\ osProxy' = o.os /\ stuck'[c] = ~o.ok
  BY Now DEF Take, ProxyPart
<1>5. o.ok \in BOOLEAN
  BY <1>1 DEF Outcomes
<1>6. backup'[c] # None /\ backup'[c] = user
  BY <1>1, <1>2, <1>4, UsersAreNoPorts DEF BackupIsUsers
<1>7. ~o.ok => stuck'[c]
  BY <1>4
<1> QED  BY <1>3, <1>4, <1>5, <1>6, <1>7 DEF BackupIsUsers

LEMMA DisabledProxy ==
  ASSUME IInv, NEW c \in Clients, BackupIsUsers(c), user' = user, backup[c] # None,
         NEW o \in DisableOutcomes(c), Take(c, o)
  PROVE  /\ BackupIsUsers(c)'
         /\ Clear(c)'
         /\ o.ok \in BOOLEAN
         /\ ~o.ok => stuck'[c] /\ backup'[c] # None
<1>1. user \in UserProxies /\ o \in Outcomes
  BY Now, DisableType DEF OtherPart
<1>2. backup'[c] = o.saved /\ osProxy' = o.os /\ stuck'[c] = ~o.ok
  BY Now DEF Take, ProxyPart
<1>3. o.ok \in BOOLEAN
  BY <1>1 DEF Outcomes
<1>4. \/ o.ok /\ o.os = backup[c] /\ o.saved = None
      \/ ~o.ok /\ o.os = osProxy /\ o.saved = backup[c]
  BY DEF DisableOutcomes, Refused
<1>5. backup[c] = user
  BY DEF BackupIsUsers
<1>6. CASE o.ok /\ o.os = backup[c] /\ o.saved = None
  BY <1>1, <1>2, <1>3, <1>5, <1>6, UsersAreNoPorts DEF BackupIsUsers, Clear
<1>7. CASE ~o.ok /\ o.os = osProxy /\ o.saved = backup[c]
  <2>1. stuck'[c]
    BY <1>2, <1>7
  <2> QED  BY <1>2, <1>3, <1>5, <1>7, <2>1 DEF BackupIsUsers, Clear
<1> QED  BY <1>4, <1>6, <1>7

\* What a switched-on proxy is restored by leaves nothing behind.
LEMMA RestoredProxy ==
  ASSUME IInv, NEW c \in Clients, BackupIsUsers(c), user' = user,
         NEW on, on => backup[c] # None, ~on => Clear(c), RestoreIf(c, on)
  PROVE  BackupIsUsers(c)' /\ Clear(c)'
<1>1. CASE on
  BY <1>1, DisabledProxy DEF RestoreIf
<1>2. CASE ~on
  BY <1>2 DEF RestoreIf, proxy, BackupIsUsers, Clear
<1> QED  BY <1>1, <1>2

\* The settings of the operators on engines.
LEMMA SettingsKept ==
  ASSUME NEW e \in Engines, e.settings.mode = e.shown
  PROVE  /\ SameSettings(Stopped(e)) /\ ~Stopped(e).proxyOn
         /\ e.pending = None => SameSettings(Scheduled(e)) /\ ~Scheduled(e).proxyOn
<1>1. /\ Stopped(e).settings = e.settings /\ Stopped(e).shown = e.shown
      /\ Stopped(e).running = FALSE /\ Stopped(e).pending = None /\ Stopped(e).proxyOn = FALSE
  BY DEF Stopped, Engines
<1>2. SameSettings(Stopped(e)) /\ ~Stopped(e).proxyOn
  BY <1>1 DEF SameSettings, Pending
<1>3. /\ Scheduled(e).settings = e.settings /\ Scheduled(e).shown = e.shown
  BY DEF Scheduled, Engines
<1>4. /\ Scheduled(e).running = FALSE /\ Scheduled(e).pending = e.pending
      /\ Scheduled(e).proxyOn = FALSE
  BY ScheduledFields
<1>5. e.pending = None => SameSettings(Scheduled(e)) /\ ~Scheduled(e).proxyOn
  BY <1>3, <1>4 DEF SameSettings, Pending
<1> QED  BY <1>2, <1>5

LEMMA SpawnedSettings ==
  ASSUME NEW e \in Engines, SameSettings(e), ~e.running, NEW undo
  PROVE  /\ SameSettings(Spawned(e, undo))
         /\ Spawned(e, undo).proxyOn = e.proxyOn
<1> DEFINE core == [mode |-> e.settings.mode, port |-> e.settings.port, alive |-> FALSE]
           op == [kind |-> "start", phase |-> "probe", core |-> core,
                  restarting |-> e.attempts > 0, undo |-> undo]
           z == Spawned(e, undo)
<1>1. z = [e EXCEPT !.pending = op]
  BY DEF Spawned
<1>2. /\ z.pending = op /\ z.running = e.running /\ z.settings = e.settings
      /\ z.shown = e.shown /\ z.proxyOn = e.proxyOn
  BY <1>1 DEF Engines
<1>3. op.core = core /\ core.mode = e.settings.mode /\ core.port = e.settings.port
  OBVIOUS
<1> HIDE DEF z, op, core
<1>4. SameSettings(z)
  BY <1>2, <1>3 DEF SameSettings
<1> QED  BY <1>2, <1>4 DEF z

LEMMA StartsSettings ==
  ASSUME NEW e \in Engines, SameSettings(e), NEW undo, NEW f \in Starts(e, undo)
  PROVE  SameSettings(f) /\ f.proxyOn = e.proxyOn
BY SpawnedSettings DEF Starts

LEMMA SameSettingsOf ==
  ASSUME NEW e, NEW f, SameSettings(e), f.settings = e.settings, f.shown = e.shown,
         f.running = e.running, f.child = e.child, f.pending = e.pending
  PROVE  SameSettings(f)
BY DEF SameSettings, Pending

-------------------------------------------------------------------------------
(* The proxy invariant is preserved *)

LEMMA ProxyStep ==
  ASSUME OneCarefulClient, IInv, NEW c \in Clients, BackupIsUsers(c)',
         NEW f \in Engines \cup {None}, Become(c, f),
         f # None => SameSettings(f),
         f # None /\ ui'[c] # "leaving" => ProxyOwned(f, c)'
  PROVE  ProxyInv'
<1>1. Clients = {c}
  BY DEF OneCarefulClient
<1>2. engine'[c] = f
  BY Now DEF Become, EnginePart
<1> QED  BY <1>1, <1>2 DEF ProxyInv, Running

LEMMA ProxyOf ==
  ASSUME IInv, ProxyInv, NEW c \in Clients, engine[c] # None
  PROVE  /\ BackupIsUsers(c)
         /\ SameSettings(engine[c])
         /\ engine[c].settings.mode = engine[c].shown
         /\ ui[c] # "leaving" => /\ ProxyOwned(engine[c], c)
                                 /\ engine[c].proxyOn => backup[c] # None
                                 /\ ~engine[c].proxyOn => Clear(c)
BY DEF ProxyInv, Running, SameSettings, ProxyOwned, Clear

\* The proxy and what concerns it are left alone.
LEMMA KeptStep ==
  ASSUME OneCarefulClient, IInv, ProxyInv, NEW c \in Clients, engine[c] # None,
         NEW f \in Engines, Become(c, f), SameSettings(f),
         f.settings = engine[c].settings, f.proxyOn = engine[c].proxyOn,
         UNCHANGED <<proxy, user, ui>>
  PROVE  ProxyInv'
<1>1. BackupIsUsers(c)'
  BY ProxyOf DEF BackupIsUsers, proxy
<1>2. ui'[c] # "leaving" => ProxyOwned(f, c)'
  BY ProxyOf DEF ProxyOwned, proxy
<1> QED  BY <1>1, <1>2, ProxyStep

\* The proxy is restored if it was on.
LEMMA QuietStep ==
  ASSUME OneCarefulClient, IInv, ProxyInv, NEW c \in Clients, engine[c] # None,
         ui[c] # "leaving", RestoreIf(c, engine[c].proxyOn), user' = user,
         NEW f \in Engines, Become(c, f), SameSettings(f), ~f.proxyOn
  PROVE  ProxyInv'
<1>1. BackupIsUsers(c)' /\ Clear(c)'
  BY ProxyOf, RestoredProxy
<1>2. ProxyOwned(f, c)'
  BY <1>1 DEF ProxyOwned, Clear
<1> QED  BY <1>1, <1>2, ProxyStep

LEMMA CarefulActs ==
  ASSUME OneCarefulClient, NEW c, Acts(c)
  PROVE  engine[c] # None /\ ui[c] # "leaving"
BY DEF Acts, OneCarefulClient

LEMMA StartCoreProxy ==
  ASSUME OneCarefulClient, IInv, ProxyInv, NEW c \in Clients, StartCore(c)
  PROVE  ProxyInv'
<1> DEFINE e == engine[c]
           z == [e EXCEPT !.attempts = 0]
<1>1. e # None /\ e \in Engines /\ Coherent(e) /\ SameSettings(e)
      /\ Requested(e, asked[c], autos[c])
  BY EngineOf, ProxyOf, CarefulActs DEF StartCore, Idle, Command
<1>2. z \in Engines
  BY <1>1, ResetSound
<1>3. /\ z.settings = e.settings /\ z.shown = e.shown /\ z.running = e.running
      /\ z.child = e.child /\ z.pending = e.pending /\ z.proxyOn = e.proxyOn
  BY <1>1 DEF Engines
<1>4. UNCHANGED <<proxy, user, ui>>
  BY DEF StartCore
<1>5. CASE e.running
  BY <1>1, <1>4, <1>5, KeptStep DEF StartCore, Starts
<1>6. CASE ~e.running
  <2>1. PICK f \in Starts(z, None) : Become(c, f)
    BY <1>6 DEF StartCore
  <2> HIDE DEF z
  <2>2. SameSettings(z) /\ Coherent(z)
    BY <1>1, <1>3, SameSettingsOf DEF Coherent, Pending
  <2>3. SameSettings(f) /\ f.proxyOn = e.proxyOn /\ f \in Engines
    BY <1>2, <1>3, <2>1, <2>2, StartsSettings, StartsSound
  <2>4. f.settings = e.settings
    BY <1>2, <1>3, <2>1 DEF Starts, Spawned, Engines
  <2> QED  BY <1>1, <1>4, <2>1, <2>3, <2>4, KeptStep
<1> QED  BY <1>5, <1>6

LEMMA StopCoreProxy ==
  ASSUME OneCarefulClient, IInv, ProxyInv, NEW c \in Clients, StopCore(c) \/ RestartCore(c)
  PROVE  ProxyInv'
<1> DEFINE e == engine[c]
<1>1. e # None /\ ui[c] # "leaving"
  BY CarefulActs DEF StopCore, RestartCore, Command
<1>2. e \in Engines /\ e.settings.mode = e.shown
  BY <1>1, EngineOf, ProxyOf
<1>3. Stopped(e) \in Engines /\ SameSettings(Stopped(e)) /\ ~Stopped(e).proxyOn
      /\ Coherent(Stopped(e))
  BY <1>2, SettingsKept, StoppedSound
<1>4. PICK f \in Engines : Become(c, f) /\ SameSettings(f) /\ ~f.proxyOn
  <2>1. CASE StopCore(c)
    BY <1>3, <2>1 DEF StopCore
  <2>2. CASE RestartCore(c)
    <3>1. PICK f \in Starts(Stopped(e), None) : Become(c, f)
      BY <2>2 DEF RestartCore
    <3> QED  BY <1>3, <3>1, StartsSettings, StartsSound
  <2> QED  BY <2>1, <2>2
<1>5. RestoreIf(c, e.proxyOn) /\ user' = user
  BY DEF StopCore, RestartCore
<1> QED  BY <1>1, <1>4, <1>5, QuietStep

LEMMA ToggleSystemProxyProxy ==
  ASSUME OneCarefulClient, IInv, ProxyInv, NEW c \in Clients, ToggleSystemProxy(c)
  PROVE  ProxyInv'
<1> DEFINE e == engine[c]
<1>1. e # None /\ ui[c] # "leaving"
  BY CarefulActs DEF ToggleSystemProxy, Idle, Command
<1>2. e \in Engines /\ e.settings.mode = e.shown /\ BackupIsUsers(c) /\ SameSettings(e)
      /\ ProxyOwned(e, c)
  BY <1>1, EngineOf, ProxyOf
<1>3. user' = user
  BY DEF ToggleSystemProxy, history
<1>4. PICK on \in BOOLEAN :
        /\ Become(c, [e EXCEPT !.proxyOn = on])
        /\ BackupIsUsers(c)'
        /\ on => backup'[c] # None
        /\ \/ on /\ e.settings.mode = "SystemProxy" /\ osProxy' = e.settings.port
           \/ Clear(c)'
  <2>1. CASE e.proxyOn
    <3>1. PICK o \in DisableOutcomes(c) : Take(c, o) /\ Become(c, [e EXCEPT !.proxyOn = ~o.ok])
      BY <2>1 DEF ToggleSystemProxy
    <3>2. backup[c] # None
      BY <1>2, <2>1 DEF ProxyOwned
    <3>3. /\ BackupIsUsers(c)' /\ Clear(c)' /\ o.ok \in BOOLEAN
          /\ ~o.ok => backup'[c] # None
      BY <1>2, <1>3, <3>1, <3>2, DisabledProxy
    <3>4. (~o.ok) \in BOOLEAN
      OBVIOUS
    <3> QED  BY <3>1, <3>3, <3>4
  <2>2. CASE ~e.proxyOn
    <3>1. e.shown = "SystemProxy" /\ e.settings.port \in Ports
      BY <1>2, <2>2 DEF ToggleSystemProxy, Engines, Settings
    <3>2. PICK o \in EnableOutcomes(c, e.settings.port) :
            Take(c, o) /\ Become(c, [e EXCEPT !.proxyOn = o.ok])
      BY <2>2 DEF ToggleSystemProxy
    <3>3. /\ BackupIsUsers(c)' /\ backup'[c] # None /\ o.ok \in BOOLEAN
          /\ o.ok => osProxy' = e.settings.port
          /\ ~o.ok => stuck'[c]
      BY <1>2, <1>3, <3>1, <3>2, EnabledProxy
    <3>4. o.ok \/ Clear(c)'
      BY <3>3 DEF Clear
    <3> QED  BY <1>2, <3>1, <3>2, <3>3, <3>4
  <2> QED  BY <2>1, <2>2
<1>5. PICK f \in Engines : f = [e EXCEPT !.proxyOn = on]
  BY <1>2 DEF Engines
<1>6. Become(c, f) /\ f.proxyOn = on /\ f.settings = e.settings
  BY <1>2, <1>4, <1>5 DEF Engines
<1>7. SameSettings(f)
  <2>1. /\ f.settings = e.settings /\ f.shown = e.shown
        /\ f.running = e.running /\ f.child = e.child /\ f.pending = e.pending
    BY <1>2, <1>5 DEF Engines
  <2> QED  BY <1>2, <2>1 DEF SameSettings, Pending
<1>8. ProxyOwned(f, c)'
  BY <1>4, <1>6 DEF ProxyOwned, Clear
<1>9. BackupIsUsers(c)' /\ f \in Engines
  BY <1>4
<1> QED  BY <1>6, <1>7, <1>8, <1>9, ProxyStep

LEMMA OperateProxy ==
  ASSUME OneCarefulClient, IInv, ProxyInv, NEW c \in Clients,
         Operate(c) \/ AutoUpdate(c) \/ StableRun(c) \/ FinishOther(c)
  PROVE  ProxyInv'
<1> DEFINE e == engine[c]
<1>1. e # None
  BY CarefulActs DEF Operate, AutoUpdate, StableRun, FinishOther, Idle, Command
<1>2. e \in Engines /\ SameSettings(e) /\ Coherent(e) /\ Requested(e, asked[c], autos[c])
  BY <1>1, EngineOf, ProxyOf
<1>3. UNCHANGED <<proxy, user, ui>>
  BY DEF Operate, AutoUpdate, StableRun, FinishOther, history
<1>4. CASE Operate(c) \/ AutoUpdate(c)
  <2>1. Occupied(e) \in Engines
    BY <1>2, OccupiedSound
  <2>2. /\ Occupied(e).settings = e.settings /\ Occupied(e).shown = e.shown
        /\ Occupied(e).running = e.running /\ Occupied(e).child = e.child
        /\ Occupied(e).proxyOn = e.proxyOn /\ Occupied(e).pending.kind = "other"
    BY <1>2 DEF Occupied, Engines
  <2>3. SameSettings(Occupied(e))
    BY <1>2, <2>2 DEF SameSettings, Pending
  <2>4. Become(c, Occupied(e))
    BY <1>4 DEF Operate, AutoUpdate
  <2> QED  BY <1>1, <1>3, <2>1, <2>2, <2>3, <2>4, KeptStep
<1>5. CASE StableRun(c)
  <2> DEFINE z == [e EXCEPT !.attempts = 0]
  <2>1. z \in Engines
    BY <1>2, ResetSound
  <2>2. /\ z.settings = e.settings /\ z.shown = e.shown /\ z.running = e.running
        /\ z.child = e.child /\ z.pending = e.pending /\ z.proxyOn = e.proxyOn
    BY <1>2 DEF Engines
  <2>3. Become(c, z)
    BY <1>5 DEF StableRun
  <2> HIDE DEF z
  <2> QED  BY <1>1, <1>2, <1>3, <2>1, <2>2, <2>3, SameSettingsOf, KeptStep
<1>6. CASE FinishOther(c)
  <2> DEFINE z == [e EXCEPT !.pending = None]
  <2>1. z \in Engines
    BY <1>2 DEF Engines
  <2>2. /\ z.settings = e.settings /\ z.shown = e.shown /\ z.running = e.running
        /\ z.child = e.child /\ z.pending = None /\ z.proxyOn = e.proxyOn
    BY <1>2 DEF Engines
  <2>3. Become(c, z)
    BY <1>6 DEF FinishOther
  <2> HIDE DEF z
  <2>4. SameSettings(z)
    BY <1>2, <2>2 DEF SameSettings, Pending
  <2> QED  BY <1>1, <1>3, <2>1, <2>2, <2>3, <2>4, KeptStep
<1> QED  BY <1>4, <1>5, <1>6

LEMMA ChangeSettingsProxy ==
  ASSUME OneCarefulClient, IInv, ProxyInv, NEW c \in Clients, NEW s \in Settings,
         ChangeSettings(c, s)
  PROVE  ProxyInv'
<1> DEFINE e == engine[c]
           z == [e EXCEPT !.settings = s, !.shown = s.mode, !.lost = None]
<1>1. e # None /\ ui[c] # "leaving"
  BY CarefulActs DEF ChangeSettings, Idle, Command
<1>2. e \in Engines /\ Coherent(e) /\ ~e.running /\ e.pending = None /\ s.mode \in Modes
  BY <1>1, EngineOf DEF ChangeSettings, Idle, Settings
<1>3. Become(c, z) /\ UNCHANGED <<proxy, user>>
  BY DEF ChangeSettings, Changed, OneCarefulClient, history
<1>4. z \in Engines
  BY <1>2, SettingsSound
<1>5. /\ z.settings = s /\ z.shown = s.mode /\ z.running = e.running
      /\ z.pending = e.pending /\ z.proxyOn = e.proxyOn
  BY <1>2 DEF Engines
<1> HIDE DEF z
<1>6. SameSettings(z) /\ ~e.proxyOn /\ ~z.proxyOn
  BY <1>2, <1>5 DEF SameSettings, Pending, Coherent
<1>7. RestoreIf(c, e.proxyOn)
  BY <1>3, <1>6 DEF RestoreIf
<1> QED  BY <1>1, <1>3, <1>4, <1>6, <1>7, QuietStep

LEMMA SwitchModeProxy ==
  ASSUME OneCarefulClient, IInv, ProxyInv, NEW c \in Clients, NEW mode \in Modes,
         SwitchMode(c, mode)
  PROVE  ProxyInv'
<1> DEFINE e    == engine[c]
           old  == e.settings
           new  == [old EXCEPT !.mode = mode]
           base == [e EXCEPT !.settings = new, !.shown = mode, !.lost = None]
           down == Stopped(base)
           back == [down EXCEPT !.settings = old, !.shown = old.mode]
<1>1. e # None /\ ui[c] # "leaving"
  BY CarefulActs DEF SwitchMode, Idle, Command
<1>2. e \in Engines
  BY <1>1, EngineOf
<1>3. old \in Settings /\ old.mode \in Modes /\ new \in Settings /\ new.mode = mode
  BY <1>2 DEF Engines, Settings
<1>4. /\ RestoreIf(c, e.proxyOn) /\ user' = user
      /\ \/ Become(c, Spawned(down, old.mode))
         \/ \E f \in Starts(back, None) : Become(c, f)
  BY DEF SwitchMode, OneCarefulClient
<1> HIDE DEF old, new
<1>5. base \in Engines
  BY <1>2, <1>3, SettingsSound
<1>6. base.settings.mode = base.shown
  BY <1>2, <1>3 DEF Engines
<1> HIDE DEF base
<1>7. /\ down \in Engines /\ Coherent(down) /\ ~down.running /\ SameSettings(down)
      /\ ~down.proxyOn
  BY <1>5, <1>6, StoppedSound, SettingsKept
<1>8. down.pending = None /\ down.child = None
  BY <1>5 DEF down, Stopped, Engines
<1> HIDE DEF down
<1>9. back \in Engines /\ SameControl(down, back)
  BY <1>3, <1>7, SettingsSound
<1>10. back.settings = old /\ back.shown = old.mode
  BY <1>7 DEF Engines
<1> HIDE DEF back
<1>11. Coherent(back) /\ SameSettings(back) /\ ~back.proxyOn
  BY <1>7, <1>8, <1>9, <1>10 DEF SameControl, Coherent, SameSettings, Pending
<1>12. PICK f \in Engines : Become(c, f) /\ SameSettings(f) /\ ~f.proxyOn
  <2>1. CASE Become(c, Spawned(down, old.mode))
    BY <1>3, <1>7, <2>1, SpawnedSound, SpawnedSettings
  <2>2. CASE \E f \in Starts(back, None) : Become(c, f)
    <3>1. PICK f \in Starts(back, None) : Become(c, f)
      BY <2>2
    <3> QED  BY <1>9, <1>11, <3>1, StartsSettings, StartsSound
  <2> QED  BY <1>4, <2>1, <2>2
<1> QED  BY <1>1, <1>4, <1>12, QuietStep

LEMMA OperationProxy ==
  ASSUME OneCarefulClient, IInv, ProxyInv, NEW c \in Clients, Launch(c) \/ Settle(c)
  PROVE  ProxyInv'
<1> DEFINE e == engine[c]
           core == e.pending.core
<1>1. e # None /\ e.pending # None
  BY DEF Launch, Settle, InOperation, Pending
<1>2. e \in Engines /\ SameSettings(e) /\ Coherent(e)
  BY <1>1, EngineOf, ProxyOf
<1>3. e.pending \in Ops
  BY <1>1, <1>2 DEF Engines
<1>4. \A k \in Cores, b \in BOOLEAN :
        /\ [k EXCEPT !.alive = b] \in Cores
        /\ [k EXCEPT !.alive = b].mode = k.mode /\ [k EXCEPT !.alive = b].port = k.port
  BY DEF Cores
<1>5. PICK phase \in {"probe", "launched", "ready", "failed"}, next \in Cores \cup {None} :
        /\ Advance(c, phase, next)
        /\ Pending(e, "start") =>
             next \in Cores /\ next.mode = core.mode /\ next.port = core.port
  <2>0. Pending(e, "start") => core \in Cores
    BY <1>2 DEF Coherent
  <2>1. CASE Launch(c)
    BY <1>4, <2>0, <2>1 DEF Launch, InOperation
  <2>2. CASE InOperation(c, "start", "launched") /\ Advance(c, "ready", core)
    BY <2>0, <2>2 DEF InOperation
  <2>3. CASE InOperation(c, "start", "launched")
             /\ Advance(c, "failed", [core EXCEPT !.alive = FALSE])
    BY <1>4, <2>0, <2>3 DEF InOperation
  <2>4. CASE InOperation(c, "other", "launched") /\ Advance(c, "ready", None)
    BY <2>4 DEF InOperation, Pending
  <2> QED  BY <2>1, <2>2, <2>3, <2>4 DEF Settle
<1> DEFINE op == [[e.pending EXCEPT !.phase = phase] EXCEPT !.core = next]
           z  == [e EXCEPT !.pending = op]
<1>6. op.kind = e.pending.kind /\ op.core = next
  BY <1>3 DEF Ops
<1>7. op \in Ops
  <2>1. [e.pending EXCEPT !.phase = phase] \in Ops
    BY <1>3 DEF Ops
  <2> QED  BY <2>1 DEF Ops
<1>8. Become(c, z)
  <2>1. engine' = [engine EXCEPT ![c].pending.phase = phase, ![c].pending.core = next]
    BY <1>5 DEF Advance
  <2>2. engine \in [Clients -> Engines \cup {None}]
    BY Now DEF EnginePart
  <2>3. [e EXCEPT !.pending.phase = phase, !.pending.core = next] = z
    BY <1>2 DEF Engines
  <2>4. engine' = [engine EXCEPT ![c] = [e EXCEPT !.pending.phase = phase,
                                                  !.pending.core = next]]
    BY <2>1, <2>2
  <2> QED  BY <2>3, <2>4 DEF Become
<1> HIDE DEF op
<1>9. z \in Engines /\ z.pending = op /\ z.settings = e.settings /\ z.shown = e.shown
      /\ z.running = e.running /\ z.child = e.child /\ z.proxyOn = e.proxyOn
  BY <1>2, <1>7 DEF Engines
<1> HIDE DEF z
<1>10. SameSettings(z)
  <2>1. Pending(z, "start") => Pending(e, "start")
    BY <1>1, <1>6, <1>9 DEF Pending
  <2> QED  BY <1>2, <1>5, <1>6, <1>9, <2>1 DEF SameSettings
<1>11. UNCHANGED <<proxy, user, ui>>
  BY <1>5 DEF Advance, history
<1> QED  BY <1>1, <1>8, <1>9, <1>10, <1>11, KeptStep

LEMMA FinishStartedProxy ==
  ASSUME OneCarefulClient, IInv, ProxyInv, NEW c \in Clients, FinishStarted(c)
  PROVE  ProxyInv'
<1> DEFINE e    == engine[c]
           core == e.pending.core
           up   == [e EXCEPT !.child = core, !.pending = None, !.running = TRUE,
                             !.armed = FALSE]
<1>1. e # None /\ ui[c] # "leaving" /\ Pending(e, "start")
  BY CarefulActs DEF FinishStarted, InOperation
<1>2. /\ e \in Engines /\ core \in Cores /\ BackupIsUsers(c) /\ SameSettings(e)
      /\ Requested(e, TRUE, autos[c]) /\ Coherent(e) /\ autos[c] \in Nat
      /\ e.settings.mode = e.shown
  BY <1>1, Starting, ProxyOf DEF FinishStarted
<1>3. ~e.proxyOn /\ core.mode = e.settings.mode /\ core.port = e.settings.port
  BY <1>1, <1>2 DEF Coherent, SameSettings
<1>4. up \in Engines
  BY <1>2, UpSound
<1>5. /\ up.settings = e.settings /\ up.shown = e.shown /\ up.running /\ up.child = core
      /\ up.pending = None /\ up.proxyOn = e.proxyOn
  BY <1>2 DEF Engines
<1>6. \/ Become(c, up) /\ UNCHANGED proxy
      \/ /\ core.mode = "SystemProxy"
         /\ \E o \in EnableOutcomes(c, core.port) :
              Take(c, o) /\ Become(c, [up EXCEPT !.proxyOn = o.ok])
  BY DEF FinishStarted
<1>7. user' = user
  BY DEF FinishStarted, history
<1> HIDE DEF up
<1>8. SameSettings(up)
  BY <1>2, <1>3, <1>5 DEF SameSettings, Pending
<1>9. CASE Become(c, up) /\ UNCHANGED proxy
  <2>1. RestoreIf(c, e.proxyOn)
    BY <1>3, <1>9 DEF RestoreIf
  <2> QED  BY <1>1, <1>3, <1>4, <1>5, <1>7, <1>8, <1>9, <2>1, QuietStep
<1>10. CASE /\ core.mode = "SystemProxy"
            /\ \E o \in EnableOutcomes(c, core.port) :
                 Take(c, o) /\ Become(c, [up EXCEPT !.proxyOn = o.ok])
  <2>1. PICK o \in EnableOutcomes(c, core.port) :
          Take(c, o) /\ Become(c, [up EXCEPT !.proxyOn = o.ok])
    BY <1>10
  <2>2. core.port \in Ports
    BY <1>2 DEF Cores
  <2>3. /\ BackupIsUsers(c)' /\ backup'[c] # None /\ o.ok \in BOOLEAN
        /\ o.ok => osProxy' = core.port
        /\ ~o.ok => stuck'[c]
    BY <1>2, <1>7, <2>1, <2>2, EnabledProxy
  <2>4. PICK f \in Engines : f = [up EXCEPT !.proxyOn = o.ok]
    BY <1>4, <2>3 DEF Engines
  <2>5. /\ f.settings = up.settings /\ f.shown = up.shown
        /\ f.running = up.running /\ f.child = up.child /\ f.pending = up.pending
    BY <1>4, <2>4 DEF Engines
  <2>6. f.proxyOn = o.ok /\ Become(c, f)
    BY <1>4, <2>1, <2>4 DEF Engines
  <2>7. SameSettings(f)
    BY <1>8, <2>5 DEF SameSettings, Pending
  <2>8. ProxyOwned(f, c)'
    <3>1. CASE o.ok
      <4>1. f.proxyOn /\ osProxy' = core.port
        BY <2>3, <2>6, <3>1
      <4>2. f.settings.mode = "SystemProxy" /\ f.settings.port = core.port
        BY <1>3, <1>5, <1>10, <2>5
      <4> QED  BY <2>3, <4>1, <4>2 DEF ProxyOwned
    <3>2. CASE ~o.ok
      BY <2>3, <3>2 DEF ProxyOwned
    <3> QED  BY <3>1, <3>2
  <2> QED  BY <2>3, <2>6, <2>7, <2>8, ProxyStep
<1> QED  BY <1>6, <1>9, <1>10

LEMMA FinishFailedProxy ==
  ASSUME OneCarefulClient, IInv, ProxyInv, NEW c \in Clients, FinishFailed(c)
  PROVE  ProxyInv'
<1> DEFINE e    == engine[c]
           op   == e.pending
           l    == IF op.undo = None THEN e.lost ELSE op.undo
           over == [e EXCEPT !.pending = None, !.lost = l]
<1>1. e # None /\ ui[c] # "leaving" /\ Pending(e, "start")
  BY CarefulActs DEF FinishFailed, InOperation
<1>2. /\ e \in Engines /\ Coherent(e) /\ SameSettings(e) /\ e.settings.mode = e.shown
      /\ op \in Ops
  BY <1>1, Starting, ProxyOf DEF FinishFailed
<1>3. ~e.proxyOn
  BY <1>1, <1>2 DEF Coherent
<1>4. /\ RestoreIf(c, op.restarting /\ over.proxyOn) /\ user' = user
      /\ Become(c, IF op.restarting THEN Scheduled(over) ELSE over)
  BY DEF FinishFailed, history
<1>5. l \in Modes \cup {None}
  BY <1>2 DEF Engines, Ops
<1> HIDE DEF l
<1>6. /\ over \in Engines /\ over.settings = e.settings /\ over.shown = e.shown
      /\ over.running = e.running /\ over.child = e.child /\ over.pending = None
      /\ over.proxyOn = e.proxyOn
  BY <1>2, <1>5 DEF Engines
<1> HIDE DEF over
<1>7. RestoreIf(c, e.proxyOn)
  BY <1>3, <1>4, <1>6 DEF RestoreIf
<1>8. SameSettings(over) /\ SameSettings(Scheduled(over)) /\ ~Scheduled(over).proxyOn
      /\ Scheduled(over) \in Engines
  BY <1>2, <1>6, SettingsKept, ScheduledFields DEF SameSettings, Pending
<1>9. PICK f \in Engines : Become(c, f) /\ SameSettings(f) /\ ~f.proxyOn
  BY <1>3, <1>4, <1>6, <1>8
<1> QED  BY <1>1, <1>4, <1>7, <1>9, QuietStep

LEMMA DetectExitProxy ==
  ASSUME OneCarefulClient, IInv, ProxyInv, NEW c \in Clients, DetectExit(c)
  PROVE  ProxyInv'
<1> DEFINE e == engine[c]
           s == Scheduled(e)
           z == [s EXCEPT !.child = None, !.pending = None]
<1>1. e # None /\ ui[c] # "leaving"
  BY CarefulActs DEF DetectExit
<1>2. e \in Engines /\ e.settings.mode = e.shown
  BY <1>1, EngineOf, ProxyOf
<1>3. s \in Engines /\ s.running = FALSE /\ s.proxyOn = FALSE
  BY <1>2, ScheduledFields
<1>4. s.settings = e.settings /\ s.shown = e.shown
  BY <1>2 DEF Scheduled, Engines
<1> HIDE DEF s
<1>5. /\ z \in Engines /\ z.settings = s.settings /\ z.shown = s.shown
      /\ z.running = s.running /\ z.pending = None /\ z.proxyOn = s.proxyOn
  BY <1>3 DEF Engines
<1>6. Become(c, z) /\ RestoreIf(c, e.proxyOn) /\ user' = user
  BY DEF DetectExit, s, history
<1> HIDE DEF z
<1>7. SameSettings(z) /\ ~z.proxyOn
  BY <1>2, <1>3, <1>4, <1>5 DEF SameSettings, Pending
<1> QED  BY <1>1, <1>5, <1>6, <1>7, QuietStep

LEMMA AutoRestartProxy ==
  ASSUME OneCarefulClient, IInv, ProxyInv, NEW c \in Clients, AutoRestart(c)
  PROVE  ProxyInv'
<1> DEFINE e   == engine[c]
           due == [e EXCEPT !.armed = FALSE]
<1>1. e # None /\ ui[c] # "leaving" /\ ~e.running /\ e.pending = None
  BY CarefulActs DEF AutoRestart
<1>2. e \in Engines /\ Coherent(e) /\ SameSettings(e) /\ e.settings.mode = e.shown
  BY <1>1, EngineOf, ProxyOf
<1>3. ~e.proxyOn
  BY <1>1, <1>2 DEF Coherent
<1>4. /\ due \in Engines /\ due.settings = e.settings /\ due.shown = e.shown
      /\ due.running = e.running /\ due.child = e.child /\ due.pending = e.pending
      /\ due.proxyOn = e.proxyOn
  BY <1>2 DEF Engines
<1>5. /\ user' = user
      /\ \/ Become(c, Spawned(due, None)) /\ UNCHANGED proxy
         \/ Become(c, Scheduled(due)) /\ RestoreIf(c, due.proxyOn)
  BY DEF AutoRestart
<1> HIDE DEF due
<1>6. SameSettings(due) /\ Coherent(due)
  BY <1>1, <1>2, <1>4 DEF SameSettings, Coherent, Pending
<1>7. /\ Spawned(due, None) \in Engines /\ SameSettings(Spawned(due, None))
      /\ Spawned(due, None).proxyOn = due.proxyOn
  BY <1>1, <1>4, <1>6, SpawnedSound, SpawnedSettings
<1>8. /\ Scheduled(due) \in Engines /\ SameSettings(Scheduled(due))
      /\ ~Scheduled(due).proxyOn
  BY <1>1, <1>2, <1>4, SettingsKept, ScheduledFields
<1>9. RestoreIf(c, e.proxyOn)
  BY <1>3, <1>4, <1>5 DEF RestoreIf
<1>10. PICK f \in Engines : Become(c, f) /\ SameSettings(f) /\ ~f.proxyOn
  BY <1>3, <1>4, <1>5, <1>7, <1>8
<1> QED  BY <1>1, <1>5, <1>9, <1>10, QuietStep

LEMMA InterfaceProxy ==
  ASSUME OneCarefulClient, IInv, ProxyInv, NEW c \in Clients,
         AskQuit(c) \/ AnyKey(c) \/ LeaveUI(c)
  PROVE  ProxyInv'
<1>1. Clients = {c}
  BY DEF OneCarefulClient
<1>2. ui[c] # "leaving" /\ ui \in [Clients -> {"open", "asked", "leaving", "closed", "dead"}]
  BY Now DEF AskQuit, AnyKey, LeaveUI, OtherPart
<1>3. UNCHANGED <<engine, user>>
  BY DEF AskQuit, AnyKey, LeaveUI, history
<1>4. CASE AskQuit(c) \/ AnyKey(c)
  <2>1. UNCHANGED proxy
    BY <1>4 DEF AskQuit, AnyKey
  <2> QED  BY <1>1, <1>2, <1>3, <2>1
         DEF ProxyInv, BackupIsUsers, ProxyOwned, Running, proxy
<1>5. CASE LeaveUI(c)
  <2>1. ui'[c] = "leaving"
    BY <1>2, <1>5 DEF LeaveUI
  <2>2. engine[c] # None /\ (UNCHANGED proxy \/ \E on \in BOOLEAN :
             (on => engine[c].proxyOn) /\ RestoreIf(c, on))
    <3>1. engine[c] # None
      BY <1>5 DEF LeaveUI
    <3>2. CASE UNCHANGED proxy
      BY <3>1, <3>2
    <3>3. CASE RestoreIf(c, engine[c].proxyOn)
      <4>1. engine[c].proxyOn \in BOOLEAN
        BY <3>1, EngineOf DEF Engines
      <4> QED  BY <3>1, <3>3, <4>1
    <3> QED  BY <1>5, <3>2, <3>3 DEF LeaveUI
  <2>3. BackupIsUsers(c) /\ (engine[c].proxyOn => backup[c] # None)
    BY <1>2, <2>2, ProxyOf
  <2>4. BackupIsUsers(c)'
    <3>1. CASE UNCHANGED proxy
      BY <1>3, <2>3, <3>1 DEF BackupIsUsers, proxy
    <3>2. ASSUME NEW on \in BOOLEAN, on => engine[c].proxyOn, RestoreIf(c, on)
          PROVE  BackupIsUsers(c)'
      <4>1. CASE on
        BY <1>3, <2>3, <3>2, <4>1, DisabledProxy DEF RestoreIf
      <4>2. CASE ~on
        BY <1>3, <2>3, <3>2, <4>2 DEF RestoreIf, BackupIsUsers, proxy
      <4> QED  BY <4>1, <4>2
    <3> QED  BY <2>2, <3>1, <3>2
  <2> QED  BY <1>1, <1>3, <2>1, <2>4 DEF ProxyInv, Running
<1> QED  BY <1>4, <1>5

LEMMA EndProxy ==
  ASSUME OneCarefulClient, IInv, ProxyInv, NEW c \in Clients, Shutdown(c) \/ ClientDies(c)
  PROVE  ProxyInv'
<1>1. Become(c, None) /\ UNCHANGED <<proxy, user>>
  BY DEF Shutdown, ClientDies
<1>2. BackupIsUsers(c)'
  BY <1>1 DEF ProxyInv, BackupIsUsers, proxy
<1> QED  BY <1>1, <1>2, ProxyStep

LEMMA ClientStartProxy ==
  ASSUME OneCarefulClient, IInv, ProxyInv, NEW c \in Clients, ClientStart(c)
  PROVE  ProxyInv'
<1>1. disk[c] \in Settings /\ user \in UserProxies
  BY Now DEF OtherPart
<1>2. RestoreIf(c, backup[c] # None) /\ user' = user
  BY DEF ClientStart
<1>3. BackupIsUsers(c)
  BY DEF ProxyInv
<1>4. (backup[c] # None) \in BOOLEAN /\ (backup[c] = None => Clear(c))
  BY <1>1, <1>3, UsersAreNoPorts DEF BackupIsUsers, Clear
<1>5. BackupIsUsers(c)' /\ Clear(c)'
  BY <1>2, <1>3, <1>4, RestoredProxy
<1>6. PICK f \in Starts(Fresh(disk[c]), None) : Become(c, f)
  BY DEF ClientStart
<1>7. Fresh(disk[c]) \in Engines /\ Coherent(Fresh(disk[c]))
  BY <1>1, FreshSound
<1>8. /\ Fresh(disk[c]).settings.mode = Fresh(disk[c]).shown
      /\ Fresh(disk[c]).running = FALSE /\ Fresh(disk[c]).pending = None
      /\ Fresh(disk[c]).proxyOn = FALSE
  BY DEF Fresh
<1>9. SameSettings(Fresh(disk[c]))
  BY <1>8 DEF SameSettings, Pending
<1>10. SameSettings(f) /\ ~f.proxyOn /\ f \in Engines
  BY <1>6, <1>7, <1>8, <1>9, StartsSettings, StartsSound
<1>11. ProxyOwned(f, c)'
  BY <1>5, <1>10 DEF ProxyOwned, Clear
<1> QED  BY <1>5, <1>6, <1>10, <1>11, ProxyStep

LEMMA CoreExitsProxy ==
  ASSUME OneCarefulClient, IInv, ProxyInv, NEW c \in Clients, CoreExits(c)
  PROVE  ProxyInv'
<1> DEFINE e == engine[c]
<1>1. e # None /\ UNCHANGED <<proxy, user, ui>>
  BY DEF CoreExits, history
<1>2. e \in Engines /\ Coherent(e) /\ SameSettings(e)
  BY <1>1, EngineOf, ProxyOf
<1>3. \A k \in Cores : /\ [k EXCEPT !.alive = FALSE] \in Cores
                       /\ [k EXCEPT !.alive = FALSE].mode = k.mode
                       /\ [k EXCEPT !.alive = FALSE].port = k.port
  BY DEF Cores
<1>4. CASE e.child # None /\ Become(c, [e EXCEPT !.child.alive = FALSE])
  <2> DEFINE dead == [e.child EXCEPT !.alive = FALSE]
             z == [e EXCEPT !.child = dead]
  <2>1. e.child \in Cores
    BY <1>2, <1>4 DEF Engines
  <2>2. dead \in Cores /\ dead.mode = e.child.mode /\ dead.port = e.child.port
    BY <1>3, <2>1
  <2>3. Become(c, z)
    BY <1>4
  <2> HIDE DEF dead
  <2>4. /\ z \in Engines /\ z.settings = e.settings /\ z.shown = e.shown
        /\ z.running = e.running /\ z.child = dead /\ z.pending = e.pending
        /\ z.proxyOn = e.proxyOn
    BY <1>2, <2>2 DEF Engines
  <2> HIDE DEF z
  <2>5. SameSettings(z)
    BY <1>2, <2>2, <2>4 DEF SameSettings, Pending
  <2> QED  BY <1>1, <2>3, <2>4, <2>5, KeptStep
<1>5. CASE /\ InOperation(c, "start", "ready")
           /\ Become(c, [e EXCEPT !.pending.core.alive = FALSE])
  <2> DEFINE dead == [e.pending.core EXCEPT !.alive = FALSE]
             op == [e.pending EXCEPT !.core = dead]
             z == [e EXCEPT !.pending = op]
  <2>1. e.pending \in Ops /\ e.pending.core \in Cores /\ Pending(e, "start")
    BY <1>5, Starting DEF InOperation
  <2>2. dead \in Cores /\ dead.mode = e.pending.core.mode /\ dead.port = e.pending.core.port
    BY <1>3, <2>1
  <2>3. Become(c, z)
    BY <1>5
  <2> HIDE DEF dead
  <2>4. op \in Ops /\ op.core = dead
    BY <2>1, <2>2 DEF Ops
  <2> HIDE DEF op
  <2>5. /\ z \in Engines /\ z.settings = e.settings /\ z.shown = e.shown
        /\ z.running = e.running /\ z.child = e.child /\ z.pending = op
        /\ z.proxyOn = e.proxyOn
    BY <1>2, <2>4 DEF Engines
  <2> HIDE DEF z
  <2>6. SameSettings(z)
    BY <1>2, <2>1, <2>2, <2>4, <2>5 DEF SameSettings
  <2> QED  BY <1>1, <2>3, <2>5, <2>6, KeptStep
<1> QED  BY <1>4, <1>5 DEF CoreExits

LEMMA OutsideProxy ==
  ASSUME OneCarefulClient, IInv, ProxyInv,
         UNCHANGED vars \/ \E c \in Clients, port \in Ports : PortFreed(c, port)
  PROVE  ProxyInv'
<1>1. UNCHANGED <<engine, ui, proxy, user>>
  BY DEF vars, PortFreed, history
<1> QED  BY <1>1 DEF ProxyInv, BackupIsUsers, ProxyOwned, Running, proxy

LEMMA UserSetsProxy ==
  ASSUME OneCarefulClient, IInv, ProxyInv, NEW v \in UserProxies, UserSets(v)
  PROVE  ProxyInv'
<1> SUFFICES ASSUME NEW c \in Clients
             PROVE  /\ BackupIsUsers(c)'
                    /\ Running(c)' => SameSettings(engine'[c])
                    /\ Running(c)' /\ ui'[c] # "leaving" => ProxyOwned(engine[c], c)'
  BY DEF ProxyInv
<1>1. backup[c] = None /\ UNCHANGED <<engine, ui, backup>> /\ osProxy' = v /\ user' = v
  BY DEF UserSets, OneCarefulClient
<1>2. v \notin Ports
  BY UsersAreNoPorts
<1>3. BackupIsUsers(c)'
  BY <1>1 DEF BackupIsUsers
<1>4. Running(c)' => SameSettings(engine'[c])
  BY <1>1 DEF Running, ProxyInv
<1>5. Running(c) => ~engine[c].proxyOn
  BY DEF UserSets, Running
<1>6. Running(c)' => ProxyOwned(engine[c], c)'
  BY <1>1, <1>2, <1>5 DEF ProxyOwned, Running
<1> QED  BY <1>3, <1>4, <1>6

LEMMA InitProxy == Init => ProxyInv
BY DEF Init, ProxyInv, BackupIsUsers, Running

LEMMA NextProxy ==
  ASSUME OneCarefulClient
  PROVE  IInv /\ ProxyInv /\ [Next]_vars => ProxyInv'
<1> SUFFICES ASSUME IInv, ProxyInv, [Next]_vars
             PROVE  ProxyInv'
  OBVIOUS
<1>1. ASSUME NEW c \in Clients, Commands(c)
      PROVE  ProxyInv'
  BY <1>1, StartCoreProxy, StopCoreProxy, ToggleSystemProxyProxy, OperateProxy,
     ChangeSettingsProxy, SwitchModeProxy DEF Commands
<1>2. ASSUME NEW c \in Clients, Tick(c)
      PROVE  ProxyInv'
  BY <1>2, OperateProxy, FinishStartedProxy, FinishFailedProxy, DetectExitProxy,
     AutoRestartProxy DEF Tick
<1>3. ASSUME NEW c \in Clients, Life(c)
      PROVE  ProxyInv'
  BY <1>3, InterfaceProxy, EndProxy, ClientStartProxy DEF Life
<1>4. ASSUME NEW c \in Clients, Client(c)
      PROVE  ProxyInv'
  BY <1>1, <1>2, <1>3, <1>4, OperationProxy, CoreExitsProxy, OutsideProxy DEF Client
<1>5. ASSUME NEW v \in UserProxies, UserSets(v)
      PROVE  ProxyInv'
  BY <1>5, UserSetsProxy
<1> QED  BY <1>4, <1>5, OutsideProxy DEF Next

LEMMA ProxyInvariant ==
  ASSUME OneCarefulClient
  PROVE  Spec => [](IInv /\ ProxyInv)
BY InitIInv, InitProxy, NextKeeps, NextProxy, PTL DEF Spec

\* A proxy that the operating system accepted points at the client's running
\* core (enable, disable, watch_core_exit, toggle_system_proxy).
THEOREM ProxyPointsAtCore ==
  ASSUME OneCarefulClient
  PROVE  Spec => []ProxyServed
<1>1. IInv /\ ProxyInv => ProxyServed
  <2> SUFFICES ASSUME IInv, ProxyInv, osProxy \in Ports,
                      NEW c \in Clients, Running(c), ui[c] # "leaving", ~stuck[c]
               PROVE  /\ engine[c].proxyOn
                      /\ engine[c].running
                      /\ engine[c].child # None
                      /\ engine[c].child.mode = "SystemProxy"
                      /\ engine[c].child.port = osProxy
    BY DEF ProxyServed
  <2>1. Coherent(engine[c]) /\ SameSettings(engine[c]) /\ ProxyOwned(engine[c], c)
    BY EngineOf, ProxyOf DEF Running
  <2> QED  BY <2>1, NoneAssumption DEF Coherent, SameSettings, ProxyOwned
<1> QED  BY <1>1, ProxyInvariant, PTL

\* The setting found before the first enable is what the last disable restores,
\* across failed disables, crashes of the core and deaths of the client.
THEOREM UserProxyRestored ==
  ASSUME OneCarefulClient
  PROVE  Spec => []UserProxyKept
<1>1. IInv /\ ProxyInv => UserProxyKept
  BY DEF ProxyInv, BackupIsUsers, UserProxyKept, OneCarefulClient
<1> QED  BY <1>1, ProxyInvariant, PTL
=============================================================================
