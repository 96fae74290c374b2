-------------------------- MODULE SubscriptionService --------------------------
(***************************************************************************)
(* The subscription service: its listeners, the connections they serve and *)
(* the answers to their requests.                                          *)
(*                                                                         *)
(* In Direct mode systemd hands over two listeners, TCP 80 for ACME        *)
(* challenges and TCP 443 for the subscription behind TLS; the other modes *)
(* bind one HTTP listener.  Each listener has its own semaphore, and every *)
(* connection runs in a task of its own that holds one of its permits.     *)
(* One thread runs all tasks, and a request is answered without a pause.   *)
(***************************************************************************)
EXTENDS SubscriptionFormats, RequestBudget

CONSTANTS
  Slots,          \* connections that may be open at a time, finitely many
  MaxConnections, \* MAX_CONCURRENT_CONNECTIONS
  MaxStops        \* bound on the times the service ends

ASSUME ServiceAssumption ==
  /\ IsFiniteSet(Slots)
  /\ MaxConnections \in Nat \ {0}
  /\ MaxStops \in Nat
  /\ None \notin Peers

VARIABLES
  mode,      \* the subscription mode the service was started in
  conns,     \* the connections
  permits,   \* free permits of each listener
  tlsLoaded, \* a certificate pair is loaded
  up, stops  \* the process runs; how often it has ended

connVars    == <<conns, permits>>
processVars == <<tlsLoaded, up, stops>>
serviceVars == <<budgetVars, connVars, processVars, mode>>

Modes     == {"Direct", "ExternalProxy", "IpFallback"}
Listeners == {"acme", "tls", "http"}

ListenersOf(m) == IF m = "Direct" THEN {"acme", "tls"} ELSE {"http"}

States   == {"free", "queued", "handshake", "open", "answered"}
Served   == {"handshake", "open", "answered"}
Statuses == {"200", "404", "405", "429", "503"}

\* An answered connection keeps its answer and whether its request was entitled to one.
Free == [state |-> "free", listener |-> None, peer |-> None, answer |-> None, entitled |-> FALSE]

(* Requests *)

\* A path with the credential of the configuration or another one, one the service
\* does not know, and one of an ACME challenge.
Paths ==
  {RoutePath(c, r) : c \in {"current", "other"},
                     r \in {IndexRoute, QrRoute(Clash), FormatRoute(SingBoxFull)}}
    \cup {[root |-> r, credential |-> "current", segments |-> <<Segment("uri", None, "md")>>] :
            r \in {"sub", "well-known"}}

Requests == [method : {"GET", "HEAD"}, query : BOOLEAN, path : Paths]

\* A GET for a subscription with the credential of the configuration.
Entitled(request) ==
  /\ request.method = "GET" /\ ~ request.query
  /\ request.path.root = "sub" /\ request.path.credential = "current"

TypeOK ==
  /\ BudgetTypeOK
  /\ mode \in Modes
  /\ conns \in [Slots -> [state : States, listener : Listeners \cup {None},
                          peer : Peers \cup {None}, answer : Statuses \cup {None},
                          entitled : BOOLEAN]]
  /\ permits \in [Listeners -> 0 .. MaxConnections]
  /\ \A l \in Listeners :
       up => permits[l] + Cardinality({s \in Slots : /\ conns[s].listener = l
                                                      /\ conns[s].state \in Served}) = MaxConnections
  /\ tlsLoaded \in BOOLEAN
  /\ up \in BOOLEAN
  /\ stops \in Nat

Init ==
  /\ BudgetInit
  /\ mode \in Modes
  /\ conns = [s \in Slots |-> Free]
  /\ permits = [l \in Listeners |-> MaxConnections]
  /\ tlsLoaded = FALSE
  /\ up = TRUE /\ stops = 0

-------------------------------------------------------------------------------
(* Answers *)

\* In external-proxy mode every peer is the proxy, and an unknown peer is let through.
Charged(peer) == mode # "ExternalProxy" /\ peer # None

\* Mutant: the artifact is read before the credential is compared.
AnswerReadFirst(request, readable) ==
  LET route == ParseRoute(request.path) IN
  IF request.method # "GET" THEN "405"
  ELSE IF request.query \/ route = None THEN "404"
  ELSE IF ~ readable THEN "503"
  ELSE IF request.path.credential # "current" THEN "404" ELSE "200"

\* The answer to a request that is not throttled; readable says whether the artifact
\* can be read, or the QR code or the overview page rendered.  Accounting state that
\* cannot be read costs a header or a badge, never the answer.
AnswerOf(request, readable) ==
  LET route == ParseRoute(request.path) IN
  IF request.method # "GET" THEN "405"
  ELSE IF request.query \/ route = None \/ request.path.credential # "current" THEN "404"
  ELSE IF readable THEN "200" ELSE "503"

-------------------------------------------------------------------------------
(* Connections *)

\* A peer connects; the listener's queue holds it until the loop accepts it.
Connect(s, l, p) ==
  /\ conns[s].state = "free"
  /\ l \in ListenersOf(mode)
  /\ conns' = [conns EXCEPT ![s] = [Free EXCEPT !.state = "queued", !.listener = l, !.peer = p]]
  /\ UNCHANGED <<budgetVars, permits, mode, processVars>>

\* Mutant: the listeners share one semaphore.
AdmitShared(s, l, state) ==
  IF \A k \in Listeners : permits[k] > 0
  THEN /\ conns' = [conns EXCEPT ![s].state = state]
       /\ permits' = [permits EXCEPT ![l] = permits[l] - 1]
  ELSE /\ conns' = [conns EXCEPT ![s] = Free]
       /\ UNCHANGED permits

\* A connection is handed to a task when its listener has a permit, else dropped.
Admit(s, l, state) ==
  IF permits[l] > 0
  THEN /\ conns' = [conns EXCEPT ![s].state = state]
       /\ permits' = [permits EXCEPT ![l] = permits[l] - 1]
  ELSE /\ conns' = [conns EXCEPT ![s] = Free]
       /\ UNCHANGED permits

\* serve_http_listener and serve_acme_listener.
AcceptPlain(s) ==
  /\ up
  /\ conns[s].state = "queued" /\ conns[s].listener \in {"acme", "http"}
  /\ Admit(s, conns[s].listener, "open")
  /\ UNCHANGED <<budgetVars, mode, processVars>>

\* serve_tls_listener: the pair is loaded first, and one that cannot be loaded leaves
\* the last one in service; without any the connection is dropped.
AcceptTls(s) ==
  /\ up
  /\ conns[s].state = "queued" /\ conns[s].listener = "tls"
  /\ tlsLoaded' \in {TRUE, tlsLoaded}
  /\ \/ tlsLoaded' /\ Admit(s, "tls", "handshake")
     \/ ~ tlsLoaded' /\ conns' = [conns EXCEPT ![s] = Free] /\ UNCHANGED permits
  /\ UNCHANGED <<budgetVars, mode, up, stops>>

\* The peer completes the handshake.
Handshake(s) ==
  /\ conns[s].state = "handshake"
  /\ conns' = [conns EXCEPT ![s].state = "open"]
  /\ UNCHANGED <<budgetVars, permits, mode, processVars>>

\* The task of a connection ends and gives its permit back.
TaskEnds(s) ==
  /\ conns' = [conns EXCEPT ![s] = Free]
  /\ permits' = [permits EXCEPT ![conns[s].listener] = permits[conns[s].listener] + 1]

\* The peer leaves, or its handshake fails.
Leave(s) ==
  /\ conns[s].state \in Served
  /\ TaskEnds(s)
  /\ UNCHANGED <<budgetVars, mode, processVars>>

\* The header comes too slowly, is too long, or the connection is too old.
TimesOut(s) ==
  /\ conns[s].state \in {"open", "answered"}
  /\ TaskEnds(s)
  /\ UNCHANGED <<budgetVars, mode, processVars>>

Answer(s, request, status) ==
  conns' = [conns EXCEPT ![s].state = "answered", ![s].peer = None,
                         ![s].answer = status, ![s].entitled = Entitled(request)]

\* subscription_http_response: the budget is charged before anything is looked at.
Respond(s, request, readable) ==
  LET peer == conns[s].peer IN
  /\ conns[s].state = "open" /\ conns[s].listener \in {"tls", "http"}
  /\ \/ Charged(peer) /\ Refuse(peer) /\ Answer(s, request, "429")
     \/ Charged(peer) /\ Grant(peer) /\ Answer(s, request, AnswerOf(request, readable))
     \/ /\ ~ Charged(peer) /\ Answer(s, request, AnswerOf(request, readable))
        /\ UNCHANGED budgetVars
  /\ UNCHANGED <<permits, mode, processVars>>

\* acme_http_response: the file of a challenge, or nothing; no budget is charged.
RespondAcme(s, request, readable) ==
  /\ conns[s].state = "open" /\ conns[s].listener = "acme"
  /\ Answer(s, request, IF request.path.root = "well-known" /\ readable THEN "200" ELSE "404")
  /\ UNCHANGED <<budgetVars, permits, mode, processVars>>

(* The process *)

\* accept fails: both listeners of the process end with it, and every connection.
\* systemd keeps the queue of the sockets it owns.
Stop ==
  /\ up /\ stops < MaxStops
  /\ up' = FALSE
  /\ stops' = stops + 1
  /\ conns' = [s \in Slots |->
                 IF mode = "Direct" /\ conns[s].state = "queued" THEN conns[s] ELSE Free]
  /\ permits' = [l \in Listeners |-> MaxConnections]
  /\ tlsLoaded' = FALSE
  /\ BudgetForgotten
  /\ UNCHANGED mode

\* The role of a listener systemd hands over is decided by its port.
Role(port) ==
  CASE port = 80 -> "acme" [] port = 443 -> "tls" [] OTHER -> None

\* Direct mode starts with the two listeners and no other.
Starts(handed) == mode = "Direct" => {Role(port) : port \in handed} = ListenersOf(mode)

\* Restart=on-failure: a service started without its sockets fails and is tried again.
Restart ==
  /\ ~ up
  /\ \E handed \in SUBSET {80, 443, 8080} : Starts(handed)
  /\ up' = TRUE
  /\ UNCHANGED <<budgetVars, connVars, mode, tlsLoaded, stops>>

Time == Tick /\ UNCHANGED <<connVars, mode, processVars>>

Peer(s) ==
  \/ \E l \in Listeners, p \in Peers \cup {None} : Connect(s, l, p)
  \/ Handshake(s)
  \/ Leave(s)
  \/ \E r \in Requests, readable \in BOOLEAN : Respond(s, r, readable) \/ RespondAcme(s, r, readable)

Next ==
  \/ \E s \in Slots : Peer(s) \/ AcceptPlain(s) \/ AcceptTls(s) \/ TimesOut(s)
  \/ Stop \/ Restart \/ Time

Spec == Init /\ [][Next]_serviceVars

\* The loops run and timers fire; peers and the clock promise nothing.
Fairness ==
  /\ \A s \in Slots : WF_serviceVars(AcceptPlain(s)) /\ WF_serviceVars(AcceptTls(s))
  /\ \A s \in Slots : WF_serviceVars(TimesOut(s))
  /\ WF_serviceVars(Restart)

FairSpec == Spec /\ Fairness

-------------------------------------------------------------------------------
(* Properties *)

\* A request without the credential gets the same answer whatever the deployment
\* holds and whatever it names: not found, not allowed, or too many; and nothing that
\* is not a subscription request of a counted address is ever refused as one too many
\* (subscription_http_response, acme_http_response).
AnswersGiveNothingAway ==
  \A s \in Slots : conns[s].state = "answered" =>
    LET c == conns[s] IN
    /\ c.listener # "acme" /\ c.answer \in {"200", "503"} => c.entitled
    /\ c.answer = "429" => c.listener # "acme" /\ mode # "ExternalProxy"

\* A queued connection is dropped only when its own listener serves as many as it may,
\* or has no certificate: challenges are answered however many subscription
\* connections are open (serve_tls_listener, serve_acme_listener).
DropsOnlyWhenFull ==
  [][\A s \in Slots :
       conns[s].state = "queued" /\ conns'[s].state = "free" /\ up' =>
         LET l == conns[s].listener IN
         \/ Cardinality({c \in Slots : conns[c].listener = l /\ conns[c].state \in Served})
              = MaxConnections
         \/ l = "tls" /\ ~ tlsLoaded']_serviceVars

\* A slow reader, an idle client or connection flooding cannot exhaust the process:
\* every connection that holds a permit ends, whatever its peer does
\* (MAX_CONNECTION_TIME).
EveryConnectionEnds ==
  \A s \in Slots : conns[s].state \in Served ~> conns[s].state = "free"
=============================================================================
