--------------------------- MODULE DeploymentConfig ---------------------------
(***************************************************************************)
(* The deployment's configuration (config.toml): what validate accepts,    *)
(* what apply_options makes of the administrator's choices, and the node   *)
(* every artifact is derived from.                                         *)
(*                                                                         *)
(* Host names, addresses and server names are model values; so is an       *)
(* anchored reset time, of which only the two the calendar refuses are told *)
(* apart.  A secret is its protocol and the edit that drew it.  A port is  *)
(* requested, kept, or drawn: whichever port the host has free at that     *)
(* moment; one it has not makes the edit fail, which changes nothing.      *)
(***************************************************************************)
EXTENDS SubscriptionFormats

CONSTANTS
  Domain, Address,           \* a subscription host that is a name, and one that is an address
  Decoy, DefaultSni,         \* the Reality decoy, and www.bing.com
  Instant, Unfit,            \* reset times: one that exists once, and one skipped or repeated
  ProtocolPorts,             \* ports of 10000-65535
  HighPorts                  \* ports above 1024, some of them protocol ports

CanonicalOrder == <<"vless-reality", "vmess-ws", "hysteria2", "tuic", "anytls">>
CertificateProtocols == Protocols \ {"vless-reality"}

DefaultListenPort == 2080
IsAddress(host) == host = Address

Enabled(config) == ToSet(config.enabled)
Configured(config) == {p \in Protocols : config.nodes[p] # None}
ListenerPorts(config) == {config.nodes[p].port : p \in Configured(config)}

(* validate *)

ValidProtocols(config) ==
  /\ config.enabled # <<>>
  /\ IsInjective(config.enabled)
  /\ ListenerPorts(config) \subseteq ProtocolPorts
  /\ \A p, q \in Configured(config) :
       p # q => config.nodes[p].port # config.nodes[q].port
  /\ Enabled(config) \subseteq Configured(config)
  /\ "vless-reality" \in Enabled(config) => config.decoySni # None

ValidAccounting(config) ==
  IF config.policy = "natural-month" THEN config.resetAt = None
                                     ELSE config.resetAt = Instant

\* Mutant: the local port may be one of the protocols'.
ValidModeShared(config) ==
  CASE config.mode = "ip-fallback" ->
         /\ config.listenPort = None
         /\ IsAddress(config.host)
         /\ config.httpPort \in HighPorts \ ListenerPorts(config)
         /\ Enabled(config) \cap CertificateProtocols # {} => config.certMode = "self-signed"
    [] config.mode = "direct" ->
         ~ IsAddress(config.host) /\ config.httpPort = None /\ config.listenPort = None
    [] config.mode = "external-proxy" ->
         ~ IsAddress(config.host) /\ config.httpPort = None /\ config.listenPort \in HighPorts

ValidMode(config) ==
  CASE config.mode = "ip-fallback" ->
         /\ config.listenPort = None
         /\ IsAddress(config.host)
         /\ config.httpPort \in HighPorts \ ListenerPorts(config)
         /\ Enabled(config) \cap CertificateProtocols # {} => config.certMode = "self-signed"
    [] config.mode = "direct" ->
         ~ IsAddress(config.host) /\ config.httpPort = None /\ config.listenPort = None
    [] config.mode = "external-proxy" ->
         /\ ~ IsAddress(config.host)
         /\ config.httpPort = None
         /\ config.listenPort \in HighPorts \ ListenerPorts(config)

Valid(config) == ValidProtocols(config) /\ ValidAccounting(config) /\ ValidMode(config)

(* Ports and credentials *)

CurrentPort(existing, p) ==
  IF existing = None THEN None
  ELSE IF existing.nodes[p] = None THEN None ELSE existing.nodes[p].port

NoPorts == [p \in Protocols |-> None]

\* A port is requested once, for a protocol that is enabled.
ValidRequests(options) ==
  \A p \in Protocols : options.ports[p] # None =>
    /\ p \in Enabled(options)
    /\ \A q \in Protocols \ {p} : options.ports[q] # options.ports[p]

\* The ports the protocols may get: no two the same.  A new protocol draws its port
\* where none is requested.
PortsFor(existing, options) ==
  {ports \in [Enabled(options) -> ProtocolPorts] :
     /\ IsInjective(ports)
     /\ \A p \in Enabled(options) :
          LET wanted == IF options.ports[p] # None THEN options.ports[p]
                                                   ELSE CurrentPort(existing, p)
          IN  wanted # None => ports[p] = wanted}

Node(port, secret) == [port |-> port, secret |-> secret]

\* Mutant: a protocol whose port changes gets fresh credentials.
CredentialsDrawn(existing, p, port, edit) ==
  IF CurrentPort(existing, p) = port THEN existing.nodes[p] ELSE Node(port, <<p, edit>>)

\* A protocol that has credentials keeps them and changes its port only.
ProtocolCredentials(existing, p, port, edit) ==
  IF CurrentPort(existing, p) # None THEN [existing.nodes[p] EXCEPT !.port = port]
                                     ELSE Node(port, <<p, edit>>)

NodesOf(existing, options, ports, edit) ==
  [p \in Protocols |-> IF p \in Enabled(options)
                       THEN ProtocolCredentials(existing, p, ports[p], edit) ELSE None]

(* The two constructors *)

ClientDefaults == [template |-> "standard", dns |-> "fake-ip", profile |-> "standard"]

\* The options, with what an existing deployment keeps: its subscription credential
\* and its client preferences.
ApplyOptions(existing, options, ports, edit) ==
  [mode       |-> options.mode,       host     |-> options.host,
   proxyHost  |-> options.proxyHost,  httpPort |-> options.httpPort,
   listenPort |-> options.listenPort, certMode |-> options.certMode,
   enabled    |-> options.enabled,    decoySni |-> options.decoySni,
   sni        |-> options.sni,        policy   |-> options.policy,
   resetAt    |-> options.resetAt,
   credential |-> IF existing = None THEN edit ELSE existing.credential,
   client     |-> IF existing = None THEN ClientDefaults ELSE existing.client,
   nodes      |-> NodesOf(existing, options, ports, edit)]

\* A new deployment: self-signed, the natural month, and the default listener of an
\* external proxy.
NewOptions(mode, host, httpPort, enabled, ports) ==
  [mode       |-> mode, host |-> host, proxyHost |-> None, httpPort |-> httpPort,
   listenPort |-> IF mode = "external-proxy" THEN DefaultListenPort ELSE None,
   certMode   |-> "self-signed", enabled |-> enabled,
   decoySni   |-> IF "vless-reality" \in ToSet(enabled) THEN Decoy ELSE None,
   sni        |-> None, policy |-> "natural-month", resetAt |-> None, ports |-> ports]

\* What the accepted options make of a deployment.
Applied(existing, options, edit) ==
  IF ~ (ValidRequests(options) /\ ValidAccounting(options)) THEN {}
  ELSE {new \in {ApplyOptions(existing, options, ports, edit) :
                   ports \in PortsFor(existing, options)} : Valid(new)}

(* The nodes *)

ServerName(config) ==
  CASE config.sni # None -> config.sni
    [] config.sni = None /\ IsAddress(config.host) -> DefaultSni
    [] OTHER -> config.host

NodeHost(config) == IF config.proxyHost = None THEN config.host ELSE config.proxyHost

CanonicalNode(config, p) ==
  [tag        |-> p,
   host       |-> NodeHost(config),
   port       |-> config.nodes[p].port,
   secret     |-> config.nodes[p].secret,
   serverName |-> IF p = "vless-reality" THEN config.decoySni ELSE ServerName(config)]

\* In the order in which the protocols were enabled.
Nodes(config) == [i \in DOMAIN config.enabled |-> CanonicalNode(config, config.enabled[i])]
=============================================================================
