------------------------------ MODULE Deployment ------------------------------
(***************************************************************************)
(* An administrator configures a deployment: `sbctl config init`, the full *)
(* wizard, and the wizard's focused topics.  Each action is one complete    *)
(* dialogue whose result is confirmed and committed; one that is cancelled, *)
(* refused by validate or lost in the commit leaves everything as it was.   *)
(* How a commit replaces the files is ConfigTransactions' subject; here it  *)
(* is what the documents of each configuration say.                         *)
(***************************************************************************)
EXTENDS Renderers

CONSTANTS
  Offered,     \* the protocols of this instance, a subset of Protocols
  ProxyHosts,  \* the proxy hosts an administrator may enter
  Snis,        \* the protocol server names an administrator may enter
  MaxEdits     \* the edits after which a behaviour stops

VARIABLES
  config,  \* the committed configuration, None before the first
  edits    \* how many have been committed

deploymentVars == <<config, edits>>

\* None is neither a port nor what has been drawn for a protocol.
ASSUME DeploymentAssumption ==
  /\ Offered \subseteq Protocols
  /\ MaxEdits \in Nat
  /\ None \notin ProtocolPorts
  /\ \A port \in ProtocolPorts, p \in Protocols, edit \in 0 .. MaxEdits :
       Node(port, <<p, edit>>) # None

(* Answers *)

\* An empty answer keeps the current value.
Answers(current, given) == {current} \cup given

Current(field, default) == IF config = None THEN default ELSE config[field]

\* What stays enabled keeps its place; what is new comes behind it.
MergedOrder(existing, selected) ==
  LET kept == Those(existing, selected)
  IN  kept \o Those(CanonicalOrder, selected \ ToSet(kept))

\* Mode, hosts and the port its listener needs.
SubscriptionAnswers ==
  {a \in [mode : {"direct", "external-proxy", "ip-fallback"},
          host : {Domain, Address},
          proxyHost : Answers(Current("proxyHost", None), ProxyHosts),
          httpPort : HighPorts \cup {None},
          listenPort : HighPorts \cup {None}] :
     /\ a.httpPort # None <=> a.mode = "ip-fallback"
     /\ a.listenPort # None <=> a.mode = "external-proxy"}

\* At most one port is entered; a protocol without one keeps its own or draws it.
PortAnswers(selected) ==
  LET kept == [p \in Protocols |-> IF p \in selected THEN CurrentPort(config, p) ELSE None]
  IN  {kept} \cup {[kept EXCEPT ![p] = port] : p \in selected, port \in ProtocolPorts}

ProtocolAnswers ==
  UNION {{[enabled  |-> MergedOrder(Current("enabled", <<>>), selected),
           certMode |-> certMode,
           decoySni |-> IF "vless-reality" \in selected THEN Decoy ELSE None,
           sni      |-> sni,
           ports    |-> ports] :
             certMode \in {"domain", "self-signed"},
             sni \in IF selected \cap CertificateProtocols = {} THEN {None}
                     ELSE Answers(Current("sni", None), Snis),
             ports \in PortAnswers(selected)} :
           selected \in SUBSET Offered \ {{}}}

AccountingAnswers ==
  {a \in [policy : {"natural-month", "anchored-month"}, resetAt : {None, Instant, Unfit}] :
     a.policy = "natural-month" <=> a.resetAt = None}

\* The options: for what is not asked about, the committed configuration answers.
Options(subscription, protocols, ports, accounting) ==
  [mode       |-> subscription.mode,       host     |-> subscription.host,
   proxyHost  |-> subscription.proxyHost,  httpPort |-> subscription.httpPort,
   listenPort |-> subscription.listenPort, certMode |-> protocols.certMode,
   enabled    |-> protocols.enabled,       decoySni |-> protocols.decoySni,
   sni        |-> protocols.sni,           ports    |-> ports,
   policy     |-> accounting.policy,       resetAt  |-> accounting.resetAt]

KeptPorts == [p \in Protocols |-> CurrentPort(config, p)]

-------------------------------------------------------------------------------
(* Dialogues *)

DeploymentInit ==
  /\ config = None
  /\ edits = 0

Commit(new) ==
  /\ edits < MaxEdits
  /\ config' = new
  /\ edits' = edits + 1

CommitOptions(options) ==
  \E new \in Applied(config, options, edits + 1) :
    /\ new # config
    /\ Commit(new)

\* The protocols in any order, each once, and at most one requested port.
ConfigInit ==
  /\ config = None
  /\ \E a \in SubscriptionAnswers, selected \in SUBSET Offered \ {{}}, sni \in {None} \cup Snis,
        accounting \in AccountingAnswers :
       \E enabled \in SetToSeqs(selected), ports \in PortAnswers(selected) :
         CommitOptions(
           [NewOptions(a.mode, a.host, a.httpPort, enabled, ports) EXCEPT
              !.proxyHost = a.proxyHost, !.sni = sni,
              !.listenPort = IF a.listenPort = None THEN @ ELSE a.listenPort,
              !.policy = accounting.policy, !.resetAt = accounting.resetAt])

Wizard ==
  \E a \in SubscriptionAnswers, b \in ProtocolAnswers, c \in AccountingAnswers :
    CommitOptions(Options(a, b, b.ports, c))

SubscriptionTopic ==
  /\ config # None
  /\ \E a \in SubscriptionAnswers :
       CommitOptions(Options(a, config, KeptPorts, config))

\* The ports of the protocols just switched off are cleared.
ProtocolsTopic ==
  /\ config # None
  /\ \E b \in ProtocolAnswers :
       CommitOptions(Options(config, b, b.ports, config))

TrafficTopic ==
  /\ config # None
  /\ \E c \in AccountingAnswers :
       CommitOptions(Options(config, config, KeptPorts, c))

\* The client preferences do not go through the options.
ClientTemplateTopic ==
  /\ config # None
  /\ \E template \in Templates, dns \in {"fake-ip", "redir-host"}, profile \in {"standard", "minimal"} :
       LET new == [config EXCEPT !.client = [template |-> template, dns |-> dns, profile |-> profile]]
       IN  Valid(new) /\ new # config /\ Commit(new)

DeploymentNext ==
  \/ ConfigInit \/ Wizard
  \/ SubscriptionTopic \/ ProtocolsTopic \/ TrafficTopic \/ ClientTemplateTopic

DeploymentSpec == DeploymentInit /\ [][DeploymentNext]_deploymentVars

-------------------------------------------------------------------------------
(* Clients *)

\* A destination: the compiled-in domain lists and the downloaded domain sets with its
\* name, and its address once resolved.  A set has what its list has and more, the broad
\* list of what must be proxied also what the purpose lists have; "cn-other" is a Chinese
\* address outside the compiled-in blocks.
Destination(lists, more, address) ==
  [lists |-> lists, address |-> address,
   sets  |-> lists \cup more \cup
               IF lists \cap {"ads", "ai", "openai", "netflix", "telegram"} # {} THEN {"proxy"} ELSE {}]

PublicSets == {"ads", "openai", "netflix", "telegram", "proxy", "cn"}

\* The lists are disjoint but for the artificial intelligence services.
Destinations ==
  {Destination(lists, more, IF lists \cup more = {"cn"} THEN "cn" ELSE "other") :
     lists \in {{}, {"ai"}, {"ai", "openai"}, {"ai", "proxy"}} \cup {{list} : list \in PublicSets},
     more \in {more \in SUBSET PublicSets : Cardinality(more) <= 2}}
    \cup {Destination({}, {}, address) : address \in {"private", "cn", "cn-other", "other"}}
    \cup {Destination({"private"}, {}, "private")}

LanAddress == Destination({}, {}, "private")

\* No downloaded set says more of d than the compiled-in lists do.
Listed(d) == d = Destination(d.lists, {}, d.address) /\ d.address # "cn-other"

InRuleSet(d, t) ==
  CASE t = <<"geoip", "cn">> -> d.address \in {"cn", "cn-other"}
    [] t[1] = "geoip"        -> d.address = t[2]
    [] OTHER                 -> t[2] \in d.sets

Matches(matcher, d) ==
  CASE matcher.kind = "suffix"   -> matcher.of \cap d.lists # {}
    [] matcher.kind \in {"cidr", "geoip"} -> d.address \in matcher.of
    [] matcher.kind = "private"  -> d.address = "private"
    [] matcher.kind = "rule-set" -> \E t \in matcher.of : InRuleSet(d, t)
    [] OTHER -> FALSE

Policy(verdict) ==
  CASE verdict[2] \in {"direct", ClashDirect} -> "direct"
    [] verdict[2] \in {"reject", BlockOut, ClashReject} -> "reject"
    [] OTHER -> verdict[2]

\* The first rule that matches decides, or the final group.
Decision(document, d) ==
  LET matching == {i \in DOMAIN document.rules : Matches(document.rules[i].matcher, d)}
  IN  IF matching = {} THEN document.final
      ELSE Policy(document.rules[CHOOSE i \in matching : \A j \in matching : i <= j].verdict)

\* The documents of the deployment under every rule profile.
ProfileDocuments ==
  UNION {Documents([config EXCEPT !.client.profile = profile]) : profile \in {"standard", "minimal"}}

Decisions(documents, d) == {Decision(document, d) : document \in documents}

(* What a version of the sing-box core reads, by the changes the renderer's comments
   list: rule actions since 1.11, the block and dns outbounds until 1.12, typed DNS
   servers and AnyTLS since 1.12, and until then a rule for the proxies' own names. *)
Readable(document) ==
  LET minor == document.version[2]
      rules == {document.rules[i] : i \in DOMAIN document.rules}
      kinds == {document.outbounds[i].kind : i \in DOMAIN document.outbounds}
  IN  /\ minor < 11 => \A r \in rules : r.verdict[1] = "outbound"
      /\ minor > 12 => kinds \cap {"dns", "block"} = {}
      /\ minor < 12 => \A i \in DOMAIN document.outbounds : document.outbounds[i].tag # "anytls"
      /\ \A s \in document.dnsServers : s.typed <=> minor >= 12
      /\ (document.resolver # None) <=> minor >= 12
      /\ (\E r \in document.dnsRules : r.matcher.kind = "outbound-any") <=> minor < 12

-------------------------------------------------------------------------------
(* Properties *)

\* Whatever a document names exists in it: the members of every group, which has
\* some and nests no deeper than once, the target of every rule, every rule set, every
\* resolver and the outbound it is asked through; and the core of the version the
\* document is for can read it (sing_box_full, clash, clash_legacy).
References(document) ==
  LET outbounds == {document.outbounds[i] : i \in DOMAIN document.outbounds}
      builtin   == IF document.kind = "clash" THEN {ClashDirect, ClashReject} ELSE {}
      tags      == {o.tag : o \in outbounds} \cup builtin
      nested    == {o.tag : o \in {x \in outbounds : \E i \in DOMAIN x.members :
                              x.members[i] \notin Protocols \cup {"direct", ClashDirect}}}
      rules     == {document.rules[i] : i \in DOMAIN document.rules}
      servers   == {s.tag : s \in document.dnsServers}
  IN  /\ Cardinality({o.tag : o \in outbounds}) = Len(document.outbounds)
      /\ \A o \in outbounds :
           /\ ToSet(o.members) \subseteq tags \ nested
           /\ o.kind \in {"selector", "urltest", "fallback"} => o.members # <<>>
      /\ \A r \in rules : r.verdict[1] = "outbound" => r.verdict[2] \in tags
      /\ \A r \in rules \cup document.dnsRules :
           r.matcher.kind = "rule-set" => r.matcher.of # {} /\ r.matcher.of \subseteq document.ruleSets
      /\ document.ruleSets # {} => document.download \in tags
      /\ {r.server : r \in document.dnsRules} \cup {document.dnsFinal} \subseteq servers
      /\ {s.detour : s \in document.dnsServers} \ {None} \subseteq tags
      /\ document.resolver \in servers \cup {None}
      /\ document.final \in tags

DocumentsResolve ==
  config # None => \A document \in Documents(config) :
    References(document) /\ (document.kind = "sing-box" => Readable(document))

\* Every client of a deployment that downloads rule sets sends a destination the same way,
\* sing-box of every version and clash, and so does every client that downloads none, the
\* legacy line of clash under every profile; and both kinds send it alike when the
\* downloads say no more of it than the compiled-in lists (InlineRule::minimal_twin).
\* Under `global` an address of the local network is the exception: without downloads
\* clash has no rule for it.
RoutesAgree ==
  config # None =>
    LET documents == ProfileDocuments
        remote    == {document \in documents : document.ruleSets # {}}
    IN  \A d \in Destinations :
          \/ config.client.template = "global" /\ d = LanAddress
          \/ /\ Cardinality(Decisions(remote, d)) = 1
             /\ Cardinality(Decisions(documents \ remote, d)) = 1
             /\ Listed(d) => Cardinality(Decisions(documents, d)) = 1

\* A name of the compiled-in Chinese list that the downloaded list of advertisements has
\* as well, as comments say of qq.com and baidu.com (template.rs:659 and :738).
ChineseAdvertiser == Destination({"cn"}, {"ads"}, "cn")

\* Without downloads a client keeps making the same routing decisions (template.rs:16), for
\* such a name as well.
MinimalDecidesAlike ==
  config # None => Cardinality(Decisions(ProfileDocuments, ChineseAdvertiser)) = 1

Reached(node) ==
  \E i \in ToSet(SingBoxServer(config)) :
    /\ i.tag = node.tag /\ i.port = node.port /\ i.secret = node.secret
    /\ \A j \in ToSet(SingBoxServer(config)) \ {i} : j.port # i.port
    /\ i.port \notin {config.httpPort, config.listenPort}
    /\ node.verifies /\ config.sni = None => node.serverName \in i.names

\* Every node a client is given is an inbound of the server with the same port and
\* secret, on a port nothing else of the deployment listens on, and a client that
\* verifies the certificate asks for a name it has, as long as the administrator has
\* set no other (canonical::nodes, sing_box_server, client_outbounds, node_uri).
NodesReachable ==
  config # None =>
    /\ \A i \in DOMAIN Uris(config) : Reached(Uris(config)[i])
    /\ {Uris(config)[i].tag : i \in DOMAIN Uris(config)} = Enabled(config)
    /\ \A document \in Documents(config) : \A i \in DOMAIN document.outbounds :
         document.outbounds[i].kind = "node" => Reached(document.outbounds[i].node)

\* Every link of the overview page leads back to what it stands for, a version nobody
\* advertises is no route, and behind a routed format there is a file of its own, but for a
\* client too old for every node of the deployment; and whichever versions the
\* installed kernel accepts, the full profile is the newest of them that can carry a
\* node (subscription_matrix, parse_route, generated_artifacts, select_full_profile).
LinksServed ==
  config # None =>
    /\ \A r \in AdvertisedRoutes : ParseRoute(RoutePath(config.credential, r)) = r
    /\ \A v \in Versions, stem \in {"sing-box", "clash"}, extension \in {"json", "yaml"} :
         ParseFormatPath(Segment(stem, v, extension)) \in AdvertisedFormats \cup {None}
    /\ \A f, g \in AdvertisedFormats :
         /\ f # g => ArtifactName(f) # ArtifactName(g)
         /\ ArtifactName(f) # ServerArtifact
    /\ \A f \in AdvertisedFormats \ GeneratedFormats(Enabled(config)) :
         /\ Enabled(config) = {"anytls"}
         /\ f \in {SingBoxVersion(Version(10)), SingBoxVersion(Version(11))}
    /\ \A accepted \in SUBSET RegistryVersions :
         LET usable == {v \in accepted : Enabled(config) = {"anytls"} => ~ Newer(Version(12), v)}
             chosen == FullProfile(Enabled(config), accepted)
         IN  /\ ~ NothingFor(chosen, Enabled(config))
             /\ usable # {} => /\ chosen.version \in usable
                               /\ \A v \in usable : ~ Newer(v, chosen.version)

\* Nothing that a page, a route or a document refers to is missing.
NothingDangles == DocumentsResolve /\ LinksServed

\* An edit touches what was asked about: clients keep the subscription credential and
\* the credentials of every protocol that stays enabled, in the order they had; a
\* protocol that comes back has credentials of its own; and the client preferences
\* survive every rebuild, as everything else survives a change of them
\* (apply_options, merge_protocol_order).
EditKept ==
  config # None =>
    LET kept == Enabled(config) \cap Enabled(config')
    IN  /\ config'.credential = config.credential
        /\ \A p \in kept : config'.nodes[p].secret = config.nodes[p].secret
        /\ \A p \in Enabled(config') \ kept : config'.nodes[p].secret = <<p, edits'>>
        /\ Those(config'.enabled, kept) = Those(config.enabled, kept)
        /\ \/ config'.client = config.client
           \/ config' = [config EXCEPT !.client = config'.client]

EditsKeep == [][EditKept]_deploymentVars

DeploymentTypeOK ==
  /\ edits \in 0 .. MaxEdits
  /\ config = None <=> edits = 0
=============================================================================
