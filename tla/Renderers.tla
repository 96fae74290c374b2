------------------------------- MODULE Renderers -------------------------------
(***************************************************************************)
(* The documents the service hands out and the server's own configuration, *)
(* rendered from the deployment's configuration and its content template.  *)
(*                                                                         *)
(* A document keeps what refers to something else in it (tags, members,    *)
(* targets, rule sets, resolvers) and what a client matches a connection   *)
(* against; the rest of its text is left out.  A tag is the identity behind *)
(* it: both tag tables are one to one.                                     *)
(***************************************************************************)
EXTENDS DeploymentConfig

-------------------------------------------------------------------------------
(* The compiled-in content templates.  A domain or address list is its name; a
   rule set is <<"geosite", list>> or <<"geoip", list>>, and comes with the formats
   it has a download for. *)

Templates == {"standard", "global", "split"}
Both == {"sing-box", "clash"}

(* Groups *)

BuiltinDirect == "builtin-direct"
AllNodes      == "all-nodes"

Group(tag, role, formats, members) ==
  [tag |-> tag, role |-> role, formats |-> formats, members |-> members]

ManualMembers   == <<"auto", BuiltinDirect, AllNodes>>
PinnableMembers == <<"auto", AllNodes>>

BaseGroups ==
  <<Group("selector", "selector", Both, ManualMembers),
    Group("auto", "urltest", Both, <<AllNodes>>),
    Group("direct", "direct", Both, <<>>)>>

\* sing-box has no failover outbound.
PurposeGroups ==
  BaseGroups \o
  <<Group("fallback", "fallback", {"clash"}, <<AllNodes>>),
    Group("proxy", "selector", Both, ManualMembers)>> \o
  [i \in 1 .. 3 |-> Group(<<"ai", "stream", "telegram">>[i], "selector", Both, PinnableMembers)]

(* Matchers *)

Matcher(kind, of) == [kind |-> kind, of |-> of]

Private            == Matcher("private", {})
Cn                 == Matcher("cn", {})
AiDomains          == Matcher("suffix", {"ai"})
DomainSuffix(list) == Matcher("suffix", {list})
RuleSet(tags)      == Matcher("rule-set", tags)

GeoSite(list) == <<"geosite", list>>
GeoIp(list)   == <<"geoip", list>>
Geo(list)     == {GeoSite(list), GeoIp(list)}

Rule(matcher, twin, target, formats) ==
  [matcher |-> matcher, twin |-> twin, target |-> target, formats |-> formats]
DirectRule(matcher, twin, formats) == Rule(matcher, twin, "direct", formats)

\* A rule set for one purpose, and the compiled-in list that stands in for it.
PurposeRule(list, target) == Rule(RuleSet({GeoSite(list)}), DomainSuffix(list), target, Both)

\* sing-box answers what is private by itself, so it has no download for that.
RuleSets(tags) == [t \in Geo("private") \cup tags |-> IF t \in Geo("private") THEN {"clash"} ELSE Both]

PurposeSets == {GeoSite(list) : list \in {"ads", "openai", "netflix", "telegram", "proxy"}}

(* The templates *)

TemplateSpec(groups, ruleSets, rules, dnsRuleSet) ==
  [groups |-> groups, ruleSets |-> ruleSets, rules |-> rules, dnsRuleSet |-> dnsRuleSet,
   sniff |-> TRUE, final |-> "selector"]

Standard ==
  TemplateSpec(BaseGroups, RuleSets(Geo("cn")),
       <<DirectRule(Private, None, {"sing-box"}),
         Rule(AiDomains, None, "selector", Both),
         DirectRule(RuleSet(Geo("private")), Private, Both),
         DirectRule(RuleSet(Geo("cn")), Cn, Both)>>,
       GeoSite("cn"))

\* Advertisements first, then what has a group of its own, then the broad list.
PurposeRules ==
  <<PurposeRule("ads", "reject"),
    Rule(AiDomains, None, "ai", Both),
    PurposeRule("openai", "ai"),
    PurposeRule("netflix", "stream"),
    PurposeRule("telegram", "telegram"),
    PurposeRule("proxy", "proxy")>>

\* Only private destinations are direct.
Global ==
  TemplateSpec(PurposeGroups, RuleSets(PurposeSets \cup {GeoSite("cn")}),
       <<DirectRule(Private, None, {"sing-box"}),
         DirectRule(RuleSet(Geo("private")), DomainSuffix("private"), Both)>>
       \o PurposeRules \o
       <<PurposeRule("cn", "proxy")>>,
       None)

\* Chinese destinations are direct as well.
Split ==
  TemplateSpec(PurposeGroups, RuleSets(PurposeSets \cup Geo("cn")),
       <<DirectRule(Private, None, {"sing-box"}),
         DirectRule(RuleSet(Geo("private")), Private, Both)>>
       \o PurposeRules \o
       <<DirectRule(RuleSet(Geo("cn")), Cn, Both)>>,
       GeoSite("cn"))

ForTemplate(template) ==
  CASE template = "standard" -> Standard
    [] template = "global"   -> Global
    [] template = "split"    -> Split

-------------------------------------------------------------------------------
\* Every group is rendered under the name of its identity, a node under its protocol's.
BlockOut == "block-out"
DnsOut   == "dns-out"

(* What a client needs to reach a node, in every format *)

SkipVerify(config) == config.certMode = "self-signed"

\* The public key of a Reality node is derived from its private one, so one secret
\* stands for both; that protocol verifies nothing.
ClientNode(config, node) ==
  [tag |-> node.tag, host |-> node.host, port |-> node.port, secret |-> node.secret,
   serverName |-> node.serverName,
   verifies   |-> node.tag # "vless-reality" /\ ~ SkipVerify(config)]

ClientOutbounds(config, nodes) == [i \in DOMAIN nodes |-> ClientNode(config, nodes[i])]

\* An IPv6 host is bracketed in a link and bare elsewhere; the host is the same.
Uris(config) == ClientOutbounds(config, Nodes(config))

(* The server's configuration *)

\* The names of the certificate the listeners present.
CertificateNames(config) ==
  IF config.certMode = "self-signed" THEN {ServerName(config)} ELSE {config.host}

\* An inbound of the kernel and the name it serves under.
Inbound(config, node) ==
  [tag |-> node.tag, port |-> node.port, secret |-> node.secret,
   names |-> IF node.tag = "vless-reality" THEN {config.decoySni} ELSE CertificateNames(config)]

SingBoxServer(config) == [i \in DOMAIN config.enabled |-> Inbound(config, Nodes(config)[i])]

(* Groups *)

ExpandedMembers(members, nodeTags, direct) ==
  FlattenSeq([i \in DOMAIN members |->
                CASE members[i] = BuiltinDirect -> <<direct>>
                  [] members[i] = AllNodes -> nodeTags
                  [] OTHER -> <<members[i]>>])

RenderedGroups(spec, format) ==
  Those(spec.groups, {g \in ToSet(spec.groups) : format \in g.formats})

Outbound(tag, kind, members, node) ==
  [tag |-> tag, kind |-> kind, members |-> members, node |-> node]

(* sing-box *)

\* What a matcher becomes: a rule mixes no names with addresses, and a rule set
\* without a download for sing-box is left to the core's own knowledge.
InlineMatchers(matcher) ==
  CASE matcher.kind = "cn" -> <<Matcher("suffix", {"cn"}), Matcher("cidr", {"cn"})>>
    [] OTHER -> <<matcher>>

SingBoxMatchers(spec, rule, remote) ==
  LET visible == {t \in rule.matcher.of : "sing-box" \in spec.ruleSets[t]}
  IN  CASE rule.matcher.kind # "rule-set" -> InlineMatchers(rule.matcher)
        [] rule.matcher.kind = "rule-set" /\ visible = {} -> <<>>
        [] rule.matcher.kind = "rule-set" /\ visible # {} /\ remote -> <<RuleSet(visible)>>
        [] OTHER -> IF rule.twin = None THEN <<>> ELSE InlineMatchers(rule.twin)

\* Before 1.11 there are no rule actions: blocking and DNS are outbounds.
SingBoxVerdict(target, legacy) ==
  IF target = "reject" THEN IF legacy THEN <<"outbound", BlockOut>> ELSE <<"action", "reject">>
                       ELSE <<"outbound", target>>

RouteRule(matcher, verdict) == [matcher |-> matcher, verdict |-> verdict]
DnsProtocol == Matcher("dns", {})
AnyTraffic  == Matcher("sniff", {})

SingBoxRules(spec, remote, legacy) ==
  (IF legacy THEN <<RouteRule(DnsProtocol, <<"outbound", DnsOut>>)>>
   ELSE <<RouteRule(AnyTraffic, <<"action", "sniff">>),
          RouteRule(DnsProtocol, <<"action", "hijack-dns">>)>>)
  \o FlattenSeq(
       [i \in DOMAIN spec.rules |->
          LET rule == spec.rules[i]
              matchers == SingBoxMatchers(spec, rule, remote)
          IN  IF "sing-box" \notin rule.formats THEN <<>>
              ELSE [j \in DOMAIN matchers |->
                      RouteRule(matchers[j], SingBoxVerdict(rule.target, legacy))]])

DnsServers(typed, fakeIp) ==
  {[tag |-> "dns-direct", detour |-> None, typed |-> typed],
   [tag |-> "dns-proxy", detour |-> "selector", typed |-> typed]}
  \cup IF fakeIp THEN {[tag |-> "dns-fakeip", detour |-> None, typed |-> typed]} ELSE {}

DnsRule(matcher, server) == [matcher |-> matcher, server |-> server]

DnsRules(spec, remote, typed, fakeIp) ==
  (IF typed THEN {} ELSE {DnsRule(Matcher("outbound-any", {}), "dns-direct")})
  \cup {DnsRule(Matcher("mode-direct", {}), "dns-direct"),
        DnsRule(Matcher("mode-global", {}), "dns-proxy"),
        DnsRule(Matcher("suffix", {"fake-ip-filter"}), "dns-direct")}
  \cup (IF remote /\ spec.dnsRuleSet # None
        THEN {DnsRule(RuleSet({spec.dnsRuleSet}), "dns-direct")} ELSE {})
  \cup (IF fakeIp THEN {DnsRule(Matcher("query", {}), "dns-fakeip")} ELSE {})

\* The nodes a client of that version has an outbound type for.
CompatibleNodes(config, profile) ==
  Those(Nodes(config), {n \in ToSet(Nodes(config)) : profile.supportsAnytls \/ n.tag # "anytls"})

\* Mutant: the block outbound is left out.
LegacyOutboundsDns(spec) == <<Outbound(DnsOut, "dns", <<>>, None)>>

LegacyOutbounds(spec) ==
  <<Outbound(DnsOut, "dns", <<>>, None)>>
  \o IF \E i \in DOMAIN spec.rules : /\ "sing-box" \in spec.rules[i].formats
                                     /\ spec.rules[i].target = "reject"
     THEN <<Outbound(BlockOut, "block", <<>>, None)>> ELSE <<>>

SingBoxGroups(spec, nodeTags) ==
  LET groups == RenderedGroups(spec, "sing-box")
  IN  [i \in DOMAIN groups |->
         Outbound(groups[i].tag, groups[i].role,
                  IF groups[i].role = "direct" THEN <<>>
                  ELSE ExpandedMembers(groups[i].members, nodeTags, "direct"), None)]

\* The full client configuration for one version.
SingBoxDocument(config, profile) ==
  LET nodes  == CompatibleNodes(config, profile)
      tags   == [i \in DOMAIN nodes |-> nodes[i].tag]
      client == ClientOutbounds(config, nodes)
      spec   == ForTemplate(config.client.template)
      remote == config.client.profile = "standard"
      fakeIp == config.client.dns = "fake-ip"
  IN  [kind       |-> "sing-box",
       version    |-> profile.version,
       outbounds  |-> [i \in DOMAIN client |-> Outbound(client[i].tag, "node", <<>>, client[i])]
                      \o SingBoxGroups(spec, tags)
                      \o IF profile.ruleActions THEN <<>> ELSE LegacyOutbounds(spec),
       rules      |-> SingBoxRules(spec, remote, ~ profile.ruleActions),
       ruleSets   |-> IF remote THEN {t \in DOMAIN spec.ruleSets : "sing-box" \in spec.ruleSets[t]}
                                ELSE {},
       download   |-> "selector",
       dnsServers |-> DnsServers(profile.typedDns, fakeIp),
       dnsRules   |-> DnsRules(spec, remote, profile.typedDns, fakeIp),
       dnsFinal   |-> "dns-proxy",
       resolver   |-> IF profile.typedDns THEN "dns-direct" ELSE None,
       final      |-> spec.final]

(* clash *)

ClashDirect == "DIRECT"
ClashReject == "REJECT"

\* The group of direct traffic lists the core's own policy and every node.
ClashMembers(group, nodeTags) ==
  IF group.role = "direct" THEN <<ClashDirect>> \o nodeTags
                           ELSE ExpandedMembers(group.members, nodeTags, ClashDirect)

ClashGroups(spec, nodeTags) ==
  LET groups == RenderedGroups(spec, "clash")
  IN  [i \in DOMAIN groups |->
         Outbound(groups[i].tag, groups[i].role, ClashMembers(groups[i], nodeTags), None)]

\* Mutant: without downloads, a rule set is left out.
ClashMatcherDropped(spec, rule, remote) ==
  IF rule.matcher.kind # "rule-set" \/ remote THEN rule.matcher ELSE None

\* The matcher that is rendered, if any: without downloads, the twin of a rule set.
ClashMatcher(spec, rule, remote) ==
  IF rule.matcher.kind # "rule-set" THEN rule.matcher
  ELSE IF \A t \in rule.matcher.of : "clash" \notin spec.ruleSets[t] THEN None
  ELSE IF remote THEN rule.matcher ELSE rule.twin

ClashTarget(matcher, target) ==
  IF matcher.kind \in {"private", "cn"} THEN ClashDirect
  ELSE IF target = "reject" THEN ClashReject ELSE target

\* What the core looks up in its own database is spelled out when nothing may be
\* downloaded.
ClashMatchers(spec, matcher, remote) ==
  CASE matcher.kind = "private" ->
         IF remote THEN <<Matcher("geoip", {"private"})>>
         ELSE <<Matcher("suffix", {"private"}), Matcher("cidr", {"private"})>>
    [] matcher.kind = "cn" ->
         IF remote THEN <<Matcher("geoip", {"cn"})>>
         ELSE <<Matcher("suffix", {"cn"}), Matcher("cidr", {"cn"})>>
    [] matcher.kind = "rule-set" ->
         <<RuleSet({t \in matcher.of : "clash" \in spec.ruleSets[t]})>>
    [] OTHER -> <<matcher>>

ClashRules(spec, remote) ==
  FlattenSeq(
    [i \in DOMAIN spec.rules |->
       LET rule     == spec.rules[i]
           matcher  == ClashMatcher(spec, rule, remote)
           matchers == ClashMatchers(spec, matcher, remote)
       IN  IF "clash" \notin rule.formats \/ matcher = None THEN <<>>
           ELSE [j \in DOMAIN matchers |->
                   RouteRule(matchers[j], <<"outbound", ClashTarget(matcher, rule.target)>>)]])

ClashProviders(spec) == {t \in DOMAIN spec.ruleSets : "clash" \in spec.ruleSets[t]}

\* Every resolver is asked through the manual group.
ClashDocument(config, remote) ==
  LET nodes  == Nodes(config)
      tags   == [i \in DOMAIN nodes |-> nodes[i].tag]
      client == ClientOutbounds(config, nodes)
      spec   == ForTemplate(config.client.template)
  IN  [kind       |-> "clash",
       version    |-> None,
       outbounds  |-> [i \in DOMAIN client |-> Outbound(client[i].tag, "node", <<>>, client[i])]
                      \o ClashGroups(spec, tags),
       rules      |-> ClashRules(spec, remote),
       ruleSets   |-> IF remote THEN ClashProviders(spec) ELSE {},
       download   |-> ClashDirect,
       dnsServers |-> {[tag |-> "nameserver", detour |-> "selector", typed |-> TRUE]},
       dnsRules   |-> {},
       dnsFinal   |-> "nameserver",
       resolver   |-> None,
       final      |-> spec.final]

ClashCurrent(config) == ClashDocument(config, config.client.profile = "standard")

\* mihomo 1.18 downloads no rule set of this format.
ClashLegacyDocument(config) == ClashDocument(config, FALSE)

(* The artifacts *)

Fitting(config) ==
  {i \in DOMAIN VersionProfiles : ~ NothingFor(VersionProfiles[i], Enabled(config))}

Documents(config) ==
  {SingBoxDocument(config, VersionProfiles[i]) : i \in Fitting(config)}
    \cup {ClashCurrent(config), ClashLegacyDocument(config)}
=============================================================================
