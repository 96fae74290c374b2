---------------------------- MODULE ConfigOverride ----------------------------
(***************************************************************************)
(* The configuration the core is started with: the subscription's document *)
(* of the library, the enabled fragments of the profile's override merged  *)
(* onto it, and what the client keeps for itself.                          *)
(***************************************************************************)
EXTENDS ClientLibrary, SubscriptionReader

\* Mutant: the fragments are merged in the order in which they are listed.
ApplyForward(text, base) ==
  FoldLeft(LAMBDA json, f : DeepMerge(json, f.overlay), base, EnabledFragments(text))

\* From the last to the first, so that the first one has the last word.
Apply(text, base) ==
  FoldLeft(LAMBDA json, f : DeepMerge(json, f.overlay), base, Reverse(EnabledFragments(text)))

(* What the client keeps for itself *)

ReservedPointers ==
  {<<"experimental", "clash_api", "external_controller">>, <<"experimental", "clash_api", "secret">>,
   <<"route", "auto_detect_interface">>, <<"inbounds">>}

\* The reserved fields a file tried to change, which the user is told about.
ReservedConflicts(text) ==
  {p \in ReservedPointers : \E i \in DOMAIN EnabledFragments(text) :
                              HasPath(EnabledFragments(text)[i].overlay, p)}

MixedInbound == Object([type |-> Scalar("mixed"), tag |-> Scalar("mixed-in"), port |-> Scalar("client")])
TunInbound   == Object([type |-> Scalar("tun"), tag |-> Scalar("tun-in"), stack |-> Scalar("client")])

\* The first tunnel inbound of a document, if it has one.
ProfileTuns(json) ==
  IF ~ (Has(json, "inbounds") /\ IsArray(Get(json, "inbounds"))) THEN <<>>
  ELSE SelectSeq(Get(json, "inbounds").items, LAMBDA inbound : TypeIs(inbound, {"tun"}))

\* The client's inbounds replace the document's; a tunnel takes over the keys of the
\* document's own tunnel, but for its name.
Inbounds(json, mode) ==
  IF mode = "SystemProxy" THEN Array(<<MixedInbound>>)
  ELSE IF ProfileTuns(json) = <<>> THEN Array(<<TunInbound>>)
  ELSE Array(<<With(With(Object(Head(ProfileTuns(json)).fields @@ TunInbound.fields),
                         "tag", Scalar("tun-in")), "type", Scalar("tun"))>>)

AdaptInbounds(json, mode) == With(json, "inbounds", Inbounds(json, mode))

\* The control channel of this start, at an address and with a secret drawn for it.
OwnController == Scalar("own-address")
OwnSecret     == Scalar("own-secret")

WithControl(json) ==
  LET experimental == ObjectAt(json, "experimental")
      api == With(With(ObjectAt(experimental, "clash_api"), "external_controller", OwnController),
                  "secret", OwnSecret)
  IN  With(json, "experimental", With(experimental, "clash_api", api))

WithAutoDetect(json) ==
  With(json, "route", With(ObjectAt(json, "route"), "auto_detect_interface", Scalar("true")))

\* Every start goes through here.
RuntimeConfig(raw, mode, text) ==
  WithAutoDetect(WithControl(AdaptInbounds(Apply(text, raw), mode)))

ConfigOf(run) == RuntimeConfig(run.cache.doc, run.mode, run.override.text)

-------------------------------------------------------------------------------
(* Properties *)

RulesOf(json) ==
  IF HasPath(json, <<"route", "rules">>) /\ IsArray(At(json, <<"route", "rules">>))
  THEN At(json, <<"route", "rules">>).items ELSE <<>>

\* Whatever the subscription says and the user overrides, the core answers on the
\* client's own control channel, finds the outgoing interface itself and has one inbound,
\* of the traffic mode; and the rules of the enabled fragments come first, in the order
\* in which they are listed, before those of the subscription (runtime_config, apply,
\* deep_merge).
RunsTheMerge ==
  Running =>
    LET run      == memory.run
        config   == ConfigOf(run)
        enabled  == EnabledFragments(run.override.text)
        inbounds == Get(config, "inbounds").items
    IN  /\ At(config, <<"experimental", "clash_api", "external_controller">>) = OwnController
        /\ At(config, <<"experimental", "clash_api", "secret">>) = OwnSecret
        /\ At(config, <<"route", "auto_detect_interface">>) = Scalar("true")
        /\ Len(inbounds) = 1
        /\ TypeIs(inbounds[1], {IF run.mode = "Tun" THEN "tun" ELSE "mixed"})
        /\ RulesOf(config) =
             FlattenSeq([i \in DOMAIN enabled |-> RulesOf(enabled[i].overlay)])
               \o RulesOf(run.cache.doc)

Bodies   == LocalFiles \cup UNION {Replies[a] : a \in DOMAIN Replies}
SentJson == {body.json : body \in {b \in Bodies : b.kind = "json"}}

\* The documents that lists of links are read as, with the lists.
LinkDocuments ==
  UNION {{[links |-> body.links, json |-> json] : json \in Parse(body)} :
           body \in {b \in Bodies : b.kind = "links"}}

\* The nodes of a wrapped document, behind the selector it begins with.
WrappedNodes(json) == SelectSeq(Tail(Get(json, "outbounds").items), IsNode)

NodesOffered(json) ==
  LET selector == Head(Get(json, "outbounds").items)
      offered  == Get(selector, "outbounds").items
  IN  /\ TypeIs(selector, {"selector"})
      /\ IsInjective(offered)
      /\ {item.value : item \in ToSet(offered)} = {TagOf(o) : o \in ToSet(WrappedNodes(json))}
      /\ \E o \in ToSet(Get(json, "outbounds").items) : TagIs(o, DirectTag)

\* Every link that can be read is a node, under a name no other node has.
LinksNamed(json, links) ==
  LET nodes == WrappedNodes(json)
  IN  /\ Len(nodes) = Len(SelectSeq(links, Readable))
      /\ IsInjective([i \in DOMAIN nodes |-> TagOf(nodes[i])])

\* What is cached of an answer is a profile as the server sent it, or it begins with a
\* selector that offers every node of the answer once, beside a direct outbound; and no
\* link is lost because it has another one's name.  Names that JSON gives twice are
\* passed on, and so is a link's that is the selector's (parse, wrap_bare_node_config,
\* parse_uri_list).
CacheOffersNodes ==
  \A n \in DOMAIN caches :
    LET json == caches[n].doc
    IN  \/ caches[n] = Torn
        \/ json \in SentJson /\ IsRunnable(json)
        \/ /\ NodesOffered(json)
           /\ \A of \in LinkDocuments : of.json = json => LinksNamed(json, of.links)

\* In tunnel mode as well, the inbounds are the client's and the subscription's: an
\* override does not change them (RESERVED_POINTERS).
InboundsReserved ==
  Running => Get(ConfigOf(memory.run), "inbounds") = Inbounds(memory.run.cache.doc, memory.run.mode)
=============================================================================
