--------------------------- MODULE SubscriptionReader ---------------------------
(***************************************************************************)
(* What the client makes of a subscription: a profile is kept as it was     *)
(* sent, and a bare list of nodes or of links is wrapped into one.          *)
(*                                                                         *)
(* A display tag is the sequence of its parts: <<"a">> is "a" and           *)
(* <<"a", 2>> is "a-2".  The order of a node list is left out.              *)
(***************************************************************************)
EXTENDS Naturals, SequencesExt

(* The deep merge server and clients share (crates/json-merge): objects merge
   recursively, everything else replaces, and an array under the key `rules` is
   prepended.  A JSON value is a scalar, an array or an object. *)

Scalar(value)  == [kind |-> "scalar", value |-> value]
Array(items)   == [kind |-> "array", items |-> items]
Object(fields) == [kind |-> "object", fields |-> fields]

IsObject(json) == json.kind = "object"
IsArray(json)  == json.kind = "array"

Has(json, key) == IsObject(json) /\ key \in DOMAIN json.fields
Get(json, key) == json.fields[key]
With(json, key, value) == Object((key :> value) @@ json.fields)

\* An object under that key, an empty one if there was something else.
ObjectAt(json, key) ==
  IF Has(json, key) /\ IsObject(Get(json, key)) THEN Get(json, key) ELSE Object([k \in {} |-> {}])

RECURSIVE DeepMerge(_, _)
DeepMerge(base, overlay) ==
  IF ~ (IsObject(base) /\ IsObject(overlay)) THEN overlay
  ELSE Object([key \in DOMAIN base.fields \cup DOMAIN overlay.fields |->
         CASE ~ Has(overlay, key) -> Get(base, key)
           [] ~ Has(base, key)    -> Get(overlay, key)
           [] OTHER ->
                IF key = "rules" /\ IsArray(Get(base, key)) /\ IsArray(Get(overlay, key))
                THEN Array(Get(overlay, key).items \o Get(base, key).items)
                ELSE DeepMerge(Get(base, key), Get(overlay, key))])

RECURSIVE HasPath(_, _)
HasPath(json, path) ==
  path = <<>> \/ (Has(json, Head(path)) /\ HasPath(Get(json, Head(path)), Tail(path)))

RECURSIVE At(_, _)
At(json, path) == IF path = <<>> THEN json ELSE At(Get(json, Head(path)), Tail(path))

(* Links *)

Link(scheme, secret, host, port, sni, insecure, security, tag) ==
  [scheme |-> scheme, secret |-> secret, host |-> host, port |-> port, sni |-> sni,
   insecure |-> insecure, security |-> security, tag |-> tag]

OfferedSchemes == {"vless", "vmess", "hysteria2", "hy2", "tuic", "anytls"}

ProtocolOf(scheme) == IF scheme = "hy2" THEN "hysteria2" ELSE scheme

\* The secret is what a node authenticates with; one of VLESS or VMess without it is no
\* node.  Reality verifies nothing, and VLESS without security has nothing to verify.
Readable(link) ==
  /\ link.scheme \in OfferedSchemes
  /\ link.scheme \in {"vless", "vmess"} => link.secret # {}

NodeOf(link) ==
  [protocol |-> ProtocolOf(link.scheme), tag |-> link.tag, host |-> link.host,
   port |-> link.port, secret |-> link.secret, serverName |-> link.sni,
   verifies |-> ~ link.insecure /\ (link.scheme = "vless" => link.security = "tls")]

(* Link lists *)

\* A tag already used gets the first number that is free, from 2.
FreshTag(tag, used) ==
  IF tag \notin used THEN tag
  ELSE LET nth == CHOOSE n \in 2 .. Cardinality(used) + 2 :
                    /\ Append(tag, n) \notin used
                    /\ \A m \in 2 .. n - 1 : Append(tag, m) \in used
       IN  Append(tag, nth)

\* Mutant: nodes keep the names they come with.
UniqueTagsKept(tags) == tags

UniqueTags(tags) ==
  FoldLeft(LAMBDA done, tag : Append(done, FreshTag(tag, ToSet(done))), <<>>, tags)

\* Lines that cannot be read are skipped.
NodesOfLinks(links) ==
  LET readable == SelectSeq(links, Readable)
      tags     == UniqueTags([i \in DOMAIN readable |-> readable[i].tag])
  IN  [i \in DOMAIN readable |-> [NodeOf(readable[i]) EXCEPT !.tag = tags[i]]]

(* Documents: a profile is not looked into beyond the nodes' having a tag. *)

SelectorTag == <<"node-selector">>
DirectTag   == <<"direct">>

TypeIs(json, types) == Has(json, "type") /\ Get(json, "type").value \in types
TagOf(outbound) == Get(outbound, "tag").value
TagIs(outbound, tag) == Has(outbound, "tag") /\ TagOf(outbound) = tag

\* summarize: the outbounds that are nodes, by tag and each tag once; one without a tag
\* makes the document unreadable.
IsNode(outbound) == ~ TypeIs(outbound, {"selector", "urltest", "direct", "block"})
Summarized(outbounds) == \A o \in ToSet(outbounds) : IsNode(o) => Has(o, "tag")
NodeTags(outbounds) ==
  LET nodes == SelectSeq(outbounds, IsNode)
  IN  FoldLeft(LAMBDA done, o : IF TagOf(o) \in ToSet(done) THEN done ELSE Append(done, TagOf(o)),
               <<>>, nodes)

Outbound(type, tag) == Object([type |-> Scalar(type), tag |-> Scalar(tag)])

Selector(tags) == With(Outbound("selector", SelectorTag), "outbounds",
                       Array([i \in DOMAIN tags |-> Scalar(tags[i])]))

IsRunnable(json) ==
  \/ Has(json, "inbounds")
  \/ HasPath(json, <<"experimental", "clash_api">>)
  \/ \E i \in DOMAIN Get(json, "outbounds").items :
       TypeIs(Get(json, "outbounds").items[i], {"selector"})

WrapBare(outbounds) ==
  LET direct == IF \E i \in DOMAIN outbounds : TagIs(outbounds[i], DirectTag)
                THEN <<>> ELSE <<Outbound("direct", DirectTag)>>
  IN  Object([inbounds  |-> Array(<<>>),
              outbounds |-> Array(<<Selector(NodeTags(outbounds))>> \o outbounds \o direct),
              route |-> Object([auto_detect_interface |-> Scalar("true"),
                                final |-> Scalar(SelectorTag)]),
              experimental |-> Object([clash_api |-> Object(
                [external_controller |-> Scalar("default"), secret |-> Scalar("none")])])])

LinkOutbounds(links) ==
  LET nodes == NodesOfLinks(links)
  IN  [i \in DOMAIN nodes |-> Outbound(nodes[i].protocol, nodes[i].tag)]

\* The documents a body is read as: one, or none when it cannot be read.
Parse(body) ==
  CASE body.kind = "json" ->
         IF ~ (Has(body.json, "outbounds") /\ IsArray(Get(body.json, "outbounds"))) THEN {}
         ELSE LET outbounds == Get(body.json, "outbounds").items
              IN  CASE ~ Summarized(outbounds) -> {}
                    [] Summarized(outbounds) /\ IsRunnable(body.json) -> {body.json}
                    [] OTHER -> IF NodeTags(outbounds) = <<>> THEN {} ELSE {WrapBare(outbounds)}
    [] body.kind = "links" ->
         IF LinkOutbounds(body.links) = <<>> THEN {} ELSE {WrapBare(LinkOutbounds(body.links))}
    [] OTHER -> {}
=============================================================================
