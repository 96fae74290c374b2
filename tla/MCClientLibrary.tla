---------------------------- MODULE MCClientLibrary ----------------------------
(* Small instances of ClientDirectory for TLC. *)
EXTENDS ClientDirectory

Url(at, suffix) == [sub |-> TRUE, at |-> at, suffix |-> suffix, query |-> FALSE]

Rules(rule) == Object([rules |-> Array(<<Scalar(rule)>>)])
Tun(mtu)    == Object([type |-> Scalar("tun"), tag |-> Scalar("theirs"), mtu |-> Scalar(mtu)])

\* A complete profile with a rule and a tunnel of its own.
FullProfile ==
  [kind |-> "json",
   json |-> Object([inbounds  |-> Array(<<Tun("profile")>>),
                    outbounds |-> Array(<<Outbound("vless", <<"n">>), Selector(<<<<"n">>>>)>>),
                    route     |-> Rules("generated")])]

\* A bare list that names two of its nodes alike, and one with a node that has no name.
BareNodes(outbounds) == [kind |-> "json", json |-> Object([outbounds |-> Array(outbounds)])]
TwiceNamed == BareNodes(<<Outbound("tuic", <<"n">>), Outbound("anytls", <<"n">>), Outbound("tuic", <<"m">>)>>)
Nameless   == BareNodes(<<Outbound("tuic", <<"n">>), Object([type |-> Scalar("tuic")])>>)

LinkTo(scheme, name) == Link(scheme, {"secret"}, "host", 443, "sni", FALSE, "tls", name)

\* Two nodes of one name, one whose name looks like a second one, one that has the
\* selector's, and one unreadable.
LinkList ==
  [kind |-> "links",
   links |-> <<LinkTo("vless", <<"n">>), LinkTo("tuic", <<"n", 2>>), LinkTo("ss", <<"s">>),
               LinkTo("hy2", SelectorTag), LinkTo("anytls", <<"n">>)>>]

ErrorPage == [kind |-> "text"]

MCUrls == {Url("server", "clash.yaml")}

MCReplies ==
  (Url("server", TargetFormat) :> {FullProfile, ErrorPage}) @@
  (Url("server", BareFormat) :> {TwiceNamed, Nameless})

MCFiles == {LinkList}

\* Two fragments that both have a rule; and one that reaches for what is reserved.
TwoFragments ==
  Fragments(<<Fragment("f", TRUE, Object([route |-> Rules("first")])),
              Fragment("g", TRUE, Object([route |-> Rules("second")]))>>)

Reaching ==
  BareObject(Object([inbounds     |-> Array(<<Tun("override")>>),
                     experimental |-> Scalar("off")]))

MCTexts == {TwoFragments, Reaching, Malformed}

\* Archives as they are published, one that is cut short after the core, and an error page.
Archive(id, entries) == [id |-> id, entries |-> entries]
MCArchives ==
  {Archive(1, <<"other", "core", "wintun">>), Archive(2, <<"core", "bad">>), Archive(3, <<"bad">>)}

\* Two profiles whose names the older version mapped to one path.
MCFirst ==
  {Profile("home", Url("server", TargetFormat), FALSE, 1), Profile("h-me", NoUrl, FALSE, 2)}
MCLegacyPath  == [n \in {"home", "h-me", "work"} |-> IF n = "work" THEN "work" ELSE "h_me"]
MCLegacyFiles == {[path |-> "h_me", id |-> 2, doc |-> FullProfile.json]}
=============================================================================
