-------------------------- MODULE SubscriptionFormats --------------------------
(***************************************************************************)
(* The subscription formats: which files a deployment generates, which     *)
(* links its pages advertise, and which requests the service routes.       *)
(*                                                                         *)
(* A version is a pair <<major, minor>>.  A path segment is its stem, the  *)
(* version in it and its extension: what path_name writes and              *)
(* parse_format_path reads, part by part.                                  *)
(***************************************************************************)
EXTENDS Naturals, Sequences, FiniteSets, SequencesExt

CONSTANT None  \* no version, no extension, no format, no route

Protocols == {"vless-reality", "anytls", "hysteria2", "tuic", "vmess-ws"}

\* The members of a list that are in a set, in the order of the list.
Those(list, set) ==
  LET upTo[n \in 0 .. Len(list)] ==
        IF n = 0 THEN <<>>
        ELSE IF list[n] \in set THEN Append(upTo[n - 1], list[n]) ELSE upTo[n - 1]
  IN  upTo[Len(list)]

(* The registry of client versions *)

Version(minor) == <<1, minor>>

VersionProfile(minor) ==
  [version |-> Version(minor),
   typedDns |-> minor >= 12,
   ruleActions |-> minor >= 11,
   supportsAnytls |-> minor >= 12,
   storeDns |-> minor >= 14]

\* Ascending; the last one is what the full profile targets.
VersionProfiles == [i \in 1 .. 5 |-> VersionProfile(9 + i)]
LatestProfile   == Last(VersionProfiles)
ClashLegacyVersion == Version(18)

RegistryVersions == {VersionProfiles[i].version : i \in DOMAIN VersionProfiles}

\* Version numbers are compared major first.
Newer(a, b) == a[1] > b[1] \/ (a[1] = b[1] /\ a[2] > b[2])

(* Formats *)

Format(family, version) == [family |-> family, version |-> version]

SingBox      == Format("sing-box", None)
SingBoxFull  == Format("sing-box-full", None)
SingBoxVersion(v) == Format("sing-box", v)
Clash        == Format("clash", None)
ClashLegacy(v) == Format("clash", v)
Uri          == Format("uri", None)
Base64Uri    == Format("base64-uri", None)
Shadowrocket == Format("shadowrocket", None)

Segment(stem, version, extension) == <<stem, version, extension>>

PathName(f) ==
  CASE f.family \in {"sing-box", "sing-box-full"} -> Segment(f.family, f.version, "json")
    [] f.family = "clash" -> Segment("clash", f.version, "yaml")
    [] f = Uri            -> Segment("uri", None, None)
    [] f = Base64Uri      -> Segment("uri", None, "txt")
    [] f = Shadowrocket   -> Segment("shadowrocket", None, "txt")

\* The file an artifact is kept in; the server's has a name outside this scheme.
ArtifactName(f) ==
  CASE f.family \in {"sing-box", "sing-box-full"} ->
         <<"subscription", Segment(f.family, f.version, "json")>>
    [] f.family = "clash" -> <<"subscription", Segment("clash", f.version, "yaml")>>
    [] OTHER -> <<"subscription", Segment(f.family, None, "txt")>>
ServerArtifact == <<"server", Segment("sing-box", None, "json")>>

(* What is advertised *)

StaticRows == <<SingBox, SingBoxFull, Clash, ClashLegacy(ClashLegacyVersion),
                Uri, Base64Uri, Shadowrocket>>

VersionRows == [i \in DOMAIN VersionProfiles |-> SingBoxVersion(VersionProfiles[i].version)]

\* The version rows come right before the full profile's.
SubscriptionMatrix ==
  LET at == CHOOSE i \in DOMAIN StaticRows : StaticRows[i] = SingBoxFull
  IN  SubSeq(StaticRows, 1, at - 1) \o VersionRows
        \o SubSeq(StaticRows, at, Len(StaticRows))

ClientMatrix ==
  [ClashParty   |-> <<Clash>>,
   ClashVerge   |-> <<Clash>>,
   SingBoxApp   |-> <<SingBoxFull>> \o VersionRows,
   V2rayN       |-> <<Base64Uri, SingBoxFull>>,
   Shadowrocket |-> <<Shadowrocket>>]

FormatRoute(f) == [kind |-> "format", format |-> f]
QrRoute(f)     == [kind |-> "qr", format |-> f]
IndexRoute     == [kind |-> "index", format |-> None]

\* The path of a link behind the host: /sub/<credential>/<segments>.
RoutePath(credential, route) ==
  [root       |-> "sub",
   credential |-> credential,
   segments   |-> CASE route.kind = "format" -> <<PathName(route.format)>>
                    [] route.kind = "qr" -> <<Segment("qr", None, None), PathName(route.format)>>
                    [] route.kind = "index" -> <<Segment("index", None, None)>>]

\* The links of the overview page and of `sbctl sub`.
AdvertisedFormats ==
  ToSet(SubscriptionMatrix) \cup UNION {ToSet(ClientMatrix[c]) : c \in DOMAIN ClientMatrix}

AdvertisedRoutes ==
  {FormatRoute(f) : f \in AdvertisedFormats}
    \cup {QrRoute(f) : f \in ToSet(SubscriptionMatrix)} \cup {IndexRoute}

(* What is routed *)

FixedFormats == {SingBox, SingBoxFull, Clash, Uri, Base64Uri, Shadowrocket}

\* A version the registry does not know is no format.
ParseFormatPath(segment) ==
  LET fixed == {f \in FixedFormats : PathName(f) = segment}
  IN  CASE fixed # {} -> CHOOSE f \in fixed : TRUE
        [] segment[1] = "sing-box" /\ segment[3] = "json" /\ segment[2] \in RegistryVersions ->
             SingBoxVersion(segment[2])
        [] segment = Segment("clash", ClashLegacyVersion, "yaml") ->
             ClashLegacy(ClashLegacyVersion)
        [] OTHER -> None

\* The route a path stands for, with nothing behind it; None when it is no route.
ParseRoute(path) ==
  LET segments == path.segments
      format   == ParseFormatPath(Last(segments))
      first    == segments[1][1]
  IN  IF path.root # "sub" \/ segments = <<>> THEN None
      ELSE IF first = "index" THEN IF Len(segments) = 1 THEN IndexRoute ELSE None
      ELSE IF first = "qr"
      THEN IF Len(segments) = 2 /\ format # None THEN QrRoute(format) ELSE None
      ELSE IF Len(segments) = 1 /\ format # None THEN FormatRoute(format) ELSE None

(* What is generated *)

\* No node of the deployment fits a client without AnyTLS.
NothingFor(profile, protocols) == ~ profile.supportsAnytls /\ protocols \subseteq {"anytls"}

\* A client of an old version gets no file when it could use no node of it.
GeneratedFormats(protocols) ==
  FixedFormats \cup {ClashLegacy(ClashLegacyVersion)} \cup
    {SingBoxVersion(VersionProfiles[i].version) :
       i \in {j \in DOMAIN VersionProfiles : ~ NothingFor(VersionProfiles[j], protocols)}}

\* The newest profile whose configuration the installed kernel accepts; the latest
\* when there is no kernel or it accepts none.
FullProfile(protocols, accepted) ==
  LET fits == {i \in DOMAIN VersionProfiles :
                 /\ VersionProfiles[i].version \in accepted
                 /\ ~ NothingFor(VersionProfiles[i], protocols)}
  IN  IF fits = {} THEN LatestProfile
      ELSE VersionProfiles[CHOOSE i \in fits : \A j \in fits : j <= i]

\* The versions a request may name.
Versions == (0 .. 2) \X (8 .. 20)
=============================================================================
