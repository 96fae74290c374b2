------------------------------- MODULE Dialogues -------------------------------
(***************************************************************************)
(* What sbctl asks at a terminal: the configuration wizard and its focused *)
(* topics (src/src/wizard.rs), and the questions of a quick installation   *)
(* (src/src/cli/prompt.rs).  A dialogue is the list of the questions that  *)
(* are left; an answer may add questions to it or end it.  A line is empty, *)
(* unusable, or a value; what the values make of a configuration is the    *)
(* subject of DeploymentConfig.                                            *)
(***************************************************************************)
EXTENDS Naturals, Sequences, FiniteSets

CONSTANT Asked  \* the protocols a dialogue offers, in their order

Offers == {Asked[i] : i \in 1..Len(Asked)}

Modes == {"direct", "external-proxy", "ip-fallback"}

-------------------------------------------------------------------------------
(* Questions *)

SubscriptionQuestions == <<"mode", "host", "proxyHost", "listener">>
TrafficQuestions      == <<"limit", "timezone", "displayTimezone", "policy">>

Questions(topic) ==
  CASE topic = "all" ->
         SubscriptionQuestions \o <<"interface", "certificateMode">> \o Asked
           \o <<"selection">> \o TrafficQuestions \o <<"commit">>
    [] topic = "subscription" -> SubscriptionQuestions \o <<"commit">>
    [] topic = "protocols" -> Asked \o <<"selection", "commit">>
    [] topic = "traffic" -> TrafficQuestions \o <<"interface", "commit">>
    [] topic = "template" ->
         <<"template", "dns", "rules", "mirror", "probe", "commit">>
    [] topic = "quick" -> <<"host">> \o Asked \o <<"selection">>

\* An empty answer to one of these keeps what there is or says that there is none.
Optional == {"proxyHost", "port", "protocolSni", "limit", "email"}

\* Those a new deployment has a suggestion for, but for the network interface.
Suggested == {"mode", "certificateMode", "timezone", "displayTimezone", "policy"}

\* Those an existing deployment may have no value for.
MaybeUnset == {"proxyHost", "httpPort", "listenPort", "decoySni", "protocolSni",
               "resetAt", "email", "port"}

\* A dialogue: the values it may keep, its answers so far that decide what is asked.
Dialogue(topic, kept, mode, enabled) ==
  [topic |-> topic, left |-> Questions(topic), kept |-> kept, mode |-> mode,
   enabled |-> enabled, chosen |-> {}, outcome |-> "asking"]

\* The listener ports have a default in the focused topic.
Begun(topic, fresh) ==
  IF topic = "quick" THEN {Dialogue(topic, {}, "direct", Offers)}
  ELSE IF fresh
  THEN {Dialogue(topic, Suggested \cup found, "direct", Offers) : found \in {{}, {"interface"}}}
  ELSE {Dialogue(topic,
          ({"mode", "host", "interface", "certificateMode", "limit", "timezone",
            "displayTimezone", "policy", "template", "dns", "rules", "mirror", "probe"}
             \cup set \cup (IF topic = "all" THEN {} ELSE {"httpPort", "listenPort"})),
          mode, enabled) :
          set \in {{}, MaybeUnset}, mode \in Modes, enabled \in SUBSET Offers \ {{}}}

Ended(d, outcome) == [d EXCEPT !.left = <<>>, !.chosen = {}, !.outcome = outcome]

Asks(d) == Head(d.left)

-------------------------------------------------------------------------------
(* Answers *)

\* ask_yes_no and confirm take four words, everything else is asked again.
YesNo == Offers \cup {"noEmail", "commit"}

Lines(q) ==
  CASE q \in YesNo -> {"", "unusable", "yes", "no"}
    [] q = "mode" -> {"", "unusable"} \cup Modes
    [] q = "policy" -> {"", "unusable", "natural-month", "anchored-month"}
    [] OTHER -> {"", "unusable", "value"}

Then(d, more) == [d EXCEPT !.left = more \o Tail(@)]

\* What the mode of the subscription needs.
ListenerQuestions(mode) ==
  CASE mode = "direct" -> <<"email">>
    [] mode = "ip-fallback" -> <<"httpPort">>
    [] mode = "external-proxy" -> <<"listenPort">>

\* What the selected protocols need; a quick installation asks for no ports.
SelectionQuestions(d) ==
  LET decoy == IF "vless-reality" \in d.chosen THEN <<"decoySni">> ELSE <<>>
      sni   == IF d.chosen \ {"vless-reality"} # {} THEN <<"protocolSni">> ELSE <<>>
      ports == [i \in 1..Cardinality(d.chosen) |-> "port"]
  IN  CASE d.topic = "quick" -> decoy
        [] d.topic = "protocols" -> <<"certificateMode">> \o ports \o decoy \o sni
        [] OTHER -> ports \o decoy \o sni

\* An edit of the protocols that selects none.
SelectsNone(d) == d.topic = "protocols" /\ d.chosen = {}

\* What the selected protocols need is asked next.
Selected(d) ==
  IF d.outcome = "asking" /\ d.left # <<>> /\ Asks(d) = "selection" /\ ~ SelectsNone(d)
  THEN Then(d, SelectionQuestions(d)) ELSE d

\* What is decided before the next question: an edit of the protocols that selects
\* none is cancelled; the answers may be refused, and where they change nothing there
\* is nothing to confirm.
Settled(dialogue) ==
  LET d == Selected(dialogue) IN
  IF d.outcome # "asking" THEN {d}
  ELSE IF d.left = <<>> THEN {Ended(d, "confirmed")}
  ELSE CASE Asks(d) = "listener" -> {Then(d, ListenerQuestions(d.mode))}
         [] Asks(d) = "selection" -> {Ended(d, "cancelled")}
         [] Asks(d) = "commit" ->
              {Ended(d, "failed")}
                \cup IF d.topic \in {"all", "protocols"} /\ d.chosen = {} THEN {}
                     ELSE {d, Ended(d, "unchanged")}
         [] OTHER -> {d}

\* An accepted value and the questions that follow from it.
Accepted(d, value) ==
  LET q == Asks(d) IN
  CASE q = "mode" -> Settled(Then([d EXCEPT !.mode = value], <<>>))
    [] q = "policy" ->
         Settled(Then(d, IF value = "anchored-month" THEN <<"resetAt">> ELSE <<>>))
    [] q \in Offers ->
         Settled(Then([d EXCEPT !.chosen = IF value = "yes" THEN @ \cup {q} ELSE @], <<>>))
    [] q = "commit" -> {Ended(d, IF value = "yes" THEN "confirmed" ELSE "cancelled")}
    [] q = "noEmail" ->
         Settled(IF value = "yes" THEN Then(d, <<>>)
                 ELSE Then([d EXCEPT !.kept = @ \ {"email"}], <<"email">>))
    [] OTHER -> Settled(Then(d, <<>>))

\* The value an empty answer stands for.
KeptValues(d) ==
  LET q == Asks(d) IN
  CASE q = "mode" -> {d.mode}
    [] q = "policy" -> {IF "resetAt" \in d.kept THEN "anchored-month" ELSE "natural-month"}
    [] q \in Offers -> {IF q \in d.enabled THEN "yes" ELSE "no"}
    [] q \in {"commit", "noEmail"} -> {"no"}
    [] OTHER -> {"value"}

\* A kept value that does not parse any more ends the wizard; a required question
\* without one is asked again; without an e-mail address it takes a confirmation.
EmptyAnswer(d) ==
  LET q == Asks(d) IN
  IF q \in YesNo \cup d.kept
  THEN UNION {Accepted(d, v) : v \in KeptValues(d)}
         \cup IF q \in d.kept THEN {Ended(d, "failed")} ELSE {}
  ELSE IF q = "email" THEN {Then(d, <<"noEmail">>)}
  ELSE IF q \in Optional THEN Accepted(d, "")
  ELSE {d}

\* prompt.rs: nothing but "n" and "no" declines a protocol, and what is required is
\* not asked twice.
QuickAnswer(d, line) ==
  LET q == Asks(d) IN
  IF q \in Offers THEN Accepted(d, IF line = "no" THEN "no" ELSE "yes")
  ELSE IF line = "" THEN {Ended(d, "failed")}
  ELSE Accepted(d, line)

WizardAnswer(d, line) ==
  IF line = "" THEN EmptyAnswer(d)
  ELSE IF line = "unusable" THEN {d}
  ELSE Accepted(d, line)

Answer(d, line) ==
  IF d.topic = "quick" THEN QuickAnswer(d, line) ELSE WizardAnswer(d, line)

\* No line at all: the wizard fails; a quick installation reads an empty one.
EndOfInput(d) ==
  IF d.topic = "quick" THEN QuickAnswer(d, "") ELSE {Ended(d, "failed")}

===============================================================================
