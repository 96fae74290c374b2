------------------------------- MODULE AdminMenu -------------------------------
(***************************************************************************)
(* The interactive menu of `sbctl` (src/src/cli/menu.rs): the top level,   *)
(* its six sections, the confirmations, the dialogues and the commands     *)
(* behind them.  A terminal may hang up at any time; from then on every    *)
(* question reads the end of the input.  A command that changes the files  *)
(* of a deployment but not whether there is one is the subject of          *)
(* ConfigTransactions, Accounting and Lifecycle and leaves no trace here.  *)
(***************************************************************************)
EXTENDS ReleaseInstall, Dialogues

VARIABLES
  session,   \* what every terminal shows
  open,      \* whether its input may still bring a line
  deployed   \* etc/sbctl/config.toml: missing, ready or unreadable

menuVars == <<session, open, deployed>>

Sections ==
  <<"deployment", "protocols", "subscriptions", "traffic", "services", "updates">>

-------------------------------------------------------------------------------
(* Items *)

\* What an item runs, the confirmations and the plain lines it asks for first, or the
\* topic of its dialogue.
Item(name, confirms, lines, topic) ==
  [name |-> name, confirms |-> confirms, lines |-> lines, topic |-> topic]

Plain(name)     == Item(name, 0, 0, "none")
Sure(name, n)   == Item(name, n, 0, "none")
Correction(n)   == Item("correct", 0, n, "none")
Edit(topic)     == Item("edit", 0, 0, topic)
Installation(kind) == Item("install", 0, 0, kind)

Show == Plain("show")

\* The first section depends on what was deployed when it was drawn.
Items(section, installed) ==
  CASE section = "deployment" ->
         IF installed THEN <<Plain("regenerate"), Edit("all")>>
         ELSE <<Installation("quick"), Installation("all")>>
    [] section = "protocols" -> <<Show, Edit("protocols"), Sure("show", 1)>>
    [] section = "subscriptions" ->
         [i \in 1..8 |-> Show]
           \o <<Edit("subscription"), Sure("rotate", 1), Sure("regenerate", 1), Edit("template")>>
    [] section = "traffic" ->
         <<Show, Edit("traffic"), Correction(1), Correction(2), Sure("reset", 1)>>
    [] section = "services" -> <<Show, Sure("restart", 1), Show>>
    [] section = "updates" ->
         <<Sure("update", 1), Sure("kernel", 1), Sure("uninstall", 1), Sure("purge", 2)>>

-------------------------------------------------------------------------------
(* Screens *)

NoDialogue == [Dialogue("subscription", {}, "direct", {}) EXCEPT !.left = <<>>]

Screen(section) ==
  [phase |-> "choose", section |-> section,
   installed |-> section = "deployment" /\ deployed = "ready",
   item |-> Show, dialogue |-> NoDialogue]

Left == [Screen("top") EXCEPT !.phase = "left"]

In(s, phase) == session[s].phase = phase

Goes(s, phase) == session' = [session EXCEPT ![s].phase = phase]

Shows(s, screen) == session' = [session EXCEPT ![s] = screen]

\* "Press return": what an item asked is forgotten.
Pauses(s) == Shows(s, [Screen(session[s].section) EXCEPT !.phase = "pause"])

MenuInit(terminals) ==
  /\ session = [s \in Sessions |-> IF s \in terminals THEN Screen("top") ELSE Left]
  /\ open = [s \in Sessions |-> s \in terminals]

\* The connection of a terminal is lost.
InputEnds(s) ==
  /\ open[s]
  /\ open' = [open EXCEPT ![s] = FALSE]
  /\ UNCHANGED <<session, deployed, releaseVars>>

\* Another administrator, or a hand in the file, while a menu is shown.
Elsewhere ==
  /\ \E s \in Sessions : ~In(s, "left")
  /\ deployed' \in {"missing", "ready", "unreadable"} \ {deployed}
  /\ UNCHANGED <<session, open, releaseVars>>

-------------------------------------------------------------------------------
(* Choosing *)

\* Whether a dialogue opens at all, and as what: a topic needs a deployment that can
\* be read, the wizard one that can be read if there is one, an installation none.
Opens(item) ==
  IF item.name = "install"
  THEN IF deployed = "missing" THEN Begun(item.topic, TRUE) ELSE {}
  ELSE IF item.topic = "all"
  THEN IF deployed = "unreadable" THEN {} ELSE Begun("all", deployed = "missing")
  ELSE IF deployed = "ready" THEN Begun(item.topic, FALSE) ELSE {}

Chosen(s, item) ==
  LET chosen == [session[s] EXCEPT !.phase = "asking", !.item = item] IN
  IF item.topic # "none"
  THEN \/ \E d \in Opens(item) : Shows(s, [chosen EXCEPT !.dialogue = d])
       \/ (item.name = "install" \/ Opens(item) = {}) /\ Pauses(s)
  ELSE IF item.confirms + item.lines > 0
  THEN Shows(s, chosen)
  ELSE Shows(s, [chosen EXCEPT !.phase = "running"])

Choose(s) ==
  LET section == session[s].section IN
  /\ In(s, "choose")
  /\ open[s]
  /\ IF section = "top"
     THEN \/ Shows(s, Left)
          \/ \E i \in 1..Len(Sections) : Shows(s, Screen(Sections[i]))
          \/ Pauses(s)
     ELSE \/ Shows(s, Screen("top"))
          \/ LET items == Items(section, session[s].installed)
             IN  \E i \in 1..Len(items) : Chosen(s, items[i])
          \/ Pauses(s)
  /\ UNCHANGED <<open, deployed, releaseVars>>

\* The end of the input leaves a section, and then the menu.
ChooseAtEnd(s) ==
  /\ In(s, "choose")
  /\ ~open[s]
  /\ Shows(s, IF session[s].section = "top" THEN Left ELSE Screen("top"))
  /\ UNCHANGED <<open, deployed, releaseVars>>

Return(s) ==
  /\ In(s, "pause")
  /\ Shows(s, Screen(session[s].section))
  /\ UNCHANGED <<open, deployed, releaseVars>>

-------------------------------------------------------------------------------
(* Asking *)

\* Mutant: like the questions that say [Y/n].
AffirmedUnlessNo(answer) == answer # "no"

\* confirm_menu_action
Affirmed(answer) == answer = "yes"

\* At its end the input gives an empty line.
Replies(s) == IF open[s] THEN {"", "unusable", "yes", "no"} ELSE {""}

Asking(s, kind) == In(s, "asking") /\ session[s].item[kind] > 0

Confirm(s) ==
  /\ Asking(s, "confirms")
  /\ \E answer \in Replies(s) :
       IF ~Affirmed(answer) THEN Pauses(s)
       ELSE IF session[s].item.confirms > 1
       THEN session' = [session EXCEPT ![s].item.confirms = @ - 1]
       ELSE Goes(s, "running")
  /\ UNCHANGED <<open, deployed, releaseVars>>

\* The amounts of a correction: both are read before either is parsed.
EnterAmount(s) ==
  /\ Asking(s, "lines")
  /\ \/ open[s] /\ session[s].item.lines > 1
          /\ session' = [session EXCEPT ![s].item.lines = @ - 1]
     \/ open[s] /\ session[s].item.lines = 1 /\ Goes(s, "running")
     \/ (session[s].item.lines = 1 \/ ~open[s]) /\ Pauses(s)
  /\ UNCHANGED <<open, deployed, releaseVars>>

\* What the dialogue makes of the next line, or of none.
Replied(s) ==
  LET d == session[s].dialogue IN
  IF open[s] THEN UNION {Answer(d, line) : line \in Lines(Asks(d))} ELSE EndOfInput(d)

Converse(s) ==
  /\ In(s, "asking")
  /\ session[s].item.topic # "none"
  /\ \E d \in Replied(s) :
       CASE d.outcome = "asking" -> session' = [session EXCEPT ![s].dialogue = d]
         [] d.outcome = "confirmed" ->
              session' = [session EXCEPT ![s].dialogue = NoDialogue, ![s].phase = "running"]
         [] OTHER -> Pauses(s)
  /\ UNCHANGED <<open, deployed, releaseVars>>

-------------------------------------------------------------------------------
(* Running *)

Running(s, names) == In(s, "running") /\ session[s].item.name \in names

RunInPlace(s) ==
  /\ Running(s, {"show", "regenerate", "correct", "rotate", "reset", "restart"})
  /\ Pauses(s)
  /\ UNCHANGED <<open, deployed, releaseVars>>

\* commit_config_change loads again: what has been purged since the dialogue began is
\* initialised, if the kernel is there to check it.
RunEdit(s) ==
  /\ Running(s, {"edit"})
  /\ Pauses(s)
  /\ \/ /\ deployed = "missing"
        /\ bin["sing-box"] # None
        /\ deployed' = "ready"
     \/ UNCHANGED deployed
  /\ UNCHANGED <<open, releaseVars>>

\* preflight refuses what has been deployed since; the kernel is the latest official
\* one; a failure takes away what it put in place.
RunInstall(s) ==
  /\ Running(s, {"install"})
  /\ Pauses(s)
  /\ \/ /\ deployed = "missing" /\ bin["sing-box"] = None
        /\ \E version \in LatestVersions : \E c \in OfficialKernels(version) :
             /\ bin' = [bin EXCEPT !["sing-box"] = c]
             /\ origin' = [origin EXCEPT !["sing-box"] =
                  [cmd |-> "install", version |-> version, digest |-> None]]
        /\ deployed' = "ready"
     \/ UNCHANGED <<deployed, bin, origin>>
  /\ UNCHANGED <<open, published, file, part, staged, job, events>>

\* The session waits for a release command of its own.
RunRelease(s) ==
  /\ Running(s, {"update", "kernel"})
  /\ Goes(s, "waiting")
  /\ BeginRelease(s, NewJob(IF session[s].item.name = "update" THEN "update" ELSE "official", {}))
  /\ UNCHANGED <<open, deployed, events>>

Waited(s) ==
  /\ In(s, "waiting")
  /\ job[s] = None
  /\ Pauses(s)
  /\ UNCHANGED <<open, deployed, releaseVars>>

\* The binaries go before the data, either may fail; afterwards the top level is
\* shown, whatever came of it.
RunUninstall(s) ==
  /\ Running(s, {"uninstall", "purge"})
  /\ Shows(s, Screen("top"))
  /\ \/ /\ deployed # "missing"
        /\ bin' = Nothing /\ origin' = Nothing
        /\ \/ UNCHANGED deployed
           \/ session[s].item.name = "purge" /\ deployed' = "missing"
     \/ UNCHANGED <<deployed, bin, origin>>
  /\ UNCHANGED <<open, published, file, part, staged, job, events>>

MenuStep(s) ==
  \/ Choose(s) \/ ChooseAtEnd(s) \/ Return(s)
  \/ Confirm(s) \/ EnterAmount(s) \/ Converse(s)
  \/ RunInPlace(s) \/ RunEdit(s) \/ RunInstall(s)
  \/ RunRelease(s) \/ Waited(s) \/ RunUninstall(s)

-------------------------------------------------------------------------------
\* A terminal that is gone leaves no session behind, whatever it was asking: every
\* loop that asks again notices the end of the input (read_menu_choice,
\* ConsolePrompts::ask, ask_required).  And it starts nothing: a question nobody
\* answers is never taken for a confirmation, but for the protocols of a quick
\* installation, which are offered with [Y/n] (confirm_menu_action, confirm_protocol).
HangUpEndsSession ==
  /\ \A s \in Sessions : ~open[s] ~> In(s, "left")
  /\ [][\A s \in Sessions :
          ~open[s] /\ ~In(s, "running") =>
            ~In(s, "running")' \/ session[s].dialogue.topic = "quick"]_<<session, open, deployed>>
=============================================================================
