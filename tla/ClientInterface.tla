---------------------------- MODULE ClientInterface ----------------------------
(***************************************************************************)
(* The user at the terminal client or at the desktop client.  Both look at *)
(* a copy of the engine's snapshot that is taken twice a second, keep what *)
(* the user has highlighted, armed and typed, and send commands that the   *)
(* engine takes when it comes to them: between a key and the next one the  *)
(* profile, the mode or the core may have become another one.              *)
(***************************************************************************)
EXTENDS EngineLoop

CONSTANTS
  Sessions    \* what a user sits down for: the client, the matters that come up, and how
              \* much may happen meanwhile

VARIABLES
  seen,   \* the copy of the snapshot
  ui,     \* the view state
  asked,  \* the questions put to the user and not acted on since: what, and to what
  keys    \* bound: keys and clicks that are left

uiVars == <<seen, ui, asked, keys>>
vars   == <<loopVars, uiVars>>

NoArms == [delete |-> None, clear |-> FALSE, load |-> None, mode |-> None,
           closeAll |-> FALSE, stop |-> FALSE, quit |-> FALSE]

FirstView(session, port) ==
  [client |-> session.client, matters |-> session.matters, open |-> TRUE, arms |-> NoArms,
   editor |-> None, row |-> 1, member |-> None, conn |-> None,
   field |-> [text |-> port, focused |-> FALSE], keep |-> FALSE]

Init ==
  /\ \E session \in Sessions :
       /\ LoopInit(session.budget, session.auto)
       /\ keys = session.keys
       /\ seen = snap
       /\ ui = FirstView(session, snap.port)
  /\ asked = {}

Terminal == ui.client = "terminal"
Desktop  == ui.client = "desktop"

\* One key or click on a matter of the session.
Key(client, matter) ==
  /\ ui.open /\ ui.client = client /\ matter \in ui.matters
  /\ keys > 0
  /\ keys' = keys - 1
  /\ UNCHANGED <<seen, engine, snap, poll, core, logFile, osProxy, left>>

Send(c)  == queue' = Append(queue, c)
NoSend   == UNCHANGED queue
Quiet    == NoSend /\ UNCHANGED asked

Selected(row) == IF row \in DOMAIN seen.list THEN {seen.list[row]} ELSE {}

-------------------------------------------------------------------------------
(* The copy of the snapshot *)

\* Mutant: the copy is only taken while the core is shown as stopped or starting.
CopyUntilRunning == IF seen.running THEN seen ELSE snap

Copy == snap

\* The highlight of the group's member follows the running node once, and is then the
\* user's; a field shows what is stored unless it has the focus.
Synced(u, s) ==
  [u EXCEPT !.member = IF s.groups = None THEN None ELSE IF @ = None THEN s.groups.node ELSE @,
            !.field.text = IF u.field.focused THEN @ ELSE s.port]

\* refresh_snapshot at the terminal's tick, the timer of the desktop client
Refresh ==
  /\ ui.open
  /\ seen' = Copy
  /\ ui' = Synced(ui, seen')
  /\ seen' # seen \/ ui' # ui
  /\ UNCHANGED <<loopVars, asked, keys>>

-------------------------------------------------------------------------------
(* The terminal client: handle_key *)

\* Any key takes back what was armed, but for the second press of its own key; an armed
\* deletion stays.
Disarmed(key) ==
  [ui.arms EXCEPT !.quit = FALSE,
                  !.mode = IF key = "m" THEN @ ELSE None,
                  !.clear = (@ /\ key = "O"),
                  !.load = IF key = "f" THEN @ ELSE None]

\* A key outside the overlay where a text is typed.
Press(matter, key) == Key("terminal", matter) /\ ui.editor = None

Arms(arms) == ui' = [ui EXCEPT !.arms = arms]

OtherKey ==
  /\ \E matter \in {"override", "mode", "exit"} : Press(matter, "?")
  /\ Disarmed("?") # ui.arms
  /\ Arms(Disarmed("?"))
  /\ Quiet

StartStop ==
  /\ Press("core", "s")
  /\ Send(Cmd(IF seen.running \/ seen.starting \/ seen.busy THEN "StopCore" ELSE "StartCore", None, None))
  /\ Arms(Disarmed("s"))
  /\ UNCHANGED asked

ToggleProxyKey ==
  /\ Press("exit", "p")
  /\ Send(Cmd("ToggleSystemProxy", None, None))
  /\ Arms(Disarmed("p"))
  /\ UNCHANGED asked

UpdateKey ==
  /\ Press("profiles", "u")
  /\ Send(Cmd("UpdateSubscription", None, None))
  /\ Arms(Disarmed("u"))
  /\ UNCHANGED asked

MoveRow ==
  /\ Press("profiles", "j")
  /\ \E row \in DOMAIN seen.list \ {ui.row} :
       ui' = [ui EXCEPT !.row = row, !.arms = Disarmed("j")]
  /\ Quiet

ActivateRow ==
  /\ Press("profiles", "Enter")
  /\ \E name \in Selected(ui.row) : Send(Cmd("SwitchProfile", name, None))
  /\ Arms(Disarmed("Enter"))
  /\ UNCHANGED asked

\* Deletes on the second press for the same profile.
DeleteRow ==
  /\ Press("profiles", "Delete")
  /\ \E name \in Selected(ui.row) :
       IF ui.arms.delete # name
       THEN /\ Arms([Disarmed("Delete") EXCEPT !.delete = name])
            /\ asked' = asked \cup {<<"RemoveProfile", name>>}
            /\ NoSend
       ELSE /\ Arms([Disarmed("Delete") EXCEPT !.delete = None])
            /\ asked' = asked \ {<<"RemoveProfile", name>>}
            /\ Send(Cmd("RemoveProfile", name, None))

Editor(goal, of, text) == [goal |-> goal, of |-> of, text |-> text]

EditLinkKey ==
  /\ Press("links", "e")
  /\ \E name \in Selected(ui.row) :
       ui' = [ui EXCEPT !.editor = Editor("link", name, None), !.arms = Disarmed("e")]
  /\ Quiet

EscapeEditor ==
  /\ \E matter \in {"links", "override"} : Key("terminal", matter)
  /\ ui.editor # None
  /\ ui' = [ui EXCEPT !.editor = None]
  /\ Quiet

\* A link is typed for the profile the user opened the editor on.
TypeLink ==
  /\ \E client \in {"terminal", "desktop"} : Key(client, "links")
  /\ ui.editor # None
  /\ ui' = [ui EXCEPT !.editor.text = ui.editor.of]
  /\ Quiet

CommitLink ==
  /\ Key("terminal", "links")
  /\ ui.editor # None /\ ui.editor.goal = "link"
  /\ ui' = [ui EXCEPT !.editor = None]
  /\ IF ui.editor.text = None THEN NoSend
     ELSE Send(Cmd("SetProfileUrl", ui.editor.of, ui.editor.text))
  /\ UNCHANGED asked

\* The second press acts on whatever profile is the active one then.
ClearKey ==
  /\ Press("override", "O")
  /\ seen.active # None /\ seen.override # None
  /\ IF ~ui.arms.clear
     THEN /\ Arms([Disarmed("O") EXCEPT !.clear = TRUE])
          /\ asked' = asked \cup {<<"ClearOverride", seen.active>>}
          /\ NoSend
     ELSE /\ Arms([Disarmed("O") EXCEPT !.clear = FALSE])
          /\ asked' = asked \ {<<"ClearOverride", seen.active>>}
          /\ Send(Cmd("ClearOverride", seen.active, None))

\* The profile a load that was confirmed is written to: none when it is no longer active.
LoadTargets(load) == {load.of} \cap {seen.active}

\* Without a pending load a path is asked for; the second press writes what was read.
LoadKey ==
  /\ Press("override", "f")
  /\ IF ui.arms.load = None
     THEN /\ seen.active # None
          /\ ui' = [ui EXCEPT !.arms = Disarmed("f"), !.editor = Editor("file", seen.active, None)]
          /\ Quiet
     ELSE /\ Arms([Disarmed("f") EXCEPT !.load = None])
          /\ asked' = asked \ {<<"SetOverride", ui.arms.load.of>>}
          /\ \/ /\ LoadTargets(ui.arms.load) = {}
                /\ NoSend
             \/ \E name \in LoadTargets(ui.arms.load) :
                  Send(Cmd("SetOverride", name, ui.arms.load.text))

\* The file is read for the profile that is active now; one that would be replaced is
\* asked about first.
CommitLoad ==
  /\ Key("terminal", "override")
  /\ ui.editor # None /\ ui.editor.goal = "file"
  /\ \/ /\ seen.active = None
        /\ ui' = [ui EXCEPT !.editor = None]
        /\ Quiet
     \/ /\ seen.active # None /\ seen.override # None
        /\ ui' = [ui EXCEPT !.editor = None,
                    !.arms.load = [of |-> seen.active, text |-> "file"]]
        /\ asked' = asked \cup {<<"SetOverride", seen.active>>}
        /\ NoSend
     \/ /\ seen.active # None /\ seen.override = None
        /\ ui' = [ui EXCEPT !.editor = None]
        /\ Send(Cmd("SetOverride", seen.active, "file"))
        /\ UNCHANGED asked

\* The second press switches away from whatever mode is shown then.
ModeKey ==
  /\ Press("mode", "m")
  /\ IF ui.arms.mode = None
     THEN /\ Arms([Disarmed("m") EXCEPT !.mode = "any"])
          /\ asked' = asked \cup {<<"SetTrafficMode", Other(seen.mode)>>}
          /\ NoSend
     ELSE /\ Arms([Disarmed("m") EXCEPT !.mode = None])
          /\ asked' = asked \ {<<"SetTrafficMode", Other(seen.mode)>>}
          /\ Send(Cmd("SetTrafficMode", Other(seen.mode), None))

MoveMember ==
  /\ Press("nodes", "j")
  /\ seen.groups # None
  /\ \E node \in Nodes \ {ui.member} : ui' = [ui EXCEPT !.member = node]
  /\ Quiet

SelectMember ==
  /\ Press("nodes", "Enter")
  /\ seen.running /\ seen.groups # None
  /\ Send(Cmd("SwitchNode", ui.member, None))
  /\ UNCHANGED <<ui, asked>>

\* The highlighted connection, by its id; the first row when it is gone.
CurrentConn ==
  IF Contains(seen.conns.rows, ui.conn) THEN ui.conn ELSE seen.conns.rows[1]

MoveConn ==
  /\ Press("connections", "j")
  /\ \E c \in ToSet(seen.conns.rows) \ {ui.conn} : ui' = [ui EXCEPT !.conn = c]
  /\ Quiet

CloseSelected ==
  /\ Press("connections", "x")
  /\ seen.running /\ seen.conns.rows # <<>>
  /\ Send(Cmd("CloseConnection", CurrentConn, None))
  /\ UNCHANGED <<ui, asked>>

CloseAllKey ==
  /\ Press("connections", "X")
  /\ seen.running /\ seen.conns.rows # <<>>
  /\ Send(Cmd("CloseAllConnections", None, None))
  /\ UNCHANGED <<ui, asked>>

\* q asks first when the proxy is shown as on.
AskQuit ==
  /\ Press("exit", "q")
  /\ seen.proxy /\ ~ui.arms.quit
  /\ Arms([ui.arms EXCEPT !.quit = TRUE])
  /\ Quiet

\* The loop ends: the user quit, or a signal came.  A last copy of the snapshot decides
\* whether the proxy is cleared.
LeaveTerminal ==
  /\ Terminal /\ ui.open /\ "exit" \in ui.matters
  /\ \E signal \in BOOLEAN :
       /\ signal \/ (ui.editor = None /\ (~seen.proxy \/ ui.arms.quit))
       /\ ui' = [ui EXCEPT !.open = FALSE, !.keep = ui.arms.quit /\ ~signal]
  /\ seen' = snap
  /\ osProxy' = (osProxy /\ (~snap.proxy \/ ui.arms.quit))
  /\ Send(Cmd("Shutdown", None, None))
  /\ UNCHANGED <<engine, snap, poll, core, logFile, left, asked, keys>>

-------------------------------------------------------------------------------
(* The desktop client *)

Click(matter) == Key("desktop", matter)

\* The sidebar takes back what a page has armed, but for the switch of the mode; the
\* other ways to a page take nothing back, and change nothing here.
Navigate ==
  /\ \E matter \in {"profiles", "override", "connections"} : Click(matter)
  /\ LET arms == [ui.arms EXCEPT !.closeAll = FALSE, !.delete = None, !.clear = FALSE]
     IN  arms # ui.arms /\ Arms(arms)
  /\ Quiet

\* request: a start while nothing is under way; otherwise a stop, which asks first; or a
\* restart of the running core, which does not.
PowerButton ==
  /\ Click("core")
  /\ LET stops == seen.running \/ seen.starting \/ seen.busy
     IN  \/ /\ stops /\ ~ui.arms.stop
            /\ Arms([ui.arms EXCEPT !.stop = TRUE])
            /\ asked' = asked \cup {<<"StopCore", None>>}
            /\ NoSend
         \/ /\ \/ stops /\ ui.arms.stop /\ Send(Cmd("StopCore", None, None))
               \/ ~stops /\ Send(Cmd("StartCore", None, None))
               \/ seen.running /\ Send(Cmd("RestartCore", None, None))
            /\ UNCHANGED <<ui, asked>>

AnswerStop ==
  /\ Click("core")
  /\ ui.arms.stop
  /\ Arms([ui.arms EXCEPT !.stop = FALSE])
  /\ asked' = asked \ {<<"StopCore", None>>}
  /\ NoSend \/ Send(Cmd("StopCore", None, None))

ToggleProxyButton ==
  /\ Click("exit")
  /\ Send(Cmd("ToggleSystemProxy", None, None))
  /\ UNCHANGED <<ui, asked>>

ActivateButton ==
  /\ Click("profiles")
  /\ \E name \in ToSet(seen.list) \ {seen.active} : Send(Cmd("SwitchProfile", name, None))
  /\ UNCHANGED <<ui, asked>>

DeleteButton ==
  /\ Click("profiles")
  /\ \E name \in ToSet(seen.list) :
       IF ui.arms.delete # name
       THEN /\ Arms([ui.arms EXCEPT !.delete = name])
            /\ asked' = asked \cup {<<"RemoveProfile", name>>}
            /\ NoSend
       ELSE /\ Arms([ui.arms EXCEPT !.delete = None])
            /\ asked' = asked \ {<<"RemoveProfile", name>>}
            /\ Send(Cmd("RemoveProfile", name, None))

\* Mutant: the editor moves to another profile with what is in the field.
PrefilledKept(name) == IF ui.editor = None THEN None ELSE ui.editor.text

\* The text the editor opens with is the link the profile has; none is an empty field.
Prefilled(name) == IF seen.links[name] = None THEN None ELSE name

\* The button of the open row closes the editor, that of another one moves it there.
EditLinkButton ==
  /\ Click("links")
  /\ \E name \in ToSet(seen.list) :
       ui' = [ui EXCEPT !.editor =
                IF @ # None /\ @.of = name THEN None ELSE Editor("link", name, Prefilled(name))]
  /\ Quiet

\* An empty field is refused and the editor stays.
SaveLink ==
  /\ Click("links")
  /\ ui.editor # None /\ ui.editor.text # None
  /\ ui' = [ui EXCEPT !.editor = None]
  /\ Send(Cmd("SetProfileUrl", ui.editor.of, ui.editor.text))
  /\ UNCHANGED asked

\* The bar names the profile that is active when it is drawn.
ClearButton ==
  /\ Click("override")
  /\ seen.active # None /\ seen.override # None
  /\ Arms([ui.arms EXCEPT !.clear = ~@])
  /\ Quiet

ConfirmClear ==
  /\ Click("override")
  /\ ui.arms.clear
  /\ seen.active # None /\ seen.override # None
  /\ Arms([ui.arms EXCEPT !.clear = FALSE])
  /\ Send(Cmd("ClearOverride", seen.active, None))
  /\ UNCHANGED asked

\* Mutant: the arm is a flag that does not say which mode it was given for.
AgreedToAny(target) == ui.arms.mode # None

\* The arm carries its target: an older one is no consent to another switch.
AgreedTo(target) == ui.arms.mode = target

\* The switch of the mode: a setting like others, or, while a core holds the mode, a
\* restart that asks first.
ModeButton ==
  /\ Click("mode")
  /\ LET target == Other(seen.mode)
     IN  IF seen.running \/ seen.starting
         THEN IF AgreedTo(target)
              THEN /\ Arms([ui.arms EXCEPT !.mode = None])
                   /\ asked' = asked \ {<<"SetTrafficMode", target>>}
                   /\ Send(Cmd("SetTrafficMode", target, None))
              ELSE /\ Arms([ui.arms EXCEPT !.mode = target])
                   /\ asked' = asked \cup {<<"SetTrafficMode", target>>}
                   /\ NoSend
         ELSE /\ Send(Cmd("UpdateSettings", "mode", target))
              /\ UNCHANGED <<ui, asked>>

NodeButton ==
  /\ Click("nodes")
  /\ seen.groups # None
  /\ \E node \in Nodes : Send(Cmd("SwitchNode", node, None))
  /\ UNCHANGED <<ui, asked>>

CloseConnButton ==
  /\ Click("connections")
  /\ \E c \in ToSet(seen.conns.rows) : Send(Cmd("CloseConnection", c, None))
  /\ UNCHANGED <<ui, asked>>

CloseAllButton ==
  /\ Click("connections")
  /\ IF ui.arms.closeAll
     THEN /\ Arms([ui.arms EXCEPT !.closeAll = FALSE])
          /\ asked' = asked \ {<<"CloseAllConnections", None>>}
          /\ Send(Cmd("CloseAllConnections", None, None))
     ELSE /\ Arms([ui.arms EXCEPT !.closeAll = TRUE])
          /\ asked' = asked \cup {<<"CloseAllConnections", None>>}
          /\ NoSend

\* The field of the port: typed in, given up, or saved with the button, which takes the
\* focus away.
TypeField ==
  /\ Click("settings")
  /\ \E port \in {1, 2} : ui' = [ui EXCEPT !.field = [text |-> port, focused |-> TRUE]]
  /\ ui' # ui
  /\ Quiet

LeaveField ==
  /\ Click("settings")
  /\ ui.field.focused
  /\ \E focused \in BOOLEAN : ui' = [ui EXCEPT !.field = [text |-> seen.port, focused |-> focused]]
  /\ ui' # ui
  /\ Quiet

SaveField ==
  /\ Click("settings")
  /\ ui.field.focused
  /\ ui' = [ui EXCEPT !.field.focused = FALSE]
  /\ Send(Cmd("UpdateSettings", "port", ui.field.text))
  /\ UNCHANGED asked

\* The window stays open until the user has said what becomes of the proxy, when it is
\* shown as on.  No last copy is taken.
CloseWindow ==
  /\ Desktop /\ ui.open /\ "exit" \in ui.matters
  /\ \/ /\ seen.proxy /\ ~ui.arms.quit
        /\ Arms([ui.arms EXCEPT !.quit = TRUE])
        /\ UNCHANGED <<queue, osProxy>>
     \/ /\ ~seen.proxy
        /\ ui' = [ui EXCEPT !.open = FALSE]
        /\ Send(Cmd("Shutdown", None, None))
        /\ UNCHANGED osProxy
     \/ /\ seen.proxy /\ ui.arms.quit
        /\ \E restore \in BOOLEAN :
             /\ osProxy' = (osProxy /\ ~restore)
             /\ ui' = [ui EXCEPT !.open = FALSE, !.keep = ~restore]
        /\ Send(Cmd("Shutdown", None, None))
  /\ UNCHANGED <<seen, engine, snap, poll, core, logFile, left, asked, keys>>

KeyNext ==
  \/ OtherKey \/ StartStop \/ ToggleProxyKey \/ UpdateKey
  \/ MoveRow \/ ActivateRow \/ DeleteRow
  \/ EditLinkKey \/ EscapeEditor \/ TypeLink \/ CommitLink
  \/ ClearKey \/ LoadKey \/ CommitLoad \/ ModeKey
  \/ MoveMember \/ SelectMember \/ MoveConn \/ CloseSelected \/ CloseAllKey
  \/ AskQuit \/ LeaveTerminal

ClickNext ==
  \/ Navigate \/ PowerButton \/ AnswerStop \/ ToggleProxyButton
  \/ ActivateButton \/ DeleteButton \/ EditLinkButton \/ SaveLink
  \/ ClearButton \/ ConfirmClear \/ ModeButton
  \/ NodeButton \/ CloseConnButton \/ CloseAllButton
  \/ TypeField \/ LeaveField \/ SaveField \/ CloseWindow

Next ==
  \/ LoopNext /\ UNCHANGED uiVars
  \/ Refresh
  \/ KeyNext
  \/ ClickNext

Spec == Init /\ [][Next]_vars

\* The interface's own timer goes on as well.
FairSpec == Spec /\ LoopFairness /\ WF_vars(Refresh)

-------------------------------------------------------------------------------
(* Properties *)

Asks(c) ==
  \/ c.what = "RemoveProfile"
  \/ c.what = "SetOverride" /\ seen.override # None
  \/ Desktop /\ c.what \in {"CloseAllConnections", "StopCore", "SetTrafficMode"}

\* What cannot be taken back is only done to what the user was asked about: the profile,
\* the override or the mode the question named, although the engine may have moved on to
\* another one while the question stood.
AskedThenDone ==
  [][Len(queue') > Len(queue) /\ Asks(Last(queue')) =>
       <<Last(queue').what, Last(queue').of>> \in asked]_vars

\* The same of the override the terminal client deletes.
ClearedAsAsked ==
  [][Terminal /\ Len(queue') > Len(queue) /\ Last(queue').what = "ClearOverride" =>
       <<"ClearOverride", Last(queue').of>> \in asked]_vars

\* A link that was edited is saved for the profile it was typed for or read from, even
\* when other profiles come and go meanwhile and the editor is opened on another row.
LinkGoesToItsProfile == \A n \in Names : snap.links[n] \in {None, n}

\* A core that runs undisturbed is shown as it is in the end: its node, its connections and
\* its log, whichever polls were dropped, failed or were overtaken by an operation.
Shown(s) ==
  s.running /\ core.alive =>
    /\ s.groups = [run |-> core.run, node |-> core.node]
    /\ s.conns = [run |-> core.run, rows |-> core.conns]
    /\ s.logs = LastOf(logFile, RingSize)

SeenSettles == <>[](ui.open => Shown(seen) /\ (ui.field.focused \/ ui.field.text = seen.port))

\* lib.rs, at the end of run_app: "The OS proxy is a machine-wide setting: clear it unless
\* the user explicitly chose to keep it."
ProxyClearedAtExit == ~Alive /\ osProxy => ui.keep
=============================================================================
