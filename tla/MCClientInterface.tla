--------------------------- MODULE MCClientInterface ---------------------------
(* Small instances of ClientInterface for TLC. *)
EXTENDS ClientInterface

Session(client, matters, auto, presses, runs, lines, failures, changes) ==
  [client |-> client, matters |-> matters, auto |-> auto, keys |-> presses,
   budget |-> [runs |-> runs, lines |-> lines, failures |-> failures, changes |-> changes]]

\* One sitting for each matter, at either client; the core starts by itself where it has a
\* part in it.
MCSessions ==
  {Session("terminal", {"core"},     FALSE, 1, 2, 2, 1, 0),
   Session("terminal", {"nodes"},    TRUE,  2, 2, 0, 1, 0),
   Session("desktop",  {"nodes"},    TRUE,  2, 1, 0, 0, 0),
   Session("terminal", {"connections"}, TRUE, 2, 1, 0, 0, 1),
   Session("desktop",  {"connections"}, TRUE, 2, 1, 0, 0, 0),
   Session("desktop",  {"settings"}, TRUE,  3, 1, 0, 0, 0)}
  \cup UNION
  {{Session(client, {"core"},                 FALSE, 3, 2, 0, 0, 0),
    Session(client, {"profiles", "links"},    FALSE, 5, 0, 0, 0, 0),
    Session(client, {"profiles", "override"}, FALSE, 5, 0, 0, 0, 0),
    Session(client, {"mode"},                 TRUE,  3, 2, 0, 1, 0),
    Session(client, {"exit"},                 TRUE,  2, 1, 0, 0, 0)} : client \in {"terminal", "desktop"}}

ExitSessions == {s \in MCSessions : "exit" \in s.matters}

MCFirst == <<"home", "work">>
=============================================================================
