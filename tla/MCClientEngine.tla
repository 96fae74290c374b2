--------------------------- MODULE MCClientEngine ---------------------------
(* Small instances of ClientEngine for TLC. *)
EXTENDS ClientEngine

CONSTANTS tui, gui, p1, p2, direct, corporate

Events4(command, crash, death, change) ==
  [k \in Events |-> CASE k = "command" -> command [] k = "crash" -> crash
                      [] k = "death" -> death [] k = "change" -> change]

\* Commands, a crash, a death and a change of the user's proxy in one life.
Everything == Events4(3, 2, 1, 1)

\* A session without outside events.
Session == Events4(3, 0, 1, 0)
=============================================================================
