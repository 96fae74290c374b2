--------------------------- MODULE AtomicDeployment ---------------------------
(***************************************************************************)
(* What a configuration commit promises to everyone who respects the       *)
(* operation lock: config.toml and the generation of the artifacts and of  *)
(* the active sing-box configuration change together, in one step, and a   *)
(* commit that does not take place changes neither.                        *)
(***************************************************************************)
CONSTANT Configs

VARIABLES
  config,     \* the committed configuration
  generation  \* the node model the published files were generated from

Init ==
  /\ config \in Configs
  /\ generation = config.nodes

\* A wizard commit or its rollback; neither touches the credential.
Commit(c) ==
  /\ c.cred = config.cred
  /\ config' = c
  /\ generation' = c.nodes

Next == \E c \in Configs : Commit(c)

Spec == Init /\ [][Next]_<<config, generation>>
=============================================================================
