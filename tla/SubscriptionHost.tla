---------------------------- MODULE SubscriptionHost ----------------------------
(***************************************************************************)
(* What a host publishes: the configurations an administrator commits      *)
(* (Deployment) and the service that hands out what is generated from the   *)
(* committed one (SubscriptionService).  Both speak of the same formats and *)
(* links; a behaviour is about one of the two, since a running service      *)
(* keeps its mode and what it serves is ConfigTransactions' subject.        *)
(***************************************************************************)
EXTENDS SubscriptionService, Deployment

\* No configuration is committed in a behaviour that is about the service.
Serving == config = None /\ edits = MaxEdits

ASSUME SubscriptionHostAssumption == MaxEdits # 0

HostInit ==
  \/ Init /\ config = None /\ edits = MaxEdits
  \/ Init /\ mode = "Direct" /\ DeploymentInit

HostNext ==
  \/ Serving /\ Next /\ UNCHANGED deploymentVars
  \/ ~ Serving /\ DeploymentNext /\ UNCHANGED serviceVars

HostSpec == HostInit /\ [][HostNext]_<<serviceVars, deploymentVars>>
=============================================================================
