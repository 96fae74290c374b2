---------------------------- MODULE MCAccounting ----------------------------
(* Small instances of Accounting for TLC. *)
EXTENDS Accounting

CONSTANTS timer, admin, other, e0, e1

\* The timer's reset beside an administrator who corrects and reads reports.
TimerAndAdmin ==
  [p \in Procs |-> IF p = timer THEN {"reset"} ELSE OpKinds \ {"reset"}]

\* The timer's reset beside a correction of both directions only.
TimerAndDirections ==
  [p \in Procs |-> IF p = timer THEN {"reset"} ELSE {"directions"}]

\* Bounds: bytes over both interfaces, and what changes at the host.
MaxDisturbances == 2
FewDisturbances ==
  /\ period + breaks + changes <= MaxDisturbances
  /\ changes = 0 => iface = e0
  /\ Sum(odometer[e0]) + Sum(odometer[e1]) <= MaxTraffic
=============================================================================
