------------------------ MODULE MCConfigTransactions ------------------------
(* Small instances of ConfigTransactions for TLC. *)
EXTENDS ConfigTransactions

CONSTANTS p1, p2, n1, n2, m1, m2, c1, c2, c3

MCInitialConfig == [nodes |-> n1, mode |-> m1, cred |-> c1]

WizardOps == [p \in Procs |-> {"wizard"}]

\* One administrator publishes configurations one after the other; another
\* process regenerates artifacts at any time.
PublishRegenerateOps ==
  [p \in Procs |-> IF p = p1 THEN OpKinds \ {"regenerate"} ELSE {"regenerate"}]

\* A rotation beside an open wizard.
RotateWizardOps == [p \in Procs |-> IF p = p1 THEN {"rotate"} ELSE {"wizard"}]
=============================================================================
