-------------------------- MODULE MCWorkflowRunner --------------------------
(* TLC instances of WorkflowRunner, and its mapping to RunLedger.           *)
EXTENDS WorkflowRunner, TLC

\* Users and calls are interchangeable; used with safety properties only.
Symmetry == Permutations(User) \cup Permutations(Inv)

=============================================================================
