-------------------------- MODULE MCPositionLedger --------------------------
(* TLC instances of PositionLedger.                                         *)
EXTENDS PositionLedger, TLC

\* Rows and sessions are interchangeable.
Symmetry == Permutations(Position) \cup Permutations(Session)

=============================================================================
