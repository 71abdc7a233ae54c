--------------------------- MODULE MCScheduleSync ---------------------------
(* TLC instances of ScheduleSync.                                           *)
EXTENDS ScheduleSync, TLC

\* Schedules and handlers are interchangeable.
Symmetry == Permutations(Cron) \cup Permutations(Handler)

=============================================================================
