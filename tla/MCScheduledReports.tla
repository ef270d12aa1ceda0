------------------------- MODULE MCScheduledReports -------------------------
(* An instance of ScheduledReports for TLC.                                *)
EXTENDS ScheduledReports

CONSTANTS r1, r2

\* Slots at the first instant, at the last one and beyond it.
SmallSchedules == {{0, 2, 4}}
SmallLists == {{r1}, {r1, r2}}
=============================================================================
