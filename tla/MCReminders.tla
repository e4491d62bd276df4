---------------------------- MODULE MCReminders -----------------------------
(* Reminders on one task and one event, for TLC. *)
EXTENDS Reminders, TLC

CONSTANTS task, event

\* No reminder, one that is due at once, and one that is due at the next poll.
SomePlans == {{}, {0}, {1}}

\* An event whose reminder comes ahead of its start, by one poll.
LeadOfOne == event :> 1

\* An all-day event starts at midnight and is reminded hours into the day.
AfterMidnight == event :> -3
=============================================================================
