---------------------------- MODULE MCWriteBack ----------------------------
(* Small days and weeks for TLC, and clocks that are put forward and back.  *)
EXTENDS WriteBack

Fixed == [before |-> 0, after |-> 0, change |-> 0]
NoMidnight == [before |-> 0, after |-> 2, change |-> 4]
NoNoon == [before |-> 0, after |-> 2, change |-> 6]
TwoNoons == [before |-> 2, after |-> 0, change |-> 6]

With(timezone, date_only_timezone, weeks) ==
    [timezone |-> timezone, date_only_timezone |-> date_only_timezone, weeks |-> weeks]

MCConfigs ==
    {With(Fixed, Fixed, TRUE), With(NoMidnight, NoMidnight, TRUE),
     With(NoNoon, NoNoon, TRUE), With(TwoNoons, TwoNoons, TRUE), With(Fixed, TwoNoons, FALSE)}
MCInstants == (0 .. 9) \cup {11}
MCDays == 0 .. 2
MCWeekDates == {1}
MCExdateSets == {{}, {5}, {6}}
=============================================================================
