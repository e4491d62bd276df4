SPECIFICATION Spec
CONSTANTS
    Clients = {c1}
    Occurrences = {past, ahead}
    TookPlace = {past}
    Values = {a, b}
    Ids = {1, 2, 3}
    None = None
    MaxTurns = 4
    MaxSecond = 1
SYMMETRY Interchangeable
VIEW Relevant
INVARIANTS
    SavedSeriesIsAsSent
    EveryEventIsServed
PROPERTIES
    IfMatchProtectsOccurrences
    DeletedSeriesIsGone
    DeletedMeetingStaysOut
CHECK_DEADLOCK FALSE
