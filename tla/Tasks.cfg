SPECIFICATION Spec
CONSTANTS
    People = {alice, bob}
    Unassigned = Unassigned
    Flat = Flat
    Nobody = Nobody
    Absent = Absent
    Requests = {r1, r2}
    Fields = {name, due}
    Ids = {1, 2}
    MaxEdits = 2
    MaxFaults = 1
    MaxSecond = 2
    Bumps = {1}
SYMMETRY Interchangeable
VIEW Relevant
INVARIANTS
    TypeOK
    EachTaskShownOnce
PROPERTIES
    CreateSeesEarlierTasks
    DeleteSeesTheMove
    EditsOfOthersSurvive
    MovedIsShownThere
CHECK_DEADLOCK FALSE
