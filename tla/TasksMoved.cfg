SPECIFICATION Spec
CONSTANTS
    People = {alice, bob}
    Unassigned = Unassigned
    Flat = Flat
    Nobody = Nobody
    Absent = Absent
    Requests = {r1, r2}
    Fields = {name, due}
    Ids = {1, 2, 3}
    MaxEdits = 0
    MaxFaults = 0
    MaxSecond = 1
    Bumps = {0}
SYMMETRY Interchangeable
VIEW Relevant
PROPERTIES
    MovedTaskIsKept
CHECK_DEADLOCK FALSE
