SPECIFICATION Spec
CONSTANTS
    m = m
    n = n
    p = p
    q = q
    Profiles = {p, q}
    Members = {m, n}
    People <- Everyone
    Unassigned = Unassigned
    Flat = Flat
    Nobody = Nobody
    Devices = {a}
    Storages <- Logins
    MaxSaves = 0
    MaxErrors = 0
    InitialSpaces <- SpacesOfTwo
    BusySpaces <- OnePage
    Addressings <- ByEitherId
    MaxEdits = 1
    MaxFailures = 0
    MaxPasses = 0
    MaxTurns = 1
INVARIANT ServedIdsAreCompared
