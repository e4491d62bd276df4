SPECIFICATION FairSpec
CONSTANTS
    m = m
    n = n
    p = p
    q = q
    Profiles = {p, q}
    Members = {m, n}
    People <- Everyone
    Unassigned = Unassigned
    Flat = Flat
    Nobody = Nobody
    Devices = {a, b}
    Storages <- Logins
    MaxSaves = 3
    MaxErrors = 1
    InitialSpaces <- SpacesOfTwo
    BusySpaces <- OnePage
    Addressings <- ByEitherId
    MaxEdits = 2
    MaxFailures = 1
    MaxPasses = 1
    MaxTurns = 4
VIEW Relevant
INVARIANTS
    OneCalendarEach
    TakenOffForGood
PROPERTIES
    AccountsFollowTheSpace
    EarlierSaveIsKept
