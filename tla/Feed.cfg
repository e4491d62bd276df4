SPECIFICATION FairSpec
CONSTANTS
    Requests = {r1, r2, r3}
    NoOne = NoOne
    MaxVersion = 1
    SearchLags = TRUE
INVARIANTS
    TypeOK
    GuardNeverLeaked
    OwnRefreshSeesFoundWrites
PROPERTIES
    ImplementsCachedSource
    ServedOnceServedAlways
    EveryRequestEnds
CHECK_DEADLOCK FALSE
