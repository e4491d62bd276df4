SPECIFICATION FairSpec
CONSTANTS
    Workers = {service, command}
    Days = {1}
    MaxMeetings = 3
    plain = plain
    short = short
    Looks = {plain}
    Ends = {short}
    NoEnd = NoEnd
    Forms <- GivenForms
    FirstForm <- Endless
    Unrecorded = Unrecorded
    MaxEdits = 2
    MaxFaults = 1
    MaxCrashes = 1
    MaxUpsets = 3
    MaxTogether = 2
VIEW Relevant
INVARIANTS
    OneMeetingPerDay
    DeletedStaysDeleted
PROPERTIES
    EveryOccurrenceIsMade
    UntouchedMeetingFollowsSeries
CHECK_DEADLOCK FALSE
