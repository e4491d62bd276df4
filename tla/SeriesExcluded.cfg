SPECIFICATION Spec
CONSTANTS
    Workers = {service}
    Days = {1, 2}
    MaxMeetings = 3
    plain = plain
    short = short
    Looks = {plain}
    Ends = {short}
    NoEnd = NoEnd
    Forms <- GivenForms
    FirstForm <- Endless
    Unrecorded = Unrecorded
    MaxEdits = 0
    MaxFaults = 0
    MaxCrashes = 1
    MaxUpsets = 1
    MaxTogether = 1
PROPERTY ExcludedWasDeleted
CHECK_DEADLOCK FALSE
