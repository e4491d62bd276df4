SPECIFICATION FairSpec
CONSTANTS
    task = task
    event = event
    Tasks = {task}
    Events = {event}
    People = {anna}
    Everyone = Everyone
    NotSubscribed = NotSubscribed
    Endpoints = {e1, e2}
    NoMoment = NoMoment
    Plans <- SomePlans
    StartOffset <- LeadOfOne
    LateWindow = 1
    MaxTime = 2
    MaxEdits = 2
    MaxFaults = 2
INVARIANTS
    AtMostOncePerDevice
    SentOnlyWhenClaimed
    OnlyThoseConcerned
    HeldForTheFirstDevice
PROPERTY
    DueTaskIsHandled
CHECK_DEADLOCK FALSE
