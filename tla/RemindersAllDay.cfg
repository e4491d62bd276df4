SPECIFICATION Spec
CONSTANTS
    task = task
    event = event
    Tasks = {task}
    Events = {event}
    People = {anna, boris}
    Everyone = Everyone
    NotSubscribed = NotSubscribed
    Endpoints = {e1, e2}
    NoMoment = NoMoment
    Plans <- SomePlans
    StartOffset <- AfterMidnight
    LateWindow = 1
    MaxTime = 2
    MaxEdits = 0
    MaxFaults = 0
PROPERTY WindowCoversDueEvents
CHECK_DEADLOCK FALSE
