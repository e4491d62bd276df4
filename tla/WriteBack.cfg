SPECIFICATION Spec
CONSTANTS
    SlotsPerDay = 4
    WeekLength = 2
    Horizon = 2
    AllDayTime = 2
    Configs <- MCConfigs
    Instants <- MCInstants
    Days <- MCDays
    WeekDates <- MCWeekDates
    ExdateSets <- MCExdateSets
INVARIANTS
    UnchangedTaskIsLeftAlone
    ShownPairIsOrdered
    UnchangedEventIsLeftAlone
    RemindedIsShown
    MeetingsAreShown
    MadeAsTheSeriesIs
PROPERTIES
    TaskIsAsSent
    TheOnlyDateKeepsItsRole
    HiddenDeadlineIsKept
    EventIsShownAsSent
CHECK_DEADLOCK FALSE
