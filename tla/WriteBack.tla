----------------------------- MODULE WriteBack -----------------------------
(***************************************************************************)
(* One resource between a calendar client and Anytype: a task or an event  *)
(* with any dates that people can give it, read by a client and saved      *)
(* again with any dates that a client can send.                            *)
(***************************************************************************)
EXTENDS Generated

CONSTANTS Configs,    \* configurations to start with
          Instants,   \* instants that dates are stored and sent as
          Days,       \* days that a client sends
          WeekDates,  \* instants stored for a task's week
          ExdateSets  \* the sets of excluded dates that are considered

ASSUME WriteBackAssumption ==
    /\ Configs \subseteq Config
    /\ Instants \subseteq Int /\ WeekDates \subseteq Int
    /\ Days \subseteq Int
    /\ \A dates \in ExdateSets : dates \subseteq Int

VARIABLES kind,     \* whether the resource is a task or an event
          object,   \* the object in Anytype, none before it is created
          sent      \* the body that was saved last, until the client reads again

vars == <<config, kind, object, sent>>

Option(S) == {{}} \cup {{value} : value \in S}

TaskObjects == [scheduled : Option(Instants), deadline : Option(Instants),
                week : IF config.weeks THEN Option(WeekDates) ELSE {{}}]
EventObjects == {event \in [start : Option(Instants), end : Option(Instants),
                            rrule : BOOLEAN, exdates : ExdateSets] :
                    event.rrule \/ event.exdates = {}}

Dated == {Day(day) : day \in Days} \cup {At(at) : at \in Instants}

TaskBodies == [start : Option(Dated), due : Option(Dated)]

\* A recurring body has its times on a clock, and EXDATE like DTSTART.
Spelled(date, rrule) ==
    IF rrule /\ date.kind = "at"
      THEN Local(config.timezone, Civil(config.timezone, date.n)) ELSE date
EventBodies ==
    UNION {{[start |-> {Spelled(start, rrule)},
             end |-> {Spelled(date, rrule) : date \in end},
             rrule |-> rrule,
             exdates |-> IF rrule THEN {Spelled([start EXCEPT !.n = n], TRUE) : n \in dates}
                                  ELSE {}] :
                dates \in ExdateSets,
                end \in {{}} \cup {{date} : date \in
                            {d \in Dated : d.kind = start.kind /\ d.n > start.n}}} :
                start \in Dated, rrule \in BOOLEAN}

Init ==
    /\ config \in Configs
    /\ \/ kind = "task" /\ object \in Option(TaskObjects)
       \/ kind = "event" /\ object \in Option(EventObjects)
    /\ sent = {}

SaveTask(body) ==
    /\ kind = "task" /\ object # {} /\ sent = {}
    /\ object' = {Apply(task, ForUpdate(task, body)) : task \in object}
    /\ sent' = {body}
    /\ UNCHANGED <<config, kind>>

CreateTask(body) ==
    /\ kind = "task" /\ object = {} /\ sent = {}
    /\ object' = {Apply(NoDates, ForCreate(body))}
    /\ sent' = {body}
    /\ UNCHANGED <<config, kind>>

SaveEvent(body) ==
    /\ kind = "event" /\ object # {} /\ sent = {}
    /\ object' = {Apply(event, EventPatchForUpdate(event, body)) : event \in object}
    /\ sent' = {body}
    /\ UNCHANGED <<config, kind>>

CreateEvent(body) ==
    /\ kind = "event" /\ object = {} /\ sent = {}
    /\ object' = {Apply(NoEvent, EventPatchForCreate(body))}
    /\ sent' = {body}
    /\ UNCHANGED <<config, kind>>

\* The client reads the resource before it changes it further.
ReadAgain ==
    /\ sent # {}
    /\ sent' = {}
    /\ UNCHANGED <<config, kind, object>>

Next ==
    \/ \E body \in TaskBodies : SaveTask(body) \/ CreateTask(body)
    \/ \E body \in EventBodies : SaveEvent(body) \/ CreateEvent(body)
    \/ ReadAgain

Spec == Init /\ [][Next]_vars

---------------------------------------------------------------------------
(* Words for the properties *)

ServedTask(task) == [start |-> Wire(task).start, due |-> Wire(task).due]

\* The dates of the task that are in none of the fields it is served with.
Hides(task) ==
    LET shown == Wire(task)
    IN  \/ task.deadline # {} /\ shown.origin = "scheduled"
        \/ task.scheduled # {} /\ shown.origin = "deadline" /\ shown.start = {}
        \/ task.week # {} /\ WeekDays(task) = {}

\* A plan and a deadline that are the two ends of a week.
FillsWeek(task) == WeekDays(task) = {} /\ SentWeek(ServedTask(task)) # {}

ZonesUsed == {config.timezone, config.date_only_timezone}

\* An instant in an hour that the clocks show twice.
Repeated(at) == \E zone \in ZonesUsed : Ambiguous(zone, Civil(zone, at))

\* The instant that a civil time in the zone of the configuration stands for.
IsFirstPass(at) == Earliest(config.timezone, Civil(config.timezone, at)) = {at}

NoneRepeated(moments) == \A moment \in moments : moment.kind = "at" => ~Repeated(moment.n)

\* An instant that is read as a day, because it lies at the edge of one.
OnEdge(moment) ==
    /\ moment.kind = "at"
    /\ \E zone \in ZonesUsed :
          LET civil == Civil(zone, moment.n)
          IN  civil \in {Midnight(DayOf(civil)), LastSecond(DayOf(civil))}

\* A day is stored as its midnight.
HasMidnight(moment) == moment.kind = "day" => Earliest(DayZone, Midnight(moment.n)) # {}

\* Moments that Anytype can hold as they are.
Holdable(moments) ==
    NoneRepeated(moments) /\ \A moment \in moments : ~OnEdge(moment) /\ HasMidnight(moment)

\* The last day of an event, which Anytype has, from the day after it.
LastOf(moment) == IF moment.kind = "day" THEN Day(moment.n - 1) ELSE moment

\* A pair that RFC 5545 allows, or a single date.
IsSchedule(body) ==
    \A start \in SentStart(body) :
        \E due \in SentDue(body) : start.kind = due.kind /\ start.n < due.n

\* What a client that expands a served series shows, as moments.
ClientExpands(body) ==
    LET Nth(date, k) == IF date.kind = "local"
                          THEN Moment(Local(date.zone, date.n + k * SlotsPerDay))
                          ELSE {[date EXCEPT !.n = @ + k * SlotsPerDay]}
        NthDay(date, k) == {Day(date.n + k)}
    IN  (UNION {IF date.kind = "day" THEN NthDay(date, k) ELSE Nth(date, k) :
                   date \in body.start, k \in 0 .. Horizon})
            \ EventMoments(body.exdates)

\* Whether the clocks of the days run evenly from one instant to the end of another's day.
Steady(from, to) ==
    LET civil == Civil(DayZone, to)
        night == to + LastSecond(DayOf(civil)) - civil
    IN  Civil(DayZone, night) - Civil(DayZone, from) = night - from

\* A served date as many days later, or as long.
Later(dates, days, slots) ==
    {Day(date.n + days) : date \in {d \in dates : d.kind = "day"}}
        \cup {At(date.n + slots) : date \in {d \in dates : d.kind = "at"}}

---------------------------------------------------------------------------
(* Properties *)

\* The object has the fields of its kind, and a day stored is an instant.
TypeOK ==
    /\ config \in Configs
    /\ kind \in {"task", "event"}
    /\ \A task \in object : kind = "task" =>
          /\ DOMAIN task = {"scheduled", "deadline", "week"}
          /\ task.scheduled \cup task.deadline \cup task.week \subseteq Int
    /\ \A event \in object : kind = "event" =>
          /\ DOMAIN event = {"start", "end", "rrule", "exdates"}
          /\ event.start \cup event.end \cup event.exdates \subseteq Int

\* writeback.rs: a VTODO that comes back as it was served writes no date, in any
\* zone, for any dates, whatever of them could not be shown. The exception is a plan on
\* a Monday with a deadline on the Sunday, which turn into a week.
UnchangedTaskIsLeftAlone ==
    kind = "task" => \A task \in object :
        ~FillsWeek(task) =>
            ForUpdate(task, ServedTask(task)) =
                [scheduled |-> Keep, deadline |-> Keep, week |-> Keep]

\* render.rs, `schedule`: DUE has the value type of DTSTART and is later, or a
\* client drops the task. Two instants within an hour that the clocks show
\* twice are the exception: they are put in order by their civil times.
ShownPairIsOrdered ==
    kind = "task" => \A task \in object :
        \A start \in Wire(task).start, due \in Wire(task).due :
            /\ start.kind = due.kind
            /\ start.n < due.n \/ ~NoneRepeated({start, due})

\* What a client saves on a task is what it is served next, unless the task has
\* dates that were not shown; and DUE, when it is there, is what the reminder
\* counts from. It covers `for_update`, `for_create`, the storage in Anytype and
\* `schedule` together.
TaskIsAsSent ==
    [][kind = "task" /\ sent' # {} =>
        LET body == The(sent')
            dates == SentStart(body) \cup SentDue(body)
            task == The(object')
        IN  /\ Holdable(dates)
            /\ IsSchedule(body)
            /\ \A old \in object :
                  ~Hides(old) /\ \A at \in old.scheduled \cup old.deadline : ~Repeated(at)
            => /\ Wire(task).start = SentStart(body)
               /\ Wire(task).due = SentDue(body)
               /\ SentDue(body) # {} /\ WeekDays(task) = {} =>
                     ReminderBase(task) = UNION {ReminderOf(date) : date \in SentDue(body)}]_vars

\* render.rs: a card moved in a calendar stays what it was. The only date of a
\* task is a plan after the move if it was a plan, and a deadline if it was one.
TheOnlyDateKeepsItsRole ==
    [][kind = "task" /\ object # {} /\ sent' # {} =>
        LET old == The(object)
            new == The(object')
        IN  SentStart(The(sent')) = {} /\ old.week = {} =>
            /\ old.deadline = {} => new.deadline = {}
            /\ old.scheduled = {} /\ old.deadline # {} => new.scheduled = {}]_vars

\* A deadline that is only described in words is not moved by moving the plan.
HiddenDeadlineIsKept ==
    [][kind = "task" /\ object # {} /\ sent' # {} =>
        LET old == The(object)
            body == The(sent')
            plan == Classified(old.scheduled)
        IN  /\ old.deadline # {} /\ Classified(old.deadline) # plan
            /\ Wire(old).start = {} /\ Wire(old).due = plan
            /\ SentStart(body) = {}
            => The(object').deadline = old.deadline]_vars

\* events.rs: a VEVENT that comes back as it was served writes no date, no rule
\* and no exclusion, and the entry of its deadline moves no deadline. In an hour
\* that the clocks show twice a civil time stands for its first pass.
UnchangedEventIsLeftAlone ==
    kind = "event" => \A event \in object :
        /\ event.start # {}
        /\ \A at \in event.start \cup event.end \cup event.exdates : ~Repeated(at)
        => /\ EventPatchForUpdate(event, ServedEvent(event)) =
                 [start |-> Keep, end |-> Keep, rrule |-> Keep, exdates |-> Keep]
           /\ \A deadline \in event.end : ~event.rrule =>
                 DeadlineFrom(ServedEvent(DeadlineEntry(event, {deadline}))) = {deadline}

\* What a client saves on an event is what it is served next: the start, an end
\* that is included in Anytype and excluded on the wire, the rule, and the
\* exclusions in the value type of the start.
EventIsShownAsSent ==
    [][kind = "event" /\ sent' # {} =>
        LET body == The(sent')
            shown == ServedEvent(The(object'))
            start == EventMoments(body.start)
            end == EventMoments(body.end)
            one_day == {Day(moment.n + 1) : moment \in {m \in start : m.kind = "day"}}
            exdates == EventMoments(body.exdates)
        IN  /\ start # {} /\ (body.end # {} => end # {})
            /\ Holdable(start \cup {LastOf(moment) : moment \in end})
            /\ NoneRepeated(exdates) /\ \A moment \in exdates : HasMidnight(moment)
            => /\ EventMoments(shown.start) = start
               /\ EventMoments(shown.end) = IF end = {} THEN one_day ELSE end
               /\ shown.rrule = body.rrule
               /\ EventMoments(shown.exdates) = exdates]_vars

\* scheduler.rs and the clients expand a series on their own: what is reminded of
\* is what is shown. An all-day series needs the two zones to be one, and an excluded
\* instant in the second pass of an hour that the clocks show twice is served as the first.
RemindedIsShown ==
    kind = "event" => \A event \in object :
        /\ event.rrule /\ (~IsAllDay(event) \/ config.timezone = config.date_only_timezone)
        /\ \A at \in event.exdates : IsFirstPass(at)
        => OccurrencesBetween(event, config.timezone, {}) =
                UNION {ToAnytype(moment) : moment \in ClientExpands(ServedEvent(event))}

\* series.rs leaves out an occurrence by its day, events.rs by its instant: the
\* generator makes the meetings that a calendar shows, as long as `exdate` has
\* occurrences of the rule as it is.
MeetingsAreShown ==
    kind = "event" => \A event \in object :
        LET upcoming == {one.at : one \in Upcoming(event, config.timezone)}
        IN  event.exdates \subseteq upcoming /\ upcoming # {} =>
                PlanUntil(event, config.timezone) =
                    OccurrencesBetween(event, config.timezone, {})

\* series.rs makes an occurrence as long as the series' first: the meeting and the entry
\* of its deadline are shown as the event itself is, as many days later; and a task is
\* shown with the plan and the deadline of its series, also where it is kept by its week.
\* The end is so many hours after the start, so that a clock change in between moves it
\* off its midnight; dates around a change are the exception.
MadeAsTheSeriesIs ==
    kind = "event" /\ config.timezone = DayZone => \A series \in object :
        \A one \in Upcoming(series, config.timezone), start \in series.start :
            LET days == one.day - DayOf(Civil(config.timezone, start))
                slots == one.at - start
                first == [series EXCEPT !.rrule = FALSE, !.exdates = {}]
                task == [scheduled |-> {start}, deadline |-> EndOf(series, start), week |-> {}]
                Same(made, shown) == /\ made.start = Later(shown.start, days, slots)
                                     /\ made.end = Later(shown.end, days, slots)
                Entry(event, deadline) == ServedEvent(DeadlineEntry(event, deadline))
            IN  /\ \A at \in series.end : at > start /\ Steady(start, at) /\ Steady(one.at, at + slots)
                /\ NoneRepeated({At(at) : at \in {start, one.at} \cup series.end \cup EndOf(series, one.at)})
                => /\ Same(ServedEvent(MeetingOf(series, one.at)), ServedEvent(first))
                   /\ Same(Entry(MeetingOf(series, one.at), Carried(series, series.end, one.at)),
                           Entry(first, series.end))
                   /\ ServedTask(TaskOf(series, one.at)).start = Later(ServedTask(task).start, days, slots)
                   /\ ServedTask(TaskOf(series, one.at)).due = Later(ServedTask(task).due, days, slots)
=============================================================================
