----------------------------- MODULE TaskDates -----------------------------
(***************************************************************************)
(* The dates of a task, from Anytype to a VTODO and back.                  *)
(*                                                                         *)
(* A task has a plan (`scheduled`), a deadline and a week, each optional   *)
(* and stored as an instant. A VTODO has DTSTART and DUE. The renderer     *)
(* shows what it can of the three fields in two, and remembers where each  *)
(* came from; the write-back compares what a client sent with what the     *)
(* renderer would send now and writes the difference into the field it     *)
(* came from. The name, the mark of being done and the tags are compared   *)
(* one by one and do not meet the dates.                                   *)
(***************************************************************************)
EXTENDS Clock

\* First and last day of the week of a task that has no date of its own.
WeekDays(task) ==
    {[monday |-> Monday(day), sunday |-> Monday(day) + WeekLength - 1] :
        day \in {DayOf(Civil(config.date_only_timezone, at)) :
                    at \in IF task.scheduled \cup task.deadline = {} THEN task.week
                                                                     ELSE {}}}

Classified(dates) == {Classify(config.date_only_timezone, at) : at \in dates}

\* The plan and the deadline to show: those of the task, or its week.
Dates(task) ==
    IF WeekDays(task) = {}
      THEN [scheduled |-> Classified(task.scheduled), deadline |-> Classified(task.deadline)]
      ELSE LET week == The(WeekDays(task))
           IN  [scheduled |-> {Day(week.monday)}, deadline |-> {Day(week.sunday)}]

\* Mutant: the clock of UTC.
BeginsInUtc(value) == IF value.kind = "day" THEN Midnight(value.n) ELSE value.n

\* The civil moments at which a value begins and is still met.
Begins(value) == IF value.kind = "day" THEN Midnight(value.n)
                                       ELSE Civil(config.timezone, value.n)
Expires(value) == IF value.kind = "day" THEN LastSecond(value.n)
                                        ELSE Civil(config.timezone, value.n)

(***************************************************************************)
(* What is shown: an optional start, which is always the plan, and an      *)
(* optional due with its origin.                                           *)
(***************************************************************************)
Nothing == [start |-> {}, due |-> {}, origin |-> "none"]
\* Mutants: a date forgets where it came from.
DueOfAPlan(date, origin) == [start |-> {}, due |-> {date}, origin |-> "scheduled"]
DueOfADeadline(date, origin) == [start |-> {}, due |-> {date}, origin |-> "deadline"]
Due(date, origin) == [start |-> {}, due |-> {date}, origin |-> origin]
Both(start, due) == [start |-> {start}, due |-> {due}, origin |-> "deadline"]

\* A plan and a deadline as a pair that a client accepts.
Schedule(plan, deadline) ==
    CASE Begins(plan) >= Expires(deadline) -> Due(plan, "scheduled")
      [] Begins(plan) < Expires(deadline) /\ plan.kind = "day" /\ deadline = plan ->
            Due(deadline, "both")
      [] Begins(plan) < Expires(deadline) /\ plan.kind = deadline.kind /\ plan # deadline ->
            Both(plan, deadline)
      [] OTHER ->
            IF plan.kind = "at" /\ DayOf(Begins(plan)) = deadline.n
              THEN Due(plan, "scheduled")
              ELSE LET from == Earliest(config.timezone, Begins(plan))
                       to == Earliest(config.timezone, Expires(deadline))
                   IN  IF from # {} /\ to # {} THEN Both(At(The(from)), At(The(to)))
                                               ELSE Due(deadline, "deadline")

Wire(task) ==
    LET plan == Dates(task).scheduled
        deadline == Dates(task).deadline
    IN  CASE plan = {} /\ deadline = {} -> Nothing
          [] plan # {} /\ deadline = {} -> Due(The(plan), "scheduled")
          [] plan = {} /\ deadline # {} -> Due(The(deadline), "deadline")
          [] plan # {} /\ deadline # {} -> Schedule(The(plan), The(deadline))

---------------------------------------------------------------------------
(* Back *)

Moments(dates) == UNION {Moment(date) : date \in dates}
Stored(moments) == UNION {ToAnytype(moment) : moment \in moments}

\* An instant at the edge of a day, written where a day was, is that day.
KeepWholeDay(moment, property) ==
    LET civil == Civil(config.timezone, moment.n)
    IN  IF /\ moment.kind = "at"
           /\ \E value \in property : value.kind = "day"
           /\ civil \in {Midnight(DayOf(civil)), LastSecond(DayOf(civil))}
          THEN Day(DayOf(civil))
          ELSE moment

\* The Monday of the week that two dates are the first and the last day of.
WholeWeek(start, due) ==
    {from.n : from \in {day \in start :
        /\ day.kind = "day" /\ Monday(day.n) = day.n
        /\ due = {Day(day.n + WeekLength - 1)}}}

\* A single date is a plan; a second one is its deadline.
Plan(start, due) == IF start = {} THEN [scheduled |-> due, deadline |-> {}]
                                  ELSE [scheduled |-> start, deadline |-> due]

SentDue(body) == Moments(body.due)
\* DTSTART says something only when it differs from DUE.
SentStart(body) == Moments(body.start) \ SentDue(body)
SentWeek(body) == IF config.weeks THEN WholeWeek(SentStart(body), SentDue(body)) ELSE {}

ForUpdate(task, body) ==
    LET start == SentStart(body)
        due == SentDue(body)
        week == SentWeek(body)
        plan == Plan(start, due)
        shown == Wire(task)
        Written(moments, field) ==
            Set(Stored({KeepWholeDay(moment, Classified(task[field])) : moment \in moments}))
        Cleared(field) == IF task[field] = {} THEN Keep ELSE Clear
    IN  CASE week # {} ->
               [week |-> IF week = {now.monday : now \in WeekDays(task)}
                           THEN Keep ELSE Set(Stored({Day(The(week))})),
                scheduled |-> Cleared("scheduled"), deadline |-> Cleared("deadline")]
          [] week = {} /\ config.weeks /\ WeekDays(task) # {} ->
               [week |-> Clear,
                scheduled |-> {ToAnytype(date) : date \in plan.scheduled},
                deadline |-> {ToAnytype(date) : date \in plan.deadline}]
          [] week = {} /\ ~(config.weeks /\ WeekDays(task) # {}) ->
               LET appears == start # {} /\ shown.start = {}
                   moved == due # shown.due
                   to_plan == moved /\ shown.origin # "deadline"
                   to_deadline == moved /\ shown.origin \in {"deadline", "both"}
               IN  [week |-> Keep,
                    scheduled |->
                        CASE appears -> Written(start, "scheduled")
                          [] ~appears /\ to_plan -> Written(due, "scheduled")
                          [] ~appears /\ ~to_plan /\ start # shown.start -> Written(start, "scheduled")
                          [] OTHER -> Keep,
                    deadline |-> IF appears \/ to_deadline THEN Written(due, "deadline")
                                                           ELSE Keep]

ForCreate(body) ==
    LET start == SentStart(body)
        due == SentDue(body)
        week == SentWeek(body)
        plan == IF week = {} THEN Plan(start, due) ELSE [scheduled |-> {}, deadline |-> {}]
    IN  [scheduled |-> {ToAnytype(date) : date \in plan.scheduled},
         deadline |-> {ToAnytype(date) : date \in plan.deadline},
         week |-> {ToAnytype(Day(monday)) : monday \in week}]

NoDates == [scheduled |-> {}, deadline |-> {}, week |-> {}]

---------------------------------------------------------------------------
(* Reminders *)

CONSTANT AllDayTime   \* when on its day a whole day is reminded of, in slots

ASSUME AllDayTimeAssumption == AllDayTime \in 0 .. SlotsPerDay - 1

\* The instant that leads count back from: a time of day that a gap swallowed
\* reminds of nothing.
ReminderOf(value) == IF value.kind = "day"
                       THEN Earliest(config.timezone, Midnight(value.n) + AllDayTime)
                       ELSE {value.n}

\* A task is reminded of its deadline, or else of its plan.
ReminderBase(task) ==
    UNION {ReminderOf(value) : value \in
              Classified(IF task.deadline # {} THEN task.deadline ELSE task.scheduled)}
=============================================================================
