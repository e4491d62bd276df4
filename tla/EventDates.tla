---------------------------- MODULE EventDates -----------------------------
(***************************************************************************)
(* The dates of an event or a series, from Anytype to a VEVENT and back,   *)
(* and the occurrences that the program itself expands a series into.      *)
(*                                                                         *)
(* An event has an optional start and end, a rule that it has or has not,  *)
(* and the instants left out of it (`exdate`). The rule is daily: what     *)
(* matters here is on which clock it is expanded and what an occurrence is *)
(* matched by. Name, place, tags and leads are compared one by one and do  *)
(* not meet the dates.                                                     *)
(***************************************************************************)
EXTENDS Clock

CONSTANT Horizon   \* days for which a rule is expanded

ASSUME HorizonAssumption == Horizon \in Nat

DayZone == config.date_only_timezone

\* Start at midnight, and the end too where there is one.
IsAllDay(event) ==
    /\ event.start # {}
    /\ \A at \in event.start \cup event.end : Classify(DayZone, at).kind = "day"

\* A date of an event in the value type the event is served with.
ValueAs(at, all_day) == IF all_day THEN Classify(DayZone, at) ELSE At(at)

\* A recurring rule needs wall-clock time, anything else is written in UTC.
WireValue(value, zoned) ==
    IF value.kind = "at" /\ zoned
      THEN Local(config.timezone, Civil(config.timezone, value.n))
      ELSE value

\* DTSTART and DTEND. The last day is included in Anytype and excluded on the wire.
ZonedDates(event, zoned) ==
    LET all_day == IsAllDay(event)
        first == {ValueAs(at, all_day) : at \in event.start}
        last == IF all_day /\ event.end = {} THEN first
                                             ELSE {ValueAs(at, all_day) : at \in event.end}
        Dtend(value) == IF value.kind = "day" THEN Day(value.n + 1) ELSE WireValue(value, zoned)
    IN  [start |-> {WireValue(value, zoned) : value \in first},
         end |-> {Dtend(value) : value \in IF first = {} THEN {} ELSE last}]

WireDates(event) == ZonedDates(event, FALSE)

\* A body as it is served: EXDATE takes the value type of DTSTART.
ServedEvent(event) ==
    LET dates == ZonedDates(event, event.rrule)
    IN  [start |-> dates.start, end |-> dates.end, rrule |-> event.rrule,
         exdates |-> IF event.rrule
                       THEN {WireValue(ValueAs(at, IsAllDay(event)), TRUE) : at \in event.exdates}
                       ELSE {}]

---------------------------------------------------------------------------
(* Back *)

EventMoments(dates) == UNION {Moment(date) : date \in dates}

\* Anytype's form of a date on the wire.
AnytypeDates(dates) == UNION {ToAnytype(moment) : moment \in EventMoments(dates)}

\* Mutant: the last day stays excluded.
AnytypeEndExclusive(start, end) ==
    UNION {ToAnytype(moment) : moment \in EventMoments(end) \ EventMoments(start)}

\* An excluded last day becomes the last day; an end that adds nothing is none.
AnytypeEnd(start, end) ==
    LET from == EventMoments(start)
        Last(moment) == IF moment.kind = "day" THEN Day(moment.n - 1) ELSE moment
        Adds(moment) == IF moment.kind = "day"
                          THEN \A first \in from : first.kind = "day" => moment.n - 1 > first.n
                          ELSE moment \notin from
    IN  UNION {ToAnytype(Last(moment)) : moment \in {m \in EventMoments(end) : Adds(m)}}

\* EXDATE and RECURRENCE-ID as instants, which occurrences are matched by.
InstantsOf(dates) == AnytypeDates(dates)

ExdatesPatch(current, sent) ==
    IF InstantsOf(sent) = current THEN Keep ELSE Set(InstantsOf(sent))

EventPatchForUpdate(event, body) ==
    LET shown == WireDates(event)
        moves == EventMoments(shown.start) # EventMoments(body.start)
        ends == moves \/ EventMoments(shown.end) # EventMoments(body.end)
        end == AnytypeEnd(body.start, body.end)
    IN  [start |-> IF moves THEN Set(AnytypeDates(body.start)) ELSE Keep,
         end |-> IF ends /\ end # event.end THEN Set(end) ELSE Keep,
         rrule |-> IF body.rrule # event.rrule THEN {body.rrule} ELSE Keep,
         exdates |-> ExdatesPatch(event.exdates, body.exdates)]

EventPatchForCreate(body) ==
    [start |-> Set(AnytypeDates(body.start)), end |-> Set(AnytypeEnd(body.start, body.end)),
     rrule |-> {body.rrule}, exdates |-> ExdatesPatch({}, body.exdates)]

NoEvent == [start |-> {}, end |-> {}, rrule |-> FALSE, exdates |-> {}]

---------------------------------------------------------------------------
(* Occurrences *)

\* Mutant: a series repeats every so many hours, whatever the clocks do.
OccurrencesInUtc(event, zone, replaced) ==
    IF event.rrule THEN {start + k * SlotsPerDay : start \in event.start, k \in 0 .. Horizon}
                            \ (event.exdates \cup replaced)
                   ELSE event.start

\* The starts of a series' occurrences from the first on, for the reminders:
\* expanded by the wall clock, days at their midnight where there is one.
OccurrencesBetween(event, zone, replaced) ==
    LET Repeated(start) ==
            UNION {Earliest(zone, Civil(zone, start) + k * SlotsPerDay) : k \in 0 .. Horizon}
    IN  IF event.rrule THEN (UNION {Repeated(start) : start \in event.start})
                                \ (event.exdates \cup replaced)
                       ELSE event.start

\* The generator's view of the same series: each occurrence and its day. An
\* all-day series meets no day without a midnight, or nothing is made of it.
Upcoming(series, zone) ==
    LET Civils(start) == {Civil(zone, start) + k * SlotsPerDay : k \in 0 .. Horizon}
        Readable(start) == \/ Classify(zone, start).kind = "at"
                           \/ \A civil \in Civils(start) : Earliest(zone, civil) # {}
    IN  {[at |-> at, day |-> DayOf(Civil(zone, at))] :
            at \in UNION {UNION {Earliest(zone, civil) : civil \in Civils(start)} :
                            start \in {s \in series.start : series.rrule /\ Readable(s)}}}

\* Mutant: the day in UTC.
ExcludesUtcDay(series, zone, day) == \E at \in series.exdates : DayOf(at) = day

\* An occurrence is left out by its day, at whatever time `exdate` has it.
Excludes(series, zone, day) ==
    \E at \in series.exdates : DayOf(Civil(zone, at)) = day

\* The occurrences that the generator makes meetings of.
PlanUntil(series, zone) ==
    {one.at : one \in {o \in Upcoming(series, zone) : ~Excludes(series, zone, o.day)}}

---------------------------------------------------------------------------
(* Deadlines *)

\* The deadline of an event as an entry of its own: a series has none.
DeadlineEntry(event, deadline) ==
    [start |-> IF event.rrule THEN {} ELSE deadline, end |-> {}, rrule |-> FALSE, exdates |-> {}]

\* The deadline that a client moved the entry to.
DeadlineFrom(body) == AnytypeDates(body.start)
=============================================================================
