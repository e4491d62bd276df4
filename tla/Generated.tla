----------------------------- MODULE Generated -----------------------------
(***************************************************************************)
(* What the generator makes of one occurrence of a series (src/series.rs): *)
(* the meeting of a recurring event, the task of a recurring task. A       *)
(* recurring task has the dates of a recurring event: a start, an end, a   *)
(* rule.                                                                   *)
(***************************************************************************)
EXTENDS TaskDates, EventDates

\* The end of what is made at `at`: as long after it as the series' own.
EndOf(series, at) ==
    {at + (end - start) : start \in series.start,
                          end \in {one \in series.end : \A first \in series.start : one > first}}

MeetingOf(series, at) ==
    [start |-> {at}, end |-> EndOf(series, at), rrule |-> FALSE, exdates |-> {}]

\* A date that a series has beside its start moves with the occurrence.
Carried(series, dates, at) == {at + (date - start) : date \in dates, start \in series.start}

\* Mutant: from any day, for as long as a week.
TakesAnyWeek(at, due) ==
    LET from == Civil(DayZone, at)
        to == Civil(DayZone, due)
    IN  /\ from % SlotsPerDay = 0 /\ to % SlotsPerDay = 0
        /\ DayOf(to) = DayOf(from) + WeekLength - 1

\* Whole days, from a Monday to its Sunday.
TakesWeek(at, due) ==
    LET from == Civil(DayZone, at)
        to == Civil(DayZone, due)
    IN  /\ from % SlotsPerDay = 0 /\ to % SlotsPerDay = 0
        /\ Monday(DayOf(from)) = DayOf(from)
        /\ DayOf(to) = DayOf(from) + WeekLength - 1

TaskOf(series, at) ==
    LET due == EndOf(series, at)
    IN  IF config.weeks /\ \E to \in due : TakesWeek(at, to)
          THEN [scheduled |-> {}, deadline |-> {}, week |-> {at}]
          ELSE [scheduled |-> {at}, deadline |-> due, week |-> {}]
=============================================================================
