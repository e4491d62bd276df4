------------------------------- MODULE Clock -------------------------------
(***************************************************************************)
(* Dates as this program handles them: what Anytype stores, what a         *)
(* calendar client sends, and the two zones of the configuration that      *)
(* stand between them.                                                     *)
(*                                                                         *)
(* An instant is an integer, in slots. A day has SlotsPerDay of them; the  *)
(* first begins at midnight and the last stands for 23:59:59. An optional  *)
(* value is the set of the values it has: {} or {v}.                       *)
(***************************************************************************)
EXTENDS Integers

CONSTANTS SlotsPerDay,   \* how finely a day is cut
          WeekLength     \* days of a week

ASSUME ClockAssumption ==
    /\ SlotsPerDay \in Nat /\ SlotsPerDay > 1
    /\ WeekLength \in Nat /\ WeekLength > 1

VARIABLE config   \* CalendarConfig: the two zones, and whether tasks have a week

The(option) == CHOOSE value \in option : TRUE

(***************************************************************************)
(* A zone changes its offset once, at the instant `change`. A clock put    *)
(* forward leaves a gap of civil times that do not exist, one put back     *)
(* repeats some.                                                           *)
(***************************************************************************)
Zone == [before : Int, after : Int, change : Int]

Config == [timezone : Zone, date_only_timezone : Zone, weeks : BOOLEAN]

Civil(zone, at) == at + (IF at < zone.change THEN zone.before ELSE zone.after)

\* The first instant at which the clocks of the zone show a civil time, if any.
Earliest(zone, civil) ==
    LET shown == {at \in {civil - zone.before, civil - zone.after} :
                    Civil(zone, at) = civil}
    IN  {at \in shown : \A other \in shown : at <= other}

\* Civil times that the zone shows twice.
Ambiguous(zone, civil) ==
    /\ zone.before # zone.after
    /\ Civil(zone, civil - zone.before) = civil
    /\ Civil(zone, civil - zone.after) = civil

DayOf(civil) == civil \div SlotsPerDay
Midnight(day) == day * SlotsPerDay
LastSecond(day) == day * SlotsPerDay + SlotsPerDay - 1

\* Day 0 is a Monday.
Monday(day) == day - (day % WeekLength)

(***************************************************************************)
(* A date on the wire: a day, an instant, or a civil time with the zone it *)
(* is in. A floating time is one in the zone of the configuration.         *)
(***************************************************************************)
Day(day) == [kind |-> "day", n |-> day]
At(at) == [kind |-> "at", n |-> at]
Local(zone, civil) == [kind |-> "local", n |-> civil, zone |-> zone]

\* A stored date that lands on midnight is a day, any other an instant.
Classify(zone, at) ==
    IF Civil(zone, at) % SlotsPerDay = 0 THEN Day(DayOf(Civil(zone, at))) ELSE At(at)

\* Mutants: a day read as the instant of its midnight; a civil time read as UTC.
MomentOfMidnight(date) == IF date.kind = "day" THEN {At(Midnight(date.n))} ELSE {date}
MomentInUtc(date) == IF date.kind = "local" THEN {At(date.n)} ELSE {date}

\* Two spellings of one moment made equal; a time in a gap has none.
Moment(date) ==
    IF date.kind = "local" THEN {At(at) : at \in Earliest(date.zone, date.n)}
                           ELSE {date}

\* Mutant: the midnight of the zone that times are shown in.
ToAnytypeInTimezone(moment) ==
    IF moment.kind = "day" THEN Earliest(config.timezone, Midnight(moment.n)) ELSE {moment.n}

\* What Anytype stores for a moment: a day is its midnight, where there is one.
ToAnytype(moment) ==
    IF moment.kind = "day" THEN Earliest(config.date_only_timezone, Midnight(moment.n))
                           ELSE {moment.n}

\* The field of a patch: not written, written with an optional value, cleared.
Keep == {}
Set(option) == {option}
Clear == Set({})

\* A record with the fields that a patch writes.
Apply(object, patch) ==
    [field \in DOMAIN object |-> IF patch[field] = Keep THEN object[field]
                                                        ELSE The(patch[field])]
=============================================================================
