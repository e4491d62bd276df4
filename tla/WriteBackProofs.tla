--------------------------- MODULE WriteBackProofs ---------------------------
(***************************************************************************)
(* Proofs about WriteBack for any zones, dates and length of a day.        *)
(***************************************************************************)
EXTENDS WriteBack, TLAPS

-----------------------------------------------------------------------------
(* Days *)

LEMMA DaysAndTimes ==
    \A civil \in Int :
        /\ DayOf(civil) \in Int /\ Midnight(DayOf(civil)) \in Int /\ LastSecond(DayOf(civil)) \in Int
        /\ Midnight(DayOf(civil)) <= civil /\ civil <= LastSecond(DayOf(civil))
        /\ civil % SlotsPerDay = 0 <=> civil = Midnight(DayOf(civil))
        /\ civil % SlotsPerDay = civil - Midnight(DayOf(civil))
  BY ClockAssumption DEF DayOf, Midnight, LastSecond

LEMMA MidnightsOfDays ==
    \A day \in Int :
        /\ Midnight(day) \in Int /\ LastSecond(day) = Midnight(day) + SlotsPerDay - 1
        /\ DayOf(Midnight(day)) = day /\ DayOf(LastSecond(day)) = day
        /\ Midnight(day) % SlotsPerDay = 0
  BY ClockAssumption DEF DayOf, Midnight, LastSecond

LEMMA DaysInOrder ==
    \A day, later \in Int :
        /\ day < later <=> Midnight(day) < Midnight(later)
        /\ day < later <=> LastSecond(day) < Midnight(later)
        /\ Midnight(day) < LastSecond(later) <=> day <= later
  BY ClockAssumption DEF Midnight, LastSecond

LEMMA Mondays ==
    \A day \in Int : Monday(day) \in Int /\ Monday(Monday(day)) = Monday(day)
  BY ClockAssumption DEF Monday

-----------------------------------------------------------------------------
(* Clocks *)

LEMMA CivilIs == \A zone \in Zone, at \in Int : Civil(zone, at) \in Int
  BY DEF Zone, Civil

AtMostOne(S) == \A a, b \in S : a = b

\* A civil time is shown first at one instant, if at all.
LEMMA EarliestIs ==
    ASSUME NEW zone \in Zone, NEW civil \in Int
    PROVE  /\ Earliest(zone, civil) \subseteq Int /\ AtMostOne(Earliest(zone, civil))
           /\ \A at \in Earliest(zone, civil) : Civil(zone, at) = civil
<1>1. zone.before \in Int /\ zone.after \in Int
  BY DEF Zone
<1>2. \A a, b \in Int : a <= b /\ b <= a => a = b
  OBVIOUS
<1>3. QED
  BY <1>1, <1>2 DEF Earliest, AtMostOne

LEMMA EarliestIsThere ==
    ASSUME NEW zone \in Zone, NEW at \in Int
    PROVE  /\ Earliest(zone, Civil(zone, at)) # {}
           /\ ~Ambiguous(zone, Civil(zone, at)) => Earliest(zone, Civil(zone, at)) = {at}
<1> DEFINE civil == Civil(zone, at)
           one == civil - zone.before
           two == civil - zone.after
           shown == {a \in {one, two} : Civil(zone, a) = civil}
<1>1. /\ zone.before \in Int /\ zone.after \in Int /\ zone.change \in Int
      /\ civil \in Int /\ one \in Int /\ two \in Int
  BY CivilIs DEF Zone
<1>2. at \in {one, two}
  BY <1>1 DEF Civil
<1>3. at \in shown
  BY <1>2
<1>4. Earliest(zone, civil) = {a \in shown : \A other \in shown : a <= other}
  BY DEF Earliest
<1>5. shown = {at} \/ shown = {one, two}
  BY <1>2, <1>3
<1>6. shown = {one, two} /\ one # two => Ambiguous(zone, civil)
  BY <1>1 DEF Ambiguous
<1> HIDE DEF shown, one, two, civil
<1>7. Earliest(zone, civil) # {}
  BY <1>1, <1>2, <1>4, <1>5
<1>8. ASSUME ~Ambiguous(zone, civil) PROVE Earliest(zone, civil) = {at}
  BY <1>1, <1>2, <1>3, <1>4, <1>5, <1>6, <1>8
<1>9. QED
  BY <1>7, <1>8 DEF civil

\* Clocks go forward but for the hour they show twice.
LEMMA CivilsInOrder ==
    ASSUME NEW zone \in Zone, NEW at \in Int, NEW later \in Int,
           Civil(zone, at) < Civil(zone, later)
    PROVE  at < later \/ Ambiguous(zone, Civil(zone, at))
  BY DEF Zone, Civil, Ambiguous

-----------------------------------------------------------------------------
(* Dates and moments *)

Plain == {Day(n) : n \in Int} \cup {At(n) : n \in Int}
Zoned == {Local(zone, n) : zone \in Zone, n \in Int}

Options == {S \in SUBSET Int : AtMostOne(S)}

LEMMA Kinds ==
    /\ \A n : Day(n).kind = "day" /\ Day(n).n = n /\ At(n).kind = "at" /\ At(n).n = n
    /\ \A m, n : Day(m) # At(n) /\ (Day(m) = Day(n) => m = n) /\ (At(m) = At(n) => m = n)
    /\ \A zone, n : Local(zone, n).kind = "local" /\ Local(zone, n).n = n
                        /\ Local(zone, n).zone = zone
  BY DEF Day, At, Local

LEMMA PlainIs ==
    \A date \in Plain : /\ date.n \in Int
                        /\ \/ date.kind = "day" /\ date = Day(date.n)
                           \/ date.kind = "at" /\ date = At(date.n)
  BY DEF Plain, Day, At

LEMMA ClassifyIs ==
    ASSUME NEW zone \in Zone, NEW at \in Int
    PROVE  /\ Classify(zone, at) \in Plain
           /\ \/ /\ Civil(zone, at) = Midnight(DayOf(Civil(zone, at)))
                 /\ Classify(zone, at) = Day(DayOf(Civil(zone, at)))
              \/ /\ Civil(zone, at) # Midnight(DayOf(Civil(zone, at)))
                 /\ Classify(zone, at) = At(at)
  BY CivilIs, DaysAndTimes DEF Classify, Plain

LEMMA MomentIs ==
    ASSUME NEW date \in Plain \cup Zoned
    PROVE  /\ Moment(date) \subseteq Plain /\ AtMostOne(Moment(date))
           /\ date \in Plain => Moment(date) = {date}
<1>1. CASE date \in Plain
  BY <1>1, PlainIs DEF Moment, AtMostOne
<1>2. ASSUME date \notin Plain
      PROVE  Moment(date) \subseteq Plain /\ AtMostOne(Moment(date))
  <2>1. PICK zone \in Zone, n \in Int : date = Local(zone, n)
    BY <1>2 DEF Zoned
  <2>2. Moment(date) = {At(at) : at \in Earliest(zone, n)}
    BY <2>1, Kinds DEF Moment
  <2>3. QED
    BY <2>2, EarliestIs DEF Plain, AtMostOne
<1>3. QED
  BY <1>1, <1>2

LEMMA ToAnytypeIs ==
    ASSUME config \in Config, NEW moment \in Plain
    PROVE  ToAnytype(moment) \in Options
<1>1. config.date_only_timezone \in Zone
  BY DEF Config
<1>2. CASE moment.kind = "day"
  BY <1>1, <1>2, PlainIs, MidnightsOfDays, EarliestIs DEF ToAnytype, Options
<1>3. CASE moment.kind # "day"
  BY <1>3, PlainIs DEF ToAnytype, Options, AtMostOne
<1>4. QED
  BY <1>2, <1>3

\* What a list with one date at most stands for.
LEMMA MomentsAre ==
    ASSUME NEW dates \in SUBSET (Plain \cup Zoned), AtMostOne(dates)
    PROVE  /\ Moments(dates) \subseteq Plain /\ AtMostOne(Moments(dates))
           /\ EventMoments(dates) = Moments(dates)
           /\ dates \subseteq Plain => Moments(dates) = dates
  BY MomentIs DEF Moments, EventMoments, AtMostOne

LEMMA StoredIs ==
    ASSUME config \in Config, NEW moments \in SUBSET Plain, AtMostOne(moments)
    PROVE  Stored(moments) \in Options
<1>1. \A moment \in moments : ToAnytype(moment) \in Options
  BY ToAnytypeIs
<1>2. Stored(moments) \subseteq Int
  BY <1>1 DEF Stored, Options
<1>3. AtMostOne(Stored(moments))
  BY <1>1 DEF Stored, Options, AtMostOne
<1>4. QED
  BY <1>2, <1>3 DEF Options

-----------------------------------------------------------------------------
(* What a task is shown with *)

Tasks == [scheduled : Options, deadline : Options, week : Options]

LEMMA OneOf ==
    \A S : AtMostOne(S) /\ S # {} => S = {The(S)} /\ The(S) \in S
  BY DEF AtMostOne, The

LEMMA TheOne == \A value : The({value}) = value
  BY DEF The

LEMMA ClassifiedIs ==
    ASSUME config \in Config, NEW dates \in Options
    PROVE  /\ Classified(dates) \subseteq Plain /\ AtMostOne(Classified(dates))
           /\ Classified(dates) = {} <=> dates = {}
<1>1. config.date_only_timezone \in Zone
  BY DEF Config
<1>2. QED
  BY <1>1, ClassifyIs DEF Classified, Options, AtMostOne

WeekOf(monday) == [monday |-> monday, sunday |-> monday + WeekLength - 1]

LEMMA WeekDaysAre ==
    ASSUME config \in Config, NEW task \in Tasks
    PROVE  \/ WeekDays(task) = {}
           \/ /\ task.scheduled = {} /\ task.deadline = {}
              /\ \E monday \in Int : /\ Monday(monday) = monday
                                     /\ WeekDays(task) = {WeekOf(monday)}
<1> SUFFICES ASSUME WeekDays(task) # {}
             PROVE  /\ task.scheduled = {} /\ task.deadline = {}
                    /\ \E monday \in Int : /\ Monday(monday) = monday
                                           /\ WeekDays(task) = {WeekOf(monday)}
  OBVIOUS
<1>1. config.date_only_timezone \in Zone
  BY DEF Config
<1>2. task.scheduled = {} /\ task.deadline = {} /\ task.week # {}
  BY DEF WeekDays
<1>3. PICK at \in Int : task.week = {at}
  BY <1>2 DEF Tasks, Options, AtMostOne
<1> DEFINE day == DayOf(Civil(config.date_only_timezone, at))
<1>4. day \in Int
  BY <1>1, CivilIs, DaysAndTimes
<1>5. WeekDays(task) = {WeekOf(Monday(day))}
  BY <1>2, <1>3 DEF WeekDays, WeekOf
<1> HIDE DEF day
<1>6. QED
  BY <1>2, <1>4, <1>5, Mondays

LEMMA DatesAre ==
    ASSUME config \in Config, NEW task \in Tasks
    PROVE  /\ Dates(task).scheduled \subseteq Plain /\ AtMostOne(Dates(task).scheduled)
           /\ Dates(task).deadline \subseteq Plain /\ AtMostOne(Dates(task).deadline)
<1>1. CASE WeekDays(task) = {}
  BY <1>1, ClassifiedIs DEF Dates, Tasks
<1>2. CASE WeekDays(task) # {}
  <2>1. PICK monday \in Int : WeekDays(task) = {WeekOf(monday)}
    BY <1>2, WeekDaysAre
  <2>2. Dates(task) = [scheduled |-> {Day(monday)}, deadline |-> {Day(monday + WeekLength - 1)}]
    <3>1. The(WeekDays(task)) = WeekOf(monday)
      BY <2>1, TheOne
    <3>2. QED
      BY <1>2, <3>1 DEF Dates, WeekOf
  <2>3. monday + WeekLength - 1 \in Int
    BY ClockAssumption
  <2>4. QED
    BY <2>2, <2>3 DEF Plain, AtMostOne
<1>3. QED
  BY <1>1, <1>2

\* The start and the end of a shown pair.
IsPair(start, due) ==
    /\ start \in Plain /\ due \in Plain /\ start # due
    /\ start.kind = due.kind
    /\ start.n < due.n \/ ~NoneRepeated({start, due})

LEMMA RepeatedPair ==
    ASSUME config \in Config, NEW from \in Int, NEW to \in Int,
           Civil(config.timezone, from) < Civil(config.timezone, to)
    PROVE  IsPair(At(from), At(to))
<1>1. config.timezone \in Zone
  BY DEF Config
<1>2. from < to \/ Ambiguous(config.timezone, Civil(config.timezone, from))
  BY <1>1, CivilsInOrder
<1>3. from < to \/ Repeated(from)
  BY <1>2 DEF Repeated, ZonesUsed
<1>4. from < to \/ ~NoneRepeated({At(from), At(to)})
  BY <1>3 DEF NoneRepeated, At
<1>5. At(from) # At(to)
  BY <1>1, CivilIs, Kinds
<1>6. QED
  BY <1>4, <1>5, Kinds DEF IsPair, Plain

\* The pair that two dates are shown as, if as a pair.
LEMMA ScheduleIs ==
    ASSUME config \in Config, NEW plan \in Plain, NEW deadline \in Plain
    PROVE  \/ Schedule(plan, deadline) = Due(plan, "scheduled")
           \/ Schedule(plan, deadline) = Due(deadline, "both")
           \/ Schedule(plan, deadline) = Due(deadline, "deadline")
           \/ \E start, due : Schedule(plan, deadline) = Both(start, due) /\ IsPair(start, due)
<1> DEFINE b == Begins(plan)
           e == Expires(deadline)
<1>1. config.timezone \in Zone
  BY DEF Config
<1>2. b \in Int /\ e \in Int
  BY <1>1, CivilIs, PlainIs, MidnightsOfDays, ClockAssumption DEF Begins, Expires
<1>3. CASE b >= e
  BY <1>2, <1>3 DEF Schedule
<1>4. CASE b < e /\ plan.kind = "day" /\ deadline = plan
  BY <1>2, <1>4 DEF Schedule
<1>5. CASE b < e /\ plan.kind = deadline.kind /\ plan # deadline
  <2>1. Schedule(plan, deadline) = Both(plan, deadline)
    BY <1>2, <1>5 DEF Schedule
  <2>2. CASE plan.kind = "day"
    <3>1. plan.n \in Int /\ deadline.n \in Int /\ plan.n # deadline.n
      BY <1>5, <2>2, PlainIs
    <3>2. Midnight(plan.n) < LastSecond(deadline.n)
      BY <1>5, <2>2 DEF Begins, Expires
    <3>3. plan.n < deadline.n
      BY <3>1, <3>2, DaysInOrder
    <3>4. QED
      BY <1>5, <2>1, <3>3 DEF IsPair
  <2>3. CASE plan.kind = "at"
    <3>1. plan = At(plan.n) /\ deadline = At(deadline.n) /\ plan.n \in Int /\ deadline.n \in Int
      BY <1>5, <2>3, PlainIs, Kinds
    <3>2. b = Civil(config.timezone, plan.n) /\ e = Civil(config.timezone, deadline.n)
      BY <1>5, <2>3, Kinds DEF Begins, Expires
    <3>3. QED
      BY <1>5, <2>1, <3>1, <3>2, RepeatedPair
  <2>4. QED
    BY <2>2, <2>3, PlainIs
<1>6. ASSUME ~(b >= e), ~(b < e /\ plan.kind = "day" /\ deadline = plan),
             ~(b < e /\ plan.kind = deadline.kind /\ plan # deadline)
      PROVE  \/ Schedule(plan, deadline) = Due(plan, "scheduled")
             \/ Schedule(plan, deadline) = Due(deadline, "deadline")
             \/ \E start, due : Schedule(plan, deadline) = Both(start, due) /\ IsPair(start, due)
  <2> DEFINE from == Earliest(config.timezone, b)
             to == Earliest(config.timezone, e)
  <2>1. \/ Schedule(plan, deadline) = Due(plan, "scheduled")
        \/ Schedule(plan, deadline) = Due(deadline, "deadline")
        \/ /\ from # {} /\ to # {}
           /\ Schedule(plan, deadline) = Both(At(The(from)), At(The(to)))
    BY <1>6 DEF Schedule
  <2>2. ASSUME from # {}, to # {}
        PROVE  IsPair(At(The(from)), At(The(to)))
    <3>1. /\ from \subseteq Int /\ AtMostOne(from) /\ \A at \in from : Civil(config.timezone, at) = b
          /\ to \subseteq Int /\ AtMostOne(to) /\ \A at \in to : Civil(config.timezone, at) = e
      BY <1>1, <1>2, EarliestIs
    <3> HIDE DEF from, to, b, e
    <3>2. The(from) \in from /\ The(to) \in to
      BY <2>2, <3>1, OneOf
    <3>3. b < e
      BY <1>2, <1>6
    <3>4. Civil(config.timezone, The(from)) = b /\ Civil(config.timezone, The(to)) = e
      BY <3>1, <3>2
    <3>5. The(from) \in Int /\ The(to) \in Int
      BY <3>1, <3>2
    <3>6. QED
      BY <3>3, <3>4, <3>5, RepeatedPair
  <2>3. QED
    BY <2>1, <2>2
<1>7. QED
  BY <1>3, <1>4, <1>5, <1>6

\* What a task is shown with has at most one start and one due, in order.
Shown(shown) ==
    \/ shown = Nothing
    \/ \E date \in Plain, origin \in {"scheduled", "deadline", "both"} : shown = Due(date, origin)
    \/ \E start, due : shown = Both(start, due) /\ IsPair(start, due)

LEMMA WireIs ==
    ASSUME config \in Config, NEW task \in Tasks
    PROVE  Shown(Wire(task))
<1> DEFINE plan == Dates(task).scheduled
           deadline == Dates(task).deadline
<1>1. /\ plan # {} => The(plan) \in Plain
      /\ deadline # {} => The(deadline) \in Plain
  BY DatesAre, OneOf
<1>2. CASE plan = {} \/ deadline = {}
  BY <1>1, <1>2 DEF Wire, Shown
<1>3. CASE plan # {} /\ deadline # {}
  <2>1. Wire(task) = Schedule(The(plan), The(deadline))
    BY <1>3 DEF Wire
  <2>2. QED
    BY <1>1, <1>3, <2>1, ScheduleIs DEF Shown
<1>4. QED
  BY <1>2, <1>3

OneOfEach(shown) ==
    /\ shown.start \subseteq Plain /\ AtMostOne(shown.start)
    /\ shown.due \subseteq Plain /\ AtMostOne(shown.due)
    /\ shown.start \cap shown.due = {}

\* A client sends back what it was shown.
LEMMA ServedMoments ==
    ASSUME config \in Config, NEW task \in Tasks
    PROVE  /\ SentDue(ServedTask(task)) = Wire(task).due
           /\ SentStart(ServedTask(task)) = Wire(task).start
<1> DEFINE shown == Wire(task)
<1>1. OneOfEach(shown)
  <2>1. Shown(shown)
    BY WireIs
  <2> HIDE DEF shown
  <2>2. CASE shown = Nothing
    BY <2>2 DEF Nothing, AtMostOne, OneOfEach
  <2>3. ASSUME NEW date \in Plain, NEW origin, shown = Due(date, origin)
        PROVE  OneOfEach(shown)
    <3>1. shown.start = {} /\ shown.due = {date}
      BY <2>3 DEF Due
    <3>2. QED
      BY <3>1 DEF AtMostOne, OneOfEach
  <2>4. ASSUME NEW start, NEW due, shown = Both(start, due), IsPair(start, due)
        PROVE  OneOfEach(shown)
    <3>1. shown.start = {start} /\ shown.due = {due}
      BY <2>4 DEF Both
    <3>2. QED
      BY <2>4, <3>1 DEF IsPair, AtMostOne, OneOfEach
  <2>5. QED
    BY <2>1, <2>2, <2>3, <2>4 DEF Shown
<1>2. ServedTask(task).start = shown.start /\ ServedTask(task).due = shown.due
  BY DEF ServedTask
<1> HIDE DEF shown
<1>3. Moments(shown.start) = shown.start /\ Moments(shown.due) = shown.due
  BY <1>1, MomentsAre DEF OneOfEach
<1>4. QED
  BY <1>1, <1>2, <1>3 DEF SentDue, SentStart, shown, OneOfEach

NoTaskPatch == [scheduled |-> Keep, deadline |-> Keep, week |-> Keep]

\* The three ways to write a task back: a week, dates instead of one, and dates.
OnlyTheWeek(task, week) ==
    [week |-> IF week = {now.monday : now \in WeekDays(task)}
                THEN Keep ELSE Set(Stored({Day(The(week))})),
     scheduled |-> IF task.scheduled = {} THEN Keep ELSE Clear,
     deadline |-> IF task.deadline = {} THEN Keep ELSE Clear]

WeekGivesWay(plan) ==
    [week |-> Clear,
     scheduled |-> {ToAnytype(date) : date \in plan.scheduled},
     deadline |-> {ToAnytype(date) : date \in plan.deadline}]

WholeDays(moments, property) == {KeepWholeDay(moment, property) : moment \in moments}
Written(task, moments, field) == Set(Stored(WholeDays(moments, Classified(task[field]))))

OnlyTheDates(task, start, due, shown) ==
    LET appears == start # {} /\ shown.start = {}
        moved == due # shown.due
        to_plan == moved /\ shown.origin # "deadline"
        to_deadline == moved /\ shown.origin \in {"deadline", "both"}
    IN  [week |-> Keep,
         scheduled |->
             IF appears \/ (~to_plan /\ start # shown.start)
               THEN Written(task, start, "scheduled")
               ELSE IF to_plan THEN Written(task, due, "scheduled") ELSE Keep,
         deadline |-> IF appears \/ to_deadline THEN Written(task, due, "deadline") ELSE Keep]

LEMMA ForUpdateIs ==
    ASSUME NEW task, NEW body
    PROVE  LET week == SentWeek(body)
               plan == Plan(SentStart(body), SentDue(body))
           IN  /\ week # {} => ForUpdate(task, body) = OnlyTheWeek(task, week)
               /\ week = {} /\ config.weeks /\ WeekDays(task) # {}
                    => ForUpdate(task, body) = WeekGivesWay(plan)
               /\ week = {} /\ ~(config.weeks /\ WeekDays(task) # {})
                    => ForUpdate(task, body) =
                          OnlyTheDates(task, SentStart(body), SentDue(body), Wire(task))
<1>1. ASSUME SentWeek(body) # {}
      PROVE  ForUpdate(task, body) = OnlyTheWeek(task, SentWeek(body))
  BY <1>1 DEF ForUpdate, OnlyTheWeek
<1>2. ASSUME SentWeek(body) = {}, config.weeks /\ WeekDays(task) # {}
      PROVE  ForUpdate(task, body) = WeekGivesWay(Plan(SentStart(body), SentDue(body)))
  BY <1>2 DEF ForUpdate, WeekGivesWay
<1>3. ASSUME SentWeek(body) = {}, ~(config.weeks /\ WeekDays(task) # {})
      PROVE  ForUpdate(task, body) =
                OnlyTheDates(task, SentStart(body), SentDue(body), Wire(task))
  BY <1>3 DEF ForUpdate, OnlyTheDates, Written, WholeDays
<1>4. QED
  BY <1>1, <1>2, <1>3

LEMMA TaskComesBack ==
    ASSUME config \in Config, NEW task \in Tasks, ~FillsWeek(task)
    PROVE  ForUpdate(task, ServedTask(task)) = NoTaskPatch
<1> DEFINE body == ServedTask(task)
<1>1. SentDue(body) = Wire(task).due /\ SentStart(body) = Wire(task).start
  BY ServedMoments
<1>2. OnlyTheDates(task, SentStart(body), SentDue(body), Wire(task)) = NoTaskPatch
  BY <1>1 DEF OnlyTheDates, NoTaskPatch
<1>3. CASE WeekDays(task) = {}
  <2>1. SentWeek(body) = {}
    BY <1>3 DEF FillsWeek
  <2>2. QED
    BY <1>2, <1>3, <2>1, ForUpdateIs
<1>4. CASE WeekDays(task) # {}
  <2>1. PICK monday \in Int : /\ Monday(monday) = monday
                              /\ WeekDays(task) = {WeekOf(monday)}
    BY <1>4, WeekDaysAre
  <2> DEFINE sunday == monday + WeekLength - 1
  <2>2. Dates(task) = [scheduled |-> {Day(monday)}, deadline |-> {Day(sunday)}]
    <3>1. The(WeekDays(task)) = WeekOf(monday)
      BY <2>1, TheOne
    <3>2. QED
      BY <1>4, <3>1 DEF Dates, WeekOf
  <2>3. sunday \in Int /\ monday < sunday
    BY ClockAssumption
  <2>4. Wire(task) = Schedule(Day(monday), Day(sunday))
    <3>1. Dates(task).scheduled = {Day(monday)} /\ Dates(task).deadline = {Day(sunday)}
      BY <2>2
    <3>2. QED
      BY <3>1, TheOne DEF Wire
  <2> HIDE DEF sunday
  <2>5. Schedule(Day(monday), Day(sunday)) = Both(Day(monday), Day(sunday))
    <3>1. Midnight(monday) < LastSecond(sunday)
      BY <2>3, DaysInOrder
    <3>2. Midnight(monday) \in Int /\ LastSecond(sunday) \in Int
      BY <2>3, MidnightsOfDays, ClockAssumption
    <3>3. Day(monday) # Day(sunday)
      BY <2>3, Kinds
    <3>4. QED
      BY <3>1, <3>2, <3>3, Kinds DEF Schedule, Begins, Expires
  <2>6. SentStart(body) = {Day(monday)} /\ SentDue(body) = {Day(sunday)}
    BY <1>1, <2>4, <2>5 DEF Both
  <2>7. WholeWeek({Day(monday)}, {Day(sunday)}) = {monday}
    BY <2>1, Kinds DEF WholeWeek, sunday
  <2>8. CASE config.weeks
    <3>1. SentWeek(body) = {monday}
      BY <2>6, <2>7, <2>8 DEF SentWeek
    <3>2. {now.monday : now \in WeekDays(task)} = {monday}
      BY <2>1 DEF WeekOf
    <3>3. task.scheduled = {} /\ task.deadline = {}
      BY <1>4, WeekDaysAre
    <3>4. OnlyTheWeek(task, {monday}) = NoTaskPatch
      BY <3>2, <3>3 DEF OnlyTheWeek, NoTaskPatch
    <3>5. QED
      BY <3>1, <3>4, ForUpdateIs
  <2>9. CASE ~config.weeks
    <3>1. SentWeek(body) = {}
      BY <2>9 DEF SentWeek
    <3>2. QED
      BY <1>2, <2>9, <3>1, ForUpdateIs
  <2>10. QED
    BY <2>8, <2>9
<1>5. QED
  BY <1>3, <1>4

-----------------------------------------------------------------------------
(* The objects, through every save *)

InstantSets == SUBSET Int
EventRecords == [start : Options, end : Options, rrule : BOOLEAN, exdates : InstantSets]

DatesInv ==
    /\ config \in Configs /\ config \in Config
    /\ kind \in {"task", "event"}
    /\ AtMostOne(object)
    /\ kind = "task" => /\ object \subseteq Tasks
                        /\ \A task \in object : config.weeks \/ task.week = {}
    /\ kind = "event" => /\ object \subseteq EventRecords
                         /\ \A event \in object : event.rrule \/ event.exdates = {}

\* What a patch writes into a field.
Writes(S) == {Keep} \cup {Set(value) : value \in S}

LEMMA WritesIs == \A S, value : value \in S => {value} \in Writes(S)
  BY DEF Writes, Set

LEMMA Applied ==
    ASSUME NEW S, NEW old \in S, NEW patch \in Writes(S)
    PROVE  (IF patch = Keep THEN old ELSE The(patch)) \in S
  BY TheOne DEF Writes, Set, Keep

TaskPatches == [scheduled : Writes(Options), deadline : Writes(Options), week : Writes(Options)]
EventPatches == [start : Writes(Options), end : Writes(Options), rrule : Writes(BOOLEAN),
                 exdates : Writes(InstantSets)]

LEMMA TaskApplied ==
    ASSUME NEW task \in Tasks, NEW patch \in TaskPatches
    PROVE  /\ Apply(task, patch) \in Tasks
           /\ \A field \in {"scheduled", "deadline", "week"} :
                 Apply(task, patch)[field] = IF patch[field] = Keep THEN task[field]
                                                                   ELSE The(patch[field])
<1>1. Apply(task, patch) = [field \in {"scheduled", "deadline", "week"} |->
                              IF patch[field] = Keep THEN task[field] ELSE The(patch[field])]
  BY DEF Apply, Tasks
<1>2. \A field \in {"scheduled", "deadline", "week"} :
         task[field] \in Options /\ patch[field] \in Writes(Options)
  BY DEF Tasks, TaskPatches
<1>3. \A field \in {"scheduled", "deadline", "week"} : Apply(task, patch)[field] \in Options
  BY <1>1, <1>2, Applied
<1>4. QED
  BY <1>1, <1>3 DEF Tasks

LEMMA EventApplied ==
    ASSUME NEW event \in EventRecords, NEW patch \in EventPatches
    PROVE  /\ Apply(event, patch) \in EventRecords
           /\ \A field \in {"start", "end", "rrule", "exdates"} :
                 Apply(event, patch)[field] = IF patch[field] = Keep THEN event[field]
                                                                    ELSE The(patch[field])
<1>1. Apply(event, patch) = [field \in {"start", "end", "rrule", "exdates"} |->
                              IF patch[field] = Keep THEN event[field] ELSE The(patch[field])]
  BY DEF Apply, EventRecords
<1>2. /\ event.start \in Options /\ patch.start \in Writes(Options)
      /\ event.end \in Options /\ patch.end \in Writes(Options)
      /\ event.rrule \in BOOLEAN /\ patch.rrule \in Writes(BOOLEAN)
      /\ event.exdates \in InstantSets /\ patch.exdates \in Writes(InstantSets)
  BY DEF EventRecords, EventPatches
<1>3. /\ Apply(event, patch).start \in Options
      /\ Apply(event, patch).end \in Options
  BY <1>1, <1>2, Applied
<1>4. Apply(event, patch).exdates \in InstantSets
  BY <1>1, <1>2, Applied
<1>5. (IF patch.rrule = Keep THEN event.rrule ELSE The(patch.rrule)) \in BOOLEAN
  BY <1>2, Applied
<1>6. Apply(event, patch).rrule \in BOOLEAN
  BY <1>1, <1>5
<1>7. QED
  BY <1>1, <1>3, <1>4, <1>6 DEF EventRecords

\* Bodies of a task have one moment at most in each place.
LEMMA TaskBodiesAre ==
    ASSUME NEW body \in TaskBodies
    PROVE  /\ body.start \subseteq Plain /\ AtMostOne(body.start)
           /\ body.due \subseteq Plain /\ AtMostOne(body.due)
           /\ SentDue(body) = body.due /\ SentStart(body) = body.start \ body.due
<1>1. Dated \subseteq Plain
  BY WriteBackAssumption DEF Dated, Plain
<1>2. /\ body.start \subseteq Plain /\ AtMostOne(body.start)
      /\ body.due \subseteq Plain /\ AtMostOne(body.due)
  BY <1>1 DEF TaskBodies, Option, AtMostOne
<1>3. Moments(body.start) = body.start /\ Moments(body.due) = body.due
  BY <1>2, MomentsAre
<1>4. QED
  BY <1>2, <1>3 DEF SentDue, SentStart

LEMMA WholeDaysAre ==
    ASSUME config \in Config, NEW moments \in SUBSET Plain, AtMostOne(moments), NEW property
    PROVE  WholeDays(moments, property) \subseteq Plain /\ AtMostOne(WholeDays(moments, property))
<1>1. config.timezone \in Zone
  BY DEF Config
<1>2. \A moment \in moments : KeepWholeDay(moment, property) \in Plain
  <2>1. TAKE moment \in moments
  <2>2. moment.n \in Int
    BY PlainIs
  <2>3. DayOf(Civil(config.timezone, moment.n)) \in Int
    BY <1>1, <2>2, CivilIs, DaysAndTimes
  <2>4. QED
    BY <2>3 DEF KeepWholeDay, Plain
<1>3. QED
  BY <1>2 DEF WholeDays, AtMostOne

LEMMA WrittenIs ==
    ASSUME config \in Config, NEW moments \in SUBSET Plain, AtMostOne(moments), NEW task, NEW field
    PROVE  Written(task, moments, field) \in Writes(Options)
<1>1. Stored(WholeDays(moments, Classified(task[field]))) \in Options
  BY WholeDaysAre, StoredIs
<1>2. QED
  BY <1>1 DEF Written, Writes

LEMMA NoneIsAnOption == {} \in Options
  BY DEF Options, AtMostOne

LEMMA DirectlyStored ==
    ASSUME config \in Config, NEW moments \in SUBSET Plain, AtMostOne(moments)
    PROVE  /\ {ToAnytype(date) : date \in moments} \in Writes(Options)
           /\ moments # {} =>
                {ToAnytype(date) : date \in moments} = {ToAnytype(The(moments))}
<1>1. CASE moments = {}
  BY <1>1 DEF Writes, Keep
<1>2. CASE moments # {}
  <2>1. moments = {The(moments)} /\ The(moments) \in Plain
    BY <1>2, OneOf
  <2>2. {ToAnytype(date) : date \in moments} = {ToAnytype(The(moments))}
    BY <2>1
  <2>3. ToAnytype(The(moments)) \in Options
    BY <2>1, ToAnytypeIs
  <2>4. QED
    BY <2>2, <2>3 DEF Writes, Set
<1>3. QED
  BY <1>1, <1>2

LEMMA WeekStored ==
    ASSUME config \in Config, NEW body \in TaskBodies
    PROVE  \A monday \in SentWeek(body) : ToAnytype(Day(monday)) \in Options
<1>1. \A monday \in SentWeek(body) : monday \in Int
  BY TaskBodiesAre, PlainIs DEF SentWeek, WholeWeek
<1>2. QED
  BY <1>1, ToAnytypeIs DEF Plain

LEMMA TaskPatchesAre ==
    ASSUME config \in Config, NEW task \in Tasks, NEW body \in TaskBodies
    PROVE  ForUpdate(task, body) \in TaskPatches
<1> DEFINE start == SentStart(body)
           due == SentDue(body)
           week == SentWeek(body)
<1>1. /\ start \subseteq Plain /\ AtMostOne(start)
      /\ due \subseteq Plain /\ AtMostOne(due)
  BY TaskBodiesAre DEF AtMostOne
<1>2. ForUpdate(task, body) \in {OnlyTheWeek(task, week), WeekGivesWay(Plan(start, due)),
                                 OnlyTheDates(task, start, due, Wire(task))}
  BY ForUpdateIs
<1>3. Keep \in Writes(Options) /\ Clear \in Writes(Options)
  BY NoneIsAnOption DEF Writes, Clear
<1> HIDE DEF start, due
<1>4. ASSUME week # {} PROVE OnlyTheWeek(task, week) \in TaskPatches
  <2>1. Day(The(week)) \in Plain
    <3>1. \A monday \in week : monday \in Int
      BY TaskBodiesAre, PlainIs DEF SentWeek, WholeWeek
    <3>2. The(week) \in week
      BY <1>4 DEF The
    <3>3. QED
      BY <3>1, <3>2 DEF Plain
  <2>2. Stored({Day(The(week))}) \in Options
    BY <2>1, StoredIs DEF AtMostOne
  <2>3. Set(Stored({Day(The(week))})) \in Writes(Options)
    BY <2>2 DEF Writes
  <2>4. QED
    BY <1>3, <2>3 DEF OnlyTheWeek, TaskPatches
<1>5. WeekGivesWay(Plan(start, due)) \in TaskPatches
  <2>1. /\ {ToAnytype(date) : date \in start} \in Writes(Options)
        /\ {ToAnytype(date) : date \in due} \in Writes(Options)
    BY <1>1, DirectlyStored
  <2>2. {ToAnytype(date) : date \in {}} \in Writes(Options)
    BY DEF Writes, Keep
  <2>3. QED
    BY <1>3, <2>1, <2>2 DEF WeekGivesWay, TaskPatches, Plan
<1>6. OnlyTheDates(task, start, due, Wire(task)) \in TaskPatches
  <2>1. /\ Written(task, start, "scheduled") \in Writes(Options)
        /\ Written(task, due, "scheduled") \in Writes(Options)
        /\ Written(task, due, "deadline") \in Writes(Options)
    BY <1>1, WrittenIs
  <2>2. QED
    BY <1>3, <2>1 DEF OnlyTheDates, TaskPatches
<1>7. week # {} => ForUpdate(task, body) = OnlyTheWeek(task, week)
  BY ForUpdateIs
<1>8. week = {} => ForUpdate(task, body) \in {WeekGivesWay(Plan(start, due)),
                                              OnlyTheDates(task, start, due, Wire(task))}
  BY ForUpdateIs DEF start, due
<1>9. QED
  BY <1>4, <1>5, <1>6, <1>7, <1>8

LEMMA NewTaskPatchIs ==
    ASSUME config \in Config, NEW body \in TaskBodies
    PROVE  ForCreate(body) \in TaskPatches
<1> DEFINE start == SentStart(body)
           due == SentDue(body)
           week == SentWeek(body)
<1>1. /\ start \subseteq Plain /\ AtMostOne(start)
      /\ due \subseteq Plain /\ AtMostOne(due)
  BY TaskBodiesAre DEF AtMostOne
<1>2. /\ {ToAnytype(date) : date \in start} \in Writes(Options)
      /\ {ToAnytype(date) : date \in due} \in Writes(Options)
  BY <1>1, DirectlyStored
<1>3. {ToAnytype(date) : date \in {}} \in Writes(Options)
  BY DEF Writes, Keep
<1>4. week = {} \/ \E monday : week = {monday}
  BY <1>1 DEF SentWeek, WholeWeek, AtMostOne
<1>5. {ToAnytype(Day(monday)) : monday \in week} \in Writes(Options)
  <2>1. CASE week = {}
    BY <2>1 DEF Writes, Keep
  <2>2. CASE week # {}
    <3>1. PICK monday : week = {monday}
      BY <1>4, <2>2
    <3>2. ToAnytype(Day(monday)) \in Options
      BY <3>1, WeekStored
    <3>3. QED
      BY <3>1, <3>2 DEF Writes, Set
  <2>3. QED
    BY <2>1, <2>2
<1> DEFINE kept == {ToAnytype(Day(monday)) : monday \in week}
           none == {ToAnytype(date) : date \in {}}
<1>6. CASE week # {}
  <2>1. ForCreate(body) = [scheduled |-> none, deadline |-> none, week |-> kept]
    BY <1>6 DEF ForCreate
  <2> HIDE DEF none, kept
  <2>2. QED
    BY <1>3, <1>5, <2>1 DEF TaskPatches, none, kept
<1>7. CASE week = {} /\ start = {}
  <2>1. ForCreate(body) = [scheduled |-> {ToAnytype(date) : date \in due},
                           deadline |-> none, week |-> kept]
    BY <1>7 DEF ForCreate, Plan
  <2> HIDE DEF none, kept, due
  <2>2. QED
    BY <1>2, <1>3, <1>5, <2>1 DEF TaskPatches, none, kept
<1>8. CASE week = {} /\ start # {}
  <2>1. ForCreate(body) = [scheduled |-> {ToAnytype(date) : date \in start},
                           deadline |-> {ToAnytype(date) : date \in due}, week |-> kept]
    BY <1>8 DEF ForCreate, Plan
  <2> HIDE DEF none, kept, start, due
  <2>2. QED
    BY <1>2, <1>5, <2>1 DEF TaskPatches, kept
<1>9. QED
  BY <1>6, <1>7, <1>8

-----------------------------------------------------------------------------
(* Bodies and patches of an event *)

EventBody(body) ==
    /\ body.start \subseteq Plain \cup Zoned /\ AtMostOne(body.start)
    /\ body.end \subseteq Plain \cup Zoned /\ AtMostOne(body.end)
    /\ body.rrule \in BOOLEAN
    /\ body.exdates \subseteq Plain \cup Zoned
    /\ body.rrule \/ body.exdates = {}

LEMMA SpelledIs ==
    ASSUME config \in Config, NEW date \in Plain, NEW rrule \in BOOLEAN
    PROVE  Spelled(date, rrule) \in Plain \cup Zoned
<1>1. CASE rrule /\ date.kind = "at"
  <2>1. /\ config.timezone \in Zone
        /\ Civil(config.timezone, date.n) \in Int
    BY PlainIs, CivilIs DEF Config
  <2>2. QED
    BY <1>1, <2>1 DEF Spelled, Zoned
<1>2. QED
  BY <1>1 DEF Spelled

BodyOf(start, rrule, dates, end) ==
    [start |-> {Spelled(start, rrule)},
     end |-> {Spelled(date, rrule) : date \in end},
     rrule |-> rrule,
     exdates |-> IF rrule THEN {Spelled([start EXCEPT !.n = n], TRUE) : n \in dates}
                          ELSE {}]
EndsFrom(start) ==
    {{}} \cup {{date} : date \in {d \in Dated : d.kind = start.kind /\ d.n > start.n}}
BodiesFrom(start, rrule) ==
    {BodyOf(start, rrule, dates, end) : dates \in ExdateSets, end \in EndsFrom(start)}

LEMMA EventBodiesAre ==
    ASSUME config \in Config, NEW body \in EventBodies
    PROVE  EventBody(body)
<1>1. Dated \subseteq Plain
  BY WriteBackAssumption DEF Dated, Plain
<1>2. PICK first \in Dated, rrule \in BOOLEAN : body \in BodiesFrom(first, rrule)
  <2>1. EventBodies = UNION {BodiesFrom(start, rrule) : start \in Dated, rrule \in BOOLEAN}
    BY DEF EventBodies, BodiesFrom, BodyOf, EndsFrom
  <2>2. QED
    BY <2>1
<1>3. PICK dates \in ExdateSets, last \in EndsFrom(first) : body = BodyOf(first, rrule, dates, last)
  BY <1>2 DEF BodiesFrom
<1>4. last \subseteq Dated /\ AtMostOne(last)
  BY DEF AtMostOne, EndsFrom
<1>5. \A n \in dates : [first EXCEPT !.n = n] \in Plain
  <2>1. \A n \in Int : [first EXCEPT !.n = n] \in Plain
    <3>1. TAKE n \in Int
    <3>2. CASE first.kind = "day"
      BY <1>1, <3>2, PlainIs DEF Plain, Day, At
    <3>3. CASE first.kind = "at"
      BY <1>1, <3>3, PlainIs DEF Plain, Day, At
    <3>4. QED
      BY <1>1, <3>2, <3>3, PlainIs
  <2>2. QED
    BY <2>1, WriteBackAssumption
<1>6. body.start \subseteq Plain \cup Zoned /\ AtMostOne(body.start)
  BY <1>1, <1>3, SpelledIs DEF AtMostOne, BodyOf
<1>7. body.end \subseteq Plain \cup Zoned /\ AtMostOne(body.end)
  BY <1>1, <1>3, <1>4, SpelledIs DEF AtMostOne, BodyOf
<1>8. body.rrule \in BOOLEAN /\ (body.rrule \/ body.exdates = {})
  BY <1>3 DEF BodyOf
<1>9. body.exdates \subseteq Plain \cup Zoned
  BY <1>3, <1>5, SpelledIs DEF BodyOf
<1>10. QED
  BY <1>6, <1>7, <1>8, <1>9 DEF EventBody

LEMMA AnytypeDatesAre ==
    ASSUME config \in Config, NEW dates \in SUBSET (Plain \cup Zoned)
    PROVE  /\ EventMoments(dates) \subseteq Plain /\ AnytypeDates(dates) \in InstantSets
           /\ AtMostOne(dates) => /\ AtMostOne(EventMoments(dates))
                                  /\ AnytypeDates(dates) \in Options
<1>1. EventMoments(dates) \subseteq Plain
  BY MomentIs DEF EventMoments
<1>2. \A moment \in EventMoments(dates) : ToAnytype(moment) \in Options
  BY <1>1, ToAnytypeIs
<1>3. AnytypeDates(dates) \in InstantSets
  BY <1>2 DEF AnytypeDates, InstantSets, Options
<1>4. ASSUME AtMostOne(dates)
      PROVE  AtMostOne(EventMoments(dates)) /\ AnytypeDates(dates) \in Options
  <2>1. AtMostOne(EventMoments(dates))
    BY <1>4, MomentsAre
  <2>2. AnytypeDates(dates) = Stored(EventMoments(dates))
    BY DEF AnytypeDates, Stored
  <2>3. QED
    BY <1>1, <2>1, <2>2, StoredIs
<1>5. QED
  BY <1>1, <1>3, <1>4

\* Whether an end adds to a start.
AddsTo(from, moment) ==
    IF moment.kind = "day" THEN \A first \in from : first.kind = "day" => moment.n - 1 > first.n
                           ELSE moment \notin from

LEMMA AnytypeEndIs ==
    ASSUME NEW start, NEW end
    PROVE  AnytypeEnd(start, end) =
               Stored({LastOf(moment) : moment \in
                          {m \in EventMoments(end) : AddsTo(EventMoments(start), m)}})
  BY DEF AnytypeEnd, Stored, LastOf, AddsTo

LEMMA AnytypeEndIsOne ==
    ASSUME config \in Config, NEW start, NEW end \in SUBSET (Plain \cup Zoned), AtMostOne(end)
    PROVE  AnytypeEnd(start, end) \in Options
<1> DEFINE adding == {m \in EventMoments(end) : AddsTo(EventMoments(start), m)}
           last == {LastOf(moment) : moment \in adding}
<1>1. adding \subseteq Plain /\ AtMostOne(adding)
  BY AnytypeDatesAre DEF AtMostOne
<1>2. \A moment \in Plain : LastOf(moment) \in Plain
  BY PlainIs DEF LastOf, Plain
<1> HIDE DEF adding
<1>3. last \subseteq Plain
  BY <1>1, <1>2
<1>4. AtMostOne(last)
  BY <1>1 DEF AtMostOne
<1> HIDE DEF last
<1>5. Stored(last) \in Options
  BY <1>3, <1>4, StoredIs
<1>6. QED
  BY <1>5, AnytypeEndIs DEF last, adding

LEMMA EventPatchesAre ==
    ASSUME config \in Config, NEW event \in EventRecords, NEW body, EventBody(body)
    PROVE  /\ EventPatchForUpdate(event, body) \in EventPatches
           /\ EventPatchForCreate(body) \in EventPatches
<1>1. /\ Set(AnytypeDates(body.start)) \in Writes(Options)
      /\ Set(AnytypeEnd(body.start, body.end)) \in Writes(Options)
  BY AnytypeDatesAre, AnytypeEndIsOne DEF EventBody, Writes
<1>2. {body.rrule} \in Writes(BOOLEAN)
  BY WritesIs DEF EventBody
<1>3. \A current : ExdatesPatch(current, body.exdates) \in Writes(InstantSets)
  BY AnytypeDatesAre DEF EventBody, Writes, ExdatesPatch, InstantsOf
<1>4. Keep \in Writes(Options) /\ Keep \in Writes(BOOLEAN)
  BY DEF Writes
<1>5. EventPatchForUpdate(event, body) \in EventPatches
  BY <1>1, <1>2, <1>3, <1>4 DEF EventPatchForUpdate, EventPatches
<1>6. EventPatchForCreate(body) \in EventPatches
  BY <1>1, <1>2, <1>3 DEF EventPatchForCreate, EventPatches
<1>7. QED
  BY <1>5, <1>6

\* Exclusions go when the rule does.
LEMMA ExclusionsGo ==
    ASSUME NEW event \in EventRecords, NEW patch \in EventPatches, NEW body, EventBody(body),
           config \in Config,
           \/ patch = EventPatchForUpdate(event, body)
           \/ patch = EventPatchForCreate(body) /\ event = NoEvent
    PROVE  LET saved == Apply(event, patch)
           IN  /\ saved.rrule = body.rrule
               /\ saved.exdates = InstantsOf(body.exdates)
               /\ saved.rrule \/ saved.exdates = {}
<1> DEFINE saved == Apply(event, patch)
<1>1. /\ saved.rrule = IF patch.rrule = Keep THEN event.rrule ELSE The(patch.rrule)
      /\ saved.exdates = IF patch.exdates = Keep THEN event.exdates ELSE The(patch.exdates)
  BY EventApplied
<1>2. saved.rrule = body.rrule
  <2>1. patch.rrule = {body.rrule} \/ (patch.rrule = Keep /\ event.rrule = body.rrule)
    BY DEF EventPatchForUpdate, EventPatchForCreate
  <2>2. CASE patch.rrule = {body.rrule}
    <3>1. patch.rrule # Keep /\ The(patch.rrule) = body.rrule
      BY <2>2, TheOne DEF Keep
    <3>2. QED
      BY <1>1, <3>1, Zenon
  <2>3. CASE patch.rrule = Keep /\ event.rrule = body.rrule
    BY <1>1, <2>3, Zenon
  <2>4. QED
    BY <2>1, <2>2, <2>3
<1>3. saved.exdates = InstantsOf(body.exdates)
  <2>1. patch.exdates = ExdatesPatch(event.exdates, body.exdates)
    BY DEF EventPatchForUpdate, EventPatchForCreate, NoEvent
  <2>2. QED
    BY <1>1, <2>1, TheOne DEF ExdatesPatch, Keep, Set
<1>4. InstantsOf({}) = {}
  BY DEF InstantsOf, AnytypeDates, EventMoments
<1>5. QED
  BY <1>2, <1>3, <1>4 DEF EventBody

-----------------------------------------------------------------------------
(* The invariant *)

\* A task gets a week only where weeks are on.
LEMMA WeeksAreOn ==
    ASSUME NEW task \in Tasks, NEW patch \in TaskPatches, NEW body,
           config.weeks \/ task.week = {},
           \/ patch = ForUpdate(task, body)
           \/ patch = ForCreate(body)
    PROVE  config.weeks \/ Apply(task, patch).week = {}
<1> SUFFICES ASSUME ~config.weeks PROVE patch.week = Keep
  BY TaskApplied
<1>1. SentWeek(body) = {}
  BY DEF SentWeek
<1>2. CASE patch = ForUpdate(task, body)
  BY <1>1, <1>2, ForUpdateIs DEF OnlyTheDates
<1>3. CASE patch = ForCreate(body)
  BY <1>1, <1>3 DEF ForCreate, Keep
<1>4. QED
  BY <1>2, <1>3

LEMMA TaskSaved ==
    ASSUME DatesInv, NEW body \in TaskBodies, SaveTask(body) \/ CreateTask(body)
    PROVE  DatesInv'
<1>1. CASE SaveTask(body)
  <2>1. object' = {Apply(task, ForUpdate(task, body)) : task \in object}
        /\ config' = config /\ kind' = kind /\ kind = "task"
    BY <1>1 DEF SaveTask
  <2> DEFINE Saved(task) == Apply(task, ForUpdate(task, body))
  <2>2. \A task \in object : Saved(task) \in Tasks
    BY <2>1, TaskPatchesAre, TaskApplied DEF DatesInv
  <2>3. \A task \in object : config.weeks \/ Saved(task).week = {}
    BY <2>1, TaskPatchesAre, WeeksAreOn DEF DatesInv
  <2>4. object' = {Saved(task) : task \in object}
    BY <2>1
  <2> HIDE DEF Saved
  <2>5. AtMostOne(object')
    BY <2>4 DEF DatesInv, AtMostOne
  <2>6. object' \subseteq Tasks /\ \A task \in object' : config'.weeks \/ task.week = {}
    BY <2>1, <2>2, <2>3, <2>4
  <2>7. QED
    BY <2>1, <2>5, <2>6 DEF DatesInv
<1>2. CASE CreateTask(body)
  <2>1. object' = {Apply(NoDates, ForCreate(body))} /\ config' = config /\ kind' = kind /\ kind = "task"
    BY <1>2 DEF CreateTask
  <2>2. NoDates \in Tasks
    BY NoneIsAnOption DEF NoDates, Tasks
  <2>3. /\ Apply(NoDates, ForCreate(body)) \in Tasks
        /\ config.weeks \/ Apply(NoDates, ForCreate(body)).week = {}
    BY <2>2, NewTaskPatchIs, TaskApplied, WeeksAreOn DEF DatesInv, NoDates
  <2>4. QED
    BY <2>1, <2>3 DEF DatesInv, AtMostOne
<1>3. QED
  BY <1>1, <1>2

LEMMA EventSaved ==
    ASSUME DatesInv, NEW body \in EventBodies, SaveEvent(body) \/ CreateEvent(body)
    PROVE  DatesInv'
<1>1. EventBody(body)
  BY EventBodiesAre DEF DatesInv
<1>2. CASE SaveEvent(body)
  <2>1. object' = {Apply(event, EventPatchForUpdate(event, body)) : event \in object}
        /\ config' = config /\ kind' = kind /\ kind = "event"
    BY <1>2 DEF SaveEvent
  <2>2. \A event \in object :
           LET saved == Apply(event, EventPatchForUpdate(event, body))
           IN  saved \in EventRecords /\ (saved.rrule \/ saved.exdates = {})
    BY <1>1, <2>1, EventPatchesAre, EventApplied, ExclusionsGo DEF DatesInv
  <2>3. QED
    BY <2>1, <2>2 DEF DatesInv, AtMostOne
<1>3. CASE CreateEvent(body)
  <2>1. object' = {Apply(NoEvent, EventPatchForCreate(body))}
        /\ config' = config /\ kind' = kind /\ kind = "event"
    BY <1>3 DEF CreateEvent
  <2>2. NoEvent \in EventRecords
    BY NoneIsAnOption DEF NoEvent, EventRecords, InstantSets
  <2>3. LET saved == Apply(NoEvent, EventPatchForCreate(body))
        IN  saved \in EventRecords /\ (saved.rrule \/ saved.exdates = {})
    BY <1>1, <2>2, EventPatchesAre, EventApplied, ExclusionsGo DEF DatesInv
  <2>4. QED
    BY <2>1, <2>3 DEF DatesInv, AtMostOne
<1>4. QED
  BY <1>2, <1>3

LEMMA DatesInvInit == Init => DatesInv
<1> SUFFICES ASSUME Init PROVE DatesInv
  OBVIOUS
<1>1. config \in Configs /\ config \in Config
  BY WriteBackAssumption DEF Init
<1>2. Option(Instants) \subseteq Options /\ Option(WeekDates) \subseteq Options
  BY WriteBackAssumption DEF Option, Options, AtMostOne
<1>3. TaskObjects \subseteq Tasks /\ \A task \in TaskObjects : config.weeks \/ task.week = {}
  BY <1>2, NoneIsAnOption DEF TaskObjects, Tasks
<1>4. EventObjects \subseteq EventRecords /\ \A event \in EventObjects : event.rrule \/ event.exdates = {}
  BY <1>2, WriteBackAssumption DEF EventObjects, EventRecords, InstantSets
<1>5. QED
  BY <1>1, <1>3, <1>4 DEF Init, DatesInv, Option, AtMostOne

LEMMA DatesInvNext == DatesInv /\ [Next]_vars => DatesInv'
<1> SUFFICES ASSUME DatesInv, [Next]_vars PROVE DatesInv'
  OBVIOUS
<1>1. ASSUME NEW body \in TaskBodies, SaveTask(body) \/ CreateTask(body) PROVE DatesInv'
  BY <1>1, TaskSaved
<1>2. ASSUME NEW body \in EventBodies, SaveEvent(body) \/ CreateEvent(body) PROVE DatesInv'
  BY <1>2, EventSaved
<1>3. CASE ReadAgain
  BY <1>3 DEF ReadAgain, DatesInv
<1>4. CASE UNCHANGED vars
  BY <1>4 DEF vars, DatesInv
<1>5. QED
  BY <1>1, <1>2, <1>3, <1>4 DEF Next

LEMMA DatesInvHolds == Spec => []DatesInv
  BY DatesInvInit, DatesInvNext, PTL DEF Spec

\* The fields of the object keep their types through every save and read
\* (events.rs and writeback.rs, the patches).
THEOREM TypesHold == Spec => []TypeOK
<1>1. DatesInv => TypeOK
  BY DEF DatesInv, TypeOK, Tasks, EventRecords, Options, InstantSets
<1>2. QED
  BY <1>1, DatesInvHolds, PTL

\* A VTODO that comes back as it was served writes no date (writeback.rs, `for_update`).
THEOREM UnchangedTasksAreLeftAlone == Spec => []UnchangedTaskIsLeftAlone
<1>1. DatesInv => UnchangedTaskIsLeftAlone
  BY TaskComesBack DEF DatesInv, UnchangedTaskIsLeftAlone, NoTaskPatch
<1>2. QED
  BY <1>1, DatesInvHolds, PTL

\* DUE has the value type of DTSTART and is later (render.rs, `schedule`).
THEOREM ShownPairsAreOrdered == Spec => []ShownPairIsOrdered
<1>1. ASSUME config \in Config, NEW task \in Tasks,
             NEW start \in Wire(task).start, NEW due \in Wire(task).due
      PROVE  start.kind = due.kind /\ (start.n < due.n \/ ~NoneRepeated({start, due}))
  <2>1. Wire(task) # Nothing
    BY DEF Nothing
  <2>2. \A date, origin : Wire(task) # Due(date, origin)
    BY DEF Due
  <2>3. PICK from, to : Wire(task) = Both(from, to) /\ IsPair(from, to)
    BY <1>1, <2>1, <2>2, WireIs DEF Shown
  <2>4. start = from /\ due = to
    BY <2>3 DEF Both
  <2>5. QED
    BY <2>3, <2>4 DEF IsPair
<1>2. DatesInv => ShownPairIsOrdered
  BY <1>1 DEF DatesInv, ShownPairIsOrdered
<1>3. QED
  BY <1>2, DatesInvHolds, PTL

-----------------------------------------------------------------------------
(* What an event is shown with *)

LEMMA OnlyPass ==
    ASSUME config \in Config, NEW at \in Int, ~Repeated(at)
    PROVE  IsFirstPass(at) /\ Earliest(DayZone, Civil(DayZone, at)) = {at}
  BY EarliestIsThere DEF Config, Repeated, ZonesUsed, IsFirstPass, DayZone

\* A moment as it is written on the wire stands for itself.
LEMMA WireMoment ==
    ASSUME config \in Config, NEW value \in Plain, NEW zoned \in BOOLEAN,
           zoned /\ value.kind = "at" => IsFirstPass(value.n)
    PROVE  Moment(WireValue(value, zoned)) = {value}
<1>1. CASE value.kind = "at" /\ zoned
  <2>1. value = At(value.n)
    BY <1>1, PlainIs
  <2>2. WireValue(value, zoned) = Local(config.timezone, Civil(config.timezone, value.n))
    BY <1>1 DEF WireValue
  <2>3. Moment(WireValue(value, zoned)) =
            {At(at) : at \in Earliest(config.timezone, Civil(config.timezone, value.n))}
    BY <2>2, Kinds DEF Moment
  <2>4. QED
    BY <1>1, <2>1, <2>3 DEF IsFirstPass
<1>2. CASE ~(value.kind = "at" /\ zoned)
  BY <1>2, MomentIs DEF WireValue
<1>3. QED
  BY <1>1, <1>2

LEMMA ValueIs ==
    ASSUME config \in Config, NEW at \in Int, NEW all_day \in BOOLEAN
    PROVE  /\ ValueAs(at, all_day) \in Plain
           /\ ValueAs(at, all_day).kind = "at" => ValueAs(at, all_day).n = at
           /\ ~all_day \/ Earliest(DayZone, Civil(DayZone, at)) = {at}
                => ToAnytype(ValueAs(at, all_day)) = {at}
<1>1. DayZone \in Zone
  BY DEF Config, DayZone
<1>2. CASE ~all_day
  BY <1>2, Kinds DEF ValueAs, Plain, ToAnytype
<1>3. CASE all_day
  <2>1. ValueAs(at, all_day) = Classify(DayZone, at)
    BY <1>3 DEF ValueAs
  <2>2. CASE Classify(DayZone, at) = At(at)
    BY <2>1, <2>2, Kinds DEF Plain, ToAnytype
  <2>3. CASE /\ Civil(DayZone, at) = Midnight(DayOf(Civil(DayZone, at)))
             /\ Classify(DayZone, at) = Day(DayOf(Civil(DayZone, at)))
    <3>1. ValueAs(at, all_day) \in Plain
      BY <1>1, <2>1, ClassifyIs
    <3>2. ToAnytype(Classify(DayZone, at)) = Earliest(DayZone, Civil(DayZone, at))
      BY <2>3, Kinds DEF ToAnytype, DayZone
    <3>3. QED
      BY <1>3, <2>1, <2>3, <3>1, <3>2, Kinds
  <2>4. QED
    BY <1>1, <2>2, <2>3, ClassifyIs
<1>4. QED
  BY <1>2, <1>3

DayAfter(value) == IF value.kind = "day" THEN Day(value.n + 1) ELSE value

Values(event, instants) == {ValueAs(at, IsAllDay(event)) : at \in instants}
ShownStart(event) == Values(event, event.start)
ShownLast(event) == IF IsAllDay(event) /\ event.end = {} THEN ShownStart(event)
                                                         ELSE Values(event, event.end)
ShownEnd(event) == IF event.start = {} THEN {} ELSE {DayAfter(value) : value \in ShownLast(event)}

Ends(value, zoned) == IF value.kind = "day" THEN Day(value.n + 1) ELSE WireValue(value, zoned)

LEMMA ZonedDatesAre ==
    ASSUME NEW event, NEW zoned
    PROVE  /\ ZonedDates(event, zoned).start = {WireValue(value, zoned) : value \in ShownStart(event)}
           /\ ZonedDates(event, zoned).end =
                {Ends(value, zoned) : value \in IF event.start = {} THEN {} ELSE ShownLast(event)}
<1>1. ShownStart(event) = {} <=> event.start = {}
  BY DEF ShownStart, Values
<1>2. QED
  BY <1>1 DEF ZonedDates, ShownStart, ShownLast, Values, Ends

LEMMA AllDayIsBoolean == \A event : IsAllDay(event) \in BOOLEAN
  BY DEF IsAllDay

LEMMA ValuesAre ==
    ASSUME config \in Config, NEW event, NEW instants \in SUBSET Int
    PROVE  /\ Values(event, instants) \subseteq Plain
           /\ \A value \in Values(event, instants) : value.kind = "at" => value.n \in instants
  BY ValueIs, AllDayIsBoolean DEF Values

\* With the times on a clock or in UTC, a client is shown the same moments.
LEMMA MomentsOfValues ==
    ASSUME config \in Config, NEW event \in EventRecords, NEW zoned \in BOOLEAN,
           zoned => \A value \in ShownStart(event) \cup ShownLast(event) :
                        value.kind = "at" => IsFirstPass(value.n)
    PROVE  /\ EventMoments(ZonedDates(event, zoned).start) = ShownStart(event)
           /\ EventMoments(ZonedDates(event, zoned).end) = ShownEnd(event)
<1>1. event.start \in SUBSET Int /\ event.end \in SUBSET Int
  BY DEF EventRecords, Options
<1>2. ShownStart(event) \subseteq Plain
  BY <1>1, ValuesAre DEF ShownStart
<1>3. ShownLast(event) \subseteq Plain
  BY <1>1, <1>2, ValuesAre DEF ShownLast
<1>4. \A value \in ShownStart(event) : Moment(WireValue(value, zoned)) = {value}
  BY <1>2, WireMoment
<1>5. \A value \in ShownLast(event) : Moment(Ends(value, zoned)) = {DayAfter(value)}
  <2>1. TAKE value \in ShownLast(event)
  <2>2. CASE value.kind = "day"
    <3>1. Day(value.n + 1) \in Plain
      BY <1>3, PlainIs DEF Plain
    <3>2. QED
      BY <2>2, <3>1, MomentIs DEF Ends, DayAfter
  <2>3. CASE value.kind # "day"
    BY <1>3, <2>3, WireMoment DEF Ends, DayAfter
  <2>4. QED
    BY <2>2, <2>3
<1>6. EventMoments(ZonedDates(event, zoned).start) = ShownStart(event)
  BY <1>4, ZonedDatesAre DEF EventMoments
<1>7. EventMoments(ZonedDates(event, zoned).end) = ShownEnd(event)
  <2>1. CASE event.start = {}
    BY <2>1, ZonedDatesAre DEF EventMoments, ShownEnd
  <2>2. CASE event.start # {}
    BY <1>5, <2>2, ZonedDatesAre DEF EventMoments, ShownEnd
  <2>3. QED
    BY <2>1, <2>2
<1>8. QED
  BY <1>6, <1>7

LEMMA ZonedMoments ==
    ASSUME config \in Config, NEW event \in EventRecords, NEW zoned \in BOOLEAN,
           zoned => \A at \in event.start \cup event.end : IsFirstPass(at)
    PROVE  /\ EventMoments(ZonedDates(event, zoned).start) = ShownStart(event)
           /\ EventMoments(ZonedDates(event, zoned).end) = ShownEnd(event)
<1>1. event.start \in SUBSET Int /\ event.end \in SUBSET Int
  BY DEF EventRecords, Options
<1>2. \A value \in ShownStart(event) : value.kind = "at" => value.n \in event.start
  BY <1>1, ValuesAre DEF ShownStart
<1>3. \A value \in ShownLast(event) : value.kind = "at" => value.n \in event.start \cup event.end
  BY <1>1, <1>2, ValuesAre DEF ShownLast
<1>4. zoned => \A value \in ShownStart(event) \cup ShownLast(event) :
                  value.kind = "at" => IsFirstPass(value.n)
  BY <1>2, <1>3
<1>5. QED
  BY <1>4, MomentsOfValues

ServedExdates(event) == {WireValue(value, TRUE) : value \in Values(event, event.exdates)}

LEMMA ServedExdatesAre ==
    ASSUME NEW event
    PROVE  ServedEvent(event).exdates = IF event.rrule THEN ServedExdates(event) ELSE {}
  BY DEF ServedEvent, ServedExdates, Values

LEMMA MomentsOfExdates ==
    ASSUME config \in Config, NEW event \in EventRecords,
           \A value \in Values(event, event.exdates) : value.kind = "at" => IsFirstPass(value.n)
    PROVE  EventMoments(ServedExdates(event)) = Values(event, event.exdates)
<1>1. Values(event, event.exdates) \subseteq Plain
  BY ValuesAre DEF EventRecords, InstantSets
<1> DEFINE Wired(value) == WireValue(value, TRUE)
           values == Values(event, event.exdates)
<1>2. \A value \in values : Moment(Wired(value)) = {value}
  BY <1>1, WireMoment
<1>3. EventMoments(ServedExdates(event)) = UNION {Moment(date) : date \in {Wired(value) : value \in values}}
  BY DEF EventMoments, ServedExdates
<1> HIDE DEF Wired, values
<1>4. QED
  BY <1>2, <1>3 DEF values

LEMMA ExdateMoments ==
    ASSUME config \in Config, NEW event \in EventRecords,
           \A at \in event.exdates : IsFirstPass(at)
    PROVE  EventMoments(ServedExdates(event)) = Values(event, event.exdates)
<1>1. \A value \in Values(event, event.exdates) : value.kind = "at" => value.n \in event.exdates
  BY ValuesAre DEF EventRecords, InstantSets
<1>2. QED
  BY <1>1, MomentsOfExdates

\* Instants that were shown and come back are the instants they were.
LEMMA ValuesStored ==
    ASSUME config \in Config, NEW event, NEW instants \in SUBSET Int,
           \A at \in instants : ~IsAllDay(event) \/ Earliest(DayZone, Civil(DayZone, at)) = {at}
    PROVE  UNION {ToAnytype(value) : value \in Values(event, instants)} = instants
<1>1. \A at \in instants : ToAnytype(ValueAs(at, IsAllDay(event))) = {at}
  BY ValueIs, AllDayIsBoolean
<1> DEFINE Value(at) == ValueAs(at, IsAllDay(event))
<1>2. Values(event, instants) = {Value(at) : at \in instants}
  BY DEF Values
<1> HIDE DEF Value
<1>3. \A at \in instants : ToAnytype(Value(at)) = {at}
  BY <1>1 DEF Value
<1> DEFINE stored == UNION {ToAnytype(value) : value \in {Value(at) : at \in instants}}
<1>4. stored = instants
  <2>1. \A at \in instants : at \in stored
    BY <1>3
  <2>2. \A at \in stored : at \in instants
    BY <1>3
  <2> HIDE DEF stored
  <2>3. QED
    BY <2>1, <2>2
<1>5. QED
  BY <1>2, <1>4

NoEventPatch == [start |-> Keep, end |-> Keep, rrule |-> Keep, exdates |-> Keep]

LEMMA EventComesBack ==
    ASSUME config \in Config, NEW event \in EventRecords, event.rrule \/ event.exdates = {},
           \A at \in event.start \cup event.end \cup event.exdates : ~Repeated(at)
    PROVE  EventPatchForUpdate(event, ServedEvent(event)) = NoEventPatch
<1> DEFINE body == ServedEvent(event)
           shown == WireDates(event)
<1>1. \A at \in event.start \cup event.end \cup event.exdates :
         at \in Int /\ IsFirstPass(at) /\ Earliest(DayZone, Civil(DayZone, at)) = {at}
  BY OnlyPass DEF EventRecords, Options, InstantSets
<1>2. /\ body.start = ZonedDates(event, event.rrule).start
      /\ body.end = ZonedDates(event, event.rrule).end
      /\ body.rrule = event.rrule
  BY DEF ServedEvent
<1>3. /\ EventMoments(body.start) = EventMoments(shown.start)
      /\ EventMoments(body.end) = EventMoments(shown.end)
  <2>1. event.rrule \in BOOLEAN
    BY DEF EventRecords
  <2>2. QED
    BY <1>1, <1>2, <2>1, ZonedMoments DEF WireDates
<1>4. InstantsOf(body.exdates) = event.exdates
  <2>1. CASE event.rrule
    <3>1. EventMoments(body.exdates) = Values(event, event.exdates)
      BY <1>1, <2>1, ExdateMoments, ServedExdatesAre
    <3>2. UNION {ToAnytype(value) : value \in Values(event, event.exdates)} = event.exdates
      BY <1>1, ValuesStored
    <3>3. QED
      BY <3>1, <3>2 DEF InstantsOf, AnytypeDates
  <2>2. CASE ~event.rrule
    BY <2>2, ServedExdatesAre DEF InstantsOf, AnytypeDates, EventMoments
  <2>3. QED
    BY <2>1, <2>2
<1> HIDE DEF body, shown
<1>5. QED
  BY <1>2, <1>3, <1>4 DEF EventPatchForUpdate, ExdatesPatch, NoEventPatch, body, shown

LEMMA DaysLater ==
    \A civil, k \in Int : /\ civil + k * SlotsPerDay \in Int
                          /\ DayOf(civil + k * SlotsPerDay) = DayOf(civil) + k
                          /\ Midnight(DayOf(civil) + k) = Midnight(DayOf(civil)) + k * SlotsPerDay
  BY ClockAssumption DEF DayOf, Midnight

\* The entry of a deadline that comes back moves no deadline.
LEMMA DeadlineComesBack ==
    ASSUME config \in Config, NEW event \in EventRecords, ~event.rrule,
           NEW deadline \in Int, ~Repeated(deadline)
    PROVE  DeadlineFrom(ServedEvent(DeadlineEntry(event, {deadline}))) = {deadline}
<1> DEFINE entry == DeadlineEntry(event, {deadline})
<1>1. entry = [start |-> {deadline}, end |-> {}, rrule |-> FALSE, exdates |-> {}]
  BY DEF DeadlineEntry
<1> HIDE DEF entry
<1>2. entry \in EventRecords
  <2>1. {deadline} \in Options /\ {} \in InstantSets
    BY DEF Options, AtMostOne, InstantSets
  <2>2. QED
    BY <1>1, <2>1, NoneIsAnOption DEF EventRecords
<1>3. EventMoments(ServedEvent(entry).start) = Values(entry, {deadline})
  <2>1. ServedEvent(entry).start = ZonedDates(entry, FALSE).start
    BY <1>1 DEF ServedEvent
  <2>2. QED
    BY <1>1, <1>2, <2>1, ZonedMoments DEF ShownStart
<1>4. UNION {ToAnytype(value) : value \in Values(entry, {deadline})} = {deadline}
  BY OnlyPass, ValuesStored
<1>5. QED
  BY <1>3, <1>4 DEF DeadlineFrom, AnytypeDates, entry

\* A VEVENT that comes back as it was served writes nothing, and the entry of its
\* deadline moves no deadline (events.rs, the patch of an event).
THEOREM UnchangedEventsAreLeftAlone == Spec => []UnchangedEventIsLeftAlone
<1>1. ASSUME DatesInv, kind = "event", NEW event \in object, event.start # {},
             \A at \in event.start \cup event.end \cup event.exdates : ~Repeated(at)
      PROVE  /\ EventPatchForUpdate(event, ServedEvent(event)) = NoEventPatch
             /\ \A deadline \in event.end : ~event.rrule =>
                   DeadlineFrom(ServedEvent(DeadlineEntry(event, {deadline}))) = {deadline}
  <2>1. config \in Config /\ event \in EventRecords /\ (event.rrule \/ event.exdates = {})
    BY <1>1 DEF DatesInv
  <2>2. \A deadline \in event.end : deadline \in Int
    BY <2>1 DEF EventRecords, Options
  <2>3. EventPatchForUpdate(event, ServedEvent(event)) = NoEventPatch
    BY <1>1, <2>1, EventComesBack
  <2>4. QED
    BY <1>1, <2>1, <2>2, <2>3, DeadlineComesBack
<1>2. DatesInv => UnchangedEventIsLeftAlone
  BY <1>1 DEF UnchangedEventIsLeftAlone, NoEventPatch
<1>3. QED
  BY <1>2, DatesInvHolds, PTL

-----------------------------------------------------------------------------
(* A series, expanded *)

\* The occurrence `k` days after the first, and all of them.
Nth(first, k) == Earliest(config.timezone, Civil(config.timezone, first) + k * SlotsPerDay)
Expansion(first) == UNION {Nth(first, k) : k \in 0 .. Horizon}

LEMMA NthIs ==
    ASSUME config \in Config, NEW first \in Int, NEW k \in 0 .. Horizon
    PROVE  /\ Nth(first, k) \subseteq Int /\ AtMostOne(Nth(first, k))
           /\ \A at \in Nth(first, k) :
                 /\ Civil(config.timezone, at) = Civil(config.timezone, first) + k * SlotsPerDay
                 /\ DayOf(Civil(config.timezone, at)) = DayOf(Civil(config.timezone, first)) + k
<1>1. config.timezone \in Zone /\ k \in Int
  BY HorizonAssumption DEF Config
<1>2. Civil(config.timezone, first) \in Int
  BY <1>1, CivilIs
<1>3. /\ Civil(config.timezone, first) + k * SlotsPerDay \in Int
      /\ DayOf(Civil(config.timezone, first) + k * SlotsPerDay) =
            DayOf(Civil(config.timezone, first)) + k
  BY <1>1, <1>2, DaysLater
<1>4. QED
  BY <1>1, <1>3, EarliestIs DEF Nth

LEMMA OccurrencesAre ==
    ASSUME NEW event, event.rrule
    PROVE  /\ \A first : event.start = {first} =>
                 OccurrencesBetween(event, config.timezone, {}) = Expansion(first) \ event.exdates
           /\ event.start = {} => OccurrencesBetween(event, config.timezone, {}) = {}
<1>1. ASSUME NEW first, event.start = {first}
      PROVE  OccurrencesBetween(event, config.timezone, {}) = Expansion(first) \ event.exdates
  <2> DEFINE zone == config.timezone
             From(start) ==
                UNION {Earliest(zone, Civil(zone, start) + k * SlotsPerDay) : k \in 0 .. Horizon}
  <2>1. OccurrencesBetween(event, zone, {}) =
            (UNION {From(start) : start \in event.start}) \ (event.exdates \cup {})
    BY DEF OccurrencesBetween
  <2>2. From(first) = Expansion(first)
    BY DEF Expansion, Nth
  <2> HIDE DEF From
  <2> DEFINE all == UNION {From(start) : start \in event.start}
             out == event.exdates \cup {}
  <2>3. all = Expansion(first)
    BY <1>1, <2>2
  <2>4. out = event.exdates
    OBVIOUS
  <2>5. OccurrencesBetween(event, zone, {}) = all \ out
    BY <2>1
  <2> HIDE DEF all, out
  <2>6. QED
    BY <2>3, <2>4, <2>5
<1>2. ASSUME event.start = {}
      PROVE  OccurrencesBetween(event, config.timezone, {}) = {}
  BY <1>2 DEF OccurrencesBetween
<1>3. QED
  BY <1>1, <1>2

OccurrenceAt(at) == [at |-> at, day |-> DayOf(Civil(config.timezone, at))]

LEMMA UpcomingIs ==
    ASSUME config \in Config, NEW event \in EventRecords, NEW first, event.start = {first},
           Upcoming(event, config.timezone) # {}
    PROVE  /\ event.rrule
           /\ Upcoming(event, config.timezone) = {OccurrenceAt(at) : at \in Expansion(first)}
<1> DEFINE zone == config.timezone
           Civils(start) == {Civil(zone, start) + k * SlotsPerDay : k \in 0 .. Horizon}
           Readable(start) == \/ Classify(zone, start).kind = "at"
                              \/ \A civil \in Civils(start) : Earliest(zone, civil) # {}
           starts == {s \in event.start : event.rrule /\ Readable(s)}
<1>1. Upcoming(event, zone) =
        {OccurrenceAt(at) :
            at \in UNION {UNION {Earliest(zone, civil) : civil \in Civils(start)} : start \in starts}}
  BY DEF Upcoming, OccurrenceAt
<1>2. starts = {first} /\ event.rrule
  <2> HIDE DEF Readable
  <2>1. starts # {}
    BY <1>1
  <2>2. QED
    BY <2>1
<1>3. UNION {Earliest(zone, civil) : civil \in Civils(first)} = Expansion(first)
  BY DEF Expansion, Nth
<1> HIDE DEF starts, Civils
<1>4. UNION {UNION {Earliest(zone, civil) : civil \in Civils(start)} : start \in starts} = Expansion(first)
  BY <1>2, <1>3
<1>5. QED
  BY <1>1, <1>2, <1>4

\* One day has one occurrence at most.
LEMMA OccurrenceOfDay ==
    ASSUME config \in Config, NEW first \in Int,
           NEW one \in Expansion(first), NEW other \in Expansion(first),
           DayOf(Civil(config.timezone, one)) = DayOf(Civil(config.timezone, other))
    PROVE  one = other
<1>1. PICK j \in 0 .. Horizon : one \in Nth(first, j)
  BY DEF Expansion
<1>2. PICK k \in 0 .. Horizon : other \in Nth(first, k)
  BY DEF Expansion
<1>3. DayOf(Civil(config.timezone, first)) \in Int
  BY CivilIs, DaysAndTimes DEF Config
<1>4. j = k
  BY <1>1, <1>2, <1>3, NthIs, HorizonAssumption
<1>5. QED
  BY <1>1, <1>2, <1>4, NthIs DEF AtMostOne

\* The generator makes the meetings that a calendar shows: leaving out a day of an
\* occurrence leaves out that occurrence (series.rs, `plan_until`; events.rs).
THEOREM MeetingsAsShown == Spec => []MeetingsAreShown
<1>1. ASSUME DatesInv, kind = "event", NEW event \in object,
             event.exdates \subseteq {one.at : one \in Upcoming(event, config.timezone)},
             Upcoming(event, config.timezone) # {}
      PROVE  PlanUntil(event, config.timezone) = OccurrencesBetween(event, config.timezone, {})
  <2>1. config \in Config /\ event \in EventRecords
    BY <1>1 DEF DatesInv
  <2>2. event.start # {}
    BY <1>1 DEF Upcoming
  <2>3. PICK first \in Int : event.start = {first}
    BY <2>1, <2>2 DEF EventRecords, Options, AtMostOne
  <2>4. /\ event.rrule
        /\ Upcoming(event, config.timezone) = {OccurrenceAt(at) : at \in Expansion(first)}
    BY <1>1, <2>1, <2>3, UpcomingIs
  <2>5. \A at : OccurrenceAt(at).at = at /\ OccurrenceAt(at).day = DayOf(Civil(config.timezone, at))
    BY DEF OccurrenceAt
  <2>6. {one.at : one \in Upcoming(event, config.timezone)} = Expansion(first)
    BY <2>4, <2>5
  <2>7. ASSUME NEW at \in Expansion(first)
        PROVE  Excludes(event, config.timezone, DayOf(Civil(config.timezone, at)))
                  <=> at \in event.exdates
    BY <1>1, <2>1, <2>6, OccurrenceOfDay DEF Excludes
  <2> DEFINE plan == PlanUntil(event, config.timezone)
  <2>8. \A at \in plan : at \in Expansion(first) \ event.exdates
    BY <2>4, <2>5, <2>7 DEF PlanUntil
  <2>9. \A at \in Expansion(first) \ event.exdates : at \in plan
    BY <2>4, <2>5, <2>7 DEF PlanUntil
  <2>10. OccurrencesBetween(event, config.timezone, {}) = Expansion(first) \ event.exdates
    BY <2>3, <2>4, OccurrencesAre
  <2> HIDE DEF plan
  <2>11. plan = Expansion(first) \ event.exdates
    BY <2>8, <2>9
  <2>12. QED
    BY <2>10, <2>11 DEF plan
<1>2. DatesInv => MeetingsAreShown
  BY <1>1 DEF MeetingsAreShown
<1>3. QED
  BY <1>2, DatesInvHolds, PTL

\* What a client shows `k` days after a date.
ClientShows(date, k) ==
    IF date.kind = "day" THEN {Day(date.n + k)}
    ELSE IF date.kind = "local" THEN Moment(Local(date.zone, date.n + k * SlotsPerDay))
    ELSE {[date EXCEPT !.n = @ + k * SlotsPerDay]}

LEMMA ClientExpandsIs ==
    ASSUME NEW body
    PROVE  ClientExpands(body) =
              (UNION {ClientShows(date, k) : date \in body.start, k \in 0 .. Horizon})
                  \ EventMoments(body.exdates)
  BY DEF ClientExpands, ClientShows

\* The dates of a series: its times by the wall clock, its days as days.
LEMMA SeriesShown ==
    ASSUME config \in Config, NEW event \in EventRecords, event.rrule,
           NEW first \in Int, event.start = {first}
    PROVE  /\ ~IsAllDay(event) =>
                ServedEvent(event).start =
                    {Local(config.timezone, Civil(config.timezone, first))}
           /\ IsAllDay(event) =>
                /\ Civil(DayZone, first) = Midnight(DayOf(Civil(DayZone, first)))
                /\ ServedEvent(event).start = {Day(DayOf(Civil(DayZone, first)))}
<1> DEFINE value == ValueAs(first, IsAllDay(event))
<1>1. ServedEvent(event).start = {WireValue(value, TRUE)}
  <2>1. ServedEvent(event).start = ZonedDates(event, TRUE).start
    BY DEF ServedEvent
  <2>2. ShownStart(event) = {value}
    BY DEF ShownStart, Values
  <2> DEFINE Wired(v) == WireValue(v, TRUE)
  <2>3. ZonedDates(event, TRUE).start = {Wired(v) : v \in ShownStart(event)}
    BY ZonedDatesAre
  <2> HIDE DEF value, Wired
  <2>4. ServedEvent(event).start = {Wired(value)}
    BY <2>1, <2>2, <2>3
  <2>5. QED
    BY <2>4 DEF Wired
<1>2. ASSUME ~IsAllDay(event)
      PROVE  WireValue(value, TRUE) = Local(config.timezone, Civil(config.timezone, first))
  BY <1>2, Kinds DEF ValueAs, WireValue
<1>3. ASSUME IsAllDay(event)
      PROVE  /\ Civil(DayZone, first) = Midnight(DayOf(Civil(DayZone, first)))
             /\ WireValue(value, TRUE) = Day(DayOf(Civil(DayZone, first)))
  <2>1. Classify(DayZone, first).kind = "day" /\ value = Classify(DayZone, first)
    BY <1>3 DEF IsAllDay, ValueAs
  <2>2. DayZone \in Zone
    BY DEF Config, DayZone
  <2>3. QED
    BY <2>1, <2>2, ClassifyIs, Kinds DEF WireValue
<1> HIDE DEF value
<1>4. QED
  BY <1>1, <1>2, <1>3

LEMMA RemindedTimes ==
    ASSUME config \in Config, NEW event \in EventRecords, event.rrule, ~IsAllDay(event),
           NEW first \in Int, event.start = {first}, \A at \in event.exdates : IsFirstPass(at)
    PROVE  Expansion(first) \ event.exdates =
              UNION {ToAnytype(moment) : moment \in ClientExpands(ServedEvent(event))}
<1> DEFINE date == Local(config.timezone, Civil(config.timezone, first))
           shown == ClientExpands(ServedEvent(event))
<1>1. \A k : ClientShows(date, k) = {At(at) : at \in Nth(first, k)}
  BY Kinds DEF ClientShows, Moment, Nth
<1>2. EventMoments(ServedEvent(event).exdates) = {At(at) : at \in event.exdates}
  <2>1. ServedEvent(event).exdates = ServedExdates(event)
    BY ServedExdatesAre
  <2>2. Values(event, event.exdates) = {At(at) : at \in event.exdates}
    BY DEF Values, ValueAs
  <2>3. QED
    BY <2>1, <2>2, ExdateMoments
<1> HIDE DEF date
<1>3. ServedEvent(event).start = {date}
  BY SeriesShown DEF date
<1>4. \A moment \in shown : \E at \in Expansion(first) \ event.exdates : moment = At(at)
  BY <1>1, <1>2, <1>3, ClientExpandsIs DEF Expansion
<1>5. \A at \in Expansion(first) \ event.exdates : At(at) \in shown
  <2>1. TAKE at \in Expansion(first) \ event.exdates
  <2>2. At(at) \notin EventMoments(ServedEvent(event).exdates)
    BY <1>2, Kinds
  <2>3. PICK k \in 0 .. Horizon : at \in Nth(first, k)
    BY DEF Expansion
  <2>4. At(at) \in ClientShows(date, k)
    BY <1>1, <2>3
  <2>5. QED
    BY <1>3, <2>2, <2>4, ClientExpandsIs
<1>6. \A at : ToAnytype(At(at)) = {at}
  BY Kinds DEF ToAnytype
<1> HIDE DEF shown
<1>7. QED
  BY <1>4, <1>5, <1>6 DEF shown

LEMMA RemindedDays ==
    ASSUME config \in Config, NEW event \in EventRecords, event.rrule, IsAllDay(event),
           config.timezone = config.date_only_timezone,
           NEW first \in Int, event.start = {first}, \A at \in event.exdates : IsFirstPass(at)
    PROVE  Expansion(first) \ event.exdates =
              UNION {ToAnytype(moment) : moment \in ClientExpands(ServedEvent(event))}
<1> DEFINE day == DayOf(Civil(DayZone, first))
           shown == ClientExpands(ServedEvent(event))
           out == EventMoments(ServedEvent(event).exdates)
<1>1. DayZone = config.timezone /\ DayZone \in Zone
  BY DEF DayZone, Config
<1>2. day \in Int
  BY <1>1, CivilIs, DaysAndTimes
<1>3. \A k \in 0 .. Horizon : Nth(first, k) = ToAnytype(Day(day + k))
  <2>1. TAKE k \in 0 .. Horizon
  <2>2. k \in Int
    BY HorizonAssumption
  <2>3. Civil(DayZone, first) + k * SlotsPerDay = Midnight(day + k)
    BY <1>1, <2>2, CivilIs, DaysLater, SeriesShown
  <2>4. QED
    BY <1>1, <2>3, Kinds DEF Nth, ToAnytype, DayZone
<1>4. ServedEvent(event).start = {Day(day)}
  BY SeriesShown
<1>5. out = {Classify(DayZone, at) : at \in event.exdates}
  <2>1. ServedEvent(event).exdates = ServedExdates(event)
    BY ServedExdatesAre
  <2>2. Values(event, event.exdates) = {Classify(DayZone, at) : at \in event.exdates}
    BY DEF Values, ValueAs
  <2>3. QED
    BY <2>1, <2>2, ExdateMoments
<1>6. ASSUME NEW k \in 0 .. Horizon, NEW at \in Nth(first, k)
      PROVE  Day(day + k) \in out <=> at \in event.exdates
  <2>1. k \in Int /\ day + k \in Int
    BY <1>2, HorizonAssumption
  <2>2. at \in Int /\ Civil(DayZone, at) = Midnight(day + k)
    <3>1. Civil(DayZone, first) + k * SlotsPerDay = Midnight(day + k)
      BY <1>1, <2>1, CivilIs, DaysLater, SeriesShown
    <3>2. QED
      BY <1>1, <3>1, NthIs
  <2>3. Classify(DayZone, at) = Day(day + k)
    BY <2>1, <2>2, MidnightsOfDays DEF Classify
  <2>4. ASSUME NEW other \in event.exdates, Classify(DayZone, other) = Day(day + k)
        PROVE  other = at
    <3>1. other \in Int
      BY DEF EventRecords, InstantSets
    <3>2. Civil(DayZone, other) = Midnight(day + k)
      BY <1>1, <2>4, <3>1, ClassifyIs, Kinds
    <3>3. Earliest(DayZone, Midnight(day + k)) = {other}
      BY <1>1, <3>2 DEF IsFirstPass
    <3>4. Nth(first, k) = {other}
      BY <1>3, <3>3, Kinds DEF ToAnytype, DayZone
    <3>5. QED
      BY <3>4
  <2>5. QED
    BY <1>5, <2>3, <2>4
<1>7. \A k \in 0 .. Horizon : ClientShows(Day(day), k) = {Day(day + k)}
  BY Kinds DEF ClientShows
<1> HIDE DEF day, out
<1>8. shown = {Day(day + k) : k \in 0 .. Horizon} \ out
  BY <1>4, <1>7, ClientExpandsIs DEF out
<1> HIDE DEF shown
<1> DEFINE stored == UNION {ToAnytype(moment) : moment \in shown}
<1>9. \A at \in Expansion(first) \ event.exdates : at \in stored
  BY <1>3, <1>6, <1>8 DEF Expansion
<1>10. \A at \in stored : at \in Expansion(first) \ event.exdates
  BY <1>3, <1>6, <1>8 DEF Expansion
<1> HIDE DEF stored
<1>11. stored = Expansion(first) \ event.exdates
  BY <1>9, <1>10
<1>12. QED
  BY <1>11 DEF stored, shown

\* What is reminded of is what a client shows (scheduler.rs and events.rs): the two expand
\* a series on their own.
THEOREM RemindersAsShown == Spec => []RemindedIsShown
<1>1. ASSUME DatesInv, kind = "event", NEW event \in object, event.rrule,
             ~IsAllDay(event) \/ config.timezone = config.date_only_timezone,
             \A at \in event.exdates : IsFirstPass(at)
      PROVE  OccurrencesBetween(event, config.timezone, {}) =
                UNION {ToAnytype(moment) : moment \in ClientExpands(ServedEvent(event))}
  <2>1. config \in Config /\ event \in EventRecords
    BY <1>1 DEF DatesInv
  <2>2. CASE event.start = {}
    <3>1. OccurrencesBetween(event, config.timezone, {}) = {}
      BY <1>1, <2>2, OccurrencesAre
    <3>2. ServedEvent(event).start = {}
      BY <2>2, ZonedDatesAre DEF ServedEvent, ShownStart, Values
    <3>3. ClientExpands(ServedEvent(event)) = {}
      BY <3>2, ClientExpandsIs
    <3>4. QED
      BY <3>1, <3>3
  <2>3. CASE event.start # {}
    <3>1. PICK first \in Int : event.start = {first}
      BY <2>1, <2>3 DEF EventRecords, Options, AtMostOne
    <3>2. OccurrencesBetween(event, config.timezone, {}) = Expansion(first) \ event.exdates
      BY <1>1, <3>1, OccurrencesAre
    <3>3. QED
      BY <1>1, <2>1, <3>1, <3>2, RemindedTimes, RemindedDays
  <2>4. QED
    BY <2>2, <2>3
<1>2. DatesInv => RemindedIsShown
  BY <1>1 DEF RemindedIsShown
<1>3. QED
  BY <1>2, DatesInvHolds, PTL

-----------------------------------------------------------------------------
(* A task, saved *)

\* A step after which a body of a task has been saved, on a task that was there.
LEMMA SavedTaskIs ==
    ASSUME DatesInv, [Next]_vars, vars' # vars, kind = "task", object # {}, sent' # {}
    PROVE  /\ object = {The(object)} /\ The(object) \in Tasks
           /\ \E body \in TaskBodies :
                /\ The(sent') = body
                /\ ForUpdate(The(object), body) \in TaskPatches
                /\ The(object') = Apply(The(object), ForUpdate(The(object), body))
<1>1. object = {The(object)} /\ The(object) \in Tasks
  BY OneOf DEF DatesInv
<1>2. PICK body \in TaskBodies : SaveTask(body)
  BY DEF Next, CreateTask, SaveEvent, CreateEvent, ReadAgain
<1>3. sent' = {body} /\ object' = {Apply(task, ForUpdate(task, body)) : task \in object}
  BY <1>2 DEF SaveTask
<1>4. object' = {Apply(The(object), ForUpdate(The(object), body))}
  BY <1>1, <1>3
<1>5. The(sent') = body /\ The(object') = Apply(The(object), ForUpdate(The(object), body))
  BY <1>3, <1>4, TheOne
<1>6. ForUpdate(The(object), body) \in TaskPatches
  BY <1>1, TaskPatchesAre DEF DatesInv
<1>7. QED
  BY <1>1, <1>5, <1>6

\* Without a start in the body and a week on the task, the dates are compared.
LEMMA OnlyADueIsSent ==
    ASSUME NEW task \in Tasks, NEW body, SentStart(body) = {}, WeekDays(task) = {}
    PROVE  ForUpdate(task, body) = OnlyTheDates(task, {}, SentDue(body), Wire(task))
<1>1. SentWeek(body) = {}
  BY DEF SentWeek, WholeWeek
<1>2. QED
  BY <1>1, ForUpdateIs

LEMMA WithoutAWeek ==
    ASSUME NEW task
    PROVE  /\ task.week = {} \/ task.scheduled # {} \/ task.deadline # {} => WeekDays(task) = {}
           /\ WeekDays(task) = {} => /\ Dates(task).scheduled = Classified(task.scheduled)
                                     /\ Dates(task).deadline = Classified(task.deadline)
  BY DEF WeekDays, Dates

LEMMA OneDateShown ==
    ASSUME config \in Config, NEW task \in Tasks, WeekDays(task) = {}
    PROVE  /\ task.deadline = {} => \/ Wire(task) = Nothing
                                    \/ Wire(task) = Due(The(Classified(task.scheduled)), "scheduled")
           /\ task.deadline # {} /\ task.scheduled = {}
                => Wire(task) = Due(The(Classified(task.deadline)), "deadline")
<1>1. /\ Dates(task).scheduled = Classified(task.scheduled)
      /\ Dates(task).deadline = Classified(task.deadline)
  BY WithoutAWeek
<1>2. /\ Classified(task.scheduled) = {} <=> task.scheduled = {}
      /\ Classified(task.deadline) = {} <=> task.deadline = {}
  BY ClassifiedIs DEF Tasks
<1>3. QED
  BY <1>1, <1>2 DEF Wire

\* The only date of a task is a plan after the move if it was a plan, and a deadline
\* if it was one (render.rs and writeback.rs, the origin of DUE).
THEOREM RolesAreKept == Spec => TheOnlyDateKeepsItsRole
<1>1. ASSUME config \in Config, NEW old \in Tasks, NEW body, SentStart(body) = {}, old.week = {},
             ForUpdate(old, body) \in TaskPatches
      PROVE  LET new == Apply(old, ForUpdate(old, body))
             IN  /\ old.deadline = {} => new.deadline = {}
                 /\ old.scheduled = {} /\ old.deadline # {} => new.scheduled = {}
  <2> DEFINE patch == ForUpdate(old, body)
             new == Apply(old, patch)
  <2>1. WeekDays(old) = {}
    BY <1>1, WithoutAWeek
  <2>2. patch = OnlyTheDates(old, {}, SentDue(body), Wire(old))
    BY <1>1, <2>1, OnlyADueIsSent
  <2>3. ASSUME old.deadline = {} PROVE patch.deadline = Keep
    <3>1. Wire(old).origin \in {"scheduled", "none"}
      BY <1>1, <2>1, <2>3, OneDateShown DEF Nothing, Due
    <3>2. QED
      BY <2>2, <3>1 DEF OnlyTheDates
  <2>4. ASSUME old.scheduled = {}, old.deadline # {} PROVE patch.scheduled = Keep
    <3>1. Wire(old).origin = "deadline" /\ Wire(old).start = {}
      BY <1>1, <2>1, <2>4, OneDateShown DEF Due
    <3>2. QED
      BY <2>2, <3>1 DEF OnlyTheDates
  <2> HIDE DEF patch
  <2>5. /\ patch.deadline = Keep => new.deadline = old.deadline
        /\ patch.scheduled = Keep => new.scheduled = old.scheduled
    BY <1>1, TaskApplied DEF patch
  <2>6. QED
    BY <2>3, <2>4, <2>5 DEF patch
<1> DEFINE KeepsRole == kind = "task" /\ object # {} /\ sent' # {} =>
              LET old == The(object)
                  new == The(object')
              IN  SentStart(The(sent')) = {} /\ old.week = {} =>
                  /\ old.deadline = {} => new.deadline = {}
                  /\ old.scheduled = {} /\ old.deadline # {} => new.scheduled = {}
<1>2. DatesInv /\ [Next]_vars => [KeepsRole]_vars
  <2> SUFFICES ASSUME DatesInv, [Next]_vars, vars' # vars,
                      kind = "task", object # {}, sent' # {},
                      SentStart(The(sent')) = {}, The(object).week = {}
               PROVE  /\ The(object).deadline = {} => The(object').deadline = {}
                      /\ The(object).scheduled = {} /\ The(object).deadline # {}
                            => The(object').scheduled = {}
    OBVIOUS
  <2>1. config \in Config
    BY DEF DatesInv
  <2>2. QED
    BY <1>1, <2>1, SavedTaskIs
<1>3. QED
  BY <1>2, DatesInvHolds, PTL DEF Spec, TheOnlyDateKeepsItsRole

\* A deadline that is only described in words stays where it is when the plan is moved
\* (render.rs, `schedule`; writeback.rs).
THEOREM HiddenDeadlinesAreKept == Spec => HiddenDeadlineIsKept
<1>1. ASSUME config \in Config, NEW old \in Tasks, NEW body, SentStart(body) = {},
             ForUpdate(old, body) \in TaskPatches,
             old.deadline # {}, Classified(old.deadline) # Classified(old.scheduled),
             Wire(old).start = {}, Wire(old).due = Classified(old.scheduled)
      PROVE  Apply(old, ForUpdate(old, body)).deadline = old.deadline
  <2> DEFINE plan == Classified(old.scheduled)
             deadline == Classified(old.deadline)
             patch == ForUpdate(old, body)
  <2>1. WeekDays(old) = {} /\ Dates(old).scheduled = plan /\ Dates(old).deadline = deadline
    BY <1>1, WithoutAWeek
  <2>2. /\ plan \subseteq Plain /\ AtMostOne(plan)
        /\ deadline \subseteq Plain /\ AtMostOne(deadline) /\ deadline # {}
    BY <1>1, ClassifiedIs DEF Tasks
  <2>3. plan # {}
    BY <1>1, <2>1, <2>2 DEF Wire, Due
  <2>4. Wire(old) = Schedule(The(plan), The(deadline))
    BY <2>1, <2>2, <2>3 DEF Wire
  <2>5. /\ plan = {The(plan)} /\ The(plan) \in Plain
        /\ deadline = {The(deadline)} /\ The(deadline) \in Plain
    BY <2>2, <2>3, OneOf
  <2>6. Wire(old).origin = "scheduled"
    <3>1. CASE Wire(old) = Due(The(plan), "scheduled")
      BY <3>1 DEF Due
    <3>2. Wire(old).due # {The(deadline)}
      BY <1>1, <2>5
    <3>3. /\ Wire(old) # Due(The(deadline), "both") /\ Wire(old) # Due(The(deadline), "deadline")
          /\ \A start, due : Wire(old) # Both(start, due)
      BY <1>1, <3>2 DEF Due, Both
    <3>4. QED
      BY <1>1, <2>4, <2>5, <3>1, <3>3, ScheduleIs
  <2>7. patch.deadline = Keep
    <3>1. patch = OnlyTheDates(old, {}, SentDue(body), Wire(old))
      BY <1>1, <2>1, OnlyADueIsSent
    <3>2. QED
      BY <2>6, <3>1 DEF OnlyTheDates
  <2>8. QED
    BY <1>1, <2>7, TaskApplied
<1> DEFINE KeepsDeadline == kind = "task" /\ object # {} /\ sent' # {} =>
              LET old == The(object)
                  body == The(sent')
                  plan == Classified(old.scheduled)
              IN  /\ old.deadline # {} /\ Classified(old.deadline) # plan
                  /\ Wire(old).start = {} /\ Wire(old).due = plan
                  /\ SentStart(body) = {}
                  => The(object').deadline = old.deadline
<1>2. DatesInv /\ [Next]_vars => [KeepsDeadline]_vars
  <2> SUFFICES ASSUME DatesInv, [Next]_vars, vars' # vars,
                      kind = "task", object # {}, sent' # {}, SentStart(The(sent')) = {},
                      The(object).deadline # {},
                      Classified(The(object).deadline) # Classified(The(object).scheduled),
                      Wire(The(object)).start = {},
                      Wire(The(object)).due = Classified(The(object).scheduled)
               PROVE  The(object').deadline = The(object).deadline
    OBVIOUS
  <2>1. config \in Config
    BY DEF DatesInv
  <2>2. QED
    BY <1>1, <2>1, SavedTaskIs
<1>3. QED
  BY <1>2, DatesInvHolds, PTL DEF Spec, HiddenDeadlineIsKept

-----------------------------------------------------------------------------
(* An event, as a client sends it *)

\* A moment that Anytype can hold is read as what it was.
LEMMA HeldAsItIs ==
    ASSUME config \in Config, NEW moment \in Plain, HasMidnight(moment)
    PROVE  \E at \in Int : /\ ToAnytype(moment) = {at}
                           /\ moment.kind = "at" => moment = At(at)
                           /\ moment.kind = "day" => Classify(DayZone, at) = moment
                           /\ ~OnEdge(moment) => Classify(DayZone, at) = moment
<1>1. DayZone \in Zone
  BY DEF Config, DayZone
<1>2. CASE moment.kind = "at"
  <2>1. moment = At(moment.n) /\ moment.n \in Int /\ ToAnytype(moment) = {moment.n}
    BY <1>2, PlainIs, Kinds DEF ToAnytype
  <2>2. ~OnEdge(moment) => Civil(DayZone, moment.n) # Midnight(DayOf(Civil(DayZone, moment.n)))
    BY <1>2 DEF OnEdge, ZonesUsed, DayZone
  <2>3. ~OnEdge(moment) => Classify(DayZone, moment.n) = moment
    BY <1>1, <2>1, <2>2, ClassifyIs
  <2>4. QED
    BY <1>2, <2>1, <2>3
<1>3. CASE moment.kind = "day"
  <2>1. moment = Day(moment.n) /\ moment.n \in Int
    BY <1>3, PlainIs, Kinds
  <2>2. PICK at \in Earliest(DayZone, Midnight(moment.n)) : TRUE
    BY <1>3 DEF HasMidnight
  <2>3. at \in Int /\ Civil(DayZone, at) = Midnight(moment.n)
    BY <1>1, <2>1, <2>2, EarliestIs, MidnightsOfDays
  <2>4. ToAnytype(moment) = {at}
    <3>1. ToAnytype(moment) = Earliest(DayZone, Midnight(moment.n))
      BY <1>3 DEF ToAnytype, DayZone
    <3>2. AtMostOne(Earliest(DayZone, Midnight(moment.n)))
      BY <1>1, <2>1, EarliestIs, MidnightsOfDays
    <3>3. QED
      BY <2>2, <3>1, <3>2 DEF AtMostOne
  <2>5. Classify(DayZone, at) = moment
    BY <1>1, <2>1, <2>3, ClassifyIs, MidnightsOfDays
  <2>6. QED
    BY <1>3, <2>3, <2>4, <2>5
<1>4. QED
  BY <1>2, <1>3, PlainIs

\* A time on the clock of the configuration stands for the instant it was, unless the
\* clocks show it twice.
LEMMA SpelledMoment ==
    ASSUME config \in Config, NEW date \in Plain, NEW rrule \in BOOLEAN
    PROVE  /\ \A moment \in Moment(Spelled(date, rrule)) : moment.kind = date.kind
           /\ NoneRepeated(Moment(Spelled(date, rrule))) => Moment(Spelled(date, rrule)) = {date}
<1>1. config.timezone \in Zone
  BY DEF Config
<1>2. CASE rrule /\ date.kind = "at"
  <2> DEFINE civil == Civil(config.timezone, date.n)
             first == Earliest(config.timezone, civil)
  <2>1. date = At(date.n) /\ date.n \in Int /\ civil \in Int
    BY <1>1, <1>2, PlainIs, Kinds, CivilIs
  <2>2. Spelled(date, rrule) = Local(config.timezone, civil)
    BY <1>2 DEF Spelled
  <2>3. Moment(Spelled(date, rrule)) = {At(at) : at \in first}
    BY <2>2, Kinds DEF Moment
  <2>4. ASSUME NoneRepeated({At(at) : at \in first}) PROVE first = {date.n}
    <3>1. PICK at \in first : TRUE
      BY <1>1, <2>1, EarliestIsThere
    <3>2. at \in Int /\ Civil(config.timezone, at) = civil
      BY <1>1, <2>1, <3>1, EarliestIs
    <3>3. ~Repeated(at)
      BY <2>4, <3>1, Kinds DEF NoneRepeated
    <3>4. ~Ambiguous(config.timezone, civil)
      BY <3>2, <3>3 DEF Repeated, ZonesUsed
    <3>5. QED
      BY <1>1, <2>1, <3>4, EarliestIsThere
  <2> HIDE DEF first
  <2>5. \A moment \in {At(at) : at \in first} : moment.kind = date.kind
    BY <1>2, Kinds
  <2>6. first = {date.n} => {At(at) : at \in first} = {date}
    BY <2>1
  <2>7. QED
    BY <2>3, <2>4, <2>5, <2>6
<1>3. CASE ~(rrule /\ date.kind = "at")
  BY <1>3, MomentIs DEF Spelled
<1>4. QED
  BY <1>2, <1>3

\* The moments of a body: a start, an end later and of its kind, and exclusions of its kind.
BodyHas(body, start) ==
    /\ start \in Plain
    /\ EventMoments(body.start) = {start}
    /\ EventMoments(body.end) = {} \/ \E end \in Plain :
          EventMoments(body.end) = {end} /\ end.kind = start.kind /\ end.n > start.n
    /\ EventMoments(body.exdates) \subseteq Plain
    /\ \A moment \in EventMoments(body.exdates) : moment.kind = start.kind

LEMMA BodyMoments ==
    ASSUME config \in Config, NEW body \in EventBodies,
           NoneRepeated(EventMoments(body.start) \cup EventMoments(body.end))
    PROVE  \E start : BodyHas(body, start)
<1>1. Dated \subseteq Plain
  BY WriteBackAssumption DEF Dated, Plain
<1>2. PICK first \in Dated, rrule \in BOOLEAN : body \in BodiesFrom(first, rrule)
  <2>1. EventBodies = UNION {BodiesFrom(start, rrule) : start \in Dated, rrule \in BOOLEAN}
    BY DEF EventBodies, BodiesFrom, BodyOf, EndsFrom
  <2>2. QED
    BY <2>1
<1>3. PICK dates \in ExdateSets, last \in EndsFrom(first) : body = BodyOf(first, rrule, dates, last)
  BY <1>2 DEF BodiesFrom
<1>4. first \in Plain
  BY <1>1
<1>5. EventMoments(body.start) = {first}
  <2>1. EventMoments(body.start) = Moment(Spelled(first, rrule))
    BY <1>3 DEF BodyOf, EventMoments
  <2>2. NoneRepeated(Moment(Spelled(first, rrule)))
    BY <2>1 DEF NoneRepeated
  <2>3. QED
    BY <1>4, <2>1, <2>2, SpelledMoment
<1>6. EventMoments(body.end) = {} \/ \E end \in Plain :
          EventMoments(body.end) = {end} /\ end.kind = first.kind /\ end.n > first.n
  <2>1. CASE last = {}
    BY <1>3, <2>1 DEF BodyOf, EventMoments
  <2>2. CASE last # {}
    <3>1. PICK end \in Dated : last = {end} /\ end.kind = first.kind /\ end.n > first.n
      BY <2>2 DEF EndsFrom
    <3>2. EventMoments(body.end) = Moment(Spelled(end, rrule))
      BY <1>3, <3>1 DEF BodyOf, EventMoments
    <3>3. NoneRepeated(Moment(Spelled(end, rrule)))
      BY <3>2 DEF NoneRepeated
    <3>4. end \in Plain
      BY <1>1
    <3>5. EventMoments(body.end) = {end}
      BY <3>2, <3>3, <3>4, SpelledMoment
    <3>6. QED
      BY <3>1, <3>4, <3>5
  <2>3. QED
    BY <2>1, <2>2
<1>7. EventMoments(body.exdates) \subseteq Plain
  BY EventBodiesAre, AnytypeDatesAre DEF EventBody
<1>8. \A moment \in EventMoments(body.exdates) : moment.kind = first.kind
  <2> TAKE moment \in EventMoments(body.exdates)
  <2> DEFINE Excluded(n) == Spelled([first EXCEPT !.n = n], TRUE)
  <2>1. body.exdates \subseteq {Excluded(n) : n \in dates}
    BY <1>3 DEF BodyOf
  <2>2. PICK date \in body.exdates : moment \in Moment(date)
    BY DEF EventMoments
  <2>3. PICK n \in dates : moment \in Moment(Excluded(n))
    <3> HIDE DEF Excluded
    <3>1. QED
      BY <2>1, <2>2
  <2>4. n \in Int
    BY <1>3, WriteBackAssumption
  <2>5. [first EXCEPT !.n = n] \in Plain /\ [first EXCEPT !.n = n].kind = first.kind
    <3>1. CASE first.kind = "day"
      BY <1>4, <2>4, <3>1, PlainIs DEF Plain, Day, At
    <3>2. CASE first.kind = "at"
      BY <1>4, <2>4, <3>2, PlainIs DEF Plain, Day, At
    <3>3. QED
      BY <1>4, <3>1, <3>2, PlainIs
  <2>6. QED
    BY <2>3, <2>5, SpelledMoment
<1>9. QED
  BY <1>4, <1>5, <1>6, <1>7, <1>8 DEF BodyHas

\* A save keeps the start or writes it, and keeps the end with the start or writes it.
LEMMA SavedEventIs ==
    ASSUME config \in Config, NEW event \in EventRecords, NEW patch \in EventPatches,
           NEW body, EventBody(body),
           \/ patch = EventPatchForUpdate(event, body)
           \/ patch = EventPatchForCreate(body) /\ event = NoEvent
    PROVE  LET saved == Apply(event, patch)
               writes == saved.end = AnytypeEnd(body.start, body.end)
           IN  \/ saved.start = AnytypeDates(body.start) /\ writes
               \/ /\ saved.start = event.start /\ ShownStart(event) = EventMoments(body.start)
                  /\ \/ writes
                     \/ saved.end = event.end /\ ShownEnd(event) = EventMoments(body.end)
<1> DEFINE saved == Apply(event, patch)
           end == AnytypeEnd(body.start, body.end)
<1>1. /\ saved.start = IF patch.start = Keep THEN event.start ELSE The(patch.start)
      /\ saved.end = IF patch.end = Keep THEN event.end ELSE The(patch.end)
  BY EventApplied
<1>2. \A value : {value} # Keep /\ Set(value) = {value} /\ The({value}) = value
  BY TheOne DEF Keep, Set
<1> HIDE DEF saved
<1>3. CASE patch = EventPatchForCreate(body)
  <2>1. patch.start = Set(AnytypeDates(body.start)) /\ patch.end = Set(end)
    BY <1>3 DEF EventPatchForCreate
  <2>2. QED
    BY <1>1, <1>2, <2>1 DEF saved
<1>4. CASE patch = EventPatchForUpdate(event, body)
  <2>1. /\ EventMoments(WireDates(event).start) = ShownStart(event)
        /\ EventMoments(WireDates(event).end) = ShownEnd(event)
    BY MomentsOfValues DEF WireDates
  <2> DEFINE moves == ShownStart(event) # EventMoments(body.start)
             ends == moves \/ ShownEnd(event) # EventMoments(body.end)
  <2>2. /\ patch.start = IF moves THEN Set(AnytypeDates(body.start)) ELSE Keep
        /\ patch.end = IF ends /\ end # event.end THEN Set(end) ELSE Keep
    BY <1>4, <2>1 DEF EventPatchForUpdate
  <2>3. saved.start = IF moves THEN AnytypeDates(body.start) ELSE event.start
    BY <1>1, <1>2, <2>2
  <2>4. saved.end = IF ends THEN end ELSE event.end
    BY <1>1, <1>2, <2>2
  <2>5. QED
    BY <2>3, <2>4 DEF saved
<1>5. QED
  BY <1>3, <1>4

\* The end that Anytype keeps for an excluded one.
LEMMA EndStored ==
    ASSUME config \in Config, NEW body, NEW start, BodyHas(body, start),
           \A moment \in EventMoments(body.end) : HasMidnight(LastOf(moment))
    PROVE  LET end == AnytypeEnd(body.start, body.end)
           IN  \/ end = {} /\ EventMoments(body.end) = {}
               \/ end = {} /\ start.kind = "day" /\ EventMoments(body.end) = {Day(start.n + 1)}
               \/ \E at \in Int, last \in Plain :
                     /\ end = {at} /\ EventMoments(body.end) = {DayAfter(last)}
                     /\ last.kind = start.kind
                     /\ last.kind = "at" => last = At(at)
                     /\ last.kind = "day" => Classify(DayZone, at) = last
<1> DEFINE kept == AnytypeEnd(body.start, body.end)
<1>1. start \in Plain /\ EventMoments(body.start) = {start}
  BY DEF BodyHas
<1>2. ASSUME EventMoments(body.end) = {} PROVE kept = {}
  BY <1>2, AnytypeEndIs DEF Stored
<1>3. ASSUME NEW end \in Plain, EventMoments(body.end) = {end}, end.kind = start.kind, end.n > start.n
      PROVE  \/ kept = {} /\ start.kind = "day" /\ end = Day(start.n + 1)
             \/ \E at \in Int, last \in Plain :
                     /\ kept = {at} /\ end = DayAfter(last)
                     /\ last.kind = start.kind
                     /\ last.kind = "at" => last = At(at)
                     /\ last.kind = "day" => Classify(DayZone, at) = last
  <2>1. start.n \in Int /\ end.n \in Int
    BY <1>1, <1>3, PlainIs
  <2>2. kept = IF AddsTo({start}, end) THEN ToAnytype(LastOf(end)) ELSE {}
    <3>1. kept = Stored({LastOf(moment) : moment \in {m \in {end} : AddsTo({start}, m)}})
      BY <1>1, <1>3, AnytypeEndIs
    <3>2. CASE AddsTo({start}, end)
      <4>1. {m \in {end} : AddsTo({start}, m)} = {end}
        BY <3>2
      <4>2. {LastOf(moment) : moment \in {end}} = {LastOf(end)}
        OBVIOUS
      <4>3. QED
        BY <3>1, <3>2, <4>1, <4>2 DEF Stored
    <3>3. CASE ~AddsTo({start}, end)
      <4>1. {m \in {end} : AddsTo({start}, m)} = {}
        BY <3>3
      <4>2. QED
        BY <3>1, <3>3, <4>1 DEF Stored
    <3>4. QED
      BY <3>2, <3>3
  <2>3. HasMidnight(LastOf(end))
    BY <1>3
  <2>4. CASE end.kind = "day"
    <3>1. end = Day(end.n) /\ start = Day(start.n)
      BY <1>1, <1>3, <2>4, PlainIs, Kinds
    <3>2. AddsTo({start}, end) <=> end.n - 1 > start.n
      BY <1>3, <2>4 DEF AddsTo
    <3>3. CASE end.n - 1 > start.n
      <4>1. LastOf(end) = Day(end.n - 1) /\ end.n - 1 \in Int
        BY <2>1, <2>4 DEF LastOf
      <4>2. LastOf(end) \in Plain /\ LastOf(end).kind = "day" /\ LastOf(end).n = end.n - 1
        BY <4>1, Kinds DEF Plain
      <4>3. PICK at \in Int : ToAnytype(LastOf(end)) = {at} /\ Classify(DayZone, at) = LastOf(end)
        BY <2>3, <4>2, HeldAsItIs
      <4>4. end.n - 1 + 1 = end.n
        BY <2>1
      <4>5. DayAfter(LastOf(end)) = end
        BY <3>1, <4>2, <4>4 DEF DayAfter
      <4>6. kept = {at}
        BY <2>2, <3>2, <3>3, <4>3
      <4>7. LastOf(end).kind = start.kind /\ LastOf(end).kind # "at"
        BY <1>3, <2>4, <4>2
      <4>8. QED
        BY <4>2, <4>3, <4>5, <4>6, <4>7
    <3>4. CASE ~(end.n - 1 > start.n)
      <4>1. end.n = start.n + 1
        BY <1>3, <2>1, <3>4
      <4>2. QED
        BY <1>3, <2>2, <2>4, <3>1, <3>2, <3>4, <4>1
    <3>5. QED
      BY <3>3, <3>4
  <2>5. CASE end.kind = "at"
    <3>1. end = At(end.n)
      BY <2>5, PlainIs, Kinds
    <3>2. end # start
      BY <1>3, <2>1
    <3>3. AddsTo({start}, end) /\ LastOf(end) = end /\ DayAfter(end) = end
      BY <2>5, <3>2 DEF AddsTo, LastOf, DayAfter
    <3>4. kept = {end.n}
      BY <2>2, <2>5, <3>3 DEF ToAnytype
    <3>5. end.kind # "day"
      BY <2>5
    <3>6. QED
      BY <1>3, <2>1, <3>1, <3>3, <3>4, <3>5
  <2>6. QED
    BY <1>3, <2>4, <2>5, PlainIs
<1> HIDE DEF kept
<1>4. QED
  BY <1>2, <1>3 DEF BodyHas, kept

\* What is shown of an event once a body is saved: its start, and its end or the day.
LEMMA SavedEventIsShown ==
    ASSUME config \in Config, NEW saved \in EventRecords, NEW event \in EventRecords,
           NEW body, NEW start, BodyHas(body, start), ~OnEdge(start), HasMidnight(start),
           \A moment \in EventMoments(body.end) : HasMidnight(LastOf(moment)),
           LET writes == saved.end = AnytypeEnd(body.start, body.end)
           IN  \/ saved.start = AnytypeDates(body.start) /\ writes
               \/ /\ saved.start = event.start /\ ShownStart(event) = EventMoments(body.start)
                  /\ \/ writes
                     \/ saved.end = event.end /\ ShownEnd(event) = EventMoments(body.end)
    PROVE  /\ ShownStart(saved) = {start}
           /\ ShownEnd(saved) = IF EventMoments(body.end) = {}
                                  THEN {Day(moment.n + 1) : moment \in {m \in {start} : m.kind = "day"}}
                                  ELSE EventMoments(body.end)
           /\ IsAllDay(saved) <=> start.kind = "day"
<1> DEFINE end == EventMoments(body.end)
           Reads(at) == IF start.kind = "day" THEN Classify(DayZone, at) = start
                                              ELSE start = At(at) /\ Classify(DayZone, at) = start
           OfDays(instants) == \A at \in instants : Classify(DayZone, at).kind = "day"
<1>1. start \in Plain /\ EventMoments(body.start) = {start}
  BY DEF BodyHas
<1>2. PICK held \in Int : /\ ToAnytype(start) = {held}
                          /\ start.kind = "at" => start = At(held)
                          /\ Classify(DayZone, held) = start
  BY <1>1, HeldAsItIs
<1>3. \E at \in Int : saved.start = {at} /\ Reads(at)
  <2>1. CASE saved.start = AnytypeDates(body.start)
    <3>1. AnytypeDates(body.start) = {held}
      BY <1>1, <1>2 DEF AnytypeDates
    <3>2. QED
      BY <1>1, <1>2, <2>1, <3>1, PlainIs
  <2>2. CASE saved.start = event.start /\ ShownStart(event) = {start}
    <3>1. event.start # {}
      BY <2>2 DEF ShownStart, Values
    <3>2. PICK at \in Int : event.start = {at}
      BY <3>1 DEF EventRecords, Options, AtMostOne
    <3>3. ValueAs(at, IsAllDay(event)) = start
      BY <2>2, <3>2 DEF ShownStart, Values
    <3>4. CASE IsAllDay(event)
      <4>1. Classify(DayZone, at) = start /\ start.kind = "day"
        BY <3>2, <3>3, <3>4 DEF ValueAs, IsAllDay
      <4>2. QED
        BY <2>2, <3>2, <4>1
    <3>5. CASE ~IsAllDay(event)
      <4>1. start = At(at)
        BY <3>3, <3>5 DEF ValueAs
      <4>2. start.kind = "at" /\ at = held
        BY <1>2, <4>1, Kinds
      <4>3. QED
        BY <1>2, <2>2, <3>2, <4>1, <4>2
    <3>6. QED
      BY <3>4, <3>5
  <2>3. QED
    BY <1>1, <2>1, <2>2
<1>4. PICK at \in Int : saved.start = {at} /\ Reads(at)
  BY <1>3
<1>5. start.kind = "day" \/ start.kind = "at"
  BY <1>1, PlainIs
<1>6. \/ saved.end = AnytypeEnd(body.start, body.end)
      \/ /\ saved.start = event.start /\ saved.end = event.end
         /\ ShownStart(event) = {start} /\ ShownEnd(event) = end
  BY <1>1
<1>7. IsAllDay(saved) <=> OfDays(saved.start \cup saved.end)
  BY <1>4 DEF IsAllDay
<1>8. IsAllDay(saved) <=> start.kind = "day"
  <2>1. CASE start.kind = "at"
    <3>1. Classify(DayZone, at).kind # "day"
      BY <1>4, <2>1
    <3>2. QED
      BY <1>4, <1>7, <2>1, <3>1
  <2>2. CASE start.kind = "day" /\ saved.end = AnytypeEnd(body.start, body.end)
    <3>1. OfDays(saved.end)
      BY <2>2, EndStored
    <3>2. OfDays(saved.start)
      BY <1>4, <2>2
    <3>3. QED
      BY <1>7, <2>2, <3>1, <3>2
  <2>3. CASE /\ start.kind = "day"
             /\ saved.start = event.start /\ saved.end = event.end /\ ShownStart(event) = {start}
    <3>1. ValueAs(at, IsAllDay(event)) = start
      BY <1>4, <2>3 DEF ShownStart, Values
    <3>2. IsAllDay(event)
      BY <2>3, <3>1, Kinds DEF ValueAs
    <3>3. QED
      BY <2>3, <3>2 DEF IsAllDay
  <2>4. QED
    BY <1>5, <1>6, <2>1, <2>2, <2>3
<1>9. ShownStart(saved) = {start}
  <2>1. ValueAs(at, IsAllDay(saved)) = start
    BY <1>4, <1>5, <1>8 DEF ValueAs
  <2>2. QED
    BY <1>4, <2>1 DEF ShownStart, Values
<1>10. ASSUME saved.end = AnytypeEnd(body.start, body.end)
       PROVE  ShownEnd(saved) = IF end = {} THEN {Day(m.n + 1) : m \in {one \in {start} : one.kind = "day"}}
                                            ELSE end
  <2>1. ASSUME saved.end = {}
        PROVE  ShownEnd(saved) = IF start.kind = "day" THEN {Day(start.n + 1)} ELSE {}
    <3>1. CASE start.kind = "day"
      BY <1>4, <1>8, <1>9, <2>1, <3>1 DEF ShownEnd, ShownLast, DayAfter
    <3>2. CASE start.kind # "day"
      BY <1>8, <2>1, <3>2 DEF ShownEnd, ShownLast, Values
    <3>3. QED
      BY <3>1, <3>2
  <2>2. {Day(m.n + 1) : m \in {one \in {start} : one.kind = "day"}} =
            IF start.kind = "day" THEN {Day(start.n + 1)} ELSE {}
    <3>1. CASE start.kind = "day"
      <4>1. {one \in {start} : one.kind = "day"} = {start}
        BY <3>1
      <4>2. QED
        BY <3>1, <4>1
    <3>2. CASE start.kind # "day"
      <4>1. {one \in {start} : one.kind = "day"} = {}
        BY <3>2
      <4>2. QED
        BY <3>2, <4>1
    <3>3. QED
      BY <3>1, <3>2
  <2>3. ASSUME NEW to \in Int, NEW last \in Plain, saved.end = {to}, end = {DayAfter(last)},
               last.kind = start.kind, last.kind = "at" => last = At(to),
               last.kind = "day" => Classify(DayZone, to) = last
        PROVE  ShownEnd(saved) = end
    <3>1. ValueAs(to, IsAllDay(saved)) = last
      BY <1>5, <1>8, <2>3 DEF ValueAs
    <3>2. ShownLast(saved) = {last}
      BY <2>3, <3>1 DEF ShownLast, Values
    <3>3. QED
      BY <1>4, <2>3, <3>2 DEF ShownEnd
  <2>4. \/ saved.end = {} /\ end = {}
        \/ saved.end = {} /\ start.kind = "day" /\ end = {Day(start.n + 1)}
        \/ \E to \in Int, last \in Plain :
              /\ saved.end = {to} /\ end = {DayAfter(last)} /\ last.kind = start.kind
              /\ last.kind = "at" => last = At(to)
              /\ last.kind = "day" => Classify(DayZone, to) = last
    <3>1. \/ AnytypeEnd(body.start, body.end) = {} /\ EventMoments(body.end) = {}
          \/ /\ AnytypeEnd(body.start, body.end) = {} /\ start.kind = "day"
             /\ EventMoments(body.end) = {Day(start.n + 1)}
          \/ \E to \in Int, last \in Plain :
                /\ AnytypeEnd(body.start, body.end) = {to} /\ EventMoments(body.end) = {DayAfter(last)}
                /\ last.kind = start.kind
                /\ last.kind = "at" => last = At(to)
                /\ last.kind = "day" => Classify(DayZone, to) = last
      BY EndStored
    <3>2. QED
      BY <1>10, <3>1
  <2> HIDE DEF end
  <2>5. QED
    BY <2>1, <2>2, <2>3, <2>4
<1>11. ASSUME saved.start = event.start, saved.end = event.end, ShownEnd(event) = end
       PROVE  ShownEnd(saved) = IF end = {} THEN {Day(m.n + 1) : m \in {one \in {start} : one.kind = "day"}}
                                            ELSE end
  <2>1. IsAllDay(saved) <=> IsAllDay(event)
    BY <1>11 DEF IsAllDay
  <2>2. ShownEnd(saved) = end
    <3>1. IsAllDay(saved) = IsAllDay(event)
      BY <2>1, AllDayIsBoolean
    <3>2. QED
      BY <1>11, <3>1 DEF ShownEnd, ShownLast, ShownStart, Values
  <2>3. CASE end # {}
    BY <2>2, <2>3
  <2>4. CASE end = {}
    <3>1. start.kind # "day"
      <4>1. SUFFICES ASSUME start.kind = "day" PROVE ShownEnd(saved) # {}
        BY <2>2, <2>4
      <4>2. ShownLast(saved) # {}
        BY <1>8, <1>9, <4>1 DEF ShownLast, Values
      <4>3. QED
        BY <1>4, <4>2 DEF ShownEnd
    <3>2. {one \in {start} : one.kind = "day"} = {}
      BY <3>1
    <3>3. QED
      BY <2>2, <2>4, <3>2
  <2>5. QED
    BY <2>3, <2>4
<1>12. QED
  BY <1>6, <1>8, <1>9, <1>10, <1>11

LEMMA SavedExdatesAreShown ==
    ASSUME config \in Config, NEW saved \in EventRecords, NEW body, NEW start, BodyHas(body, start),
           saved.exdates = InstantsOf(body.exdates), IsAllDay(saved) <=> start.kind = "day",
           \A moment \in EventMoments(body.exdates) : HasMidnight(moment)
    PROVE  Values(saved, saved.exdates) = EventMoments(body.exdates)
<1> DEFINE excluded == EventMoments(body.exdates)
           Value(at) == ValueAs(at, IsAllDay(saved))
<1>1. saved.exdates = UNION {ToAnytype(moment) : moment \in excluded}
  BY DEF InstantsOf, AnytypeDates
<1>2. \A moment \in excluded : \E at \in Int : ToAnytype(moment) = {at} /\ Value(at) = moment
  <2>1. TAKE moment \in excluded
  <2>2. moment \in Plain /\ moment.kind = start.kind /\ HasMidnight(moment)
    BY DEF BodyHas
  <2>3. PICK at \in Int : /\ ToAnytype(moment) = {at}
                          /\ moment.kind = "at" => moment = At(at)
                          /\ moment.kind = "day" => Classify(DayZone, at) = moment
    BY <2>2, HeldAsItIs
  <2>4. Value(at) = moment
    <3>1. CASE moment.kind = "day"
      BY <2>2, <2>3, <3>1 DEF ValueAs
    <3>2. CASE moment.kind = "at"
      BY <2>2, <2>3, <3>2 DEF ValueAs
    <3>3. QED
      BY <2>2, <3>1, <3>2, PlainIs
  <2>5. QED
    BY <2>3, <2>4
<1>3. Values(saved, saved.exdates) = {Value(at) : at \in saved.exdates}
  BY DEF Values
<1> HIDE DEF excluded, Value
<1> DEFINE values == {Value(at) : at \in saved.exdates}
<1>4. \A value \in values : value \in excluded
  BY <1>1, <1>2
<1>5. \A moment \in excluded : moment \in values
  BY <1>1, <1>2
<1> HIDE DEF values
<1>6. QED
  BY <1>3, <1>4, <1>5 DEF values, excluded

\* The object that a save leaves, and what it was made from.
LEMMA SavedEvent ==
    ASSUME DatesInv, NEW body \in EventBodies, SaveEvent(body) \/ CreateEvent(body)
    PROVE  \E event \in EventRecords, patch \in EventPatches :
               /\ object' = {Apply(event, patch)} /\ sent' = {body} /\ config' = config
               /\ \/ patch = EventPatchForUpdate(event, body)
                  \/ patch = EventPatchForCreate(body) /\ event = NoEvent
<1>1. EventBody(body)
  BY EventBodiesAre DEF DatesInv
<1>2. CASE SaveEvent(body)
  <2>1. /\ object' = {Apply(event, EventPatchForUpdate(event, body)) : event \in object}
        /\ config' = config /\ sent' = {body} /\ kind = "event" /\ object # {}
    BY <1>2 DEF SaveEvent
  <2>2. PICK event \in EventRecords : object = {event}
    BY <2>1 DEF DatesInv, AtMostOne
  <2>3. object' = {Apply(event, EventPatchForUpdate(event, body))}
    BY <2>1, <2>2
  <2>4. EventPatchForUpdate(event, body) \in EventPatches
    BY <1>1, EventPatchesAre DEF DatesInv
  <2>5. QED
    BY <2>1, <2>3, <2>4
<1>3. CASE CreateEvent(body)
  <2>1. object' = {Apply(NoEvent, EventPatchForCreate(body))} /\ config' = config /\ sent' = {body}
    BY <1>3 DEF CreateEvent
  <2>2. NoEvent \in EventRecords
    BY NoneIsAnOption DEF NoEvent, EventRecords, InstantSets
  <2>3. EventPatchForCreate(body) \in EventPatches
    BY <1>1, <2>2, EventPatchesAre DEF DatesInv
  <2>4. QED
    BY <2>1, <2>2, <2>3
<1>4. QED
  BY <1>2, <1>3

\* What was saved is what is shown next.
IsShownFor(body, event) ==
    LET shown == ServedEvent(event)
        start == EventMoments(body.start)
        end == EventMoments(body.end)
        one_day == {Day(moment.n + 1) : moment \in {m \in start : m.kind = "day"}}
        exdates == EventMoments(body.exdates)
    IN  /\ Holdable(start \cup {LastOf(moment) : moment \in end})
        /\ NoneRepeated(exdates) /\ \A moment \in exdates : HasMidnight(moment)
        => /\ EventMoments(shown.start) = start
           /\ EventMoments(shown.end) = IF end = {} THEN one_day ELSE end
           /\ shown.rrule = body.rrule
           /\ EventMoments(shown.exdates) = exdates

LEMMA EventShownAsSent ==
    ASSUME config \in Config, NEW event \in EventRecords, NEW patch \in EventPatches,
           NEW body \in EventBodies,
           \/ patch = EventPatchForUpdate(event, body)
           \/ patch = EventPatchForCreate(body) /\ event = NoEvent
    PROVE  IsShownFor(body, Apply(event, patch))
<1> DEFINE start == EventMoments(body.start)
           end == EventMoments(body.end)
           exdates == EventMoments(body.exdates)
<1> SUFFICES ASSUME Holdable(start \cup {LastOf(moment) : moment \in end}),
                    NoneRepeated(exdates), \A moment \in exdates : HasMidnight(moment)
             PROVE  LET shown == ServedEvent(Apply(event, patch))
                        one_day == {Day(moment.n + 1) : moment \in {m \in start : m.kind = "day"}}
                    IN  /\ EventMoments(shown.start) = start
                        /\ EventMoments(shown.end) = IF end = {} THEN one_day ELSE end
                        /\ shown.rrule = body.rrule
                        /\ EventMoments(shown.exdates) = exdates
  BY DEF IsShownFor
<1> DEFINE saved == Apply(event, patch)
           shown == ServedEvent(saved)
           one_day == {Day(moment.n + 1) : moment \in {m \in start : m.kind = "day"}}
<1>1. EventBody(body) /\ saved \in EventRecords
  BY EventBodiesAre, EventApplied
<1>2. NoneRepeated(start \cup end)
  <2>1. ASSUME NEW moment \in end, moment.kind = "at" PROVE ~Repeated(moment.n)
    <3>1. LastOf(moment) = moment
      BY <2>1 DEF LastOf
    <3>2. moment \in start \cup {LastOf(one) : one \in end}
      BY <3>1
    <3>3. QED
      BY <2>1, <3>2 DEF Holdable, NoneRepeated
  <2>2. QED
    BY <2>1 DEF Holdable, NoneRepeated
<1>3. PICK first : BodyHas(body, first)
  BY <1>2, BodyMoments
<1>4. start = {first} /\ first \in Plain
  BY <1>3 DEF BodyHas
<1>5. ~OnEdge(first) /\ HasMidnight(first) /\ \A moment \in end : HasMidnight(LastOf(moment))
  BY <1>4 DEF Holdable
<1>6. /\ ShownStart(saved) = start
      /\ ShownEnd(saved) = IF end = {} THEN one_day ELSE end
      /\ IsAllDay(saved) <=> first.kind = "day"
  <2>1. LET writes == saved.end = AnytypeEnd(body.start, body.end)
        IN  \/ saved.start = AnytypeDates(body.start) /\ writes
            \/ /\ saved.start = event.start /\ ShownStart(event) = EventMoments(body.start)
               /\ \/ writes
                  \/ saved.end = event.end /\ ShownEnd(event) = EventMoments(body.end)
    BY <1>1, SavedEventIs
  <2> HIDE DEF saved
  <2>2. \A moment \in EventMoments(body.end) : HasMidnight(LastOf(moment))
    BY <1>5
  <2>3. /\ ShownStart(saved) = {first}
        /\ ShownEnd(saved) = IF EventMoments(body.end) = {}
                               THEN {Day(moment.n + 1) : moment \in {m \in {first} : m.kind = "day"}}
                               ELSE EventMoments(body.end)
        /\ IsAllDay(saved) <=> first.kind = "day"
    BY <1>1, <1>3, <1>5, <2>1, <2>2, SavedEventIsShown
  <2>4. QED
    BY <1>4, <2>3
<1>7. saved.rrule = body.rrule /\ saved.exdates = InstantsOf(body.exdates)
  BY <1>1, ExclusionsGo
<1> HIDE DEF saved
<1>8. Values(saved, saved.exdates) = exdates
  BY <1>1, <1>3, <1>6, <1>7, SavedExdatesAreShown
<1>9. \A moment \in start \cup end \cup exdates : moment.kind = "at" => IsFirstPass(moment.n)
  <2>1. \A moment \in start \cup end \cup exdates : moment \in Plain
    BY <1>3 DEF BodyHas
  <2>2. QED
    BY <1>2, <2>1, PlainIs, OnlyPass DEF NoneRepeated
<1>10. \A value \in ShownStart(saved) \cup ShownLast(saved) : value.kind = "at" => IsFirstPass(value.n)
  <2>1. ASSUME NEW value \in ShownLast(saved), value.kind = "at" PROVE value \in end
    <3>1. DayAfter(value) = value
      BY <2>1 DEF DayAfter
    <3>2. value \in ShownEnd(saved)
      <4>1. ShownStart(saved) # {}
        BY <1>4, <1>6
      <4>2. saved.start # {}
        BY <4>1 DEF ShownStart, Values
      <4>3. QED
        BY <3>1, <4>2 DEF ShownEnd
    <3>3. value \notin one_day
      BY <2>1, Kinds
    <3>4. QED
      BY <1>6, <3>2, <3>3
  <2>2. QED
    BY <1>6, <1>9, <2>1
<1>11. saved.rrule \in BOOLEAN
  BY <1>1 DEF EventRecords
<1>12. /\ shown.start = ZonedDates(saved, saved.rrule).start
       /\ shown.end = ZonedDates(saved, saved.rrule).end
       /\ shown.rrule = saved.rrule
  BY DEF ServedEvent
<1>13. /\ EventMoments(shown.start) = ShownStart(saved)
       /\ EventMoments(shown.end) = ShownEnd(saved)
  BY <1>1, <1>10, <1>11, <1>12, MomentsOfValues
<1>14. EventMoments(shown.exdates) = exdates
  <2>1. CASE saved.rrule
    BY <1>1, <1>8, <1>9, <2>1, MomentsOfExdates, ServedExdatesAre
  <2>2. CASE ~saved.rrule
    <3>1. body.exdates = {} /\ exdates = {}
      BY <1>1, <1>7, <2>2 DEF EventBody, EventMoments
    <3>2. shown.exdates = {}
      BY <2>2, ServedExdatesAre
    <3>3. QED
      BY <3>1, <3>2 DEF EventMoments
  <2>3. QED
    BY <2>1, <2>2
<1>15. QED
  BY <1>6, <1>7, <1>12, <1>13, <1>14 DEF saved

\* What a client saves on an event is what it is served next (events.rs, the patches of an
\* event, and its rendering): in any zones, a day at a midnight that may be anywhere.
THEOREM EventsAreShownAsSent == Spec => EventIsShownAsSent
<1> DEFINE ShownAsSent == kind = "event" /\ sent' # {} =>
              LET body == The(sent')
                  shown == ServedEvent(The(object'))
                  start == EventMoments(body.start)
                  end == EventMoments(body.end)
                  one_day == {Day(moment.n + 1) : moment \in {m \in start : m.kind = "day"}}
                  exdates == EventMoments(body.exdates)
              IN  /\ start # {} /\ (body.end # {} => end # {})
                  /\ Holdable(start \cup {LastOf(moment) : moment \in end})
                  /\ NoneRepeated(exdates) /\ \A moment \in exdates : HasMidnight(moment)
                  => /\ EventMoments(shown.start) = start
                     /\ EventMoments(shown.end) = IF end = {} THEN one_day ELSE end
                     /\ shown.rrule = body.rrule
                     /\ EventMoments(shown.exdates) = exdates
<1>1. DatesInv /\ [Next]_vars => [ShownAsSent]_vars
  <2> SUFFICES ASSUME DatesInv, [Next]_vars, vars' # vars, kind = "event", sent' # {}
               PROVE  ShownAsSent
    OBVIOUS
  <2>1. PICK body \in EventBodies : SaveEvent(body) \/ CreateEvent(body)
    BY DEF Next, SaveTask, CreateTask, ReadAgain
  <2>2. PICK event \in EventRecords, patch \in EventPatches :
               /\ object' = {Apply(event, patch)} /\ sent' = {body}
               /\ \/ patch = EventPatchForUpdate(event, body)
                  \/ patch = EventPatchForCreate(body) /\ event = NoEvent
    BY <2>1, SavedEvent
  <2>3. The(sent') = body /\ The(object') = Apply(event, patch)
    BY <2>2, TheOne
  <2>4. config \in Config
    BY DEF DatesInv
  <2>5. IsShownFor(body, Apply(event, patch))
    BY <2>2, <2>4, EventShownAsSent
  <2>6. IsShownFor(The(sent'), The(object'))
    BY <2>3, <2>5
  <2>7. QED
    BY <2>6 DEF IsShownFor
<1>2. QED
  BY <1>1, DatesInvHolds, PTL DEF Spec, EventIsShownAsSent

-----------------------------------------------------------------------------
(* A task, as a client sends it *)

\* Instants in order are shown in order, outside an hour that the clocks show twice.
LEMMA CivilsKeepOrder ==
    ASSUME NEW zone \in Zone, NEW at \in Int, NEW later \in Int, at < later,
           ~Ambiguous(zone, Civil(zone, at))
    PROVE  Civil(zone, at) < Civil(zone, later)
  BY DEF Zone, Civil, Ambiguous

\* Dates that Anytype can hold are stored as they are, and read as they were.
LEMMA HoldableStored ==
    ASSUME config \in Config, NEW moments \in SUBSET Plain, AtMostOne(moments), Holdable(moments)
    PROVE  /\ Classified(Stored(moments)) = moments
           /\ \A property : WholeDays(moments, property) = moments
           /\ moments # {} => \E at \in Int : ToAnytype(The(moments)) = {at} /\ Classified({at}) = moments
<1>1. CASE moments = {}
  BY <1>1 DEF Classified, Stored, WholeDays
<1>2. CASE moments # {}
  <2> DEFINE one == The(moments)
  <2>1. moments = {one} /\ one \in Plain
    BY <1>2, OneOf
  <2>2. ~OnEdge(one) /\ HasMidnight(one)
    BY <2>1 DEF Holdable
  <2>3. PICK at \in Int : ToAnytype(one) = {at} /\ Classify(DayZone, at) = one
    BY <2>1, <2>2, HeldAsItIs
  <2>4. Stored(moments) = {at}
    BY <2>1, <2>3 DEF Stored
  <2>5. Classified({at}) = {one}
    BY <2>3 DEF Classified, DayZone
  <2>6. \A property : KeepWholeDay(one, property) = one
    BY <2>2 DEF KeepWholeDay, OnEdge, ZonesUsed
  <2> HIDE DEF one
  <2>7. \A property : WholeDays(moments, property) = moments
    BY <2>1, <2>6 DEF WholeDays
  <2>8. QED
    BY <2>1, <2>3, <2>4, <2>5, <2>7 DEF one
<1>3. QED
  BY <1>1, <1>2

\* A shown pair is the plan and the deadline, but for a day next to a time: its edge.
LEMMA PairShownIs ==
    ASSUME config \in Config, NEW plan \in Plain, NEW deadline \in Plain,
           NoneRepeated({plan, deadline})
    PROVE  \/ Schedule(plan, deadline) = Due(plan, "scheduled")
           \/ Schedule(plan, deadline) = Due(deadline, "both") /\ plan = deadline
           \/ Schedule(plan, deadline) = Due(deadline, "deadline")
           \/ \E start, due : /\ Schedule(plan, deadline) = Both(start, due)
                              /\ start = plan \/ OnEdge(start)
                              /\ due = deadline \/ OnEdge(due)
<1> DEFINE b == Begins(plan)
           e == Expires(deadline)
<1>1. config.timezone \in Zone /\ config.timezone \in ZonesUsed
  BY DEF Config, ZonesUsed
<1>2. b \in Int /\ e \in Int
  BY <1>1, CivilIs, PlainIs, MidnightsOfDays, ClockAssumption DEF Begins, Expires
<1>3. CASE b >= e
  BY <1>2, <1>3 DEF Schedule
<1>4. CASE b < e /\ plan.kind = "day" /\ deadline = plan
  BY <1>2, <1>4 DEF Schedule
<1>5. CASE b < e /\ plan.kind = deadline.kind /\ plan # deadline
  BY <1>2, <1>5 DEF Schedule
<1>6. ASSUME ~(b >= e), ~(b < e /\ plan.kind = "day" /\ deadline = plan),
             ~(b < e /\ plan.kind = deadline.kind /\ plan # deadline)
      PROVE  \/ Schedule(plan, deadline) = Due(plan, "scheduled")
             \/ Schedule(plan, deadline) = Due(deadline, "deadline")
             \/ \E start, due : /\ Schedule(plan, deadline) = Both(start, due)
                                /\ start = plan \/ OnEdge(start)
                                /\ due = deadline \/ OnEdge(due)
  <2> DEFINE from == Earliest(config.timezone, b)
             to == Earliest(config.timezone, e)
  <2>1. \/ Schedule(plan, deadline) = Due(plan, "scheduled")
        \/ Schedule(plan, deadline) = Due(deadline, "deadline")
        \/ /\ from # {} /\ to # {}
           /\ Schedule(plan, deadline) = Both(At(The(from)), At(The(to)))
    BY <1>6 DEF Schedule
  <2>2. ASSUME from # {}
        PROVE  At(The(from)) = plan \/ OnEdge(At(The(from)))
    <3>1. CASE plan.kind = "at"
      <4>1. plan = At(plan.n) /\ plan.n \in Int /\ ~Repeated(plan.n)
        BY <3>1, PlainIs, Kinds DEF NoneRepeated
      <4>2. b = Civil(config.timezone, plan.n)
        BY <3>1 DEF Begins
      <4>3. from = {plan.n}
        BY <1>1, <4>1, <4>2, EarliestIsThere DEF Repeated
      <4>4. QED
        BY <4>1, <4>3, TheOne
    <3>2. CASE plan.kind = "day"
      <4>1. b = Midnight(plan.n) /\ plan.n \in Int
        BY <3>2, PlainIs DEF Begins
      <4>2. The(from) \in from
        BY <2>2 DEF The
      <4>3. Civil(config.timezone, The(from)) = Midnight(plan.n)
        BY <1>1, <1>2, <4>1, <4>2, EarliestIs
      <4>4. Midnight(DayOf(Midnight(plan.n))) = Midnight(plan.n)
        BY <4>1, MidnightsOfDays
      <4>5. QED
        BY <1>1, <4>3, <4>4, Kinds DEF OnEdge
    <3>3. QED
      BY <3>1, <3>2, PlainIs
  <2>3. ASSUME to # {}
        PROVE  At(The(to)) = deadline \/ OnEdge(At(The(to)))
    <3>1. CASE deadline.kind = "at"
      <4>1. deadline = At(deadline.n) /\ deadline.n \in Int /\ ~Repeated(deadline.n)
        BY <3>1, PlainIs, Kinds DEF NoneRepeated
      <4>2. e = Civil(config.timezone, deadline.n)
        BY <3>1 DEF Expires
      <4>3. to = {deadline.n}
        BY <1>1, <4>1, <4>2, EarliestIsThere DEF Repeated
      <4>4. QED
        BY <4>1, <4>3, TheOne
    <3>2. CASE deadline.kind = "day"
      <4>1. e = LastSecond(deadline.n) /\ deadline.n \in Int
        BY <3>2, PlainIs DEF Expires
      <4>2. The(to) \in to
        BY <2>3 DEF The
      <4>3. Civil(config.timezone, The(to)) = LastSecond(deadline.n)
        BY <1>1, <1>2, <4>1, <4>2, EarliestIs
      <4>4. LastSecond(DayOf(LastSecond(deadline.n))) = LastSecond(deadline.n)
        BY <4>1, MidnightsOfDays
      <4>5. QED
        BY <1>1, <4>3, <4>4, Kinds DEF OnEdge
    <3>3. QED
      BY <3>1, <3>2, PlainIs
  <2> HIDE DEF from, to
  <2>4. QED
    BY <2>1, <2>2, <2>3
<1>7. QED
  BY <1>3, <1>4, <1>5, <1>6

HeldAs(task, plan, deadline) ==
    Classified(task.scheduled) = plan /\ Classified(task.deadline) = deadline

\* How a task holds what a client sent: nothing, a date in one place or in both, a
\* plan and a deadline, a week.
Holds(task, start, due) ==
    \/ start = {} /\ due = {} /\ HeldAs(task, {}, {}) /\ task.week = {}
    \/ start = {} /\ due # {} /\ (HeldAs(task, due, {}) \/ HeldAs(task, {}, due) \/ HeldAs(task, due, due))
    \/ start # {} /\ due # {} /\ HeldAs(task, start, due)
    \/ \E monday \in Int : /\ start = {Day(monday)} /\ due = {Day(monday + WeekLength - 1)}
                           /\ WeekDays(task) = {WeekOf(monday)}

ShowsTask(task, start, due) ==
    /\ Wire(task).start = start
    /\ Wire(task).due = due
    /\ due # {} /\ WeekDays(task) = {} =>
          ReminderBase(task) = UNION {ReminderOf(date) : date \in due}

LEMMA HeldIsShown ==
    ASSUME config \in Config, NEW task \in Tasks, NEW start \in SUBSET Plain, AtMostOne(start),
           NEW due \in SUBSET Plain, AtMostOne(due), Holds(task, start, due),
           NoneRepeated(start \cup due),
           \A from \in start : \E to \in due : from.kind = to.kind /\ from.n < to.n
    PROVE  ShowsTask(task, start, due)
<1>1. /\ task.scheduled = {} <=> Classified(task.scheduled) = {}
      /\ task.deadline = {} <=> Classified(task.deadline) = {}
  BY ClassifiedIs DEF Tasks
<1>2. ASSUME start = {}, due = {}, HeldAs(task, {}, {}), task.week = {}
      PROVE  ShowsTask(task, start, due)
  <2>1. WeekDays(task) = {}
    BY <1>2, WithoutAWeek
  <2>2. Wire(task) = Nothing
    BY <1>2, <2>1, WithoutAWeek DEF Wire, HeldAs
  <2>3. QED
    BY <1>2, <2>2 DEF ShowsTask, Nothing
<1>3. ASSUME start = {}, due # {}, NEW plan, NEW deadline, HeldAs(task, plan, deadline),
             \/ plan = due /\ deadline = {}
             \/ plan = {} /\ deadline = due
             \/ plan = due /\ deadline = due
      PROVE  ShowsTask(task, start, due)
  <2>1. WeekDays(task) = {}
    BY <1>1, <1>3, WithoutAWeek DEF HeldAs
  <2>2. Dates(task).scheduled = plan /\ Dates(task).deadline = deadline
    BY <1>3, <2>1, WithoutAWeek DEF HeldAs
  <2>3. due = {The(due)} /\ The(due) \in Plain
    BY <1>3, OneOf
  <2>4. \E origin : Wire(task) = Due(The(due), origin)
    <3>1. CASE plan = {} \/ deadline = {}
      BY <1>3, <2>2, <3>1 DEF Wire
    <3>2. CASE plan = due /\ deadline = due
      <4>1. Wire(task) = Schedule(The(due), The(due))
        BY <1>3, <2>2, <3>2 DEF Wire
      <4>2. Begins(The(due)) \in Int /\ Expires(The(due)) \in Int
        BY <2>3, CivilIs, PlainIs, MidnightsOfDays, ClockAssumption DEF Begins, Expires, Config
      <4>3. The(due).kind = "day" \/ Begins(The(due)) = Expires(The(due))
        BY <2>3, PlainIs DEF Begins, Expires
      <4>4. QED
        BY <4>1, <4>2, <4>3 DEF Schedule
    <3>3. QED
      BY <1>3, <3>1, <3>2
  <2>5. Wire(task).start = {} /\ Wire(task).due = due
    BY <2>3, <2>4 DEF Due
  <2>6. ReminderBase(task) = UNION {ReminderOf(date) : date \in due}
    BY <1>1, <1>3 DEF ReminderBase, HeldAs
  <2>7. QED
    BY <1>3, <2>5, <2>6 DEF ShowsTask
<1>4. ASSUME start # {}, due # {}, HeldAs(task, start, due)
      PROVE  ShowsTask(task, start, due)
  <2>1. WeekDays(task) = {}
    BY <1>1, <1>4, WithoutAWeek DEF HeldAs
  <2>2. Dates(task).scheduled = start /\ Dates(task).deadline = due
    BY <1>4, <2>1, WithoutAWeek DEF HeldAs
  <2> DEFINE from == The(start)
             to == The(due)
  <2>3. start = {from} /\ from \in Plain /\ due = {to} /\ to \in Plain
    BY <1>4, OneOf
  <2>4. Wire(task) = Schedule(from, to)
    BY <1>4, <2>2 DEF Wire
  <2> HIDE DEF from, to
  <2>5. from.kind = to.kind /\ from.n < to.n /\ from.n \in Int /\ to.n \in Int
    BY <2>3, PlainIs
  <2>6. Begins(from) \in Int /\ Expires(to) \in Int /\ Begins(from) < Expires(to)
    <3>1. CASE from.kind = "day"
      <4>1. Begins(from) = Midnight(from.n) /\ Expires(to) = LastSecond(to.n)
        BY <2>5, <3>1 DEF Begins, Expires
      <4>2. QED
        BY <2>5, <4>1, DaysInOrder, MidnightsOfDays, ClockAssumption
    <3>2. CASE from.kind = "at"
      <4>1. Begins(from) = Civil(config.timezone, from.n) /\ Expires(to) = Civil(config.timezone, to.n)
        BY <2>5, <3>2 DEF Begins, Expires
      <4>2. config.timezone \in Zone
        BY DEF Config
      <4>3. ~Ambiguous(config.timezone, Civil(config.timezone, from.n))
        BY <2>3, <3>2 DEF NoneRepeated, Repeated, ZonesUsed
      <4>4. QED
        BY <2>5, <4>1, <4>2, <4>3, CivilIs, CivilsKeepOrder
    <3>3. QED
      BY <2>3, <3>1, <3>2, PlainIs
  <2>7. from # to
    BY <2>5
  <2>8. Wire(task) = Both(from, to)
    BY <2>4, <2>5, <2>6, <2>7 DEF Schedule
  <2>9. ReminderBase(task) = UNION {ReminderOf(date) : date \in due}
    BY <1>1, <1>4 DEF ReminderBase, HeldAs
  <2>10. QED
    BY <2>3, <2>8, <2>9 DEF ShowsTask, Both
<1>5. ASSUME NEW monday \in Int, start = {Day(monday)}, due = {Day(monday + WeekLength - 1)},
             WeekDays(task) = {WeekOf(monday)}
      PROVE  ShowsTask(task, start, due)
  <2> DEFINE sunday == monday + WeekLength - 1
  <2>1. sunday \in Int /\ monday < sunday
    BY ClockAssumption
  <2>2. Dates(task).scheduled = {Day(monday)} /\ Dates(task).deadline = {Day(sunday)}
    <3>1. The(WeekDays(task)) = WeekOf(monday) /\ WeekDays(task) # {}
      BY <1>5, TheOne
    <3>2. QED
      BY <3>1 DEF Dates, WeekOf
  <2> HIDE DEF sunday
  <2>3. Wire(task) = Schedule(Day(monday), Day(sunday))
    BY <2>2, TheOne DEF Wire
  <2>4. Schedule(Day(monday), Day(sunday)) = Both(Day(monday), Day(sunday))
    <3>1. Midnight(monday) < LastSecond(sunday)
      BY <2>1, DaysInOrder
    <3>2. Midnight(monday) \in Int /\ LastSecond(sunday) \in Int
      BY <2>1, MidnightsOfDays, ClockAssumption
    <3>3. Day(monday) # Day(sunday)
      BY <2>1, Kinds
    <3>4. QED
      BY <3>1, <3>2, <3>3, Kinds DEF Schedule, Begins, Expires
  <2>5. Wire(task).start = start /\ Wire(task).due = due
    BY <1>5, <2>3, <2>4 DEF Both, sunday
  <2>6. QED
    BY <1>5, <2>5 DEF ShowsTask
<1>6. QED
  BY <1>2, <1>3, <1>4, <1>5 DEF Holds

LEMMA ClearIs == Clear # Keep /\ The(Clear) = {}
  BY TheOne DEF Clear, Set, Keep

\* What a patch leaves in an empty field.
LEMMA DirectlyHeld ==
    ASSUME config \in Config, NEW moments \in SUBSET Plain, AtMostOne(moments), Holdable(moments),
           NEW patch, patch = {ToAnytype(date) : date \in moments}
    PROVE  Classified(IF patch = Keep THEN {} ELSE The(patch)) = moments
<1>1. CASE moments = {}
  <2>1. patch = Keep
    BY <1>1 DEF Keep
  <2>2. QED
    BY <1>1, <2>1 DEF Classified
<1>2. CASE moments # {}
  <2>1. PICK at \in Int : ToAnytype(The(moments)) = {at} /\ Classified({at}) = moments
    BY <1>2, HoldableStored
  <2>2. patch = {ToAnytype(The(moments))}
    BY <1>2, DirectlyStored
  <2>3. patch = {{at}}
    BY <2>1, <2>2
  <2>4. patch # Keep /\ The(patch) = {at}
    BY <2>3, TheOne DEF Keep
  <2>5. QED
    BY <2>1, <2>4
<1>3. QED
  BY <1>1, <1>2

\* The week that two dates are sent as.
LEMMA SentWeekIs ==
    ASSUME config \in Config, NEW body \in TaskBodies, SentWeek(body) # {}
    PROVE  \E monday \in Int :
               /\ Monday(monday) = monday /\ config.weeks /\ SentWeek(body) = {monday}
               /\ SentStart(body) = {Day(monday)} /\ SentDue(body) = {Day(monday + WeekLength - 1)}
<1> DEFINE start == SentStart(body)
           due == SentDue(body)
<1>1. start \subseteq Plain /\ AtMostOne(start)
  BY TaskBodiesAre DEF AtMostOne
<1>2. config.weeks /\ SentWeek(body) = WholeWeek(start, due)
  BY DEF SentWeek
<1> HIDE DEF start, due
<1>3. PICK day \in start : /\ day.kind = "day" /\ Monday(day.n) = day.n
                           /\ due = {Day(day.n + WeekLength - 1)}
  BY <1>2 DEF WholeWeek
<1>4. start = {day} /\ day = Day(day.n) /\ day.n \in Int
  BY <1>1, <1>3, PlainIs, Kinds DEF AtMostOne
<1>5. WholeWeek(start, due) = {day.n}
  BY <1>3, <1>4 DEF WholeWeek
<1>6. QED
  BY <1>2, <1>3, <1>4, <1>5 DEF start, due

\* A week is read from its Monday.
LEMMA WeekHeld ==
    ASSUME config \in Config, NEW task, task.scheduled = {}, task.deadline = {},
           NEW monday \in Int, Monday(monday) = monday, HasMidnight(Day(monday)),
           task.week = ToAnytype(Day(monday))
    PROVE  WeekDays(task) = {WeekOf(monday)}
<1>1. Day(monday) \in Plain /\ Day(monday).kind = "day"
  BY Kinds DEF Plain
<1>2. PICK at \in Int : ToAnytype(Day(monday)) = {at} /\ Classify(DayZone, at) = Day(monday)
  BY <1>1, HeldAsItIs
<1>3. DayZone \in Zone
  BY DEF Config, DayZone
<1>4. DayOf(Civil(DayZone, at)) = monday
  BY <1>2, <1>3, ClassifyIs, Kinds
<1>5. task.week = {at}
  BY <1>2
<1>6. {DayOf(Civil(config.date_only_timezone, one)) : one \in task.week} = {monday}
  BY <1>4, <1>5 DEF DayZone
<1> DEFINE days == {DayOf(Civil(config.date_only_timezone, one)) : one \in task.week}
<1>7. WeekDays(task) = {WeekOf(Monday(day)) : day \in days}
  BY DEF WeekDays, WeekOf
<1> HIDE DEF days
<1>8. QED
  BY <1>6, <1>7 DEF days

\* What the lemmas below assume of a body: what it sends is a schedule that Anytype can hold.
CanBeHeld(body) ==
    /\ Holdable(SentStart(body)) /\ Holdable(SentDue(body))
    /\ SentStart(body) # {} => SentDue(body) # {}

LEMMA NewTaskHolds ==
    ASSUME config \in Config, NEW body \in TaskBodies, CanBeHeld(body)
    PROVE  Holds(Apply(NoDates, ForCreate(body)), SentStart(body), SentDue(body))
<1> DEFINE start == SentStart(body)
           due == SentDue(body)
           week == SentWeek(body)
           patch == ForCreate(body)
           new == Apply(NoDates, patch)
<1>1. /\ start \subseteq Plain /\ AtMostOne(start) /\ Holdable(start)
      /\ due \subseteq Plain /\ AtMostOne(due) /\ Holdable(due)
  BY TaskBodiesAre DEF AtMostOne, CanBeHeld
<1>2. NoDates \in Tasks
  BY NoneIsAnOption DEF NoDates, Tasks
<1>3. /\ new.scheduled = IF patch.scheduled = Keep THEN {} ELSE The(patch.scheduled)
      /\ new.deadline = IF patch.deadline = Keep THEN {} ELSE The(patch.deadline)
      /\ new.week = IF patch.week = Keep THEN {} ELSE The(patch.week)
  BY <1>2, NewTaskPatchIs, TaskApplied DEF NoDates
<1>4. CASE week = {}
  <2> DEFINE plan == Plan(start, due)
  <2>1. /\ patch.scheduled = {ToAnytype(date) : date \in plan.scheduled}
        /\ patch.deadline = {ToAnytype(date) : date \in plan.deadline}
        /\ patch.week = Keep
    BY <1>4 DEF ForCreate, Keep
  <2>2. /\ plan.scheduled = IF start = {} THEN due ELSE start
        /\ plan.deadline = IF start = {} THEN {} ELSE due
    BY DEF Plan
  <2>3. Holdable({}) /\ AtMostOne({}) /\ {} \subseteq Plain
    BY DEF Holdable, NoneRepeated, AtMostOne
  <2> HIDE DEF plan, start, due, patch, new
  <2>4. Classified(new.scheduled) = IF start = {} THEN due ELSE start
    BY <1>1, <1>3, <2>1, <2>2, DirectlyHeld
  <2>5. Classified(new.deadline) = IF start = {} THEN {} ELSE due
    BY <1>1, <1>3, <2>1, <2>2, <2>3, DirectlyHeld
  <2>6. new.week = {}
    BY <1>3, <2>1
  <2>7. start # {} => due # {}
    BY DEF CanBeHeld, start, due
  <2>8. Holds(new, start, due)
    BY <2>4, <2>5, <2>6, <2>7 DEF Holds, HeldAs
  <2>9. QED
    BY <2>8 DEF start, due, new, patch
<1>5. CASE week # {}
  <2>1. PICK monday \in Int : /\ Monday(monday) = monday /\ week = {monday}
                              /\ start = {Day(monday)} /\ due = {Day(monday + WeekLength - 1)}
    BY <1>5, SentWeekIs
  <2>2. patch.scheduled = Keep /\ patch.deadline = Keep
    BY <1>5 DEF ForCreate, Keep
  <2>3. patch.week = {ToAnytype(Day(monday))}
    BY <2>1 DEF ForCreate
  <2>4. new.week = ToAnytype(Day(monday)) /\ new.scheduled = {} /\ new.deadline = {}
    <3> HIDE DEF new, patch, week, start, due
    <3>1. patch.week # Keep /\ The(patch.week) = ToAnytype(Day(monday))
      BY <2>3, TheOne DEF Keep
    <3>2. QED
      BY <1>3, <2>2, <3>1
  <2>5. HasMidnight(Day(monday))
    BY <1>1, <2>1 DEF Holdable
  <2> HIDE DEF new, start, due
  <2>6. WeekDays(new) = {WeekOf(monday)}
    BY <2>1, <2>4, <2>5, WeekHeld
  <2>7. Holds(new, start, due)
    BY <2>1, <2>6 DEF Holds
  <2>8. QED
    BY <2>7 DEF start, due, new
<1>6. QED
  BY <1>4, <1>5

\* A task whose dates were shown, after a save that sends a week, or dates for a week.
LEMMA WeekSaved ==
    ASSUME config \in Config, NEW task \in Tasks, NEW body \in TaskBodies, CanBeHeld(body),
           SentWeek(body) # {}
    PROVE  Holds(Apply(task, ForUpdate(task, body)), SentStart(body), SentDue(body))
<1> DEFINE start == SentStart(body)
           due == SentDue(body)
           week == SentWeek(body)
           patch == ForUpdate(task, body)
           new == Apply(task, patch)
<1>1. /\ new.scheduled = IF patch.scheduled = Keep THEN task.scheduled ELSE The(patch.scheduled)
      /\ new.deadline = IF patch.deadline = Keep THEN task.deadline ELSE The(patch.deadline)
      /\ new.week = IF patch.week = Keep THEN task.week ELSE The(patch.week)
  BY TaskPatchesAre, TaskApplied
<1>2. PICK monday \in Int : /\ Monday(monday) = monday /\ week = {monday}
                            /\ start = {Day(monday)} /\ due = {Day(monday + WeekLength - 1)}
  BY SentWeekIs
<1>3. patch = OnlyTheWeek(task, week)
  BY ForUpdateIs
<1>4. new.scheduled = {} /\ new.deadline = {}
  <2>1. /\ patch.scheduled = IF task.scheduled = {} THEN Keep ELSE Clear
        /\ patch.deadline = IF task.deadline = {} THEN Keep ELSE Clear
    BY <1>3 DEF OnlyTheWeek
  <2> HIDE DEF new, patch
  <2>2. QED
    BY <1>1, <2>1, ClearIs
<1>5. WeekDays(new) = {WeekOf(monday)}
  <2>1. CASE {monday} = {now.monday : now \in WeekDays(task)}
    <3>1. patch.week = Keep
      BY <1>2, <1>3, <2>1 DEF OnlyTheWeek
    <3>2. new.week = task.week
      BY <1>1, <3>1
    <3>3. WeekDays(task) # {}
      BY <2>1
    <3>4. PICK other \in Int : WeekDays(task) = {WeekOf(other)} /\ task.scheduled = {} /\ task.deadline = {}
      BY <3>3, WeekDaysAre
    <3>5. other = monday
      BY <2>1, <3>4 DEF WeekOf
    <3>6. WeekDays(new) = WeekDays(task)
      BY <1>4, <3>2, <3>4 DEF WeekDays
    <3>7. QED
      BY <3>4, <3>5, <3>6
  <2>2. CASE {monday} # {now.monday : now \in WeekDays(task)}
    <3>1. patch.week = Set(Stored({Day(monday)}))
      <4>1. The(week) = monday
        BY <1>2, TheOne
      <4> DEFINE mondays == {now.monday : now \in WeekDays(task)}
      <4>2. patch.week = IF week = mondays THEN Keep ELSE Set(Stored({Day(The(week))}))
        BY <1>3 DEF OnlyTheWeek
      <4>3. {monday} # mondays
        BY <2>2
      <4> HIDE DEF mondays, patch, week
      <4>4. QED
        BY <1>2, <4>1, <4>2, <4>3
    <3>2. Stored({Day(monday)}) = ToAnytype(Day(monday))
      BY DEF Stored
    <3>3. new.week = ToAnytype(Day(monday))
      BY <1>1, <3>1, <3>2, TheOne DEF Set, Keep
    <3>4. HasMidnight(Day(monday))
      BY <1>2 DEF CanBeHeld, Holdable
    <3> HIDE DEF new
    <3>5. QED
      BY <1>2, <1>4, <3>3, <3>4, WeekHeld
  <2>3. QED
    BY <2>1, <2>2
<1> HIDE DEF new, start, due
<1>6. Holds(new, start, due)
  BY <1>2, <1>5 DEF Holds
<1>7. QED
  BY <1>6 DEF new, start, due, patch

LEMMA WeekReplaced ==
    ASSUME config \in Config, NEW task \in Tasks, NEW body \in TaskBodies, CanBeHeld(body),
           SentWeek(body) = {}, config.weeks, WeekDays(task) # {}
    PROVE  Holds(Apply(task, ForUpdate(task, body)), SentStart(body), SentDue(body))
<1> DEFINE start == SentStart(body)
           due == SentDue(body)
           patch == ForUpdate(task, body)
           new == Apply(task, patch)
           plan == Plan(start, due)
<1>1. /\ start \subseteq Plain /\ AtMostOne(start) /\ Holdable(start)
      /\ due \subseteq Plain /\ AtMostOne(due) /\ Holdable(due)
  BY TaskBodiesAre DEF AtMostOne, CanBeHeld
<1>2. /\ new.scheduled = IF patch.scheduled = Keep THEN task.scheduled ELSE The(patch.scheduled)
      /\ new.deadline = IF patch.deadline = Keep THEN task.deadline ELSE The(patch.deadline)
      /\ new.week = IF patch.week = Keep THEN task.week ELSE The(patch.week)
  BY TaskPatchesAre, TaskApplied
<1>3. task.scheduled = {} /\ task.deadline = {}
  BY WeekDaysAre
<1>4. patch = WeekGivesWay(plan)
  BY ForUpdateIs
<1>5. /\ patch.scheduled = {ToAnytype(date) : date \in plan.scheduled}
      /\ patch.deadline = {ToAnytype(date) : date \in plan.deadline}
      /\ patch.week = Clear
  BY <1>4 DEF WeekGivesWay
<1>6. /\ plan.scheduled = IF start = {} THEN due ELSE start
      /\ plan.deadline = IF start = {} THEN {} ELSE due
  BY DEF Plan
<1>7. Holdable({}) /\ AtMostOne({}) /\ {} \subseteq Plain
  BY DEF Holdable, NoneRepeated, AtMostOne
<1> HIDE DEF plan, start, due, patch, new
<1>8. Classified(new.scheduled) = IF start = {} THEN due ELSE start
  BY <1>1, <1>2, <1>3, <1>5, <1>6, DirectlyHeld
<1>9. Classified(new.deadline) = IF start = {} THEN {} ELSE due
  <2>1. /\ plan.deadline \subseteq Plain /\ AtMostOne(plan.deadline) /\ Holdable(plan.deadline)
    BY <1>1, <1>6, <1>7
  <2>2. new.deadline = IF patch.deadline = Keep THEN {} ELSE The(patch.deadline)
    BY <1>2, <1>3
  <2>3. Classified(new.deadline) = plan.deadline
    BY <1>5, <2>1, <2>2, DirectlyHeld
  <2>4. QED
    BY <1>6, <2>3
<1>10. new.week = {}
  BY <1>2, <1>5, TheOne DEF Clear, Set, Keep
<1>11. start # {} => due # {}
  BY DEF CanBeHeld, start, due
<1>12. Holds(new, start, due)
  BY <1>8, <1>9, <1>10, <1>11 DEF Holds, HeldAs
<1>13. QED
  BY <1>12 DEF start, due, new, patch

\* What a task that hides nothing is shown with.
ShownPlainly(plan, deadline, shown) ==
    \/ plan = {} /\ deadline = {} /\ shown.start = {} /\ shown.due = {} /\ shown.origin = "none"
    \/ plan # {} /\ deadline = {} /\ shown.start = {} /\ shown.due = plan /\ shown.origin = "scheduled"
    \/ plan = {} /\ deadline # {} /\ shown.start = {} /\ shown.due = deadline /\ shown.origin = "deadline"
    \/ plan = deadline /\ deadline # {} /\ shown.start = {} /\ shown.due = deadline /\ shown.origin = "both"
    \/ /\ plan # {} /\ deadline # {} /\ shown.start # {} /\ shown.origin = "deadline"
       /\ plan = shown.start \/ \E start \in shown.start : OnEdge(start)
       /\ deadline = shown.due \/ \E due \in shown.due : OnEdge(due)

LEMMA PlainlyShown ==
    ASSUME config \in Config, NEW task \in Tasks, WeekDays(task) = {}, ~Hides(task),
           \A at \in task.scheduled \cup task.deadline : ~Repeated(at)
    PROVE  ShownPlainly(Classified(task.scheduled), Classified(task.deadline), Wire(task))
<1> DEFINE plan == Classified(task.scheduled)
           deadline == Classified(task.deadline)
           shown == Wire(task)
<1>1. Dates(task).scheduled = plan /\ Dates(task).deadline = deadline
  BY WithoutAWeek
<1>2. /\ plan \subseteq Plain /\ AtMostOne(plan) /\ (plan = {} <=> task.scheduled = {})
      /\ deadline \subseteq Plain /\ AtMostOne(deadline) /\ (deadline = {} <=> task.deadline = {})
  BY ClassifiedIs DEF Tasks
<1>3. \A moment \in plan \cup deadline : moment.kind = "at" => ~Repeated(moment.n)
  <2>1. \A at \in Int : Classify(DayZone, at).kind = "at" => Classify(DayZone, at).n = at
    BY ClassifyIs, Kinds DEF Config, DayZone
  <2>2. \A at \in task.scheduled \cup task.deadline : at \in Int
    BY DEF Tasks, Options
  <2>3. QED
    BY <2>1, <2>2 DEF Classified, DayZone
<1> HIDE DEF plan, deadline
<1>4. CASE plan = {} /\ deadline = {}
  <2>1. shown = Nothing
    BY <1>1, <1>4 DEF Wire
  <2>2. QED
    BY <1>4, <2>1 DEF ShownPlainly, Nothing, plan, deadline
<1>5. CASE plan # {} /\ deadline = {}
  <2>1. shown = Due(The(plan), "scheduled")
    BY <1>1, <1>5 DEF Wire
  <2>2. plan = {The(plan)}
    BY <1>2, <1>5, OneOf
  <2>3. shown.start = {} /\ shown.due = plan /\ shown.origin = "scheduled"
    BY <2>1, <2>2 DEF Due
  <2>4. QED
    BY <1>5, <2>3 DEF ShownPlainly, plan, deadline
<1>6. CASE plan = {} /\ deadline # {}
  <2>1. shown = Due(The(deadline), "deadline")
    BY <1>1, <1>6 DEF Wire
  <2>2. deadline = {The(deadline)}
    BY <1>2, <1>6, OneOf
  <2>3. shown.start = {} /\ shown.due = deadline /\ shown.origin = "deadline"
    BY <2>1, <2>2 DEF Due
  <2>4. QED
    BY <1>6, <2>3 DEF ShownPlainly, plan, deadline
<1>7. CASE plan # {} /\ deadline # {}
  <2> DEFINE from == The(plan)
             to == The(deadline)
  <2>1. plan = {from} /\ from \in Plain /\ deadline = {to} /\ to \in Plain
    BY <1>2, <1>7, OneOf
  <2>2. shown = Schedule(from, to)
    BY <1>1, <1>7 DEF Wire
  <2>3. NoneRepeated({from, to})
    BY <1>3, <2>1 DEF NoneRepeated
  <2> HIDE DEF from, to, shown
  <2>4. shown # Due(from, "scheduled")
    BY <1>2, <1>7 DEF Hides, Due, shown
  <2>5. shown # Due(to, "deadline")
    BY <1>2, <1>7 DEF Hides, Due, shown
  <2>6. ASSUME shown = Due(to, "both"), from = to PROVE ShownPlainly(plan, deadline, shown)
    BY <2>1, <2>6 DEF ShownPlainly, Due
  <2>7. ASSUME NEW start, NEW due, shown = Both(start, due),
               start = from \/ OnEdge(start), due = to \/ OnEdge(due)
        PROVE  ShownPlainly(plan, deadline, shown)
    <3>1. shown.start = {start} /\ shown.due = {due} /\ shown.origin = "deadline"
      BY <2>7 DEF Both
    <3>2. QED
      BY <1>7, <2>1, <2>7, <3>1 DEF ShownPlainly
  <2>8. ShownPlainly(plan, deadline, shown)
    BY <2>1, <2>2, <2>3, <2>4, <2>5, <2>6, <2>7, PairShownIs
  <2>9. QED
    BY <2>8 DEF shown, plan, deadline
<1>8. QED
  BY <1>4, <1>5, <1>6, <1>7

LEMMA DatesSaved ==
    ASSUME config \in Config, NEW task \in Tasks, NEW body \in TaskBodies, CanBeHeld(body),
           SentWeek(body) = {}, WeekDays(task) = {}, ~Hides(task),
           \A at \in task.scheduled \cup task.deadline : ~Repeated(at)
    PROVE  Holds(Apply(task, ForUpdate(task, body)), SentStart(body), SentDue(body))
<1> DEFINE start == SentStart(body)
           due == SentDue(body)
           shown == Wire(task)
           plan == Classified(task.scheduled)
           deadline == Classified(task.deadline)
           patch == ForUpdate(task, body)
           new == Apply(task, patch)
<1>1. /\ start \subseteq Plain /\ AtMostOne(start) /\ Holdable(start)
      /\ due \subseteq Plain /\ AtMostOne(due) /\ Holdable(due)
  BY TaskBodiesAre DEF AtMostOne, CanBeHeld
<1>2. /\ new.scheduled = IF patch.scheduled = Keep THEN task.scheduled ELSE The(patch.scheduled)
      /\ new.deadline = IF patch.deadline = Keep THEN task.deadline ELSE The(patch.deadline)
      /\ new.week = IF patch.week = Keep THEN task.week ELSE The(patch.week)
  BY TaskPatchesAre, TaskApplied
<1>3. patch = OnlyTheDates(task, start, due, shown)
  BY ForUpdateIs
<1>4. ShownPlainly(plan, deadline, shown)
  BY PlainlyShown
<1>5. task.week = {}
  BY DEF Hides
<1> DEFINE appears == start # {} /\ shown.start = {}
           moved == due # shown.due
           to_plan == moved /\ shown.origin # "deadline"
           to_deadline == moved /\ shown.origin \in {"deadline", "both"}
<1>6. /\ patch.week = Keep
      /\ patch.scheduled = IF appears \/ (~to_plan /\ start # shown.start)
                             THEN Written(task, start, "scheduled")
                             ELSE IF to_plan THEN Written(task, due, "scheduled") ELSE Keep
      /\ patch.deadline = IF appears \/ to_deadline THEN Written(task, due, "deadline") ELSE Keep
  BY <1>3 DEF OnlyTheDates
<1>7. /\ \A field : Written(task, start, field) = Set(Stored(start))
      /\ \A field : Written(task, due, field) = Set(Stored(due))
      /\ Classified(Stored(start)) = start /\ Classified(Stored(due)) = due
  BY <1>1, HoldableStored DEF Written
<1>8. \A value : Set(value) # Keep /\ The(Set(value)) = value
  BY TheOne DEF Set, Keep
<1> HIDE DEF start, due, shown, patch, new
<1>9. Classified(new.scheduled) =
          IF appears \/ (~to_plan /\ start # shown.start) THEN start
          ELSE IF to_plan THEN due ELSE plan
  BY <1>2, <1>6, <1>7, <1>8
<1>10. Classified(new.deadline) = IF appears \/ to_deadline THEN due ELSE deadline
  BY <1>2, <1>6, <1>7, <1>8
<1>11. new.week = {}
  BY <1>2, <1>5, <1>6
<1>12. start # {} => due # {}
  BY DEF CanBeHeld, start, due
<1>13. \A moment \in start \cup due : ~OnEdge(moment)
  BY <1>1 DEF Holdable
<1> HIDE DEF plan, deadline
<1> DEFINE first == Classified(new.scheduled)
           second == Classified(new.deadline)
<1>14. CASE shown.start = {} /\ start # {}
  <2>1. first = start /\ second = due
    BY <1>9, <1>10, <1>14
  <2>2. QED
    BY <1>12, <1>14, <2>1 DEF Holds, HeldAs, start, due, new, patch
<1>15. CASE shown.start = {} /\ start = {}
  <2>1. \/ first = due /\ second = {}
        \/ first = {} /\ second = due
        \/ first = due /\ second = due
    BY <1>4, <1>9, <1>10, <1>15 DEF ShownPlainly
  <2> HIDE DEF first, second
  <2>2. CASE due = {}
    <3>1. first = {} /\ second = {}
      BY <2>1, <2>2
    <3>2. QED
      BY <1>11, <1>15, <2>2, <3>1 DEF Holds, HeldAs, first, second, start, due, new, patch
  <2>3. CASE due # {}
    BY <1>15, <2>1, <2>3 DEF Holds, HeldAs, first, second, start, due, new, patch
  <2>4. QED
    BY <2>2, <2>3
<1>16. CASE shown.start # {}
  <2>1. /\ shown.origin = "deadline"
        /\ plan = shown.start \/ \E one \in shown.start : OnEdge(one)
        /\ deadline = shown.due \/ \E one \in shown.due : OnEdge(one)
    BY <1>4, <1>16 DEF ShownPlainly
  <2>2. first = start
    <3>1. CASE start = shown.start
      BY <1>9, <1>13, <1>16, <2>1, <3>1
    <3>2. CASE start # shown.start
      BY <1>9, <2>1, <3>2
    <3>3. QED
      BY <3>1, <3>2
  <2>3. second = due
    <3>1. CASE due = shown.due
      BY <1>10, <1>13, <1>16, <2>1, <3>1
    <3>2. CASE due # shown.due
      BY <1>10, <2>1, <3>2
    <3>3. QED
      BY <3>1, <3>2
  <2> HIDE DEF first, second
  <2>4. CASE start # {}
    BY <1>12, <2>2, <2>3, <2>4 DEF Holds, HeldAs, first, second, start, due, new, patch
  <2>5. CASE start = {} /\ due # {}
    BY <2>2, <2>3, <2>5 DEF Holds, HeldAs, first, second, start, due, new, patch
  <2>6. CASE start = {} /\ due = {}
    BY <1>11, <2>2, <2>3, <2>6 DEF Holds, HeldAs, first, second, start, due, new, patch
  <2>7. QED
    BY <2>4, <2>5, <2>6
<1>17. QED
  BY <1>14, <1>15, <1>16

LEMMA UpdatedTaskHolds ==
    ASSUME config \in Config, NEW task \in Tasks, NEW body \in TaskBodies, CanBeHeld(body),
           config.weeks \/ task.week = {}, ~Hides(task),
           \A at \in task.scheduled \cup task.deadline : ~Repeated(at)
    PROVE  Holds(Apply(task, ForUpdate(task, body)), SentStart(body), SentDue(body))
<1>1. CASE SentWeek(body) # {}
  BY <1>1, WeekSaved
<1>2. CASE SentWeek(body) = {} /\ WeekDays(task) = {}
  BY <1>2, DatesSaved
<1>3. CASE SentWeek(body) = {} /\ WeekDays(task) # {}
  <2>1. config.weeks
    BY <1>3, WithoutAWeek
  <2>2. QED
    BY <1>3, <2>1, WeekReplaced
<1>4. QED
  BY <1>1, <1>2, <1>3

\* What a save of a task leaves is shown as it was sent.
IsTaskAsSent(body, task, before) ==
    LET dates == SentStart(body) \cup SentDue(body)
    IN  /\ Holdable(dates)
        /\ IsSchedule(body)
        /\ \A old \in before :
              ~Hides(old) /\ \A at \in old.scheduled \cup old.deadline : ~Repeated(at)
        => ShowsTask(task, SentStart(body), SentDue(body))

LEMMA TaskShownAsSent ==
    ASSUME DatesInv, NEW body \in TaskBodies, SaveTask(body) \/ CreateTask(body)
    PROVE  IsTaskAsSent(body, The(object'), object)
<1> SUFFICES ASSUME Holdable(SentStart(body) \cup SentDue(body)), IsSchedule(body),
                    \A old \in object :
                       ~Hides(old) /\ \A at \in old.scheduled \cup old.deadline : ~Repeated(at)
             PROVE  ShowsTask(The(object'), SentStart(body), SentDue(body))
  BY DEF IsTaskAsSent
<1>1. config \in Config
  BY DEF DatesInv
<1>2. CanBeHeld(body)
  BY DEF CanBeHeld, Holdable, NoneRepeated, IsSchedule
<1>3. The(object') \in Tasks /\ Holds(The(object'), SentStart(body), SentDue(body))
  <2>1. CASE SaveTask(body)
    <3>1. kind = "task" /\ object # {} /\ object' = {Apply(task, ForUpdate(task, body)) : task \in object}
      BY <2>1 DEF SaveTask
    <3>2. PICK task \in Tasks : object = {task}
      BY <3>1 DEF DatesInv, AtMostOne
    <3>3. object' = {Apply(task, ForUpdate(task, body))}
      BY <3>1, <3>2
    <3>4. The(object') = Apply(task, ForUpdate(task, body))
      BY <3>3, TheOne
    <3>5. config.weeks \/ task.week = {}
      BY <3>1, <3>2 DEF DatesInv
    <3>6. ~Hides(task) /\ \A at \in task.scheduled \cup task.deadline : ~Repeated(at)
      BY <3>2
    <3>7. Apply(task, ForUpdate(task, body)) \in Tasks
      BY <1>1, TaskPatchesAre, TaskApplied
    <3>8. Holds(Apply(task, ForUpdate(task, body)), SentStart(body), SentDue(body))
      BY <1>1, <1>2, <3>5, <3>6, UpdatedTaskHolds
    <3>9. QED
      BY <3>4, <3>7, <3>8
  <2>2. CASE CreateTask(body)
    <3>1. The(object') = Apply(NoDates, ForCreate(body))
      BY <2>2, TheOne DEF CreateTask
    <3>2. NoDates \in Tasks
      BY NoneIsAnOption DEF NoDates, Tasks
    <3>3. Apply(NoDates, ForCreate(body)) \in Tasks
      BY <1>1, <3>2, NewTaskPatchIs, TaskApplied
    <3>4. QED
      BY <1>1, <1>2, <3>1, <3>3, NewTaskHolds
  <2>3. QED
    BY <2>1, <2>2
<1>4. NoneRepeated(SentStart(body) \cup SentDue(body))
  BY DEF Holdable
<1>5. \A from \in SentStart(body) : \E to \in SentDue(body) : from.kind = to.kind /\ from.n < to.n
  BY DEF IsSchedule
<1>6. /\ SentStart(body) \subseteq Plain /\ AtMostOne(SentStart(body))
      /\ SentDue(body) \subseteq Plain /\ AtMostOne(SentDue(body))
  BY TaskBodiesAre DEF AtMostOne
<1>7. QED
  BY <1>1, <1>3, <1>4, <1>5, <1>6, HeldIsShown

\* What a client saves on a task is what it is served next, and what the reminder counts
\* from (writeback.rs and render.rs together), unless the task has dates that were not shown.
THEOREM TasksAreAsSent == Spec => TaskIsAsSent
<1> DEFINE AsSent == kind = "task" /\ sent' # {} =>
              LET body == The(sent')
                  dates == SentStart(body) \cup SentDue(body)
                  task == The(object')
              IN  /\ Holdable(dates)
                  /\ IsSchedule(body)
                  /\ \A old \in object :
                        ~Hides(old) /\ \A at \in old.scheduled \cup old.deadline : ~Repeated(at)
                  => /\ Wire(task).start = SentStart(body)
                     /\ Wire(task).due = SentDue(body)
                     /\ SentDue(body) # {} /\ WeekDays(task) = {} =>
                           ReminderBase(task) = UNION {ReminderOf(date) : date \in SentDue(body)}
<1>1. DatesInv /\ [Next]_vars => [AsSent]_vars
  <2> SUFFICES ASSUME DatesInv, [Next]_vars, vars' # vars, kind = "task", sent' # {}
               PROVE  AsSent
    OBVIOUS
  <2>1. PICK body \in TaskBodies : SaveTask(body) \/ CreateTask(body)
    BY DEF Next, SaveEvent, CreateEvent, ReadAgain
  <2>2. The(sent') = body
    BY <2>1, TheOne DEF SaveTask, CreateTask
  <2>3. IsTaskAsSent(The(sent'), The(object'), object)
    BY <2>1, <2>2, TaskShownAsSent
  <2>4. QED
    BY <2>3 DEF IsTaskAsSent, ShowsTask
<1>2. QED
  BY <1>1, DatesInvHolds, PTL DEF Spec, TaskIsAsSent

-----------------------------------------------------------------------------
(* An occurrence, as its series *)

\* A date as many days later, or as long.
Shift(date, days, slots) == IF date.kind = "day" THEN Day(date.n + days) ELSE At(date.n + slots)

LEMMA LaterIs ==
    ASSUME NEW dates \in SUBSET Plain, NEW days, NEW slots
    PROVE  Later(dates, days, slots) = {Shift(date, days, slots) : date \in dates}
<1> DEFINE later == Later(dates, days, slots)
           shifted == {Shift(date, days, slots) : date \in dates}
<1>1. \A date \in dates : date.kind = "day" \/ date.kind = "at"
  BY PlainIs
<1>2. \A value \in later : value \in shifted
  <2>1. TAKE value \in later
  <2>2. CASE value \in {Day(date.n + days) : date \in {d \in dates : d.kind = "day"}}
    BY <2>2 DEF Shift
  <2>3. CASE value \in {At(date.n + slots) : date \in {d \in dates : d.kind = "at"}}
    BY <2>3 DEF Shift
  <2>4. QED
    BY <2>2, <2>3 DEF Later
<1>3. \A date \in dates : Shift(date, days, slots) \in later
  BY <1>1 DEF Shift, Later
<1> HIDE DEF later
<1>4. QED
  BY <1>2, <1>3 DEF later

\* The clocks of the days show an instant so many slots later as many days later.
Moved(at, days, slots) == Civil(DayZone, at + slots) = Civil(DayZone, at) + days * SlotsPerDay

LEMMA ClassifyMoved ==
    ASSUME config \in Config, NEW at \in Int, NEW days \in Int, NEW slots \in Int, Moved(at, days, slots)
    PROVE  Classify(DayZone, at + slots) = Shift(Classify(DayZone, at), days, slots)
<1> DEFINE civil == Civil(DayZone, at)
           later == Civil(DayZone, at + slots)
<1>1. DayZone \in Zone /\ at + slots \in Int /\ civil \in Int /\ later \in Int
  BY CivilIs DEF Config, DayZone
<1>2. later = civil + days * SlotsPerDay
  BY DEF Moved
<1>3. DayOf(later) = DayOf(civil) + days /\ Midnight(DayOf(later)) = Midnight(DayOf(civil)) + days * SlotsPerDay
  BY <1>1, <1>2, DaysLater, DaysAndTimes
<1>4. Midnight(DayOf(civil)) \in Int /\ days * SlotsPerDay \in Int
  BY <1>1, DaysAndTimes, ClockAssumption
<1>5. later = Midnight(DayOf(later)) <=> civil = Midnight(DayOf(civil))
  BY <1>1, <1>2, <1>3, <1>4
<1>6. \/ civil = Midnight(DayOf(civil)) /\ Classify(DayZone, at) = Day(DayOf(civil))
      \/ civil # Midnight(DayOf(civil)) /\ Classify(DayZone, at) = At(at)
  BY <1>1, ClassifyIs
<1>7. \/ later = Midnight(DayOf(later)) /\ Classify(DayZone, at + slots) = Day(DayOf(later))
      \/ later # Midnight(DayOf(later)) /\ Classify(DayZone, at + slots) = At(at + slots)
  BY <1>1, ClassifyIs
<1> HIDE DEF civil, later
<1>8. QED
  BY <1>3, <1>5, <1>6, <1>7, Kinds DEF Shift

LEMMA ShiftKeepsKind ==
    ASSUME NEW date \in Plain, NEW days, NEW slots
    PROVE  Shift(date, days, slots).kind = date.kind
  BY PlainIs, Kinds DEF Shift

LEMMA ServedPlainly ==
    ASSUME NEW event, event.rrule = FALSE
    PROVE  ServedEvent(event).start = ShownStart(event) /\ ServedEvent(event).end = ShownEnd(event)
<1>1. /\ ServedEvent(event).start = ZonedDates(event, event.rrule).start
      /\ ServedEvent(event).end = ZonedDates(event, event.rrule).end
  BY DEF ServedEvent
<1>2. \A value : WireValue(value, event.rrule) = value /\ Ends(value, event.rrule) = DayAfter(value)
  BY DEF WireValue, Ends, DayAfter
<1>3. ZonedDates(event, event.rrule).start = ShownStart(event)
  <2>1. ZonedDates(event, event.rrule).start = {WireValue(value, event.rrule) : value \in ShownStart(event)}
    BY ZonedDatesAre
  <2>2. QED
    BY <1>2, <2>1
<1>4. ZonedDates(event, event.rrule).end = ShownEnd(event)
  <2> DEFINE last == IF event.start = {} THEN {} ELSE ShownLast(event)
  <2>1. ZonedDates(event, event.rrule).end = {Ends(value, event.rrule) : value \in last}
    BY ZonedDatesAre
  <2>2. ShownEnd(event) = {DayAfter(value) : value \in last}
    BY DEF ShownEnd
  <2> HIDE DEF last
  <2>3. QED
    BY <1>2, <2>1, <2>2
<1>5. QED
  BY <1>1, <1>3, <1>4

\* Dates and events that are so far apart.
LaterInstants(instants, slots) == {at + slots : at \in instants}
AllMoved(event, days, slots) == \A at \in event.start \cup event.end : Moved(at, days, slots)

\* Two events whose dates are so many days apart are shown so many days apart.
LEMMA EventsMoved ==
    ASSUME config \in Config, NEW event \in EventRecords, NEW made \in EventRecords,
           event.rrule = FALSE, made.rrule = FALSE, NEW days \in Int, NEW slots \in Int,
           made.start = LaterInstants(event.start, slots), made.end = LaterInstants(event.end, slots),
           AllMoved(event, days, slots)
    PROVE  /\ ServedEvent(made).start = Later(ServedEvent(event).start, days, slots)
           /\ ServedEvent(made).end = Later(ServedEvent(event).end, days, slots)
<1> DEFINE Kind(at) == Classify(DayZone, at).kind
           Shifted(date) == Shift(date, days, slots)
<1> USE DEF LaterInstants, AllMoved
<1>1. event.start \in SUBSET Int /\ event.end \in SUBSET Int
  BY DEF EventRecords, Options
<1>2. \A at \in event.start \cup event.end :
         /\ Classify(DayZone, at) \in Plain
         /\ Classify(DayZone, at + slots) = Shifted(Classify(DayZone, at))
         /\ Kind(at + slots) = Kind(at)
  <2>1. DayZone \in Zone
    BY DEF Config, DayZone
  <2>2. QED
    BY <1>1, <2>1, ClassifyIs, ClassifyMoved, ShiftKeepsKind
<1>3. IsAllDay(made) = IsAllDay(event)
  <2>1. /\ IsAllDay(made) <=> made.start # {} /\ \A at \in made.start \cup made.end : Kind(at) = "day"
        /\ IsAllDay(event) <=> event.start # {} /\ \A at \in event.start \cup event.end : Kind(at) = "day"
    BY DEF IsAllDay
  <2> HIDE DEF Kind
  <2>2. IsAllDay(made) <=> IsAllDay(event)
    BY <1>2, <2>1
  <2>3. QED
    BY <2>2, AllDayIsBoolean
<1>4. \A at \in event.start \cup event.end :
         ValueAs(at + slots, IsAllDay(made)) = Shifted(ValueAs(at, IsAllDay(event)))
  <2>1. TAKE at \in event.start \cup event.end
  <2>2. CASE IsAllDay(event)
    BY <1>2, <1>3, <2>2 DEF ValueAs
  <2>3. CASE ~IsAllDay(event)
    <3>1. ~IsAllDay(made)
      BY <1>3, <2>3
    <3>2. QED
      BY <2>3, <3>1, Kinds DEF ValueAs, Shift
  <2>4. QED
    BY <2>2, <2>3
<1> DEFINE Value(at) == ValueAs(at, IsAllDay(event))
           Other(at) == ValueAs(at, IsAllDay(made))
<1>5. ASSUME NEW instants \in SUBSET (event.start \cup event.end)
      PROVE  Values(made, {at + slots : at \in instants}) =
                {Shifted(value) : value \in Values(event, instants)}
  <2> DEFINE others == {Other(at) : at \in {one + slots : one \in instants}}
             shifted == {Shifted(value) : value \in {Value(at) : at \in instants}}
  <2>1. /\ Values(made, {at + slots : at \in instants}) = others
        /\ {Shifted(value) : value \in Values(event, instants)} = shifted
    BY DEF Values
  <2>2. \A at \in instants : Other(at + slots) = Shifted(Value(at))
    BY <1>4
  <2> HIDE DEF Other, Value, Shifted
  <2>3. others = shifted
    <3>1. \A value \in others : value \in shifted
      BY <2>2
    <3>2. \A value \in shifted : value \in others
      BY <2>2
    <3> HIDE DEF others, shifted
    <3>3. QED
      BY <3>1, <3>2
  <2>4. QED
    BY <2>1, <2>3
<1>6. ShownStart(made) = {Shifted(value) : value \in ShownStart(event)}
  BY <1>5 DEF ShownStart
<1>7. Values(made, made.end) = {Shifted(value) : value \in Values(event, event.end)}
  BY <1>5
<1>8. ShownLast(made) = {Shifted(value) : value \in ShownLast(event)}
  <2>1. made.end = {} <=> event.end = {}
    OBVIOUS
  <2>2. CASE IsAllDay(event) /\ event.end = {}
    <3>1. ShownLast(made) = ShownStart(made) /\ ShownLast(event) = ShownStart(event)
      BY <1>3, <2>1, <2>2 DEF ShownLast
    <3>2. QED
      BY <1>6, <3>1
  <2>3. CASE ~(IsAllDay(event) /\ event.end = {})
    <3>1. ShownLast(made) = Values(made, made.end) /\ ShownLast(event) = Values(event, event.end)
      BY <1>3, <2>1, <2>3 DEF ShownLast
    <3>2. QED
      BY <1>7, <3>1
  <2>4. QED
    BY <2>2, <2>3
<1>9. ShownStart(event) \subseteq Plain /\ ShownLast(event) \subseteq Plain
  BY <1>1, ValuesAre DEF ShownStart, ShownLast
<1>10. \A value \in Plain : DayAfter(value) \in Plain /\ DayAfter(Shifted(value)) = Shifted(DayAfter(value))
  <2>1. TAKE value \in Plain
  <2>2. CASE value.kind = "day"
    <3>1. value.n \in Int /\ value.n + days + 1 = value.n + 1 + days
      BY PlainIs
    <3>2. QED
      BY <2>2, <3>1, Kinds DEF DayAfter, Shift, Plain
  <2>3. CASE value.kind # "day"
    BY <2>3, Kinds DEF DayAfter, Shift
  <2>4. QED
    BY <2>2, <2>3
<1>11. made.start = {} <=> event.start = {}
  OBVIOUS
<1> HIDE DEF Shifted
<1>12. ShownEnd(made) = {Shifted(value) : value \in ShownEnd(event)}
  <2>1. CASE event.start = {}
    BY <1>11, <2>1 DEF ShownEnd
  <2>2. CASE event.start # {}
    <3> DEFINE one == {DayAfter(value) : value \in ShownLast(made)}
               two == {Shifted(value) : value \in {DayAfter(last) : last \in ShownLast(event)}}
    <3>1. ShownEnd(made) = one /\ {Shifted(value) : value \in ShownEnd(event)} = two
      BY <1>11, <2>2 DEF ShownEnd
    <3>2. \A value \in one : value \in two
      BY <1>8, <1>9, <1>10
    <3>3. \A value \in two : value \in one
      BY <1>8, <1>9, <1>10
    <3> HIDE DEF one, two
    <3>4. QED
      BY <3>1, <3>2, <3>3
  <2>3. QED
    BY <2>1, <2>2
<1>13. ShownEnd(event) \subseteq Plain
  BY <1>9, <1>10 DEF ShownEnd
<1>14. /\ Later(ShownStart(event), days, slots) = {Shifted(value) : value \in ShownStart(event)}
       /\ Later(ShownEnd(event), days, slots) = {Shifted(value) : value \in ShownEnd(event)}
  BY <1>9, <1>13, LaterIs DEF Shifted
<1>15. QED
  BY <1>6, <1>12, <1>14, ServedPlainly

\* Clocks that run evenly from one instant to a later night do so all the way, and show the
\* night once or for the first time.
LEMMA EvenClocks ==
    ASSUME NEW zone \in Zone, NEW from \in Int, NEW to \in Int, NEW night \in Int,
           from < to, to <= night, Civil(zone, night) - Civil(zone, from) = night - from
    PROVE  /\ Civil(zone, to) = Civil(zone, from) + (to - from)
           /\ ~Ambiguous(zone, Civil(zone, from)) => Earliest(zone, Civil(zone, night)) = {night}
<1>1. zone.before \in Int /\ zone.after \in Int /\ zone.change \in Int
  BY DEF Zone
<1>2. Civil(zone, to) = Civil(zone, from) + (to - from)
  BY <1>1 DEF Civil
<1>3. ASSUME ~Ambiguous(zone, Civil(zone, from)) PROVE Earliest(zone, Civil(zone, night)) = {night}
  <2> DEFINE civil == Civil(zone, night)
             one == civil - zone.before
             two == civil - zone.after
             shown == {at \in {one, two} : Civil(zone, at) = civil}
  <2>1. civil \in Int /\ one \in Int /\ two \in Int
    BY <1>1, CivilIs
  <2>2. CASE ~Ambiguous(zone, civil)
    BY <2>2, EarliestIsThere
  <2>3. CASE Ambiguous(zone, civil)
    <3>1. night < zone.change
      <4>1. SUFFICES ASSUME ~(night < zone.change) PROVE FALSE
        OBVIOUS
      <4>2. civil = night + zone.after
        BY <4>1 DEF Civil
      <4>3. zone.before # zone.after /\ Civil(zone, one) = civil
        BY <2>3 DEF Ambiguous
      <4>4. one < zone.change
        BY <1>1, <2>1, <4>3 DEF Civil
      <4>5. from >= zone.change
        BY <1>1, <4>1, <4>2, <4>3 DEF Civil
      <4>6. Civil(zone, from) = from + zone.after
        BY <1>1, <4>5 DEF Civil
      <4>7. Ambiguous(zone, Civil(zone, from))
        BY <1>1, <2>1, <4>2, <4>3, <4>4, <4>5, <4>6 DEF Ambiguous, Civil
      <4>8. QED
        BY <1>3, <4>7
    <3>2. civil = night + zone.before /\ one = night
      BY <1>1, <3>1 DEF Civil
    <3>3. \A at \in shown : night <= at
      BY <1>1, <2>1, <3>1, <3>2 DEF Civil
    <3>4. night \in shown
      BY <3>2
    <3>5. Earliest(zone, civil) = {at \in shown : \A other \in shown : at <= other}
      BY DEF Earliest
    <3>6. shown \subseteq Int
      BY <2>1
    <3>7. \A a, b \in Int : a <= b /\ b <= a => a = b
      OBVIOUS
    <3> HIDE DEF shown
    <3>8. {at \in shown : \A other \in shown : at <= other} = {night}
      BY <3>3, <3>4, <3>6, <3>7
    <3>9. QED
      BY <3>5, <3>8
  <2>4. QED
    BY <2>2, <2>3
<1>4. QED
  BY <1>2, <1>3

\* The last second of the day of an instant.
NightOf(to) == to + LastSecond(DayOf(Civil(DayZone, to))) - Civil(DayZone, to)

LEMMA SteadyIs ==
    ASSUME config \in Config, NEW from \in Int, NEW to \in Int, from < to, Steady(from, to)
    PROVE  /\ Civil(DayZone, to) = Civil(DayZone, from) + (to - from)
           /\ NightOf(to) \in Int
           /\ ~Repeated(from) =>
                 Earliest(DayZone, LastSecond(DayOf(Civil(DayZone, to)))) = {NightOf(to)}
<1> DEFINE civil == Civil(DayZone, to)
           last == LastSecond(DayOf(civil))
           night == NightOf(to)
<1>1. DayZone \in Zone /\ DayZone \in ZonesUsed
  BY DEF Config, DayZone, ZonesUsed
<1>2. civil \in Int /\ last \in Int /\ civil <= last /\ Civil(DayZone, from) \in Int
  BY <1>1, CivilIs, DaysAndTimes
<1>3. night = to + last - civil /\ night \in Int /\ to <= night
  BY <1>2 DEF NightOf
<1>4. Civil(DayZone, night) - Civil(DayZone, from) = night - from
  BY DEF Steady, NightOf
<1>5. Civil(DayZone, night) \in Int
  BY <1>1, <1>3, CivilIs
<1> HIDE DEF night
<1>6. civil = Civil(DayZone, from) + (to - from)
  BY <1>1, <1>3, <1>4, EvenClocks
<1>7. Civil(DayZone, night) = last
  <2>1. last \in Int /\ civil \in Int /\ Civil(DayZone, from) \in Int
    BY <1>2
  <2> HIDE DEF civil, last
  <2>2. QED
    BY <1>3, <1>4, <1>5, <1>6, <2>1
<1>8. ~Repeated(from) => Earliest(DayZone, Civil(DayZone, night)) = {night}
  BY <1>1, <1>3, <1>4, EvenClocks DEF Repeated
<1>9. QED
  BY <1>3, <1>6, <1>7, <1>8 DEF night

\* An occurrence is on the clock where the series' start is, some days later.
LEMMA OccurrenceMoved ==
    ASSUME config \in Config, config.timezone = DayZone, NEW series \in EventRecords,
           NEW one \in Upcoming(series, config.timezone), NEW start \in series.start
    PROVE  LET days == one.day - DayOf(Civil(config.timezone, start))
           IN  /\ one.at \in Int /\ start \in Int /\ days \in Int /\ series.start = {start}
               /\ Moved(start, days, one.at - start)
<1>1. series.start = {start} /\ start \in Int
  <2>1. series.start \in Options
    BY DEF EventRecords
  <2>2. series.start \subseteq Int /\ AtMostOne(series.start)
    BY <2>1 DEF Options
  <2>3. start \in Int /\ \A other \in series.start : other = start
    BY <2>2 DEF AtMostOne
  <2>4. QED
    BY <2>3
<1>2. PICK at \in Expansion(start) : one = OccurrenceAt(at)
  <2> DEFINE upcoming == Upcoming(series, config.timezone)
  <2>1. upcoming # {}
    OBVIOUS
  <2>2. upcoming = {OccurrenceAt(at) : at \in Expansion(start)}
    BY <1>1, <2>1, UpcomingIs
  <2> HIDE DEF upcoming
  <2>3. one \in {OccurrenceAt(at) : at \in Expansion(start)}
    BY <2>2 DEF upcoming
  <2>4. QED
    BY <2>3
<1>3. PICK k \in 0 .. Horizon : at \in Nth(start, k)
  BY <1>2 DEF Expansion
<1>4. /\ at \in Int /\ k \in Int
      /\ Civil(config.timezone, at) = Civil(config.timezone, start) + k * SlotsPerDay
      /\ DayOf(Civil(config.timezone, at)) = DayOf(Civil(config.timezone, start)) + k
  BY <1>1, <1>3, NthIs, HorizonAssumption
<1>5. one.at = at /\ one.day = DayOf(Civil(config.timezone, at))
  BY <1>2 DEF OccurrenceAt
<1>6. DayOf(Civil(config.timezone, start)) \in Int
  BY <1>1, CivilIs, DaysAndTimes DEF Config
<1>7. one.day - DayOf(Civil(config.timezone, start)) = k
  BY <1>4, <1>5, <1>6
<1>8. start + (at - start) = at
  BY <1>1, <1>4
<1>9. QED
  BY <1>1, <1>4, <1>5, <1>7, <1>8 DEF Moved

\* The end of a series is on the clock where it was too, if the clocks run evenly until then.
EvenEnds(series, start, at, slots) ==
    \A end \in series.end : end > start /\ Steady(start, end) /\ Steady(at, end + slots)

EndsFollow(series, start, at, days, slots) ==
    /\ \A end \in series.end : end \in Int /\ Moved(end, days, slots)
    /\ EndOf(series, at) = {end + slots : end \in series.end}
    /\ EndOf(series, start) = series.end
    /\ Carried(series, series.end, at) = {end + slots : end \in series.end}

LEMMA EndsMoved ==
    ASSUME config \in Config, NEW series \in EventRecords, NEW start \in Int, series.start = {start},
           NEW at \in Int, NEW days \in Int, NEW slots, slots = at - start, Moved(start, days, slots),
           EvenEnds(series, start, at, slots)
    PROVE  EndsFollow(series, start, at, days, slots)
<1>1. series.end \subseteq Int /\ slots \in Int /\ start + slots = at
  BY DEF EventRecords, Options
<1>2. \A end \in series.end : Moved(end, days, slots)
  <2>1. TAKE end \in series.end
  <2>2. /\ end \in Int /\ start < end /\ end + slots \in Int /\ at < end + slots
        /\ Steady(start, end) /\ Steady(at, end + slots)
    BY <1>1 DEF EvenEnds
  <2>3. Civil(DayZone, end) = Civil(DayZone, start) + (end - start)
    BY <2>2, SteadyIs
  <2>4. Civil(DayZone, end + slots) = Civil(DayZone, at) + (end + slots - at)
    BY <2>2, SteadyIs
  <2>5. Civil(DayZone, at) = Civil(DayZone, start) + days * SlotsPerDay
    BY <1>1 DEF Moved
  <2>6. Civil(DayZone, start) \in Int /\ days * SlotsPerDay \in Int
    BY CivilIs, ClockAssumption DEF Config, DayZone
  <2>7. QED
    BY <1>1, <2>2, <2>3, <2>4, <2>5, <2>6 DEF Moved
<1>3. {one \in series.end : \A first \in series.start : one > first} = series.end
  BY DEF EvenEnds
<1>4. \A end \in series.end : at + (end - start) = end + slots /\ start + (end - start) = end
  BY <1>1
<1>5. \A from \in Int : EndOf(series, from) = {from + (end - start) : end \in series.end}
  BY <1>3 DEF EndOf
<1>6. EndOf(series, at) = {at + (end - start) : end \in series.end}
      /\ EndOf(series, start) = {start + (end - start) : end \in series.end}
  BY <1>5
<1>7. Carried(series, series.end, at) = {at + (end - start) : end \in series.end}
  BY DEF Carried
<1>8. QED
  BY <1>1, <1>2, <1>4, <1>6, <1>7 DEF EndsFollow

\* An occurrence that is on the clock where its series is, its end included.
Follows(series, start, at, days, slots) ==
    /\ series \in EventRecords /\ series.start = {start}
    /\ start \in Int /\ at \in Int /\ days \in Int /\ slots \in Int /\ at = start + slots
    /\ Moved(start, days, slots)
    /\ EndsFollow(series, start, at, days, slots)

First(series) == [series EXCEPT !.rrule = FALSE, !.exdates = {}]

LEMMA FirstIs ==
    ASSUME NEW series \in EventRecords
    PROVE  /\ First(series) \in EventRecords
           /\ First(series).start = series.start /\ First(series).end = series.end
           /\ First(series).rrule = FALSE
  BY DEF First, EventRecords, InstantSets

LEMMA EntryIs ==
    ASSUME NEW event, NEW deadline \in Options, ~event.rrule
    PROVE  /\ DeadlineEntry(event, deadline) \in EventRecords
           /\ DeadlineEntry(event, deadline).start = deadline
           /\ DeadlineEntry(event, deadline).end = {}
           /\ DeadlineEntry(event, deadline).rrule = FALSE
  BY NoneIsAnOption DEF DeadlineEntry, EventRecords, InstantSets

\* Two events whose dates are so many days apart.
Apart(event, made, days, slots) ==
    /\ event \in EventRecords /\ made \in EventRecords /\ days \in Int /\ slots \in Int
    /\ event.rrule = FALSE /\ made.rrule = FALSE
    /\ made.start = LaterInstants(event.start, slots)
    /\ made.end = LaterInstants(event.end, slots)
    /\ AllMoved(event, days, slots)

ShownApart(event, made, days, slots) ==
    /\ ServedEvent(made).start = Later(ServedEvent(event).start, days, slots)
    /\ ServedEvent(made).end = Later(ServedEvent(event).end, days, slots)

LEMMA ApartIsShown ==
    ASSUME config \in Config, NEW event, NEW made, NEW days, NEW slots, Apart(event, made, days, slots)
    PROVE  ShownApart(event, made, days, slots)
<1>1. /\ event \in EventRecords /\ made \in EventRecords /\ days \in Int /\ slots \in Int
      /\ event.rrule = FALSE /\ made.rrule = FALSE
      /\ made.start = LaterInstants(event.start, slots)
      /\ made.end = LaterInstants(event.end, slots)
      /\ AllMoved(event, days, slots)
  BY DEF Apart
<1>2. /\ ServedEvent(made).start = Later(ServedEvent(event).start, days, slots)
      /\ ServedEvent(made).end = Later(ServedEvent(event).end, days, slots)
  BY <1>1, EventsMoved
<1>3. QED
  BY <1>2 DEF ShownApart

LEMMA ShownAsFirst ==
    ASSUME config \in Config, NEW series, NEW start, NEW at, NEW days, NEW slots,
           Follows(series, start, at, days, slots)
    PROVE  LET made == ServedEvent(MeetingOf(series, at))
               first == ServedEvent(First(series))
               moved == ServedEvent(DeadlineEntry(MeetingOf(series, at), Carried(series, series.end, at)))
               entry == ServedEvent(DeadlineEntry(First(series), series.end))
           IN  /\ made.start = Later(first.start, days, slots)
               /\ made.end = Later(first.end, days, slots)
               /\ moved.start = Later(entry.start, days, slots)
               /\ moved.end = Later(entry.end, days, slots)
<1> DEFINE later == {end + slots : end \in series.end}
<1>1. /\ series \in EventRecords /\ series.start = {start}
      /\ start \in Int /\ at \in Int /\ days \in Int /\ slots \in Int /\ at = start + slots
      /\ \A end \in series.end : end \in Int /\ Moved(end, days, slots)
      /\ Moved(start, days, slots)
      /\ EndOf(series, at) = later /\ Carried(series, series.end, at) = later
  BY DEF Follows, EndsFollow
<1>2. series.end \in Options /\ later \in Options
  BY <1>1 DEF EventRecords, Options, AtMostOne
<1> HIDE DEF later
<1>3. /\ MeetingOf(series, at).start = {at} /\ MeetingOf(series, at).end = later
      /\ MeetingOf(series, at).rrule = FALSE
  BY <1>1 DEF MeetingOf
<1>4. MeetingOf(series, at) \in EventRecords
  <2>1. {at} \in Options
    BY <1>1 DEF Options, AtMostOne
  <2>2. QED
    BY <1>1, <1>2, <2>1 DEF MeetingOf, EventRecords, InstantSets
<1>5. /\ First(series) \in EventRecords /\ First(series).rrule = FALSE
      /\ First(series).start = {start} /\ First(series).end = series.end
  BY <1>1, FirstIs
<1>6. {at} = {one + slots : one \in {start}}
  BY <1>1
<1> DEFINE made == MeetingOf(series, at)
           first == First(series)
           moved == DeadlineEntry(made, Carried(series, series.end, at))
           entry == DeadlineEntry(first, series.end)
<1>7. /\ moved \in EventRecords /\ moved.start = later /\ moved.end = {} /\ moved.rrule = FALSE
  <2>1. ~made.rrule /\ Carried(series, series.end, at) = later
    BY <1>1, <1>3
  <2> HIDE DEF made
  <2>2. QED
    BY <1>2, <2>1, EntryIs
<1>8. /\ entry \in EventRecords /\ entry.start = series.end /\ entry.end = {} /\ entry.rrule = FALSE
  <2>1. ~first.rrule /\ series.end \in Options
    BY <1>2, <1>5
  <2> DEFINE ends == series.end
  <2> HIDE DEF first, ends
  <2>2. \A event : ~event.rrule =>
           /\ DeadlineEntry(event, ends) \in EventRecords /\ DeadlineEntry(event, ends).start = ends
           /\ DeadlineEntry(event, ends).end = {} /\ DeadlineEntry(event, ends).rrule = FALSE
    <3>1. ends \in Options
      BY <2>1 DEF ends
    <3>2. QED
      BY <3>1, EntryIs
  <2>3. QED
    BY <2>1, <2>2 DEF ends
<1> HIDE DEF made, first, moved, entry
<1>9. Apart(first, made, days, slots)
  <2>1. made \in EventRecords /\ first \in EventRecords /\ made.rrule = FALSE /\ first.rrule = FALSE
    BY <1>3, <1>4, <1>5 DEF made, first
  <2>2. made.start = {one + slots : one \in first.start}
    BY <1>3, <1>5, <1>6 DEF made, first
  <2>3. made.end = {one + slots : one \in first.end}
    BY <1>3, <1>5 DEF made, first, later
  <2>4. \A one \in first.start \cup first.end : Moved(one, days, slots)
    BY <1>1, <1>5 DEF first
  <2>5. QED
    BY <1>1, <2>1, <2>2, <2>3, <2>4 DEF Apart, LaterInstants, AllMoved
<1>10. Apart(entry, moved, days, slots)
  <2>1. moved.start = {one + slots : one \in entry.start}
    BY <1>7, <1>8 DEF later
  <2>2. moved.end = {one + slots : one \in entry.end}
    BY <1>7, <1>8
  <2>3. \A one \in entry.start \cup entry.end : Moved(one, days, slots)
    BY <1>1, <1>8
  <2>4. QED
    BY <1>1, <1>7, <1>8, <2>1, <2>2, <2>3 DEF Apart, LaterInstants, AllMoved
<1>11. ShownApart(first, made, days, slots) /\ ShownApart(entry, moved, days, slots)
  BY <1>9, <1>10, ApartIsShown
<1>12. QED
  BY <1>11 DEF made, first, moved, entry, ShownApart

\* When a deadline is met, as an instant.
TillEnd(end) == IF Classify(DayZone, end).kind = "day" THEN NightOf(end) ELSE end

\* Two dates with clocks that run evenly between them are shown as a pair: as they are if
\* they are of one kind, as instants if not.
LEMMA SteadySchedule ==
    ASSUME config \in Config, config.timezone = DayZone, NEW start \in Int, NEW end \in Int,
           start < end, Steady(start, end), ~Repeated(start), ~Repeated(end)
    PROVE  LET plan == Classify(DayZone, start)
               deadline == Classify(DayZone, end)
           IN  Schedule(plan, deadline) =
                  IF plan.kind = deadline.kind THEN Both(plan, deadline)
                                               ELSE Both(At(start), At(TillEnd(end)))
<1> DEFINE plan == Classify(DayZone, start)
           deadline == Classify(DayZone, end)
           b == Civil(DayZone, start)
           c == Civil(DayZone, end)
           e == IF deadline.kind = "day" THEN LastSecond(DayOf(c)) ELSE c
           till == TillEnd(end)
<1>1. DayZone \in Zone /\ DayZone \in ZonesUsed /\ b \in Int /\ c \in Int
  BY CivilIs DEF Config, DayZone, ZonesUsed
<1>2. c = b + (end - start)
  BY SteadyIs
<1>3. b < c
  <2> HIDE DEF b, c
  <2>1. QED
    BY <1>1, <1>2
<1>4. /\ plan \in Plain /\ deadline \in Plain
      /\ \/ b = Midnight(DayOf(b)) /\ plan = Day(DayOf(b))
         \/ b # Midnight(DayOf(b)) /\ plan = At(start)
      /\ \/ c = Midnight(DayOf(c)) /\ deadline = Day(DayOf(c))
         \/ c # Midnight(DayOf(c)) /\ deadline = At(end)
  BY <1>1, ClassifyIs
<1>5. till = IF deadline.kind = "day" THEN NightOf(end) ELSE end
  BY DEF TillEnd
<1>6. Earliest(DayZone, b) = {start}
  BY <1>1, EarliestIsThere DEF Repeated
<1>7. Earliest(DayZone, e) = {till}
  <2>1. CASE deadline.kind = "day"
    BY <1>5, <2>1, SteadyIs
  <2>2. CASE deadline.kind # "day"
    BY <1>1, <1>5, <2>2, EarliestIsThere DEF Repeated
  <2>3. QED
    BY <2>1, <2>2
<1> HIDE DEF plan, deadline, b, c, till
<1>8. Begins(plan) = b
  <2>1. CASE plan = Day(DayOf(b)) /\ b = Midnight(DayOf(b))
    BY <2>1, Kinds DEF Begins
  <2>2. CASE plan = At(start)
    BY <2>2, Kinds DEF Begins, b
  <2>3. QED
    BY <1>4, <2>1, <2>2
<1>9. Expires(deadline) = e
  <2>1. CASE deadline = Day(DayOf(c))
    BY <2>1, Kinds DEF Expires
  <2>2. CASE deadline = At(end)
    BY <2>2, Kinds DEF Expires, c
  <2>3. QED
    BY <1>4, <2>1, <2>2
<1>10. e \in Int /\ b < e
  BY <1>1, <1>3, DaysAndTimes
<1>11. plan # deadline
  <2>1. DayOf(b) = DayOf(c) /\ b = Midnight(DayOf(b)) => c # Midnight(DayOf(c))
    BY <1>1, <1>3
  <2>2. QED
    BY <1>4, <2>1, Kinds
<1> HIDE DEF e
<1>12. CASE plan.kind = deadline.kind
  <2>1. Schedule(plan, deadline) = Both(plan, deadline)
    BY <1>8, <1>9, <1>10, <1>11, <1>12 DEF Schedule
  <2>2. QED
    BY <1>12, <2>1 DEF plan, deadline
<1>13. CASE plan.kind # deadline.kind
  <2>1. ~(plan.kind = "at" /\ DayOf(b) = deadline.n)
    <3>1. SUFFICES ASSUME plan.kind = "at", DayOf(b) = deadline.n PROVE FALSE
      OBVIOUS
    <3>2. deadline.kind # "at"
      BY <1>13, <3>1
    <3>3. c = Midnight(DayOf(c)) /\ deadline = Day(DayOf(c))
      BY <1>4, <3>2, Kinds
    <3>4. c = Midnight(DayOf(b))
      BY <3>1, <3>3, Kinds
    <3>5. QED
      BY <1>1, <1>3, <3>4, DaysAndTimes
  <2>2. The({start}) = start /\ The({till}) = till
    BY TheOne
  <2>3. ~(b >= e)
    BY <1>1, <1>10
  <2>4. Schedule(plan, deadline) = Both(At(start), At(till))
    BY <1>6, <1>7, <1>8, <1>9, <1>11, <1>13, <2>1, <2>2, <2>3 DEF Schedule
  <2>5. QED
    BY <1>13, <2>4 DEF plan, deadline, till
<1>14. QED
  BY <1>12, <1>13 DEF plan, deadline

LEMMA TillEndMoved ==
    ASSUME config \in Config, NEW end \in Int, NEW days \in Int, NEW slots \in Int, Moved(end, days, slots)
    PROVE  TillEnd(end + slots) = TillEnd(end) + slots /\ TillEnd(end) \in Int
<1> DEFINE c == Civil(DayZone, end)
           d == Civil(DayZone, end + slots)
<1>1. DayZone \in Zone /\ end + slots \in Int /\ c \in Int /\ d \in Int
  BY CivilIs DEF Config, DayZone
<1>2. d = c + days * SlotsPerDay /\ days * SlotsPerDay \in Int
  BY ClockAssumption DEF Moved
<1>3. DayOf(c) \in Int /\ DayOf(d) \in Int /\ DayOf(d) = DayOf(c) + days
      /\ Midnight(DayOf(d)) = Midnight(DayOf(c)) + days * SlotsPerDay
  BY <1>1, <1>2, DaysLater, DaysAndTimes
<1>4. /\ LastSecond(DayOf(c)) = Midnight(DayOf(c)) + SlotsPerDay - 1
      /\ LastSecond(DayOf(d)) = Midnight(DayOf(d)) + SlotsPerDay - 1
      /\ Midnight(DayOf(c)) \in Int
  BY <1>3, MidnightsOfDays
<1>5. NightOf(end) = end + LastSecond(DayOf(c)) - c
      /\ NightOf(end + slots) = end + slots + LastSecond(DayOf(d)) - d
  BY DEF NightOf
<1> HIDE DEF c, d
<1>6. NightOf(end + slots) = NightOf(end) + slots /\ NightOf(end) \in Int
  BY <1>1, <1>2, <1>3, <1>4, <1>5, ClockAssumption
<1>7. Classify(DayZone, end + slots).kind = Classify(DayZone, end).kind
  BY <1>1, ClassifyMoved, ClassifyIs, ShiftKeepsKind
<1>8. QED
  BY <1>6, <1>7 DEF TillEnd

LEMMA LaterOne ==
    ASSUME NEW date \in Plain, NEW days, NEW slots
    PROVE  Later({date}, days, slots) = {Shift(date, days, slots)}
<1>1. {date} \in SUBSET Plain
  OBVIOUS
<1>2. Later({date}, days, slots) = {Shift(one, days, slots) : one \in {date}}
  BY <1>1, LaterIs
<1>3. QED
  BY <1>2

\* Two instants that a task can be shown from.
Between(from, to) ==
    from \in Int /\ to \in Int /\ from < to /\ Steady(from, to) /\ ~Repeated(from) /\ ~Repeated(to)

Pair(from, to) == Schedule(Classify(DayZone, from), Classify(DayZone, to))

LEMMA BothIs == \A pair, start, due : pair = Both(start, due) => pair.start = {start} /\ pair.due = {due}
  BY DEF Both

LEMMA PairMoved ==
    ASSUME config \in Config, config.timezone = DayZone, NEW from, NEW to, NEW days \in Int, NEW slots \in Int,
           Between(from, to), Between(from + slots, to + slots),
           Moved(from, days, slots), Moved(to, days, slots)
    PROVE  /\ Pair(from + slots, to + slots).start = Later(Pair(from, to).start, days, slots)
           /\ Pair(from + slots, to + slots).due = Later(Pair(from, to).due, days, slots)
<1>1. from \in Int /\ to \in Int /\ from + slots \in Int /\ to + slots \in Int
  BY DEF Between
<1> DEFINE plan == Classify(DayZone, from)
           deadline == Classify(DayZone, to)
           plan2 == Classify(DayZone, from + slots)
           deadline2 == Classify(DayZone, to + slots)
<1>2. Pair(from, to) = IF plan.kind = deadline.kind THEN Both(plan, deadline)
                                                    ELSE Both(At(from), At(TillEnd(to)))
  BY SteadySchedule DEF Between, Pair
<1>3. Pair(from + slots, to + slots) =
         IF plan2.kind = deadline2.kind THEN Both(plan2, deadline2)
                                        ELSE Both(At(from + slots), At(TillEnd(to + slots)))
  BY SteadySchedule DEF Between, Pair
<1>4. DayZone \in Zone
  BY DEF Config, DayZone
<1>5. plan \in Plain /\ deadline \in Plain
  BY <1>1, <1>4, ClassifyIs
<1>6. plan2 = Shift(plan, days, slots) /\ deadline2 = Shift(deadline, days, slots)
  BY <1>1, ClassifyMoved
<1>7. TillEnd(to + slots) = TillEnd(to) + slots /\ TillEnd(to) \in Int
  BY <1>1, TillEndMoved
<1> DEFINE one == Pair(from, to)
           other == Pair(from + slots, to + slots)
<1> HIDE DEF plan, deadline, plan2, deadline2, one, other
<1>8. plan2.kind = plan.kind /\ deadline2.kind = deadline.kind
  BY <1>5, <1>6, ShiftKeepsKind
<1>9. CASE plan.kind = deadline.kind
  <2>1. one = Both(plan, deadline) /\ other = Both(plan2, deadline2)
    BY <1>2, <1>3, <1>8, <1>9 DEF one, other
  <2>2. Later({plan}, days, slots) = {plan2} /\ Later({deadline}, days, slots) = {deadline2}
    BY <1>5, <1>6, LaterOne
  <2>3. /\ one.start = {plan} /\ one.due = {deadline}
        /\ other.start = {plan2}
        /\ other.due = {deadline2}
    BY <2>1, BothIs
  <2>4. QED
    BY <2>2, <2>3 DEF one, other
<1>10. CASE plan.kind # deadline.kind
  <2>1. /\ one = Both(At(from), At(TillEnd(to)))
        /\ other = Both(At(from + slots), At(TillEnd(to) + slots))
    BY <1>2, <1>3, <1>7, <1>8, <1>10 DEF one, other
  <2>2. At(from) \in Plain /\ At(TillEnd(to)) \in Plain
    BY <1>1, <1>7 DEF Plain
  <2>3. /\ Shift(At(from), days, slots) = At(from + slots)
        /\ Shift(At(TillEnd(to)), days, slots) = At(TillEnd(to) + slots)
    BY Kinds DEF Shift
  <2>4. /\ Later({At(from)}, days, slots) = {At(from + slots)}
        /\ Later({At(TillEnd(to))}, days, slots) = {At(TillEnd(to) + slots)}
    BY <2>2, <2>3, LaterOne
  <2>5. /\ one.start = {At(from)} /\ one.due = {At(TillEnd(to))}
        /\ other.start = {At(from + slots)}
        /\ other.due = {At(TillEnd(to) + slots)}
    BY <2>1, BothIs
  <2>6. QED
    BY <2>4, <2>5 DEF one, other
<1>11. QED
  BY <1>9, <1>10

\* A task as a series gives it its dates.
Plainly(from, due) == [scheduled |-> {from}, deadline |-> due, week |-> {}]

LEMMA PlainTask ==
    ASSUME config \in Config, NEW from \in Int, NEW due \in Options
    PROVE  /\ Plainly(from, due) \in Tasks
           /\ due = {} => /\ ServedTask(Plainly(from, due)).start = {}
                          /\ ServedTask(Plainly(from, due)).due = {Classify(DayZone, from)}
           /\ \A to \in due : /\ ServedTask(Plainly(from, due)).start = Pair(from, to).start
                              /\ ServedTask(Plainly(from, due)).due = Pair(from, to).due
<1> DEFINE task == Plainly(from, due)
<1>1. task \in Tasks /\ task.scheduled = {from} /\ task.deadline = due /\ task.week = {}
  BY NoneIsAnOption DEF Plainly, Tasks, Options, AtMostOne
<1> HIDE DEF task
<1>2. WeekDays(task) = {}
  BY <1>1, WithoutAWeek
<1>3. Dates(task).scheduled = Classified({from}) /\ Dates(task).deadline = Classified(due)
  BY <1>1, <1>2 DEF Dates
<1>4. Classified({from}) = {Classify(DayZone, from)}
  BY DEF Classified, DayZone
<1>5. ASSUME due = {}
      PROVE  ServedTask(task).start = {} /\ ServedTask(task).due = {Classify(DayZone, from)}
  <2>1. Classified(due) = {}
    BY <1>5 DEF Classified
  <2>2. Wire(task) = Due(Classify(DayZone, from), "scheduled")
    BY <1>3, <1>4, <2>1, TheOne DEF Wire
  <2>3. QED
    BY <2>2 DEF ServedTask, Due
<1>6. ASSUME NEW to \in due
      PROVE  ServedTask(task).start = Pair(from, to).start /\ ServedTask(task).due = Pair(from, to).due
  <2>1. due = {to}
    BY <1>6 DEF Options, AtMostOne
  <2>2. Classified(due) = {Classify(DayZone, to)}
    BY <2>1 DEF Classified, DayZone
  <2>3. Wire(task) = Pair(from, to)
    BY <1>3, <1>4, <2>2, TheOne DEF Wire, Pair
  <2>4. QED
    BY <2>3 DEF ServedTask
<1>7. QED
  BY <1>1, <1>5, <1>6 DEF task

\* The task of an occurrence is shown with its start and its end, also when it is kept by
\* its week.
LEMMA GeneratedTask ==
    ASSUME config \in Config, config.timezone = DayZone, NEW series, NEW at \in Int,
           NEW due \in Options, EndOf(series, at) = due, \A to \in due : Between(at, to)
    PROVE  LET made == ServedTask(TaskOf(series, at))
           IN  /\ due = {} => made.start = {} /\ made.due = {Classify(DayZone, at)}
               /\ \A to \in due : made.start = Pair(at, to).start /\ made.due = Pair(at, to).due
<1>1. CASE ~(config.weeks /\ \E to \in due : TakesWeek(at, to))
  <2>1. TaskOf(series, at) = Plainly(at, due)
    BY <1>1 DEF TaskOf, Plainly
  <2>2. QED
    BY <2>1, PlainTask
<1>2. ASSUME NEW to \in due, TakesWeek(at, to), config.weeks
      PROVE  /\ ServedTask(TaskOf(series, at)).start = Pair(at, to).start
             /\ ServedTask(TaskOf(series, at)).due = Pair(at, to).due
  <2> DEFINE task == [scheduled |-> {}, deadline |-> {}, week |-> {at}]
             monday == DayOf(Civil(DayZone, at))
             sunday == monday + WeekLength - 1
  <2>1. TaskOf(series, at) = task
    BY <1>2 DEF TaskOf
  <2>2. task \in Tasks
    BY NoneIsAnOption DEF Tasks, Options, AtMostOne
  <2>3. DayZone \in Zone /\ to \in Int /\ Civil(DayZone, at) \in Int /\ Civil(DayZone, to) \in Int
    BY CivilIs DEF Config, DayZone, Between
  <2>4. monday \in Int /\ sunday \in Int /\ monday < sunday
    <3>1. monday \in Int
      BY <2>3, DaysAndTimes
    <3> HIDE DEF monday
    <3>2. QED
      BY <3>1, ClockAssumption
  <2>5. /\ Civil(DayZone, at) % SlotsPerDay = 0 /\ Civil(DayZone, to) % SlotsPerDay = 0
        /\ Monday(monday) = monday /\ DayOf(Civil(DayZone, to)) = sunday
    BY <1>2 DEF TakesWeek
  <2>6. Classify(DayZone, at) = Day(monday) /\ Classify(DayZone, to) = Day(sunday)
    BY <2>5 DEF Classify
  <2>7. WeekDays(task) = {WeekOf(monday)}
    <3>1. {DayOf(Civil(config.date_only_timezone, one)) : one \in {at}} = {monday}
      BY DEF DayZone
    <3>2. WeekDays(task) = {WeekOf(Monday(day)) : day \in {monday}}
      BY <3>1 DEF WeekDays, WeekOf
    <3> HIDE DEF monday, task
    <3>3. QED
      BY <2>5, <3>2
  <2> HIDE DEF task, monday, sunday
  <2>8. ShowsTask(task, {Day(monday)}, {Day(sunday)})
    <3>1. {Day(monday)} \in SUBSET Plain /\ {Day(sunday)} \in SUBSET Plain
      BY <2>4 DEF Plain
    <3>2. AtMostOne({Day(monday)}) /\ AtMostOne({Day(sunday)})
      BY DEF AtMostOne
    <3>3. Holds(task, {Day(monday)}, {Day(sunday)})
      BY <2>4, <2>7 DEF Holds, sunday
    <3>4. NoneRepeated({Day(monday)} \cup {Day(sunday)})
      BY Kinds DEF NoneRepeated
    <3>5. \A from \in {Day(monday)} : \E one \in {Day(sunday)} : from.kind = one.kind /\ from.n < one.n
      BY <2>4, Kinds
    <3>6. QED
      BY <2>2, <3>1, <3>2, <3>3, <3>4, <3>5, HeldIsShown
  <2>9. Pair(at, to) = Both(Day(monday), Day(sunday))
    <3>1. Classify(DayZone, at).kind = Classify(DayZone, to).kind
      BY <2>6, Kinds
    <3>2. Pair(at, to) = Both(Classify(DayZone, at), Classify(DayZone, to))
      BY <2>3, <3>1, SteadySchedule DEF Between, Pair
    <3>3. QED
      BY <2>6, <3>2
  <2>10. QED
    BY <2>1, <2>8, <2>9, BothIs DEF ShowsTask, ServedTask
<1>3. CASE config.weeks /\ \E to \in due : TakesWeek(at, to)
  <2>1. PICK to \in due : TakesWeek(at, to)
    BY <1>3
  <2>2. due = {to}
    BY DEF Options, AtMostOne
  <2>3. QED
    BY <1>2, <1>3, <2>1, <2>2
<1>4. QED
  BY <1>1, <1>3

\* An occurrence of a series and its first are shown as tasks so far apart.
LEMMA TaskAsFirst ==
    ASSUME config \in Config, config.timezone = DayZone,
           NEW series, NEW start, NEW at, NEW days, NEW slots, Follows(series, start, at, days, slots),
           \A end \in series.end : Between(start, end) /\ Between(at, end + slots)
    PROVE  LET made == ServedTask(TaskOf(series, at))
               first == ServedTask(Plainly(start, EndOf(series, start)))
           IN  /\ made.start = Later(first.start, days, slots)
               /\ made.due = Later(first.due, days, slots)
<1> DEFINE made == ServedTask(TaskOf(series, at))
           due == series.end
           first == ServedTask(Plainly(start, due))
           later == {end + slots : end \in due}
<1>1. /\ start \in Int /\ at \in Int /\ days \in Int /\ slots \in Int /\ at = start + slots
      /\ Moved(start, days, slots) /\ \A end \in due : end \in Int /\ Moved(end, days, slots)
      /\ EndOf(series, at) = later /\ EndOf(series, start) = due
  BY DEF Follows, EndsFollow
<1>2. due \in Options /\ later \in Options
  BY <1>1 DEF Follows, EventRecords, Options, AtMostOne
<1>3. DayZone \in Zone
  BY DEF Config, DayZone
<1>4. \A to \in later : Between(at, to)
  OBVIOUS
<1>5. CASE due = {}
  <2>1. later = {}
    BY <1>5
  <2>2. first.start = {} /\ first.due = {Classify(DayZone, start)}
    BY <1>1, <1>2, <1>5, PlainTask
  <2>3. made.start = {} /\ made.due = {Classify(DayZone, at)}
    <3> HIDE DEF later
    <3>1. QED
      BY <1>1, <1>2, <1>4, <2>1, GeneratedTask
  <2>4. Later({}, days, slots) = {}
    BY DEF Later
  <2>5. Later({Classify(DayZone, start)}, days, slots) = {Classify(DayZone, at)}
    <3>1. Classify(DayZone, start) \in Plain
      BY <1>1, <1>3, ClassifyIs
    <3>2. Classify(DayZone, start + slots) = Shift(Classify(DayZone, start), days, slots)
      BY <1>1, ClassifyMoved
    <3>3. QED
      BY <1>1, <3>1, <3>2, LaterOne
  <2> HIDE DEF made, first, due
  <2>6. made.start = Later(first.start, days, slots) /\ made.due = Later(first.due, days, slots)
    BY <2>2, <2>3, <2>4, <2>5
  <2>7. QED
    BY <1>1, <2>6 DEF made, first
<1>6. ASSUME NEW end \in due
      PROVE  made.start = Later(first.start, days, slots) /\ made.due = Later(first.due, days, slots)
  <2>1. first.start = Pair(start, end).start /\ first.due = Pair(start, end).due
    BY <1>1, <1>2, PlainTask
  <2>2. end + slots \in later
    OBVIOUS
  <2>3. made.start = Pair(at, end + slots).start /\ made.due = Pair(at, end + slots).due
    <3> HIDE DEF later
    <3>1. QED
      BY <1>1, <1>2, <1>4, <2>2, GeneratedTask
  <2>4. Between(start, end) /\ Between(start + slots, end + slots)
    BY <1>1
  <2>5. /\ Pair(start + slots, end + slots).start = Later(Pair(start, end).start, days, slots)
        /\ Pair(start + slots, end + slots).due = Later(Pair(start, end).due, days, slots)
    BY <1>1, <2>4, PairMoved
  <2> HIDE DEF made, first, due
  <2>6. QED
    BY <1>1, <2>1, <2>3, <2>5
<1>7. CASE due # {}
  <2>1. made.start = Later(first.start, days, slots) /\ made.due = Later(first.due, days, slots)
    BY <1>6, <1>7
  <2>2. QED
    BY <1>1, <2>1 DEF made, first
<1>8. QED
  BY <1>5, <1>7

\* What MadeAsTheSeriesIs says of one occurrence.
DatesLikeTheFirst(series, at, start, days, slots) ==
    LET task == Plainly(start, EndOf(series, start))
    IN  /\ ShownApart(First(series), MeetingOf(series, at), days, slots)
        /\ ShownApart(DeadlineEntry(First(series), series.end),
                      DeadlineEntry(MeetingOf(series, at), Carried(series, series.end, at)), days, slots)
        /\ ServedTask(TaskOf(series, at)).start = Later(ServedTask(task).start, days, slots)
        /\ ServedTask(TaskOf(series, at)).due = Later(ServedTask(task).due, days, slots)

LEMMA OccurrenceLikeTheFirst ==
    ASSUME config \in Config, config.timezone = DayZone, NEW series \in EventRecords,
           NEW one \in Upcoming(series, config.timezone), NEW start \in series.start,
           NEW days, days = one.day - DayOf(Civil(config.timezone, start)),
           NEW slots, slots = one.at - start,
           \A at \in series.end : at > start /\ Steady(start, at) /\ Steady(one.at, at + slots),
           NoneRepeated({At(at) : at \in {start, one.at} \cup series.end \cup EndOf(series, one.at)})
    PROVE  DatesLikeTheFirst(series, one.at, start, days, slots)
<1> DEFINE at == one.at
<1>1. /\ at \in Int /\ start \in Int /\ days \in Int /\ slots \in Int /\ series.start = {start}
      /\ Moved(start, days, slots) /\ at = start + slots
  <2>1. /\ at \in Int /\ start \in Int /\ days \in Int /\ series.start = {start}
        /\ Moved(start, days, slots)
    BY OccurrenceMoved
  <2>2. slots \in Int /\ at = start + slots
    BY <2>1
  <2>3. QED
    BY <2>1, <2>2
<1>2. \A end \in series.end : end > start /\ Steady(start, end) /\ Steady(at, end + slots)
  OBVIOUS
<1>3. \A moment \in {start, at} \cup series.end \cup EndOf(series, at) : ~Repeated(moment)
  <2> DEFINE moments == {start, at} \cup series.end \cup EndOf(series, at)
  <2>1. NoneRepeated({At(moment) : moment \in moments})
    OBVIOUS
  <2> HIDE DEF moments
  <2>2. \A moment \in moments : ~Repeated(moment)
    <3>1. TAKE moment \in moments
    <3>2. At(moment) \in {At(other) : other \in moments}
      OBVIOUS
    <3>3. At(moment).kind = "at" => ~Repeated(At(moment).n)
      BY <2>1, <3>2 DEF NoneRepeated
    <3>4. QED
      BY <3>3, Kinds
  <2>3. QED
    BY <2>2 DEF moments
<1> HIDE DEF at
<1>4. slots = at - start
  BY DEF at
<1>5. EvenEnds(series, start, at, slots)
  BY <1>2 DEF EvenEnds
<1>6. EndsFollow(series, start, at, days, slots)
  BY <1>1, <1>4, <1>5, EndsMoved
<1>7. Follows(series, start, at, days, slots)
  BY <1>1, <1>6 DEF Follows
<1>8. \A end \in series.end : Between(start, end) /\ Between(at, end + slots)
  BY <1>1, <1>2, <1>3, <1>6 DEF Between, EndsFollow
<1>9. /\ ShownApart(First(series), MeetingOf(series, at), days, slots)
      /\ ShownApart(DeadlineEntry(First(series), series.end),
                    DeadlineEntry(MeetingOf(series, at), Carried(series, series.end, at)), days, slots)
  BY <1>7, ShownAsFirst DEF ShownApart
<1>10. LET task == Plainly(start, EndOf(series, start))
      IN  /\ ServedTask(TaskOf(series, at)).start = Later(ServedTask(task).start, days, slots)
          /\ ServedTask(TaskOf(series, at)).due = Later(ServedTask(task).due, days, slots)
  BY <1>7, <1>8, TaskAsFirst
<1>11. QED
  BY <1>9, <1>10 DEF DatesLikeTheFirst, at

\* What the generator makes of an occurrence is shown as the series' first is, as many days
\* later (series.rs, `Plan`; events.rs; render.rs): the meeting, the entry of its deadline,
\* and the task, whichever field its dates are kept in.
THEOREM MadeAsTheSeries == Spec => []MadeAsTheSeriesIs
<1>1. DatesInv => MadeAsTheSeriesIs
  <2>1. SUFFICES ASSUME DatesInv, kind = "event", config.timezone = DayZone, NEW series \in object,
                        NEW one \in Upcoming(series, config.timezone), NEW start \in series.start,
                        NEW days, days = one.day - DayOf(Civil(config.timezone, start)),
                        NEW slots, slots = one.at - start,
                        \A at \in series.end : at > start /\ Steady(start, at) /\ Steady(one.at, at + slots),
                        NoneRepeated({At(at) : at \in {start, one.at} \cup series.end \cup EndOf(series, one.at)})
                 PROVE  DatesLikeTheFirst(series, one.at, start, days, slots)
    BY DEF MadeAsTheSeriesIs, DatesLikeTheFirst, ShownApart, First, Plainly
  <2>2. config \in Config /\ series \in EventRecords
    BY <2>1 DEF DatesInv
  <2>3. QED
    BY <2>1, <2>2, OccurrenceLikeTheFirst
<1>2. QED
  BY <1>1, DatesInvHolds, PTL DEF Spec
=============================================================================
