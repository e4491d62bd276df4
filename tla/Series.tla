------------------------------- MODULE Series -------------------------------
(***************************************************************************)
(* Meetings of a recurring event: the generator's pass and its upkeep      *)
(* (src/src/series.rs) and the claims in the state file (src/src/state.rs) *)
(* that keep two passes, or one pass before and after a crash, apart.      *)
(*                                                                         *)
(* One series, and the days of its rule that lie ahead, within the horizon *)
(* of the pass.  A form is all that the generator writes to a meeting: its *)
(* look (name, time, place, tags, reminders) and its end.  A worker is a   *)
(* process that makes passes: the service, or `generate --apply`.          *)
(***************************************************************************)
EXTENDS Integers, FiniteSets

CONSTANTS
    Workers,
    Days,                   \* occurrence days, by number
    MaxMeetings,            \* bound: event objects that are ever made
    Looks, Ends, NoEnd,     \* what a form consists of; NoEnd: no end_date
    Forms, FirstForm,       \* the forms the series is given, and the one it starts with
    Unrecorded,             \* a column of a claim is NULL
    MaxEdits, MaxFaults, MaxCrashes,    \* bounds on users, failures and crashes
    MaxUpsets,              \* bound on all of these together, for a process that is alone
    MaxTogether             \* the same bound for processes that run together

Shapes == Looks \X (Ends \cup {NoEnd})

ASSUME WorkersAssumption == IsFiniteSet(Workers)
ASSUME DaysAssumption == Days \subseteq Nat /\ Days # {}
ASSUME FormsAssumption == Forms \subseteq Shapes /\ FirstForm \in Forms /\ NoEnd \notin Ends
ASSUME UnrecordedAssumption == Unrecorded \notin Shapes
ASSUME SeriesBoundsAssumption ==
    /\ MaxMeetings \in Nat \ {0} /\ MaxEdits \in Nat /\ MaxFaults \in Nat /\ MaxCrashes \in Nat
    /\ MaxUpsets \in Nat /\ MaxTogether \in Nat

Ids == 1 .. MaxMeetings

VARIABLES
    series,                 \* the recurring_event object
    meetings,               \* the events made for it
    claims,                 \* the table generated_instances (durable)
    pass,                   \* per worker, where its pass is and what it holds
    edits, faults, crashes, \* the budgets left
    lost,                   \* history, per day: creates that worked but were told to have failed
    twice,                  \* history, per day: archivings of meetings already gone (see Archive)
    strayed,                \* history: meetings their day's claim does not describe (see Strayed)
    touched,                \* history: meetings whose fields somebody changed by hand
    dropped                 \* history: days a user took out of the series at some time

vars == <<series, meetings, claims, pass, edits, faults, crashes, lost, twice, strayed, touched,
          dropped>>

Bodies == {"made", "written"}
Live == {"new", "found"}    \* `new`: search does not return it yet
Meetings == [status : {"none", "archived", "deleted"} \cup Live,
             day : Days, shape : Shapes, body : Bodies]
Claims == [status : {"free", "fresh", "settled"}, shape : Shapes \cup {Unrecorded},
           body : Bodies \cup {"unrecorded"}]
\* rrule: there is no rule or no start, the rule does not parse, or it does.
SeriesObjects == [live : BOOLEAN, rrule : {"none", "broken", "parses"}, rule : SUBSET Days,
                  form : Forms, exdates : SUBSET Days]
Instances == [id : Ids, day : Days, shape : Shapes]
Jobs == [kind : {"update", "archive", "adopt"}, id : Ids, day : Days,
         body : Bodies \cup {"unrecorded"}]

Free == [status |-> "free", shape |-> Unrecorded, body |-> "unrecorded"]
Unmade == {i \in Ids : meetings[i].status = "none"}
LiveOn(d) == {i \in Ids : meetings[i].status \in Live /\ meetings[i].day = d}

\* `stopped`: a process that is not run at all.
Points == {"stopped", "idle", "instances", "claiming", "creating", "releasing", "recording", "digest",
           "upkeep", "archiving", "archived"}
Passes == [at : Points, saw : SeriesObjects, settled : SUBSET Days, instances : SUBSET Instances,
           todo : SUBSET Days, day : Days, id : Ids, upkeeping : BOOLEAN, jobs : SUBSET Jobs, excludes : SUBSET Days]

TypeOK ==
    /\ series \in SeriesObjects
    /\ meetings \in [Ids -> Meetings]
    /\ claims \in [Days -> Claims]
    /\ pass \in [Workers -> Passes]
    /\ edits \in 0 .. MaxEdits /\ faults \in 0 .. MaxFaults /\ crashes \in 0 .. MaxCrashes
    /\ lost \in [Days -> Nat] /\ twice \in [Days -> Nat]
    /\ strayed \subseteq Ids
    /\ touched \subseteq Ids
    /\ dropped \subseteq Days

AnyDay == CHOOSE d \in Days : TRUE

\* A worker between passes holds nothing.
Resting ==
    [at |-> "idle",
     saw |-> [live |-> TRUE, rrule |-> "parses", rule |-> {}, form |-> FirstForm, exdates |-> {}],
     settled |-> {}, instances |-> {}, todo |-> {}, day |-> AnyDay, id |-> 1,
     upkeeping |-> FALSE, jobs |-> {}, excludes |-> {}]

\* One process runs alone, or all run together.
Scenario ==
    \/ LET lone == CHOOSE w \in Workers : TRUE
       IN pass = [w \in Workers |->
            IF w = lone THEN Resting ELSE [Resting EXCEPT !.at = "stopped"]]
    \/ pass = [w \in Workers |-> Resting]

Init ==
    /\ Scenario
    /\ series = [live |-> TRUE, rrule |-> "parses", rule |-> Days, form |-> FirstForm, exdates |-> {}]
    /\ meetings = [i \in Ids |->
            [status |-> "none", day |-> AnyDay, shape |-> FirstForm, body |-> "made"]]
    /\ claims = [d \in Days |-> Free]
    /\ edits = MaxEdits /\ faults = MaxFaults /\ crashes = MaxCrashes
    /\ lost = [d \in Days |-> 0] /\ twice = [d \in Days |-> 0]
    /\ strayed = {}
    /\ touched = {}
    /\ dropped = {}

-----------------------------------------------------------------------------
(* The people, Anytype's search, and time *)

Alone(w) == \A v \in Workers \ {w} : pass[v].at = "stopped"

Failures == (MaxFaults - faults) + (MaxCrashes - crashes)
Upsets == (MaxEdits - edits) + Failures

\* Bound: of the upsets of processes that run together, only the last one is a failure.
UpsetsLeft ==
    IF \E w \in Workers : Alone(w) THEN Upsets < MaxUpsets
    ELSE Upsets < MaxTogether /\ Failures = 0
Edit == edits > 0 /\ UpsetsLeft /\ edits' = edits - 1

history == <<lost, twice, strayed>>

\* The days a series object has: none when it is archived, and those it
\* had while its rule is being edited.
DaysOf(s) == IF s.live THEN s.rule \ s.exdates ELSE {}

EditSeries ==
    /\ Edit
    /\ \/ series' = [series EXCEPT !.live = ~@]
       \/ \E rrule \in {"none", "broken", "parses"} : series' = [series EXCEPT !.rrule = rrule]
       \/ \E rule \in SUBSET Days : series' = [series EXCEPT !.rule = rule]
       \/ \E form \in Forms : series' = [series EXCEPT !.form = form]
       \/ \E exdates \in SUBSET Days : series' = [series EXCEPT !.exdates = exdates]
    /\ series' # series
    /\ dropped' = dropped \cup (Days \ DaysOf(series'))
    /\ UNCHANGED <<meetings, claims, pass, faults, crashes, history, touched>>

EditMeeting(i) ==
    /\ Edit
    /\ meetings[i].status \in Live
    /\ \E shape \in Shapes \ {meetings[i].shape} : meetings' = [meetings EXCEPT ![i].shape = shape]
    /\ touched' = touched \cup {i}
    /\ UNCHANGED <<series, claims, pass, faults, crashes, history, dropped>>

WriteNotes(i) ==
    /\ Edit
    /\ meetings[i].status \in Live
    /\ meetings' = [meetings EXCEPT ![i].body = "written"]
    /\ UNCHANGED <<series, claims, pass, faults, crashes, history, touched, dropped>>

DeleteMeeting(i) ==
    /\ Edit
    /\ meetings[i].status \in Live
    /\ meetings' = [meetings EXCEPT ![i].status = "deleted"]
    /\ UNCHANGED <<series, claims, pass, faults, crashes, history, touched, dropped>>

Index(i) ==
    /\ meetings[i].status = "new"
    /\ meetings' = [meetings EXCEPT ![i].status = "found"]
    /\ UNCHANGED <<series, claims, pass, edits, faults, crashes, history, touched, dropped>>

\* SETTLED passes.  No create takes that long, and search finds by then what it made.
Settle(d) ==
    /\ claims[d].status = "fresh"
    /\ \A w \in Workers : ~(pass[w].at = "creating" /\ pass[w].day = d)
    /\ \A i \in LiveOn(d) : meetings[i].status = "found"
    /\ claims' = [claims EXCEPT ![d].status = "settled"]
    /\ UNCHANGED <<series, meetings, pass, edits, faults, crashes, history, touched, dropped>>

-----------------------------------------------------------------------------
(* A pass: what it reads, and what it makes *)

anytype == <<series, meetings>>
people == <<edits, touched, dropped>>

Fault == faults > 0 /\ UpsetsLeft /\ faults' = faults - 1
StateFault == crashes > 0 /\ UpsetsLeft /\ crashes' = crashes - 1

\* What a claim says of the meetings of its day is settled once they are written and
\* recorded, or that failed: those it does not describe count as changed by hand from now on.
Strayed(d) ==
    strayed' = {i \in Ids :
        IF meetings'[i].day = d
        THEN meetings'[i].status \in Live /\ claims'[d].shape # meetings'[i].shape
        ELSE i \in strayed}

\* The worker's pass goes on from p.
Continue(w, p) == pass' = [pass EXCEPT ![w] = p]
Finish(w) == Continue(w, Resting)
Resume(w) == Continue(w, [pass[w] EXCEPT !.at = IF pass[w].upkeeping THEN "upkeep" ELSE "claiming"])

Settled == {d \in Days : claims[d].status = "settled"}

\* The pass takes the time, by which claims are settled or not, and reads the series.
ReadSeries(w) ==
    /\ pass[w].at = "idle"
    /\ Continue(w, [pass[w] EXCEPT !.at = "instances", !.saw = series, !.settled = Settled])
    /\ UNCHANGED <<anytype, claims, people, history, faults, crashes>>

Found == {[id |-> i, day |-> meetings[i].day, shape |-> meetings[i].shape] :
            i \in {j \in Ids : meetings[j].status = "found"}}

Wanted(s) == IF s.rrule = "parses" THEN DaysOf(s) ELSE {}

\* plan_until: the days of the series no instance stands for.
Missing(s, instances) == {d \in Wanted(s) : \A one \in instances : one.day # d}

ReadInstances(w) ==
    /\ pass[w].at = "instances"
    /\ Continue(w, [pass[w] EXCEPT !.at = "claiming", !.instances = Found,
                                   !.todo = Missing(pass[w].saw, Found)])
    /\ UNCHANGED <<anytype, claims, people, history, faults, crashes>>

\* A search fails: the pass ends, the next one starts over.
ReadFails(w) ==
    /\ pass[w].at \in {"idle", "instances"}
    /\ Fault
    /\ Finish(w)
    /\ UNCHANGED <<anytype, claims, people, history, crashes>>

Claiming(w, d) ==
    /\ pass[w].at = "claiming"
    /\ d \in pass[w].todo
    /\ \A e \in pass[w].todo : d <= e

\* Mutant of Claim: INSERT OR REPLACE, for which every claim succeeds.
ClaimAnyway(w, d) ==
    /\ Claiming(w, d)
    /\ claims' = [claims EXCEPT ![d] = [Free EXCEPT !.status = "fresh"]]
    /\ Continue(w, [pass[w] EXCEPT !.at = "creating", !.todo = @ \ {d}, !.day = d])
    /\ UNCHANGED <<anytype, people, history, faults, crashes>>

Claim(w, d) ==
    /\ Claiming(w, d)
    /\ claims[d].status = "free"
    /\ claims' = [claims EXCEPT ![d] = [Free EXCEPT !.status = "fresh"]]
    /\ Continue(w, [pass[w] EXCEPT !.at = "creating", !.todo = @ \ {d}, !.day = d])
    /\ UNCHANGED <<anytype, people, history, faults, crashes>>

\* Made and not found yet, or deleted by hand: the day is not made again.
SkipClaimed(w, d) ==
    /\ Claiming(w, d)
    /\ claims[d].status # "free"
    /\ Continue(w, [pass[w] EXCEPT !.todo = @ \ {d}])
    /\ UNCHANGED <<anytype, claims, people, history, faults, crashes>>

\* Anytype makes the next object, from the series as the pass saw it.
Made(w, i) ==
    /\ i \in Unmade /\ \A j \in Unmade : i <= j
    /\ meetings' = [meetings EXCEPT ![i] =
            [status |-> "new", day |-> pass[w].day, shape |-> pass[w].saw.form, body |-> "made"]]

Create(w, i) ==
    /\ pass[w].at = "creating"
    /\ Made(w, i)
    /\ Continue(w, [pass[w] EXCEPT !.at = "recording", !.id = i])
    /\ UNCHANGED <<series, claims, people, history, faults, crashes>>

\* Mutant of CreateFails: the claim of a failed create is kept.
CreateFailsForGood(w) ==
    /\ pass[w].at = "creating"
    /\ Fault
    /\ Resume(w)
    /\ UNCHANGED <<anytype, claims, people, history, crashes>>

CreateFails(w) ==
    /\ pass[w].at = "creating"
    /\ Fault
    /\ Continue(w, [pass[w] EXCEPT !.at = "releasing"])
    /\ UNCHANGED <<anytype, claims, people, history, crashes>>

\* The object is made, and the connection breaks before the answer.
CreateReplyLost(w, i) ==
    /\ pass[w].at = "creating"
    /\ Fault
    /\ Made(w, i)
    /\ lost' = [lost EXCEPT ![pass[w].day] = @ + 1]
    /\ Continue(w, [pass[w] EXCEPT !.at = "releasing"])
    /\ UNCHANGED <<series, claims, people, twice, crashes>>
    /\ Strayed(pass[w].day)

\* release_instance, after a failed create or an archived meeting.
Release(w) ==
    /\ pass[w].at \in {"releasing", "archived"}
    /\ claims' = [claims EXCEPT ![pass[w].day] = Free]
    /\ Resume(w)
    /\ UNCHANGED <<anytype, people, lost, twice, faults, crashes>>
    /\ Strayed(pass[w].day)

\* Only a claim that is still there can take a column's value.
Note(d, claim) == claims' = [claims EXCEPT ![d] = IF @.status = "free" THEN @ ELSE claim]

\* Mutant of Record: the meeting is rewritten but not recorded again.
RecordCreatedOnly(w) ==
    /\ pass[w].at = "recording"
    /\ IF pass[w].upkeeping THEN UNCHANGED claims
       ELSE Note(pass[w].day, [claims[pass[w].day] EXCEPT !.shape = pass[w].saw.form])
    /\ IF pass[w].upkeeping THEN Resume(w)
       ELSE Continue(w, [pass[w] EXCEPT !.at = "digest"])
    /\ UNCHANGED <<anytype, people, history, faults, crashes>>

\* record: what the generator wrote.  After a create the body is read as well.
Record(w) ==
    /\ pass[w].at = "recording"
    /\ \/ /\ Note(pass[w].day, [claims[pass[w].day] EXCEPT !.shape = pass[w].saw.form])
          /\ UNCHANGED crashes
       \/ StateFault /\ UNCHANGED claims
    /\ IF pass[w].upkeeping THEN Resume(w)
       ELSE Continue(w, [pass[w] EXCEPT !.at = "digest"])
    /\ UNCHANGED <<anytype, people, lost, twice, faults>>
    /\ Strayed(pass[w].day)

\* record_body: the body as it is now counts as made; a failure is only logged.
RecordBody(w) ==
    /\ pass[w].at = "digest"
    /\ \/ /\ Note(pass[w].day, [claims[pass[w].day] EXCEPT !.body = meetings[pass[w].id].body])
          /\ UNCHANGED <<faults, crashes>>
       \/ Fault /\ UNCHANGED <<claims, crashes>>
       \/ StateFault /\ UNCHANGED <<claims, faults>>
    /\ Resume(w)
    /\ UNCHANGED <<anytype, people, history>>

-----------------------------------------------------------------------------
(* Upkeep *)

\* Whether plan_upkeep looks at an instance: the claim makes it the generator's, and a rule
\* being edited says nothing of it, except that the days in exdate are out.
Considered(s, one) ==
    /\ claims[one.day].status # "free"
    /\ s.live => s.rrule = "parses" \/ (s.rrule = "broken" /\ one.day \in s.exdates)
Unchanged(one) == claims[one.day].shape = one.shape

Job(kind, one) ==
    [kind |-> kind, id |-> one.id, day |-> one.day,
     body |-> IF kind = "archive" THEN claims[one.day].body ELSE "unrecorded"]

Updates(s, instances) ==
    {Job("update", one) : one \in {one \in instances :
        /\ Considered(s, one) /\ one.day \in Wanted(s)
        /\ Unchanged(one) /\ one.shape # s.form}}

Archives(s, instances) ==
    {Job("archive", one) : one \in {one \in instances :
        Considered(s, one) /\ one.day \notin Wanted(s) /\ Unchanged(one)}}

Adoptions(s, instances) ==
    {Job("adopt", one) : one \in {one \in instances :
        /\ Considered(s, one) /\ one.day \in Wanted(s)
        /\ claims[one.day].shape = Unrecorded /\ one.shape = s.form}}

\* A settled claim whose meeting is not there: it counts as deleted by hand.
Excludes(p) == Missing(p.saw, p.instances) \cap p.settled \cap Settled

PlanUpkeep(w) ==
    /\ pass[w].at = "claiming" /\ pass[w].todo = {}
    /\ LET s == pass[w].saw
           seen == pass[w].instances
       IN Continue(w, [pass[w] EXCEPT
            !.at = "upkeep", !.upkeeping = TRUE,
            !.jobs = Updates(s, seen) \cup Archives(s, seen) \cup Adoptions(s, seen),
            !.excludes = Excludes(pass[w])])
    /\ UNCHANGED <<anytype, claims, people, history, faults, crashes>>

\* The pass takes up a job of a kind.
Takes(w, job, kind) == pass[w].at = "upkeep" /\ job \in pass[w].jobs /\ job.kind = kind
Took(w, job, point) ==
    [pass[w] EXCEPT !.at = point, !.jobs = @ \ {job}, !.day = job.day, !.id = job.id]

\* A request without a value for end_date leaves the one there is.
Rewritten(old, form) == <<form[1], IF form[2] = NoEnd THEN old[2] ELSE form[2]>>

\* update_event writes every field of the form the pass saw, over what is there now.
Update(w, job) ==
    /\ Takes(w, job, "update")
    /\ meetings[job.id].status \in Live
    /\ meetings' = [meetings EXCEPT ![job.id].shape = Rewritten(@, pass[w].saw.form)]
    /\ Continue(w, Took(w, job, "recording"))
    /\ UNCHANGED <<series, claims, people, history, faults, crashes>>

UpdateReplyLost(w, job) ==
    /\ Takes(w, job, "update")
    /\ Fault
    /\ meetings[job.id].status \in Live
    /\ meetings' = [meetings EXCEPT ![job.id].shape = Rewritten(@, pass[w].saw.form)]
    /\ Continue(w, Took(w, job, "upkeep"))
    /\ UNCHANGED <<series, claims, people, lost, twice, crashes>>
    /\ Strayed(job.day)

Adopt(w, job) ==
    /\ Takes(w, job, "adopt")
    /\ Note(job.day, [claims[job.day] EXCEPT !.shape = pass[w].saw.form])
    /\ Continue(w, Took(w, job, "digest"))
    /\ UNCHANGED <<anytype, people, lost, twice, faults, crashes>>
    /\ Strayed(job.day)

\* The body is read: the meeting goes only if it is the one recorded.
ReadBody(w, job) ==
    /\ Takes(w, job, "archive")
    /\ Continue(w, Took(w, job,
            IF meetings[job.id].body = job.body THEN "archiving" ELSE "upkeep"))
    /\ UNCHANGED <<anytype, claims, people, history, faults, crashes>>

\* A job's request fails, or its meeting is gone: the rest goes on.
JobFails(w, job) ==
    /\ pass[w].at = "upkeep" /\ job \in pass[w].jobs /\ job.kind # "adopt"
    /\ \/ Fault
       \/ meetings[job.id].status \notin Live /\ UNCHANGED faults
    /\ Continue(w, Took(w, job, "upkeep"))
    /\ UNCHANGED <<anytype, claims, people, history, crashes>>

\* Anytype archives what is archived already as well: the code asks for it without looking
\* again.  Of several processes the second one then gives up a claim that may have been
\* made anew in between; `twice` counts these.
Archive(w) ==
    /\ pass[w].at = "archiving"
    /\ twice' = [twice EXCEPT ![pass[w].day] =
            IF meetings[pass[w].id].status \in Live \/ Alone(w) THEN @ ELSE @ + 1]
    /\ meetings' = [meetings EXCEPT ![pass[w].id].status = IF @ \in Live THEN "archived" ELSE @]
    /\ Continue(w, [pass[w] EXCEPT !.at = "archived"])
    /\ UNCHANGED <<series, claims, people, lost, strayed, faults, crashes>>

\* It failed, or worked and was told to have failed: the claim is kept.
ArchiveFails(w) ==
    /\ pass[w].at = "archiving"
    /\ \/ Fault /\ UNCHANGED meetings
       \/ /\ Fault
          /\ meetings[pass[w].id].status \in Live
          /\ meetings' = [meetings EXCEPT ![pass[w].id].status = "archived"]
       \/ /\ meetings[pass[w].id].status \notin Live
          /\ UNCHANGED <<meetings, faults>>
    /\ Continue(w, [pass[w] EXCEPT !.at = "upkeep"])
    /\ UNCHANGED <<series, claims, people, history, crashes>>

\* exclude writes the whole exdate, the days the pass saw there and those it adds.
Exclude(w) ==
    /\ pass[w].at = "upkeep" /\ pass[w].jobs = {} /\ pass[w].excludes # {}
    /\ \/ /\ series' = [series EXCEPT !.exdates = pass[w].saw.exdates \cup pass[w].excludes]
          /\ UNCHANGED faults
       \/ Fault /\ UNCHANGED series
    /\ Continue(w, [pass[w] EXCEPT !.excludes = {}])
    /\ UNCHANGED <<meetings, claims, people, history, crashes>>

EndPass(w) ==
    /\ pass[w].at = "upkeep" /\ pass[w].jobs = {} /\ pass[w].excludes = {}
    /\ Finish(w)
    /\ UNCHANGED <<anytype, claims, people, history, faults, crashes>>

\* The process is killed, or its task aborted at an await; a state file that cannot
\* be written ends the pass in the same way.
Crash(w) ==
    /\ pass[w].at \notin {"stopped", "idle"}
    /\ StateFault
    /\ Finish(w)
    /\ UNCHANGED <<anytype, claims, people, lost, twice, faults>>
    /\ IF pass[w].at = "recording" THEN Strayed(pass[w].day) ELSE UNCHANGED strayed

-----------------------------------------------------------------------------
\* What a worker does by itself once it runs.
Work(w) ==
    \/ ReadSeries(w) \/ ReadInstances(w) \/ ReadFails(w)
    \/ \E d \in Days : Claim(w, d) \/ SkipClaimed(w, d)
    \/ \E i \in Ids : Create(w, i) \/ CreateReplyLost(w, i)
    \/ CreateFails(w) \/ Release(w) \/ Record(w) \/ RecordBody(w)
    \/ PlanUpkeep(w)
    \/ \E job \in pass[w].jobs :
        Update(w, job) \/ UpdateReplyLost(w, job) \/ Adopt(w, job) \/ ReadBody(w, job)
            \/ JobFails(w, job)
    \/ Archive(w) \/ ArchiveFails(w)
    \/ Exclude(w) \/ EndPass(w)

Next ==
    \/ EditSeries
    \/ \E i \in Ids : EditMeeting(i) \/ WriteNotes(i) \/ DeleteMeeting(i) \/ Index(i)
    \/ \E d \in Days : Settle(d)
    \/ \E w \in Workers : Work(w) \/ Crash(w)

Spec == Init /\ [][Next]_vars

\* The service's loop starts a pass every poll_interval and the runtime polls it to its
\* end; search gets to know every object.
Fairness ==
    /\ \A w \in Workers : WF_vars(Work(w))
    /\ \A i \in Ids : WF_vars(Index(i))

FairSpec == Spec /\ Fairness

-----------------------------------------------------------------------------
(* Properties *)

\* A day never has two meetings of the generator, however passes, crashes, search's delay
\* and edits of the series interleave, except for as many as there were creates whose answer
\* was lost, and as there were meetings that a second process archived again and gave up the
\* day's claim for.
OneMeetingPerDay ==
    \A d \in Days : Cardinality(LiveOn(d)) <= 1 + lost[d] + twice[d]

\* A meeting deleted by hand does not come back while its series keeps its day, unless a
\* create for the day was lost or its claim was given up by a second archiving.
DeletedStaysDeleted ==
    \A i \in Ids :
        LET d == meetings[i].day IN
        meetings[i].status = "deleted" /\ d \notin dropped /\ lost[d] = 0 /\ twice[d] = 0 =>
            LiveOn(d) = {}

\* An occurrence the series keeps gets its meeting, however often Anytype fails,
\* as long as no pass is cut short and the state file can be written.
EveryOccurrenceIsMade ==
    \A d \in Days :
        [](crashes = MaxCrashes) /\ <>[](d \in Wanted(series)) =>
            <>(\E i \in Ids : meetings[i].status # "none" /\ meetings[i].day = d)

\* A meeting nobody changed by hand ends up as its series makes it, through failed calls,
\* crashes and other processes' passes.  Left out are the meetings that come to count as
\* changed by hand though nobody did (`strayed`): a write that worked and was not recorded
\* (an answer lost, a crash or a state file that cannot be written in between), the end that
\* stays when the series has none any more, and a claim that describes another meeting of
\* the day or was given up.  They count again once a claim describes them.
UntouchedMeetingFollowsSeries ==
    \A d \in Days :
        <>[](d \in Wanted(series)) =>
            <>[](\A i \in LiveOn(d) \ (touched \cup strayed) : meetings[i].shape = series.form)

\* The comment on Upkeep::Exclude: a day joins the exdate of its series because its
\* meeting was deleted by hand.
ExcludedWasDeleted ==
    [][\A d \in series'.exdates \ series.exdates :
        (\E w \in Workers : pass'[w] # pass[w]) =>
            \E i \in Ids : meetings[i].day = d /\ meetings[i].status = "deleted"]_vars
=============================================================================
