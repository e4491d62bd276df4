---------------------------- MODULE SeriesProofs ----------------------------
(***************************************************************************)
(* Proofs about Series for any processes, days, forms and bounds.          *)
(***************************************************************************)
EXTENDS Series, FiniteSetTheorems, TLAPS

(* The types *)

LEMMA InitialTypes == Init => TypeOK
<1> SUFFICES ASSUME Init PROVE TypeOK
  OBVIOUS
<1>1. AnyDay \in Days /\ FirstForm \in Forms /\ FirstForm \in Shapes
  BY DaysAssumption, FormsAssumption DEF AnyDay
<1>2. 1 \in Ids /\ MaxEdits \in Nat /\ MaxFaults \in Nat /\ MaxCrashes \in Nat
  BY SeriesBoundsAssumption DEF Ids
<1>3. Resting \in Passes
  <2>1. Resting.saw \in SeriesObjects
    BY <1>1 DEF Resting, SeriesObjects
  <2>2. QED
    BY <1>1, <1>2, <2>1 DEF Resting, Passes, Points
<1>4. pass \in [Workers -> Passes]
  <2>1. [Resting EXCEPT !.at = "stopped"] \in Passes
    BY <1>3 DEF Passes, Points
  <2>2. QED
    BY <1>3, <2>1 DEF Init, Scenario
<1>5. edits \in 0 .. MaxEdits /\ faults \in 0 .. MaxFaults /\ crashes \in 0 .. MaxCrashes
  BY <1>2 DEF Init
<1>6. series \in SeriesObjects
  BY <1>1 DEF Init, SeriesObjects
<1>7. meetings \in [Ids -> Meetings]
  BY <1>1 DEF Init, Meetings, Bodies
<1>8. claims \in [Days -> Claims]
  BY DEF Init, Free, Claims
<1>9. QED
  BY <1>4, <1>5, <1>6, <1>7, <1>8 DEF Init, TypeOK

LEMMA RestingType == Resting \in Passes
<1>1. AnyDay \in Days /\ FirstForm \in Forms
  BY DaysAssumption, FormsAssumption DEF AnyDay
<1>2. 1 \in Ids
  BY SeriesBoundsAssumption DEF Ids
<1>3. Resting.saw \in SeriesObjects
  BY <1>1 DEF Resting, SeriesObjects
<1>4. QED
  BY <1>1, <1>2, <1>3 DEF Resting, Passes, Points

\* What a worker goes on from is its own.
LEMMA Continues ==
    ASSUME pass \in [Workers -> Passes], NEW w \in Workers, NEW p \in Passes, Continue(w, p)
    PROVE  /\ pass' \in [Workers -> Passes]
           /\ pass'[w] = p
           /\ \A v \in Workers : v # w => pass'[v] = pass[v]
BY DEF Continue

LEMMA NoteTypes ==
    ASSUME TypeOK, NEW d \in Days, NEW claim \in Claims, Note(d, claim)
    PROVE  claims' \in [Days -> Claims]
BY DEF TypeOK, Note

LEMMA PeopleKeepTypes ==
    ASSUME TypeOK,
           \/ EditSeries
           \/ \E i \in Ids : EditMeeting(i) \/ WriteNotes(i) \/ DeleteMeeting(i) \/ Index(i)
           \/ \E d \in Days : Settle(d)
    PROVE  TypeOK'
<1>1. MaxEdits \in Nat
  BY SeriesBoundsAssumption
<1>2. Edit => edits' \in 0 .. MaxEdits
  BY <1>1 DEF Edit, TypeOK
<1>3. CASE EditSeries
  <2>1. series' \in SeriesObjects
    BY <1>3 DEF EditSeries, TypeOK, SeriesObjects
  <2>2. dropped' \subseteq Days
    BY <1>3 DEF EditSeries, TypeOK
  <2>3. QED
    BY <1>2, <1>3, <2>1, <2>2 DEF EditSeries, TypeOK, history
<1>4. CASE \E i \in Ids : EditMeeting(i) \/ WriteNotes(i) \/ DeleteMeeting(i) \/ Index(i)
  <2>1. PICK i \in Ids : EditMeeting(i) \/ WriteNotes(i) \/ DeleteMeeting(i) \/ Index(i)
    BY <1>4
  <2>2. meetings' \in [Ids -> Meetings]
    BY <2>1 DEF EditMeeting, WriteNotes, DeleteMeeting, Index, Bodies, TypeOK, Meetings, Live
  <2>3. QED
    BY <1>2, <2>1, <2>2 DEF EditMeeting, WriteNotes, DeleteMeeting, Index, TypeOK, history
<1>5. CASE \E d \in Days : Settle(d)
  BY <1>5 DEF Settle, TypeOK, Claims, history
<1>6. QED
  BY <1>3, <1>4, <1>5

LEMMA WorkKeepsTypes ==
    ASSUME TypeOK, NEW w \in Workers, Work(w) \/ Crash(w)
    PROVE  TypeOK'
<1> DEFINE me == pass[w]
<1>1. /\ me \in Passes /\ Resting \in Passes
      /\ me.saw \in SeriesObjects /\ me.day \in Days /\ me.id \in Ids /\ me.saw.form \in Shapes
  BY RestingType, FormsAssumption DEF TypeOK, Passes, SeriesObjects
<1>2. /\ Fault => faults' \in 0 .. MaxFaults
      /\ StateFault => crashes' \in 0 .. MaxCrashes
  BY SeriesBoundsAssumption DEF TypeOK, Fault, StateFault
<1>3. \A point \in Points : [me EXCEPT !.at = point] \in Passes
  BY <1>1 DEF Passes
<1>4. ASSUME Finish(w) PROVE pass' \in [Workers -> Passes]
  BY <1>1, <1>4, Continues DEF Finish, TypeOK
<1>5. ASSUME Resume(w) PROVE pass' \in [Workers -> Passes]
  <2>1. (IF me.upkeeping THEN "upkeep" ELSE "claiming") \in Points
    BY DEF Points
  <2>2. [me EXCEPT !.at = IF me.upkeeping THEN "upkeep" ELSE "claiming"] \in Passes
    BY <1>3, <2>1
  <2>3. QED
    BY <1>5, <2>2, Continues DEF Resume, TypeOK
<1>6. ASSUME NEW p \in Passes, Continue(w, p) PROVE pass' \in [Workers -> Passes]
  BY <1>6, Continues DEF TypeOK
<1>7. ASSUME NEW job \in me.jobs, NEW point \in Points PROVE Took(w, job, point) \in Passes
  BY <1>1, <1>7 DEF Took, Passes, Jobs
<1>8. Free \in Claims /\ [Free EXCEPT !.status = "fresh"] \in Claims
  BY DEF Free, Claims
<1>9. \A d \in Days : [claims[d] EXCEPT !.shape = me.saw.form] \in Claims
  BY <1>1 DEF TypeOK, Claims
<1>27. \A d \in Days : Strayed(d) => strayed' \subseteq Ids
  BY DEF Strayed
<1> HIDE DEF me
<1>10. CASE ReadSeries(w)
  <2>1. [me EXCEPT !.at = "instances", !.saw = series, !.settled = Settled] \in Passes
    BY <1>1 DEF TypeOK, Passes, Points, Settled
  <2>2. QED
    BY <1>6, <1>10, <2>1 DEF ReadSeries, TypeOK, anytype, people, history, me
<1>11. CASE ReadInstances(w)
  <2>1. Found \subseteq Instances
    BY DEF Found, Instances, TypeOK, Meetings
  <2>2. Missing(me.saw, Found) \subseteq Days
    BY <1>1 DEF Missing, Wanted, DaysOf, SeriesObjects
  <2>3. [me EXCEPT !.at = "claiming", !.instances = Found,
                   !.todo = Missing(me.saw, Found)] \in Passes
    BY <1>1, <2>1, <2>2 DEF Passes, Points
  <2>4. QED
    BY <1>6, <1>11, <2>3 DEF ReadInstances, TypeOK, anytype, people, history, me
<1>12. CASE ReadFails(w) \/ EndPass(w) \/ Crash(w)
  <2>1. strayed' \subseteq Ids
    BY <1>1, <1>12, <1>27 DEF ReadFails, EndPass, Crash, TypeOK, history, me
  <2>2. QED
    BY <1>2, <1>4, <1>12, <2>1 DEF ReadFails, EndPass, Crash, TypeOK, anytype, people, history
<1>13. CASE \E d \in Days : Claim(w, d)
  <2>1. PICK d \in Days : Claim(w, d)
    BY <1>13
  <2>2. [me EXCEPT !.at = "creating", !.todo = @ \ {d}, !.day = d] \in Passes
    BY <1>1 DEF Passes, Points
  <2>3. claims' \in [Days -> Claims]
    BY <2>1, <1>8 DEF Claim, TypeOK
  <2>4. QED
    BY <1>6, <2>1, <2>2, <2>3 DEF Claim, TypeOK, anytype, people, history, me
<1>14. CASE \E d \in Days : SkipClaimed(w, d)
  <2>1. PICK d \in Days : SkipClaimed(w, d)
    BY <1>14
  <2>2. [me EXCEPT !.todo = @ \ {d}] \in Passes
    BY <1>1 DEF Passes
  <2>3. QED
    BY <1>6, <2>1, <2>2 DEF SkipClaimed, TypeOK, anytype, people, history, me
<1>15. ASSUME NEW i \in Ids, Made(w, i) PROVE meetings' \in [Ids -> Meetings]
  BY <1>1, <1>15 DEF Made, TypeOK, Meetings, Live, Bodies, me
<1>16. CASE \E i \in Ids : Create(w, i)
  <2>1. PICK i \in Ids : Create(w, i)
    BY <1>16
  <2>2. [me EXCEPT !.at = "recording", !.id = i] \in Passes
    BY <1>1 DEF Passes, Points
  <2>3. meetings' \in [Ids -> Meetings]
    BY <1>15, <2>1 DEF Create
  <2>4. QED
    BY <1>6, <2>1, <2>2, <2>3 DEF Create, TypeOK, people, history, me
<1>17. CASE \E i \in Ids : CreateReplyLost(w, i)
  <2>1. PICK i \in Ids : CreateReplyLost(w, i)
    BY <1>17
  <2>2. [me EXCEPT !.at = "releasing"] \in Passes
    BY <1>3 DEF Points
  <2>3. meetings' \in [Ids -> Meetings]
    BY <1>15, <2>1 DEF CreateReplyLost
  <2>4. lost' \in [Days -> Nat]
    BY <1>1, <2>1 DEF CreateReplyLost, TypeOK, me
  <2>5. strayed' \subseteq Ids
    BY <1>1, <1>27, <2>1 DEF CreateReplyLost, me
  <2>6. QED
    BY <1>2, <1>6, <2>1, <2>2, <2>3, <2>4, <2>5 DEF CreateReplyLost, TypeOK, people, me
<1>18. CASE CreateFails(w)
  <2>1. [me EXCEPT !.at = "releasing"] \in Passes
    BY <1>3 DEF Points
  <2>2. QED
    BY <1>2, <1>6, <1>18, <2>1 DEF CreateFails, TypeOK, anytype, people, history, me
<1>19. CASE Release(w)
  <2>1. claims' \in [Days -> Claims]
    BY <1>8, <1>19 DEF Release, TypeOK
  <2>2. strayed' \subseteq Ids
    BY <1>1, <1>19, <1>27 DEF Release, me
  <2>3. QED
    BY <1>5, <1>19, <2>1, <2>2 DEF Release, TypeOK, anytype, people
<1>20. CASE Record(w)
  <2>1. claims' \in [Days -> Claims]
    BY <1>1, <1>9, <1>20, NoteTypes DEF Record, TypeOK, me
  <2>2. [me EXCEPT !.at = "digest"] \in Passes
    BY <1>3 DEF Points
  <2>3. pass' \in [Workers -> Passes]
    BY <1>5, <1>6, <1>20, <2>2 DEF Record, me
  <2>4. strayed' \subseteq Ids
    BY <1>1, <1>20, <1>27 DEF Record, me
  <2>5. QED
    BY <1>2, <1>20, <2>1, <2>3, <2>4 DEF Record, TypeOK, anytype, people
<1>21. CASE RecordBody(w)
  <2>1. [claims[me.day] EXCEPT !.body = meetings[me.id].body] \in Claims
    BY <1>1 DEF TypeOK, Claims, Meetings
  <2>2. claims' \in [Days -> Claims]
    BY <1>1, <1>21, <2>1, NoteTypes DEF RecordBody, TypeOK, me
  <2>3. QED
    BY <1>2, <1>5, <1>21, <2>2 DEF RecordBody, TypeOK, anytype, people, history
<1>22. CASE PlanUpkeep(w)
  <2> DEFINE jobs == Updates(me.saw, me.instances) \cup Archives(me.saw, me.instances)
                        \cup Adoptions(me.saw, me.instances)
  <2>1. \A one \in me.instances, kind \in {"update", "archive", "adopt"} : Job(kind, one) \in Jobs
    BY <1>1 DEF Passes, Instances, Job, Jobs, TypeOK, Claims
  <2>2. jobs \subseteq Jobs
    BY <2>1 DEF Updates, Archives, Adoptions
  <2>3. Excludes(me) \subseteq Days
    BY <1>1 DEF Excludes, Settled
  <2> HIDE DEF jobs
  <2>4. [me EXCEPT !.at = "upkeep", !.upkeeping = TRUE, !.jobs = jobs, !.excludes = Excludes(me)]
            \in Passes
    BY <1>1, <2>2, <2>3 DEF Passes, Points
  <2>5. QED
    BY <1>6, <1>22, <2>4 DEF PlanUpkeep, TypeOK, anytype, people, history, me, jobs
<1>23. CASE \E job \in pass[w].jobs :
                Update(w, job) \/ UpdateReplyLost(w, job) \/ Adopt(w, job) \/ ReadBody(w, job)
                    \/ JobFails(w, job)
  <2>1. PICK job \in me.jobs :
            Update(w, job) \/ UpdateReplyLost(w, job) \/ Adopt(w, job) \/ ReadBody(w, job)
                \/ JobFails(w, job)
    BY <1>23 DEF me
  <2>2. job \in Jobs /\ job.id \in Ids /\ job.day \in Days
    BY <1>1 DEF Passes, Jobs
  <2>3. Rewritten(meetings[job.id].shape, me.saw.form) \in Shapes
    BY <1>1, <2>2 DEF Rewritten, TypeOK, Meetings, Shapes
  <2>4. \A point \in {"recording", "upkeep", "digest", "archiving"} : Took(w, job, point) \in Passes
    BY <1>7 DEF Points
  <2>5. CASE Update(w, job) \/ UpdateReplyLost(w, job)
    <3>1. meetings' \in [Ids -> Meetings]
      BY <2>2, <2>3, <2>5 DEF Update, UpdateReplyLost, me, TypeOK, Meetings
    <3>2. strayed' \subseteq Ids
      BY <1>27, <2>2, <2>5 DEF Update, UpdateReplyLost, TypeOK, history
    <3>3. QED
      BY <1>2, <1>6, <2>4, <2>5, <3>1, <3>2 DEF Update, UpdateReplyLost, TypeOK, people, history
  <2>6. CASE Adopt(w, job)
    <3>1. claims' \in [Days -> Claims]
      BY <1>9, <2>2, <2>6, NoteTypes DEF Adopt, me
    <3>2. strayed' \subseteq Ids
      BY <1>27, <2>2, <2>6 DEF Adopt
    <3>3. QED
      BY <1>6, <2>4, <2>6, <3>1, <3>2 DEF Adopt, TypeOK, anytype, people
  <2>7. CASE ReadBody(w, job) \/ JobFails(w, job)
    BY <1>2, <1>6, <2>4, <2>7 DEF ReadBody, JobFails, TypeOK, anytype, people, history
  <2>8. QED
    BY <2>1, <2>5, <2>6, <2>7
<1>24. CASE Archive(w) \/ ArchiveFails(w)
  <2>1. meetings' \in [Ids -> Meetings]
    BY <1>1, <1>24 DEF Archive, ArchiveFails, TypeOK, Meetings, Live, me
  <2>2. [me EXCEPT !.at = "archived"] \in Passes /\ [me EXCEPT !.at = "upkeep"] \in Passes
    BY <1>3 DEF Points
  <2>3. twice' \in [Days -> Nat]
    BY <1>1, <1>24 DEF Archive, ArchiveFails, TypeOK, history, me
  <2>4. QED
    BY <1>2, <1>6, <1>24, <2>1, <2>2, <2>3 DEF Archive, ArchiveFails, TypeOK, people, history, me
<1>25. CASE Exclude(w)
  <2>1. series' \in SeriesObjects
    BY <1>1, <1>25 DEF Exclude, TypeOK, SeriesObjects, Passes, me
  <2>2. [me EXCEPT !.excludes = {}] \in Passes
    BY <1>1 DEF Passes
  <2>3. QED
    BY <1>2, <1>6, <1>25, <2>1, <2>2 DEF Exclude, TypeOK, people, history, me
<1>26. QED
  BY <1>10, <1>11, <1>12, <1>13, <1>14, <1>16, <1>17, <1>18, <1>19, <1>20, <1>21, <1>22, <1>23,
     <1>24, <1>25 DEF Work

\* Every variable of the generator's model keeps its type.
THEOREM SeriesTypeCorrect == Spec => []TypeOK
<1>1. TypeOK /\ [Next]_vars => TypeOK'
  <2> SUFFICES ASSUME TypeOK, [Next]_vars PROVE TypeOK'
    OBVIOUS
  <2>1. CASE UNCHANGED vars
    BY <2>1 DEF vars, TypeOK
  <2>2. CASE Next
    BY <2>2, PeopleKeepTypes, WorkKeepsTypes DEF Next
  <2>3. QED
    BY <2>1, <2>2
<1>2. QED
  BY <1>1, InitialTypes, PTL DEF Spec

-----------------------------------------------------------------------------
(* Who is alone *)

\* A process moves itself only, and neither starts nor stops for good.
LEMMA WorkMoves ==
    ASSUME TypeOK, NEW w \in Workers, Work(w) \/ Crash(w)
    PROVE  /\ \A v \in Workers : v # w => pass'[v] = pass[v]
           /\ pass[w].at # "stopped" /\ pass'[w].at # "stopped"
<1> USE DEF Continue, Passes
<1>1. pass \in [Workers -> Passes]
  BY DEF TypeOK
<1>2. CASE ReadFails(w) \/ EndPass(w) \/ Crash(w)
  BY <1>1, <1>2 DEF ReadFails, EndPass, Crash, Finish, Resting
<1>3. CASE ReadSeries(w)
  BY <1>1, <1>3 DEF ReadSeries
<1>4. CASE ReadInstances(w)
  BY <1>1, <1>4 DEF ReadInstances
<1>5. CASE PlanUpkeep(w)
  BY <1>1, <1>5 DEF PlanUpkeep
<1>6. CASE Exclude(w)
  BY <1>1, <1>6 DEF Exclude
<1>7. CASE \E d \in Days : Claim(w, d)
  BY <1>1, <1>7 DEF Claim, Claiming
<1>8. CASE \E d \in Days : SkipClaimed(w, d)
  BY <1>1, <1>8 DEF SkipClaimed, Claiming
<1>9. CASE \E i \in Ids : Create(w, i)
  BY <1>1, <1>9 DEF Create
<1>10. CASE CreateFails(w)
  BY <1>1, <1>10 DEF CreateFails
<1>11. CASE \E i \in Ids : CreateReplyLost(w, i)
  BY <1>1, <1>11 DEF CreateReplyLost
<1>12. CASE Release(w)
  BY <1>1, <1>12 DEF Release, Resume
<1>13. CASE Record(w)
  BY <1>1, <1>13 DEF Record, Resume
<1>14. CASE RecordBody(w)
  BY <1>1, <1>14 DEF RecordBody, Resume
<1>15. ASSUME NEW job \in pass[w].jobs,
              Update(w, job) \/ UpdateReplyLost(w, job) \/ Adopt(w, job) \/ ReadBody(w, job)
                \/ JobFails(w, job)
       PROVE  \E point \in {"recording", "upkeep", "digest", "archiving"} :
                pass[w].at = "upkeep" /\ Continue(w, Took(w, job, point))
  BY <1>15 DEF Update, UpdateReplyLost, Adopt, ReadBody, JobFails, Takes
<1>16. CASE \E job \in pass[w].jobs, point \in {"recording", "upkeep", "digest", "archiving"} :
                pass[w].at = "upkeep" /\ Continue(w, Took(w, job, point))
  BY <1>1, <1>16 DEF Took
<1>17. CASE Archive(w)
  BY <1>1, <1>17 DEF Archive
<1>18. CASE ArchiveFails(w)
  BY <1>1, <1>18 DEF ArchiveFails
<1>19. QED
  BY <1>2, <1>3, <1>4, <1>5, <1>6, <1>7, <1>8, <1>9, <1>10, <1>11, <1>12, <1>13, <1>14, <1>15,
     <1>16, <1>17, <1>18 DEF Work

\* A process that is alone is the only one that ever works.
LEMMA AloneStays ==
    ASSUME TypeOK, NEW w \in Workers, Work(w) \/ Crash(w), NEW v \in Workers
    PROVE  /\ Alone(v)' <=> Alone(v)
           /\ Alone(v) => v = w
BY WorkMoves DEF Alone

-----------------------------------------------------------------------------
(* The kinds of steps: what matters of the actions, field by field *)

MeetingsStay ==
    \A i \in Ids : meetings'[i].status = meetings[i].status /\ meetings'[i].day = meetings[i].day
ClaimsStay == \A d \in Days : claims'[d].status = claims[d].status
HistoryStays == lost' = lost /\ twice' = twice /\ dropped' = dropped
Aside == MeetingsStay /\ ClaimsStay /\ HistoryStays /\ series' = series

Holding == {"creating", "releasing", "archiving", "archived"}

\* What of its plans a process keeps.
KeepsRead(w) == pass'[w].saw = pass[w].saw /\ pass'[w].settled = pass[w].settled
KeepsFound(w) == pass'[w].instances = pass[w].instances /\ pass'[w].upkeeping = pass[w].upkeeping
KeepsDuties(w) == pass'[w].jobs = pass[w].jobs /\ pass'[w].excludes = pass[w].excludes
Keeps(w) == KeepsRead(w) /\ KeepsFound(w) /\ KeepsDuties(w)

Rests(w) == pass'[w] = Resting /\ Aside

SeesSeries(w) ==
    /\ pass[w].at = "idle" /\ pass'[w].at = "instances"
    /\ pass'[w].saw = series /\ pass'[w].settled = Settled
    /\ KeepsFound(w) /\ KeepsDuties(w) /\ Aside

SeesInstances(w) ==
    /\ pass[w].at = "instances" /\ pass'[w].at = "claiming"
    /\ pass'[w].instances = Found /\ pass'[w].upkeeping = pass[w].upkeeping
    /\ KeepsRead(w) /\ KeepsDuties(w) /\ Aside

Claimed(w, d) ==
    /\ pass[w].at = "claiming" /\ pass'[w].at = "creating" /\ pass'[w].day = d
    /\ claims[d].status = "free" /\ claims'[d].status = "fresh"
    /\ \A e \in Days : e # d => claims'[e].status = claims[e].status
    /\ Keeps(w) /\ MeetingsStay /\ HistoryStays /\ series' = series

\* It goes on with nothing of anybody's in hand.
Proceeds(w) ==
    /\ pass[w].at \in {"claiming", "recording", "digest"}
    /\ pass'[w].at \in {"claiming", "digest", "upkeep"}
    /\ pass'[w].at = "claiming" => pass[w].at = "claiming" \/ ~pass[w].upkeeping
    /\ Keeps(w) /\ Aside

MadeOne(w, i) ==
    /\ i \in Unmade
    /\ meetings'[i].status = "new" /\ meetings'[i].day = pass[w].day
    /\ \A j \in Ids : j # i =>
        meetings'[j].status = meetings[j].status /\ meetings'[j].day = meetings[j].day
    /\ pass[w].at = "creating"
    /\ Keeps(w) /\ ClaimsStay /\ dropped' = dropped /\ series' = series

Created(w, i) == MadeOne(w, i) /\ pass'[w].at = "recording" /\ lost' = lost /\ twice' = twice

CreatedUntold(w, i) ==
    /\ MadeOne(w, i)
    /\ pass'[w].at = "releasing" /\ pass'[w].day = pass[w].day
    /\ lost' = [lost EXCEPT ![pass[w].day] = @ + 1] /\ twice' = twice

NotCreated(w) ==
    /\ pass[w].at = "creating" /\ pass'[w].at = "releasing" /\ pass'[w].day = pass[w].day
    /\ Keeps(w) /\ Aside

Released(w) ==
    /\ pass[w].at \in {"releasing", "archived"} /\ pass'[w].at \in {"claiming", "upkeep"}
    /\ pass'[w].at = "claiming" => ~pass[w].upkeeping
    /\ claims'[pass[w].day].status = "free"
    /\ \A d \in Days : d # pass[w].day => claims'[d].status = claims[d].status
    /\ Keeps(w) /\ MeetingsStay /\ HistoryStays /\ series' = series

Planned(w) ==
    /\ pass[w].at = "claiming" /\ pass'[w].at = "upkeep" /\ pass'[w].upkeeping
    /\ pass'[w].jobs = Updates(pass[w].saw, pass[w].instances)
            \cup Archives(pass[w].saw, pass[w].instances)
            \cup Adoptions(pass[w].saw, pass[w].instances)
    /\ pass'[w].excludes = Excludes(pass[w])
    /\ pass'[w].instances = pass[w].instances /\ KeepsRead(w) /\ Aside

TookUp(w, job) ==
    /\ pass[w].at = "upkeep" /\ job \in pass[w].jobs
    /\ pass'[w].jobs = pass[w].jobs \ {job}
    /\ \/ pass'[w].at \in {"recording", "upkeep", "digest"}
       \/ pass'[w].at = "archiving" /\ job.kind = "archive"
    /\ pass'[w].day = job.day /\ pass'[w].id = job.id
    /\ pass'[w].excludes = pass[w].excludes
    /\ KeepsRead(w) /\ KeepsFound(w) /\ Aside

\* The meeting in hand is archived, or what it was when it was no longer there.
OneArchived(i) ==
    /\ meetings'[i].status \notin Live /\ meetings'[i].day = meetings[i].day
    /\ meetings[i].status \in Live => meetings'[i].status = "archived"
    /\ meetings[i].status \notin Live => meetings'[i].status = meetings[i].status
    /\ \A j \in Ids : j # i =>
        meetings'[j].status = meetings[j].status /\ meetings'[j].day = meetings[j].day

Archived(w) ==
    /\ pass[w].at = "archiving" /\ pass'[w].at = "archived" /\ pass'[w].day = pass[w].day
    /\ twice' = [twice EXCEPT ![pass[w].day] =
            IF meetings[pass[w].id].status \in Live \/ Alone(w) THEN @ ELSE @ + 1]
    /\ OneArchived(pass[w].id)
    /\ Keeps(w) /\ ClaimsStay /\ lost' = lost /\ dropped' = dropped /\ series' = series

NotArchived(w) ==
    /\ pass[w].at = "archiving" /\ pass'[w].at = "upkeep"
    /\ MeetingsStay \/ OneArchived(pass[w].id)
    /\ Keeps(w) /\ ClaimsStay /\ HistoryStays /\ series' = series

Excluded(w) ==
    /\ pass[w].at = "upkeep" /\ pass'[w].at = "upkeep"
    /\ pass'[w].excludes = {} /\ pass'[w].jobs = pass[w].jobs
    /\ \/ series' = series
       \/ series' = [series EXCEPT !.exdates = pass[w].saw.exdates \cup pass[w].excludes]
    /\ KeepsRead(w) /\ KeepsFound(w) /\ MeetingsStay /\ ClaimsStay /\ HistoryStays

Steps(w) ==
    \/ Rests(w) \/ SeesSeries(w) \/ SeesInstances(w) \/ \E d \in Days : Claimed(w, d)
    \/ Proceeds(w) \/ \E i \in Ids : Created(w, i) \/ CreatedUntold(w, i)
    \/ NotCreated(w) \/ Released(w) \/ Planned(w) \/ \E job \in pass[w].jobs : TookUp(w, job)
    \/ Archived(w) \/ NotArchived(w) \/ Excluded(w)

LEMMA NoteKeepsStatus ==
    ASSUME TypeOK, NEW d \in Days, NEW claim, claim.status = claims[d].status, Note(d, claim)
    PROVE  ClaimsStay
BY DEF TypeOK, Note, ClaimsStay

\* Every step of a process is of one of the kinds.
LEMMA WorkSteps ==
    ASSUME TypeOK, NEW w \in Workers, Work(w) \/ Crash(w)
    PROVE  Steps(w)
<1> USE DEF Continue, Passes, Keeps, KeepsRead, KeepsFound, KeepsDuties, anytype, people, history,
            HistoryStays
<1>1. pass \in [Workers -> Passes] /\ pass[w].day \in Days /\ pass[w].id \in Ids
  BY DEF TypeOK
<1>2. /\ UNCHANGED <<anytype, claims, people, lost, twice>> => Aside
      /\ UNCHANGED meetings => MeetingsStay
      /\ UNCHANGED claims => ClaimsStay
  BY DEF Aside, MeetingsStay, ClaimsStay
<1>3. /\ meetings \in [Ids -> Meetings] /\ claims \in [Days -> Claims]
  BY DEF TypeOK
<1>4. CASE ReadFails(w) \/ EndPass(w) \/ Crash(w)
  <2>1. pass'[w] = Resting /\ Aside
    BY <1>1, <1>2, <1>4 DEF ReadFails, EndPass, Crash, Finish, Aside
  <2>2. QED
    BY <2>1 DEF Rests, Steps
<1>5. CASE ReadSeries(w)
  <2>1. SeesSeries(w)
    BY <1>1, <1>2, <1>5 DEF ReadSeries, SeesSeries
  <2>2. QED
    BY <2>1 DEF Steps
<1>6. CASE ReadInstances(w)
  <2>1. SeesInstances(w)
    BY <1>1, <1>2, <1>6 DEF ReadInstances, SeesInstances
  <2>2. QED
    BY <2>1 DEF Steps
<1>7. CASE PlanUpkeep(w)
  <2>1. Planned(w)
    BY <1>1, <1>2, <1>7 DEF PlanUpkeep, Planned
  <2>2. QED
    BY <2>1 DEF Steps
<1>8. CASE Exclude(w)
  <2>1. Excluded(w)
    BY <1>1, <1>2, <1>8 DEF Exclude, Excluded
  <2>2. QED
    BY <2>1 DEF Steps
<1>9. ASSUME NEW d \in Days, Claim(w, d) PROVE Steps(w)
  <2>1. claims' = [claims EXCEPT ![d] = [Free EXCEPT !.status = "fresh"]]
    BY <1>9 DEF Claim
  <2>2. claims'[d].status = "fresh" /\ \A e \in Days : e # d => claims'[e] = claims[e]
    BY <1>3, <2>1 DEF Free
  <2>3. Claimed(w, d)
    BY <1>1, <1>2, <1>9, <2>2 DEF Claim, Claiming, Claimed
  <2>4. QED
    BY <2>3 DEF Steps
<1>10. ASSUME NEW d \in Days, SkipClaimed(w, d) PROVE Steps(w)
  <2>1. Proceeds(w)
    BY <1>1, <1>2, <1>10 DEF SkipClaimed, Claiming, Proceeds
  <2>2. QED
    BY <2>1 DEF Steps
<1>11. ASSUME NEW i \in Ids, Made(w, i)
       PROVE  /\ i \in Unmade /\ meetings'[i].status = "new" /\ meetings'[i].day = pass[w].day
              /\ \A j \in Ids : j # i => meetings'[j] = meetings[j]
  BY <1>3, <1>11 DEF Made
<1>12. ASSUME NEW i \in Ids, Create(w, i) PROVE Steps(w)
  <2>1. Created(w, i)
    BY <1>1, <1>2, <1>11, <1>12 DEF Create, Created, MadeOne
  <2>2. QED
    BY <2>1 DEF Steps
<1>13. ASSUME NEW i \in Ids, CreateReplyLost(w, i) PROVE Steps(w)
  <2>1. CreatedUntold(w, i)
    BY <1>1, <1>2, <1>11, <1>13 DEF CreateReplyLost, CreatedUntold, MadeOne
  <2>2. QED
    BY <2>1 DEF Steps
<1>14. CASE CreateFails(w)
  <2>1. NotCreated(w)
    BY <1>1, <1>2, <1>14 DEF CreateFails, NotCreated
  <2>2. QED
    BY <2>1 DEF Steps
<1>15. CASE Release(w)
  <2>1. /\ claims'[pass[w].day].status = "free"
        /\ \A d \in Days : d # pass[w].day => claims'[d] = claims[d]
    BY <1>1, <1>3, <1>15 DEF Release, Free
  <2>2. Released(w)
    BY <1>1, <1>2, <1>15, <2>1 DEF Release, Resume, Released
  <2>3. QED
    BY <2>2 DEF Steps
<1>16. \A shape : [claims[pass[w].day] EXCEPT !.shape = shape].status = claims[pass[w].day].status
  BY <1>1, <1>3 DEF Claims
<1>17. CASE Record(w)
  <2>1. ClaimsStay
    BY <1>1, <1>2, <1>16, <1>17, NoteKeepsStatus DEF Record
  <2>2. Aside
    BY <1>2, <1>17, <2>1 DEF Record, Aside
  <2>3. Proceeds(w)
    BY <1>1, <1>17, <2>2 DEF Record, Resume, Proceeds
  <2>4. QED
    BY <2>3 DEF Steps
<1>18. CASE RecordBody(w)
  <2>1. \A body : [claims[pass[w].day] EXCEPT !.body = body].status = claims[pass[w].day].status
    BY <1>1, <1>3 DEF Claims
  <2>2. ClaimsStay
    BY <1>1, <1>2, <1>18, <2>1, NoteKeepsStatus DEF RecordBody
  <2>3. Aside
    BY <1>2, <1>18, <2>2 DEF RecordBody, Aside
  <2>4. Proceeds(w)
    BY <1>1, <1>18, <2>3 DEF RecordBody, Resume, Proceeds
  <2>5. QED
    BY <2>4 DEF Steps
<1>19. ASSUME NEW job \in pass[w].jobs,
              Update(w, job) \/ UpdateReplyLost(w, job) \/ Adopt(w, job) \/ ReadBody(w, job)
                \/ JobFails(w, job)
       PROVE  Steps(w)
  <2>1. job.id \in Ids /\ job.day \in Days
    BY <1>1, <1>19 DEF Jobs
  <2>2. Aside
    <3>1. CASE Update(w, job) \/ UpdateReplyLost(w, job)
      <4>1. MeetingsStay
        BY <1>3, <2>1, <3>1 DEF Update, UpdateReplyLost, MeetingsStay, Meetings
      <4>2. QED
        BY <1>2, <3>1, <4>1 DEF Update, UpdateReplyLost, Aside
    <3>2. CASE Adopt(w, job)
      <4>1. [claims[job.day] EXCEPT !.shape = pass[w].saw.form].status = claims[job.day].status
        BY <1>3, <2>1 DEF Claims
      <4>2. ClaimsStay
        BY <2>1, <3>2, <4>1, NoteKeepsStatus DEF Adopt
      <4>3. QED
        BY <1>2, <3>2, <4>2 DEF Adopt, Aside
    <3>3. CASE ReadBody(w, job) \/ JobFails(w, job)
      BY <1>2, <3>3 DEF ReadBody, JobFails
    <3>4. QED
      BY <1>19, <3>1, <3>2, <3>3
  <2>3. PICK point \in {"recording", "upkeep", "digest", "archiving"} :
            /\ pass[w].at = "upkeep" /\ Continue(w, Took(w, job, point))
            /\ point = "archiving" => job.kind = "archive"
    BY <1>19 DEF Update, UpdateReplyLost, Adopt, ReadBody, JobFails, Takes
  <2>4. TookUp(w, job)
    BY <1>1, <2>2, <2>3 DEF Took, TookUp
  <2>5. QED
    BY <2>4 DEF Steps
<1>20. ASSUME NEW i \in Ids,
              meetings' = [meetings EXCEPT ![i].status = IF @ \in Live THEN "archived" ELSE @]
       PROVE  OneArchived(i)
  BY <1>3, <1>20 DEF OneArchived, Meetings, Live
<1>21. CASE Archive(w)
  <2>1. OneArchived(pass[w].id)
    BY <1>1, <1>20, <1>21 DEF Archive
  <2>2. Archived(w)
    BY <1>1, <1>2, <1>21, <2>1 DEF Archive, Archived
  <2>3. QED
    BY <2>2 DEF Steps
<1>22. CASE ArchiveFails(w)
  <2>1. MeetingsStay \/ OneArchived(pass[w].id)
    BY <1>1, <1>2, <1>3, <1>22 DEF ArchiveFails, OneArchived, Meetings, Live
  <2>2. NotArchived(w)
    BY <1>1, <1>2, <1>22, <2>1 DEF ArchiveFails, NotArchived
  <2>3. QED
    BY <2>2 DEF Steps
<1>23. QED
  BY <1>4, <1>5, <1>6, <1>7, <1>8, <1>9, <1>10, <1>12, <1>13, <1>14, <1>15, <1>17, <1>18, <1>19,
     <1>21, <1>22 DEF Work

\* What everybody else does to the meetings and the claims.
Others ==
    \/ EditSeries
    \/ \E i \in Ids : EditMeeting(i) \/ WriteNotes(i) \/ DeleteMeeting(i) \/ Index(i)
    \/ \E d \in Days : Settle(d)

\* A meeting is deleted, or found, or nothing happens to it.
OneTouched(i) ==
    /\ meetings[i].status \in Live
    /\ \/ meetings'[i].status \in {meetings[i].status, "found"}
       \/ meetings'[i].status = "deleted" /\ UNCHANGED claims
    /\ meetings'[i].day = meetings[i].day
    /\ \A j \in Ids : j # i =>
        meetings'[j].status = meetings[j].status /\ meetings'[j].day = meetings[j].day

LEMMA OthersTouch ==
    ASSUME TypeOK, Others
    PROVE  /\ pass' = pass /\ lost' = lost /\ twice' = twice
           /\ MeetingsStay \/ \E i \in Ids : OneTouched(i)
           /\ (series' = series /\ dropped' = dropped) \/ EditSeries
           /\ ClaimsStay \/ \E d \in Days : Settle(d)
<1>1. meetings \in [Ids -> Meetings]
  BY DEF TypeOK
<1>2. UNCHANGED claims => ClaimsStay
  BY DEF ClaimsStay
<1>3. UNCHANGED meetings => MeetingsStay
  BY DEF MeetingsStay
<1>4. CASE EditSeries
  BY <1>2, <1>3, <1>4 DEF EditSeries, history
<1>5. ASSUME NEW i \in Ids, EditMeeting(i) \/ WriteNotes(i) \/ DeleteMeeting(i) \/ Index(i)
      PROVE  /\ OneTouched(i) /\ ClaimsStay
             /\ pass' = pass /\ lost' = lost /\ twice' = twice
             /\ series' = series /\ dropped' = dropped
  BY <1>1, <1>2, <1>5
     DEF EditMeeting, WriteNotes, DeleteMeeting, Index, OneTouched, Live, Meetings, history
<1>6. CASE \E d \in Days : Settle(d)
  BY <1>3, <1>6 DEF Settle, history
<1>7. QED
  BY <1>4, <1>5, <1>6 DEF Others

-----------------------------------------------------------------------------
(* What is settled *)

\* A claim is settled only when its create is over and search finds what it made.
SettledIsFound ==
    \A d \in Days : claims[d].status = "settled" =>
        /\ \A w \in Workers : ~(pass[w].at = "creating" /\ pass[w].day = d)
        /\ \A i \in LiveOn(d) : meetings[i].status = "found"

LEMMA SettledStaysFound ==
    ASSUME TypeOK, SettledIsFound, NEW w \in Workers, Steps(w),
           \A v \in Workers : v # w => pass'[v] = pass[v]
    PROVE  SettledIsFound'
<1> USE DEF SettledIsFound, LiveOn, Live
<1>1. CASE MeetingsStay /\ ClaimsStay /\ pass'[w].at # "creating"
  BY <1>1 DEF MeetingsStay, ClaimsStay
<1>2. ASSUME NEW d \in Days, Claimed(w, d) PROVE SettledIsFound'
  BY <1>2 DEF Claimed, MeetingsStay
<1>3. ASSUME NEW i \in Ids, MadeOne(w, i), pass'[w].at # "creating" PROVE SettledIsFound'
  BY <1>3 DEF MadeOne, ClaimsStay
<1>4. CASE Released(w)
  <2>1. pass[w].day \in Days
    BY DEF TypeOK, Passes
  <2>2. QED
    BY <1>4, <2>1 DEF Released, MeetingsStay
<1>5. CASE ClaimsStay /\ pass'[w].at # "creating" /\ OneArchived(pass[w].id)
  BY <1>5 DEF ClaimsStay, OneArchived
<1>6. QED
  BY <1>1, <1>2, <1>3, <1>4, <1>5
     DEF Steps, Rests, Resting, SeesSeries, SeesInstances, Proceeds, Created, CreatedUntold,
         NotCreated, Planned, TookUp, Archived, NotArchived, Excluded, Aside

LEMMA SettledStaysFoundByOthers ==
    ASSUME TypeOK, SettledIsFound, Others
    PROVE  SettledIsFound'
<1>1. pass' = pass /\ (MeetingsStay \/ \E i \in Ids : OneTouched(i))
  BY OthersTouch
<1>2. CASE ClaimsStay
  BY <1>1, <1>2 DEF SettledIsFound, LiveOn, Live, MeetingsStay, OneTouched, ClaimsStay
<1>3. ASSUME NEW d \in Days, Settle(d) PROVE SettledIsFound'
  <2>1. claims'[d].status = "settled" /\ \A e \in Days : e # d => claims'[e] = claims[e]
    BY <1>3 DEF Settle, TypeOK, Claims
  <2>2. QED
    BY <1>1, <1>3, <2>1 DEF Settle, SettledIsFound, LiveOn
<1>4. QED
  BY <1>2, <1>3, OthersTouch

-----------------------------------------------------------------------------
(* What a pass holds *)

\* What a pass has read, and what it is going to do, is about meetings that were made,
\* each taken up once.
ReadMeetings(w) ==
    \A one \in pass[w].instances :
        /\ meetings[one.id].day = one.day /\ meetings[one.id].status # "none"
        /\ \A other \in pass[w].instances : other.id = one.id => other = one

InstanceOf(w, id, day) == \E one \in pass[w].instances : one.id = id /\ one.day = day
ToArchive(w) == {job \in pass[w].jobs : job.kind = "archive"}

JobsAreInstances(w) ==
    /\ \A job \in ToArchive(w) :
        /\ InstanceOf(w, job.id, job.day)
        /\ \A other \in ToArchive(w) : other.id = job.id => other = job
    /\ pass[w].at = "archiving" =>
        /\ InstanceOf(w, pass[w].id, pass[w].day)
        /\ \A job \in ToArchive(w) : job.id # pass[w].id

\* The jobs come after the claims, and both after the instances.
PassesInOrder(w) ==
    /\ pass[w].at \in {"stopped", "idle", "instances"} => pass[w].instances = {}
    /\ pass[w].at \in {"stopped", "idle", "instances", "claiming", "creating", "releasing"} =>
        ~pass[w].upkeeping
    /\ pass[w].jobs # {} \/ pass[w].at \in {"archiving", "archived"} => pass[w].upkeeping

PassesAreSound ==
    \A w \in Workers : ReadMeetings(w) /\ JobsAreInstances(w) /\ PassesInOrder(w)

\* No meeting is ever unmade, or goes to another day.
MadeStaysMade ==
    \A i \in Ids : meetings[i].status # "none" =>
        meetings'[i].status # "none" /\ meetings'[i].day = meetings[i].day

LEMMA MeetingsAreKept ==
    ASSUME TypeOK, Others \/ \E w \in Workers : Steps(w)
    PROVE  MadeStaysMade
<1> USE DEF MadeStaysMade
<1>1. CASE Others
  BY <1>1, OthersTouch DEF OneTouched, MeetingsStay, Live
<1>2. ASSUME NEW w \in Workers, Steps(w) PROVE MadeStaysMade
  <2>1. CASE MeetingsStay
    BY <2>1 DEF MeetingsStay
  <2>2. ASSUME NEW i \in Ids, MadeOne(w, i) PROVE MadeStaysMade
    BY <2>2 DEF MadeOne, Unmade
  <2>3. ASSUME OneArchived(pass[w].id) PROVE MadeStaysMade
    <3>1. pass[w].id \in Ids
      BY DEF TypeOK, Passes
    <3>2. QED
      BY <2>3, <3>1 DEF OneArchived, Live
  <2>4. QED
    BY <1>2, <2>1, <2>2, <2>3
       DEF Steps, Rests, SeesSeries, SeesInstances, Claimed, Proceeds, Created, CreatedUntold,
           NotCreated, Released, Planned, TookUp, Archived, NotArchived, Excluded, Aside
<1>3. QED
  BY <1>1, <1>2

LEMMA PassesOfOthersAreSound ==
    ASSUME TypeOK, PassesAreSound, MadeStaysMade, NEW v \in Workers, pass'[v] = pass[v]
    PROVE  (ReadMeetings(v) /\ JobsAreInstances(v) /\ PassesInOrder(v))'
<1>1. \A one \in pass[v].instances : one.id \in Ids
  BY DEF TypeOK, Passes, Instances
<1>2. ReadMeetings(v)'
  BY <1>1 DEF PassesAreSound, ReadMeetings, MadeStaysMade
<1>3. JobsAreInstances(v)' /\ PassesInOrder(v)'
  BY DEF PassesAreSound, JobsAreInstances, PassesInOrder, InstanceOf, ToArchive
<1>4. QED
  BY <1>2, <1>3

LEMMA PassesStaySound ==
    ASSUME TypeOK, PassesAreSound, MadeStaysMade, NEW w \in Workers, Steps(w),
           \A v \in Workers : v # w => pass'[v] = pass[v]
    PROVE  PassesAreSound'
<1> DEFINE me == pass[w]
           mine == pass'[w]
<1>1. /\ \A one \in me.instances : one.id \in Ids
      /\ me.instances \subseteq Instances /\ me.jobs \subseteq Jobs
  BY DEF TypeOK, Passes, Instances
<1>2. ReadMeetings(w) /\ JobsAreInstances(w) /\ PassesInOrder(w)
  BY DEF PassesAreSound
<1> SUFFICES (ReadMeetings(w) /\ JobsAreInstances(w) /\ PassesInOrder(w))'
  BY PassesOfOthersAreSound DEF PassesAreSound
<1>3. ASSUME mine.instances = me.instances PROVE ReadMeetings(w)'
  BY <1>1, <1>2, <1>3 DEF ReadMeetings, MadeStaysMade
<1>4. ASSUME mine.instances = me.instances, mine.jobs \subseteq me.jobs, mine.at # "archiving"
      PROVE  JobsAreInstances(w)'
  BY <1>2, <1>4 DEF JobsAreInstances, InstanceOf, ToArchive
<1>5. CASE Rests(w)
  BY <1>5 DEF Rests, Resting, ReadMeetings, JobsAreInstances, PassesInOrder, ToArchive
<1>6. CASE SeesSeries(w)
  BY <1>2, <1>3, <1>4, <1>6 DEF SeesSeries, KeepsFound, KeepsDuties, PassesInOrder
<1>7. CASE SeesInstances(w)
  <2>1. me.jobs = {} /\ ~me.upkeeping
    BY <1>2, <1>7 DEF SeesInstances, PassesInOrder
  <2>2. mine.jobs = {} /\ mine.at = "claiming" /\ ~mine.upkeeping /\ mine.instances = Found
    BY <1>7, <2>1 DEF SeesInstances, KeepsDuties
  <2>3. ReadMeetings(w)'
    BY <1>7, <2>2 DEF SeesInstances, Aside, MeetingsStay, ReadMeetings, Found
  <2>4. JobsAreInstances(w)' /\ PassesInOrder(w)'
    BY <2>2 DEF JobsAreInstances, PassesInOrder, ToArchive
  <2>5. QED
    BY <2>3, <2>4
<1>8. CASE Keeps(w) /\ me.at \in {"claiming", "creating"} /\ mine.at \in {"creating", "releasing", "recording"}
  BY <1>2, <1>3, <1>4, <1>8 DEF Keeps, KeepsFound, KeepsDuties, PassesInOrder
<1>9. CASE Proceeds(w) \/ Released(w) \/ NotArchived(w)
  <2>1. /\ mine.instances = me.instances /\ mine.jobs = me.jobs /\ mine.upkeeping = me.upkeeping
        /\ mine.at \in {"claiming", "digest", "upkeep"}
        /\ mine.at = "claiming" => me.at = "claiming" \/ ~me.upkeeping
    BY <1>9 DEF Proceeds, Released, NotArchived, Keeps, KeepsFound, KeepsDuties
  <2>2. PassesInOrder(w)'
    BY <1>2, <2>1 DEF PassesInOrder
  <2>3. QED
    BY <1>3, <1>4, <2>1, <2>2
<1>10. CASE Archived(w)
  BY <1>2, <1>3, <1>4, <1>10 DEF Archived, Keeps, KeepsFound, KeepsDuties, PassesInOrder
<1>11. CASE Excluded(w)
  BY <1>2, <1>3, <1>4, <1>11 DEF Excluded, KeepsFound, PassesInOrder
<1>12. CASE Planned(w)
  <2>1. mine.instances = me.instances /\ mine.upkeeping /\ mine.at = "upkeep"
    BY <1>12 DEF Planned
  <2>2. \A one : Job("update", one).kind = "update" /\ Job("adopt", one).kind = "adopt"
    BY DEF Job
  <2>3. \A job \in ToArchive(w)' : \E one \in me.instances : job = Job("archive", one)
    BY <1>12, <2>2 DEF Planned, ToArchive, Updates, Archives, Adoptions
  <2>4. \A one \in me.instances : Job("archive", one).id = one.id /\ Job("archive", one).day = one.day
    BY DEF Job
  <2>5. ASSUME NEW job \in ToArchive(w)', NEW other \in ToArchive(w)', other.id = job.id
        PROVE  other = job
    <3>1. PICK one \in me.instances, two \in me.instances :
                job = Job("archive", one) /\ other = Job("archive", two)
      BY <2>3
    <3>2. one = two
      BY <1>2, <2>4, <2>5, <3>1 DEF ReadMeetings
    <3>3. QED
      BY <3>1, <3>2
  <2>6. \A job \in ToArchive(w)' : InstanceOf(w, job.id, job.day)'
    BY <2>1, <2>3, <2>4 DEF InstanceOf
  <2>7. QED
    BY <1>3, <2>1, <2>5, <2>6 DEF JobsAreInstances, PassesInOrder
<1>13. ASSUME NEW job \in me.jobs, TookUp(w, job)
       PROVE  (ReadMeetings(w) /\ JobsAreInstances(w) /\ PassesInOrder(w))'
  <2>1. /\ mine.instances = me.instances /\ mine.upkeeping = me.upkeeping
        /\ mine.jobs = me.jobs \ {job} /\ mine.day = job.day /\ mine.id = job.id
        /\ mine.at \in {"recording", "upkeep", "digest", "archiving"}
        /\ mine.at = "archiving" => job.kind = "archive"
    BY <1>13 DEF TookUp, KeepsFound
  <2>2. PassesInOrder(w)'
    BY <1>2, <2>1 DEF PassesInOrder
  <2>3. JobsAreInstances(w)'
    BY <1>2, <2>1 DEF JobsAreInstances, InstanceOf, ToArchive
  <2>4. QED
    BY <1>3, <2>1, <2>2, <2>3
<1>14. QED
  BY <1>5, <1>6, <1>7, <1>8, <1>9, <1>10, <1>11, <1>12, <1>13
     DEF Steps, Claimed, Created, CreatedUntold, MadeOne, NotCreated

-----------------------------------------------------------------------------
(* The days a series lost to the generator itself *)

\* No meeting of the day is left, none is coming, and its claim keeps it so.
UsedUp(d) ==
    /\ claims[d].status # "free"
    /\ LiveOn(d) = {}
    /\ \A w \in Workers :
        /\ pass[w].at \in Holding => pass[w].day # d
        /\ \A one \in pass[w].instances : one.day # d

Away(s) == {d \in Days : d \notin DaysOf(s)}
Excused(d) == d \in dropped \/ UsedUp(d)

\* A process that is alone, and what it may rely on: what was settled when its pass began
\* is settled until the upkeep, and a meeting it archives is one that a user took out.
SettledStays(w) ==
    ~pass[w].upkeeping =>
        /\ \A d \in pass[w].settled : claims[d].status = "settled"
        /\ pass[w].at \in {"creating", "releasing"} => pass[w].day \notin pass[w].settled
        /\ pass[w].at \notin {"stopped", "idle", "instances"} =>
            \A d \in pass[w].settled \cap Missing(pass[w].saw, pass[w].instances) : LiveOn(d) = {}

ArchivesDropped(w) ==
    /\ \A job \in ToArchive(w) : job.day \in dropped
    /\ pass[w].at = "archiving" => pass[w].day \in dropped

RelyAlone(w) ==
    /\ \A d \in Away(series) : Excused(d)
    /\ pass[w].at \notin {"stopped", "idle"} => \A d \in Away(pass[w].saw) : Excused(d)
    /\ \A d \in pass[w].excludes : UsedUp(d)
    /\ SettledStays(w)
    /\ ArchivesDropped(w)

TheLoneRelies == \A w \in Workers : Alone(w) => RelyAlone(w)

LEMMA UsedUpStays ==
    ASSUME TypeOK, PassesAreSound, NEW w \in Workers, Steps(w),
           \A v \in Workers : v # w => pass'[v] = pass[v],
           NEW d \in Days, UsedUp(d)
    PROVE  UsedUp(d)'
<1> DEFINE me == pass[w]
           mine == pass'[w]
<1>1. /\ claims[d].status # "free" /\ \A i \in Ids : ~(meetings[i].status \in Live /\ meetings[i].day = d)
      /\ me.at \in Holding => me.day # d
      /\ \A one \in me.instances : one.day # d
      /\ me.day \in Days /\ me.id \in Ids
  BY DEF UsedUp, LiveOn, TypeOK, Passes
<1>2. ASSUME claims'[d].status # "free",
             \A i \in Ids : ~(meetings'[i].status \in Live /\ meetings'[i].day = d),
             mine.at \in Holding => mine.day # d,
             \A one \in mine.instances : one.day # d
      PROVE  UsedUp(d)'
  BY <1>2 DEF UsedUp, LiveOn
<1> USE DEF Holding
<1>3. CASE Rests(w)
  BY <1>1, <1>2, <1>3 DEF Rests, Resting, Aside, MeetingsStay, ClaimsStay
<1>4. CASE SeesSeries(w) \/ Proceeds(w) \/ Planned(w) \/ NotCreated(w)
  BY <1>1, <1>2, <1>4
     DEF SeesSeries, Proceeds, Planned, NotCreated, Keeps, KeepsFound, Aside, MeetingsStay, ClaimsStay
<1>5. CASE SeesInstances(w)
  BY <1>1, <1>2, <1>5 DEF SeesInstances, Found, Live, Aside, MeetingsStay, ClaimsStay
<1>6. ASSUME NEW e \in Days, Claimed(w, e) PROVE UsedUp(d)'
  BY <1>1, <1>2, <1>6 DEF Claimed, Keeps, KeepsFound, MeetingsStay
<1>7. ASSUME NEW i \in Ids, Created(w, i) \/ CreatedUntold(w, i) PROVE UsedUp(d)'
  BY <1>1, <1>2, <1>7 DEF Created, CreatedUntold, MadeOne, Keeps, KeepsFound, ClaimsStay
<1>8. CASE Released(w)
  BY <1>1, <1>2, <1>8 DEF Released, Keeps, KeepsFound, MeetingsStay
<1>9. ASSUME NEW job \in me.jobs, TookUp(w, job) PROVE UsedUp(d)'
  <2>1. mine.at = "archiving" => job.day # d
    <3>1. mine.at = "archiving" => job \in ToArchive(w)
      BY <1>9 DEF TookUp, ToArchive
    <3>2. QED
      BY <1>1, <3>1 DEF PassesAreSound, JobsAreInstances, InstanceOf
  <2>2. QED
    BY <1>1, <1>2, <1>9, <2>1 DEF TookUp, KeepsFound, Aside, MeetingsStay, ClaimsStay
<1>10. CASE Archived(w) \/ NotArchived(w)
  BY <1>1, <1>2, <1>10
     DEF Archived, NotArchived, OneArchived, Keeps, KeepsFound, MeetingsStay, ClaimsStay
<1>11. CASE Excluded(w)
  BY <1>1, <1>2, <1>11 DEF Excluded, KeepsFound, MeetingsStay, ClaimsStay
<1>12. QED
  BY <1>3, <1>4, <1>5, <1>6, <1>7, <1>8, <1>9, <1>10, <1>11 DEF Steps

LEMMA UsedUpStaysByOthers ==
    ASSUME TypeOK, Others, NEW d \in Days, UsedUp(d)
    PROVE  UsedUp(d)'
<1>1. pass' = pass
  BY OthersTouch
<1>2. \A i \in Ids : ~(meetings'[i].status \in Live /\ meetings'[i].day = d)
  BY OthersTouch DEF UsedUp, LiveOn, MeetingsStay, OneTouched, Live
<1>3. claims'[d].status # "free"
  <2>1. CASE ClaimsStay
    BY <2>1 DEF ClaimsStay, UsedUp
  <2>2. CASE \E e \in Days : Settle(e)
    BY <2>2 DEF Settle, TypeOK, Claims, UsedUp
  <2>3. QED
    BY <2>1, <2>2, OthersTouch
<1>4. QED
  BY <1>1, <1>2, <1>3 DEF UsedUp, LiveOn

LEMMA LoneReliesOnOthers ==
    ASSUME TypeOK, TheLoneRelies, Others
    PROVE  TheLoneRelies'
<1>1. pass' = pass
  BY OthersTouch
<1> SUFFICES ASSUME NEW w \in Workers, Alone(w) PROVE RelyAlone(w)'
  BY <1>1 DEF TheLoneRelies, Alone
<1>2. RelyAlone(w)
  BY DEF TheLoneRelies
<1>3. dropped \subseteq dropped'
  BY OthersTouch DEF EditSeries
<1>4. \A d \in Days : Excused(d) => Excused(d)'
  BY <1>3, UsedUpStaysByOthers DEF Excused
<1>5. pass[w] \in Passes /\ \A s : Away(s) \subseteq Days
  BY DEF TypeOK, Away
<1>6. \A d \in Away(series)' : Excused(d)'
  <2>1. CASE series' = series
    BY <1>2, <1>4, <1>5, <2>1 DEF RelyAlone, Away, DaysOf
  <2>2. CASE EditSeries
    BY <2>2 DEF EditSeries, Excused, Away
  <2>3. QED
    BY <2>1, <2>2, OthersTouch
<1>7. pass'[w].at \notin {"stopped", "idle"} => \A d \in Away(pass'[w].saw) : Excused(d)'
  BY <1>1, <1>2, <1>4, <1>5 DEF RelyAlone
<1>8. \A d \in pass'[w].excludes : UsedUp(d)'
  <2>1. pass[w].excludes \subseteq Days
    BY <1>5 DEF Passes
  <2>2. QED
    BY <1>1, <1>2, <2>1, UsedUpStaysByOthers DEF RelyAlone
<1>9. SettledStays(w)'
  <2>1. \A d \in Days : LiveOn(d) = {} => LiveOn(d)' = {}
    BY OthersTouch DEF LiveOn, MeetingsStay, OneTouched, Live
  <2>2. \A d \in Days : claims[d].status = "settled" => claims'[d].status = "settled"
    <3>1. CASE ClaimsStay
      BY <3>1 DEF ClaimsStay
    <3>2. CASE \E e \in Days : Settle(e)
      BY <3>2 DEF Settle, TypeOK, Claims
    <3>3. QED
      BY <3>1, <3>2, OthersTouch
  <2>3. pass[w].settled \subseteq Days
    BY <1>5 DEF Passes
  <2>4. SettledStays(w)
    BY <1>2 DEF RelyAlone
  <2>5. QED
    BY <1>1, <2>1, <2>2, <2>3, <2>4 DEF SettledStays
<1>10. ArchivesDropped(w)'
  BY <1>1, <1>2, <1>3 DEF RelyAlone, ArchivesDropped, ToArchive
<1>11. QED
  BY <1>6, <1>7, <1>8, <1>9, <1>10 DEF RelyAlone

LEMMA SettledStaysAlone ==
    ASSUME TypeOK, SettledIsFound, PassesAreSound, NEW w \in Workers, SettledStays(w), Steps(w)
    PROVE  SettledStays(w)'
<1> DEFINE me == pass[w]
           mine == pass'[w]
<1>1. me.settled \subseteq Days /\ me.day \in Days /\ me.id \in Ids
  BY DEF TypeOK, Passes
<1>2. PassesInOrder(w)
  BY DEF PassesAreSound
<1>3. MeetingsStay => \A d \in Days : LiveOn(d)' = LiveOn(d)
  BY DEF MeetingsStay, LiveOn
<1>4. CASE Rests(w)
  BY <1>4 DEF Rests, Resting, SettledStays
<1>5. CASE SeesSeries(w)
  BY <1>2, <1>5 DEF SeesSeries, Settled, SettledStays, Aside, ClaimsStay
<1>6. CASE SeesInstances(w)
  <2>1. \A d \in Days : claims[d].status = "settled" /\ LiveOn(d) # {} => \E one \in Found : one.day = d
    <3> SUFFICES ASSUME NEW d \in Days, claims[d].status = "settled", NEW i \in LiveOn(d)
                 PROVE  \E one \in Found : one.day = d
      OBVIOUS
    <3>1. i \in Ids /\ meetings[i].status = "found" /\ meetings[i].day = d
      BY DEF SettledIsFound, LiveOn
    <3>2. [id |-> i, day |-> meetings[i].day, shape |-> meetings[i].shape] \in Found
      BY <3>1 DEF Found
    <3>3. QED
      BY <3>1, <3>2
  <2>2. \A d \in me.settled : claims[d].status = "settled"
    BY <1>2, <1>6 DEF SeesInstances, SettledStays, PassesInOrder
  <2>3. \A d \in Missing(mine.saw, Found) : \A one \in Found : one.day # d
    BY DEF Missing
  <2>4. QED
    BY <1>1, <1>3, <1>6, <2>1, <2>2, <2>3
       DEF SeesInstances, SettledStays, KeepsRead, Aside, ClaimsStay
<1>7. ASSUME NEW d \in Days, Claimed(w, d) PROVE SettledStays(w)'
  BY <1>1, <1>3, <1>7 DEF Claimed, Keeps, KeepsRead, KeepsFound, SettledStays
<1>8. CASE Proceeds(w) \/ NotCreated(w)
  BY <1>1, <1>3, <1>8
     DEF Proceeds, NotCreated, Keeps, KeepsRead, KeepsFound, SettledStays, Aside, ClaimsStay
<1>9. ASSUME NEW i \in Ids, Created(w, i) \/ CreatedUntold(w, i) PROVE SettledStays(w)'
  <2>1. \A d \in Days : d # me.day /\ LiveOn(d) = {} => LiveOn(d)' = {}
    BY <1>9 DEF Created, CreatedUntold, MadeOne, LiveOn
  <2>2. QED
    BY <1>1, <1>2, <1>9, <2>1
       DEF Created, CreatedUntold, MadeOne, Keeps, KeepsRead, KeepsFound, SettledStays, ClaimsStay,
           PassesInOrder
<1>10. CASE Released(w)
  <2>1. ~mine.upkeeping => me.at = "releasing"
    BY <1>2, <1>10 DEF Released, Keeps, KeepsFound, PassesInOrder
  <2>2. QED
    BY <1>1, <1>3, <1>10, <2>1 DEF Released, Keeps, KeepsRead, KeepsFound, SettledStays
<1>11. CASE mine.upkeeping
  BY <1>11 DEF SettledStays
<1>12. ASSUME NEW job \in me.jobs, TookUp(w, job) PROVE mine.upkeeping
  BY <1>2, <1>12 DEF TookUp, KeepsFound, PassesInOrder
<1>13. CASE Archived(w) \/ NotArchived(w)
  BY <1>2, <1>11, <1>13 DEF Archived, NotArchived, Keeps, KeepsFound, PassesInOrder
<1>14. CASE Excluded(w)
  BY <1>1, <1>3, <1>14 DEF Excluded, KeepsRead, KeepsFound, SettledStays, ClaimsStay
<1>15. QED
  BY <1>4, <1>5, <1>6, <1>7, <1>8, <1>9, <1>10, <1>11, <1>12, <1>13, <1>14 DEF Steps, Planned

LEMMA ArchivesStayDropped ==
    ASSUME TypeOK, PassesAreSound, NEW w \in Workers, RelyAlone(w), Steps(w)
    PROVE  ArchivesDropped(w)'
<1> DEFINE me == pass[w]
           mine == pass'[w]
<1>1. ArchivesDropped(w) /\ dropped' = dropped
  BY DEF RelyAlone, Steps, Rests, SeesSeries, SeesInstances, Claimed, Proceeds, Created,
         CreatedUntold, MadeOne, NotCreated, Released, Planned, TookUp, Archived, NotArchived,
         Excluded, Aside, HistoryStays
<1>2. CASE mine.jobs \subseteq me.jobs /\ mine.at # "archiving"
  BY <1>1, <1>2 DEF ArchivesDropped, ToArchive
<1>3. ASSUME NEW job \in me.jobs, TookUp(w, job) PROVE ArchivesDropped(w)'
  BY <1>1, <1>3 DEF TookUp, ArchivesDropped, ToArchive
<1>4. CASE Planned(w)
  <2>1. \A one : Job("update", one).kind = "update" /\ Job("adopt", one).kind = "adopt"
                 /\ Job("archive", one).day = one.day
    BY DEF Job
  <2>2. \A job \in ToArchive(w)' : \E one \in me.instances :
            /\ job.day = one.day /\ one.day \notin Wanted(me.saw)
            /\ me.saw.live => me.saw.rrule = "parses" \/ one.day \in me.saw.exdates
    BY <1>4, <2>1 DEF Planned, ToArchive, Updates, Archives, Adoptions, Considered
  <2>3. ASSUME NEW one \in me.instances, one.day \notin Wanted(me.saw),
              me.saw.live => me.saw.rrule = "parses" \/ one.day \in me.saw.exdates
        PROVE  one.day \in dropped
    <3>1. one.day \in Days
      BY DEF TypeOK, Passes, Instances
    <3>2. one.day \in Away(me.saw)
      BY <2>3, <3>1 DEF Away, Wanted, DaysOf
    <3>3. me.at = "claiming"
      BY <1>4 DEF Planned
    <3>4. Excused(one.day)
      BY <3>2, <3>3 DEF RelyAlone
    <3>5. QED
      BY <3>4 DEF Excused, UsedUp
  <2>4. mine.at = "upkeep"
    BY <1>4 DEF Planned
  <2>5. QED
    BY <1>1, <2>2, <2>3, <2>4 DEF ArchivesDropped
<1>5. QED
  BY <1>2, <1>3, <1>4
     DEF Steps, Rests, Resting, SeesSeries, SeesInstances, Claimed, Proceeds, Created,
         CreatedUntold, MadeOne, NotCreated, Released, Archived, NotArchived, Excluded, Keeps,
         KeepsDuties

LEMMA LoneStillRelies ==
    ASSUME TypeOK, SettledIsFound, PassesAreSound, TheLoneRelies, NEW w \in Workers, Steps(w),
           Alone(w), \A v \in Workers : v # w => pass'[v] = pass[v]
    PROVE  RelyAlone(w)'
<1> DEFINE me == pass[w]
           mine == pass'[w]
<1>1. RelyAlone(w)
  BY DEF TheLoneRelies
<1>2. SettledStays(w)' /\ ArchivesDropped(w)'
  BY <1>1, SettledStaysAlone, ArchivesStayDropped DEF RelyAlone
<1>3. /\ dropped' = dropped
      /\ series' = series \/ Excluded(w)
  BY DEF Steps, Rests, SeesSeries, SeesInstances, Claimed, Proceeds, Created,
         CreatedUntold, MadeOne, NotCreated, Released, Planned, TookUp, Archived, NotArchived,
         Excluded, Aside, HistoryStays
<1>4. \A d \in Days : UsedUp(d) => UsedUp(d)'
  BY UsedUpStays
<1>5. \A d \in Days : Excused(d) => Excused(d)'
  BY <1>3, <1>4 DEF Excused
<1>6. me \in Passes /\ \A s : Away(s) \subseteq Days
  BY DEF TypeOK, Away
<1>7. \A d \in Away(series)' : Excused(d)'
  <2>1. CASE series' = series
    BY <1>1, <1>5, <1>6, <2>1 DEF RelyAlone, Away, DaysOf
  <2>2. CASE Excluded(w) /\ series' # series
    <3>1. series' = [series EXCEPT !.exdates = me.saw.exdates \cup me.excludes]
      BY <2>2 DEF Excluded
    <3>2. ASSUME NEW d \in Away(series)' PROVE d \in Away(series) \/ d \in Away(me.saw) \/ d \in me.excludes
      BY <3>1, <3>2 DEF Away, DaysOf, TypeOK, SeriesObjects
    <3>3. me.at = "upkeep"
      BY <2>2 DEF Excluded
    <3>4. Away(series)' \subseteq Days
      BY DEF Away
    <3>5. QED
      BY <1>1, <1>5, <3>2, <3>3, <3>4 DEF RelyAlone, Excused
  <2>3. QED
    BY <1>3, <2>1, <2>2
<1>8. mine.at \notin {"stopped", "idle"} => \A d \in Away(mine.saw) : Excused(d)'
  <2>1. CASE SeesSeries(w)
    BY <1>1, <1>5, <1>6, <2>1 DEF SeesSeries, RelyAlone
  <2>2. CASE Rests(w)
    BY <2>2 DEF Rests, Resting
  <2>3. CASE mine.saw = me.saw /\ me.at \notin {"stopped", "idle"}
    BY <1>1, <1>5, <1>6, <2>3 DEF RelyAlone
  <2>4. QED
    BY <2>1, <2>2, <2>3
       DEF Steps, SeesInstances, Claimed, Proceeds, Created, CreatedUntold, MadeOne, NotCreated,
           Released, Planned, TookUp, Archived, NotArchived, Excluded, Keeps, KeepsRead
<1>9. \A d \in mine.excludes : UsedUp(d)'
  <2>1. CASE Planned(w)
    <3>1. ASSUME NEW d \in mine.excludes PROVE UsedUp(d)
      <4>1. /\ d \in Days /\ claims[d].status = "settled"
            /\ d \in me.settled /\ d \in Missing(me.saw, me.instances)
        BY <2>1, <3>1 DEF Planned, Excludes, Settled
      <4>2. me.at = "claiming" /\ ~me.upkeeping
        BY <2>1 DEF Planned, PassesAreSound, PassesInOrder
      <4>3. LiveOn(d) = {}
        BY <1>1, <4>1, <4>2 DEF RelyAlone, SettledStays
      <4>4. \A one \in me.instances : one.day # d
        BY <4>1 DEF Missing
      <4>5. \A v \in Workers : v # w => pass[v].at = "stopped" /\ pass[v].instances = {}
        BY DEF Alone, PassesAreSound, PassesInOrder
      <4>6. QED
        BY <4>1, <4>2, <4>3, <4>4, <4>5 DEF UsedUp, Holding
    <3>2. mine.excludes \subseteq Days
      BY <2>1 DEF Planned, Excludes, Settled
    <3>3. QED
      BY <1>4, <3>1, <3>2
  <2>2. CASE mine.excludes \subseteq me.excludes
    BY <1>1, <1>4, <1>6, <2>2 DEF RelyAlone, Passes
  <2>3. QED
    BY <2>1, <2>2
       DEF Steps, Rests, Resting, SeesSeries, SeesInstances, Claimed, Proceeds, Created,
           CreatedUntold, MadeOne, NotCreated, Released, TookUp, Archived, NotArchived, Excluded,
           Keeps, KeepsDuties
<1>10. QED
  BY <1>2, <1>7, <1>8, <1>9 DEF RelyAlone

-----------------------------------------------------------------------------
(* The balance of a day *)

\* What a process that is alone has seen of a day and may still archive: its meetings,
\* also those that somebody deletes before it gets there.
HeldBy(w, i, d) ==
    \/ ~pass[w].upkeeping /\ \E one \in pass[w].instances : one.id = i /\ one.day = d
    \/ \E job \in ToArchive(w) : job.id = i /\ job.day = d
    \/ pass[w].at = "archiving" /\ pass[w].id = i /\ pass[w].day = d

Counted(d) ==
    {i \in Ids :
        \/ i \in LiveOn(d)
        \/ meetings[i].status = "deleted" /\ meetings[i].day = d /\ d \notin dropped
        \/ \E w \in Workers : Alone(w) /\ HeldBy(w, i, d)}

\* Who will make a meeting of the day, or give up its claim.
Busy(d) ==
    {w \in Workers : pass[w].at \in {"creating", "releasing", "archived"} /\ pass[w].day = d}

Room(d) == lost[d] + twice[d] + IF claims[d].status = "free" THEN 0 ELSE 1

\* A day has room for as many meetings as creates were lost and claims given up for a second
\* archiving, and one more while it is claimed; whoever is busy with it takes one place.
BalancedOn(d) == Cardinality(Counted(d)) + Cardinality(Busy(d)) <= Room(d)
Balanced == \A d \in Days : BalancedOn(d)

LEMMA Counting ==
    ASSUME NEW S, IsFiniteSet(S), NEW x
    PROVE  /\ Cardinality(S) \in Nat
           /\ \A T : T \subseteq S => Cardinality(T) \in Nat /\ Cardinality(T) <= Cardinality(S)
           /\ \A T : T \subseteq S \cup {x} =>
                Cardinality(T) \in Nat /\ Cardinality(T) <= Cardinality(S) + 1
           /\ x \in S => \A T : T \subseteq S \ {x} =>
                Cardinality(T) \in Nat /\ Cardinality(T) <= Cardinality(S) - 1
<1>1. ASSUME NEW U, IsFiniteSet(U), NEW T, T \subseteq U
      PROVE  Cardinality(T) \in Nat /\ Cardinality(T) <= Cardinality(U)
  BY <1>1, FS_Subset, FS_CardinalityType
<1>2. /\ Cardinality(S) \in Nat
      /\ IsFiniteSet(S \cup {x}) /\ IsFiniteSet(S \ {x})
      /\ Cardinality(S \cup {x}) \in {Cardinality(S), Cardinality(S) + 1}
      /\ x \in S => Cardinality(S \ {x}) = Cardinality(S) - 1
  BY FS_CardinalityType, FS_AddElement, FS_RemoveElement
<1>3. ASSUME NEW T, T \subseteq S \cup {x}
      PROVE  Cardinality(T) \in Nat /\ Cardinality(T) <= Cardinality(S) + 1
  <2>1. Cardinality(T) \in Nat /\ Cardinality(T) <= Cardinality(S \cup {x})
    BY <1>1, <1>2, <1>3
  <2>2. QED
    BY <1>2, <2>1
<1>4. ASSUME x \in S, NEW T, T \subseteq S \ {x}
      PROVE  Cardinality(T) \in Nat /\ Cardinality(T) <= Cardinality(S) - 1
  <2>1. Cardinality(T) \in Nat /\ Cardinality(T) <= Cardinality(S \ {x})
    BY <1>1, <1>2, <1>4
  <2>2. QED
    BY <1>2, <1>4, <2>1
<1>5. QED
  BY <1>1, <1>2, <1>3, <1>4

LEMMA DaysAreFinite ==
    \A d \in Days : IsFiniteSet(Counted(d)) /\ IsFiniteSet(Busy(d))
<1>1. IsFiniteSet(Ids)
  BY SeriesBoundsAssumption, FS_Interval DEF Ids
<1>2. \A d \in Days : Counted(d) \subseteq Ids /\ Busy(d) \subseteq Workers
  BY DEF Counted, Busy
<1>3. QED
  BY <1>1, <1>2, WorkersAssumption, FS_Subset

LEMMA HeldWasThere ==
    ASSUME TypeOK, PassesAreSound, NEW w \in Workers, Steps(w), NEW d \in Days, NEW i \in Ids,
           HeldBy(w, i, d)'
    PROVE  HeldBy(w, i, d) \/ i \in LiveOn(d)
<1> DEFINE me == pass[w]
           mine == pass'[w]
<1>1. PassesInOrder(w)
  BY DEF PassesAreSound
<1>2. CASE /\ mine.instances = me.instances /\ mine.upkeeping = me.upkeeping
           /\ mine.jobs = me.jobs /\ mine.at # "archiving"
  BY <1>2 DEF HeldBy, ToArchive
<1>3. CASE Rests(w)
  BY <1>3 DEF Rests, Resting, HeldBy, ToArchive
<1>4. CASE SeesInstances(w)
  <2>1. mine.jobs = {} /\ mine.at = "claiming" /\ mine.instances = Found
    BY <1>1, <1>4 DEF SeesInstances, KeepsDuties, PassesInOrder
  <2>2. PICK one \in Found : one.id = i /\ one.day = d
    BY <2>1 DEF HeldBy, ToArchive
  <2>3. QED
    BY <2>2 DEF Found, LiveOn, Live
<1>5. CASE Planned(w)
  <2>1. mine.upkeeping /\ mine.at = "upkeep" /\ me.at = "claiming"
    BY <1>5 DEF Planned
  <2>2. ~me.upkeeping
    BY <1>1, <2>1 DEF PassesInOrder
  <2>3. PICK job \in ToArchive(w)' : job.id = i /\ job.day = d
    BY <2>1 DEF HeldBy
  <2>4. \A one : Job("update", one).kind = "update" /\ Job("adopt", one).kind = "adopt"
    BY DEF Job
  <2>5. PICK one \in me.instances : job = Job("archive", one)
    BY <1>5, <2>3, <2>4 DEF Planned, ToArchive, Updates, Archives, Adoptions
  <2>6. one.id = i /\ one.day = d
    BY <2>3, <2>5 DEF Job
  <2>7. QED
    BY <2>2, <2>6 DEF HeldBy
<1>6. ASSUME NEW job \in me.jobs, TookUp(w, job) PROVE HeldBy(w, i, d)
  BY <1>6 DEF TookUp, KeepsFound, HeldBy, ToArchive
<1>7. CASE Excluded(w)
  BY <1>7 DEF Excluded, KeepsFound, HeldBy, ToArchive
<1>8. QED
  BY <1>2, <1>3, <1>4, <1>5, <1>6, <1>7
     DEF Steps, SeesSeries, Claimed, Proceeds, Created, CreatedUntold, MadeOne, NotCreated,
         Released, Archived, NotArchived, Keeps, KeepsFound, KeepsDuties

\* What a step of one process makes of a day it changes no meeting of.
LEMMA BalanceStays ==
    ASSUME NEW d \in Days, BalancedOn(d), Room(d) \in Nat, Room(d)' \in Nat,
           Counted(d)' \subseteq Counted(d), Busy(d)' \subseteq Busy(d), Room(d) <= Room(d)'
    PROVE  BalancedOn(d)'
<1>1. /\ Cardinality(Counted(d)) \in Nat /\ Cardinality(Busy(d)) \in Nat
      /\ Cardinality(Counted(d)') \in Nat /\ Cardinality(Counted(d)') <= Cardinality(Counted(d))
      /\ Cardinality(Busy(d)') \in Nat /\ Cardinality(Busy(d)') <= Cardinality(Busy(d))
  BY DaysAreFinite, Counting
<1>2. QED
  BY <1>1 DEF BalancedOn

LEMMA WorkKeepsBalance ==
    ASSUME TypeOK, TypeOK', PassesAreSound, TheLoneRelies, Balanced,
           NEW w \in Workers, Steps(w),
           \A v \in Workers : v # w => pass'[v] = pass[v],
           \A v \in Workers : (Alone(v)' <=> Alone(v)) /\ (Alone(v) => v = w)
    PROVE  Balanced'
<1> SUFFICES ASSUME NEW d \in Days PROVE BalancedOn(d)'
  BY DEF Balanced
<1> DEFINE me == pass[w]
           mine == pass'[w]
           Gone(i) == meetings[i].status = "deleted" /\ meetings[i].day = d /\ d \notin dropped
           InBusy(p) == p.at \in {"creating", "releasing", "archived"} /\ p.day = d
<1>1. /\ lost \in [Days -> Nat] /\ lost' \in [Days -> Nat]
      /\ twice \in [Days -> Nat] /\ twice' \in [Days -> Nat]
      /\ me.day \in Days /\ me.id \in Ids /\ BalancedOn(d)
  BY DEF TypeOK, Passes, Balanced
<1>2. \A i \in Ids : i \in Counted(d) <=>
        i \in LiveOn(d) \/ Gone(i) \/ (Alone(w) /\ HeldBy(w, i, d))
  BY DEF Counted
<1>3. \A i \in Ids : i \in Counted(d)' <=>
        i \in LiveOn(d)' \/ Gone(i)' \/ (Alone(w) /\ HeldBy(w, i, d)')
  BY DEF Counted
<1>4. \A i \in Ids : HeldBy(w, i, d)' => HeldBy(w, i, d) \/ i \in LiveOn(d)
  BY HeldWasThere
<1>5. \A v \in Workers : (v \in Busy(d) <=> InBusy(pass[v])) /\ (v \in Busy(d)' <=> InBusy(pass'[v]))
  BY DEF Busy
<1>6. Counted(d)' \subseteq Ids /\ Busy(d)' \subseteq Workers /\ Counted(d) \subseteq Ids
  BY DEF Counted, Busy
<1>7. /\ IsFiniteSet(Counted(d)) /\ IsFiniteSet(Busy(d))
      /\ Room(d) \in Nat /\ Room(d)' \in Nat
      /\ Cardinality(Counted(d)) + Cardinality(Busy(d)) <= Room(d)
  BY <1>1, DaysAreFinite DEF Room, BalancedOn
<1>8. /\ ~InBusy(mine) => Busy(d)' \subseteq Busy(d) \ {w}
      /\ (InBusy(mine) => InBusy(me)) => Busy(d)' \subseteq Busy(d)
      /\ Busy(d)' \subseteq Busy(d) \cup {w}
  BY <1>5, <1>6
<1>9. MeetingsStay /\ dropped' = dropped => Counted(d)' \subseteq Counted(d)
  <2> SUFFICES ASSUME MeetingsStay, dropped' = dropped, NEW i \in Counted(d)'
               PROVE  i \in Counted(d)
    OBVIOUS
  <2>1. i \in Ids /\ meetings'[i].status = meetings[i].status /\ meetings'[i].day = meetings[i].day
    BY <1>6 DEF MeetingsStay
  <2>2. Gone(i)' <=> Gone(i)
    BY <2>1
  <2>3. i \in LiveOn(d)' <=> i \in LiveOn(d)
    BY <2>1 DEF LiveOn
  <2> HIDE DEF Gone
  <2>4. QED
    BY <1>2, <1>3, <1>4, <2>1, <2>2, <2>3
<1>10. OneArchived(me.id) /\ dropped' = dropped => Counted(d)' \subseteq Counted(d)
  <2> SUFFICES ASSUME OneArchived(me.id), dropped' = dropped, NEW i \in Counted(d)'
               PROVE  i \in Counted(d)
    OBVIOUS
  <2>1. i \in Ids
    BY <1>6
  <2>2. Gone(i)' => Gone(i)
    BY <1>1, <2>1 DEF OneArchived, Live
  <2>3. i \in LiveOn(d)' => i \in LiveOn(d)
    BY <1>1, <2>1 DEF OneArchived, LiveOn
  <2> HIDE DEF Gone
  <2>4. QED
    BY <1>2, <1>3, <1>4, <2>1, <2>2, <2>3
<1>11. CASE /\ MeetingsStay \/ OneArchived(me.id)
            /\ HistoryStays /\ ClaimsStay
            /\ InBusy(mine) => InBusy(me)
  <2>1. Room(d)' = Room(d)
    BY <1>11 DEF Room, HistoryStays, ClaimsStay
  <2>2. Counted(d)' \subseteq Counted(d)
    BY <1>9, <1>10, <1>11 DEF HistoryStays
  <2>3. QED
    BY <1>1, <1>7, <1>8, <1>11, <2>1, <2>2, BalanceStays
<1>12. ASSUME NEW e \in Days, Claimed(w, e) PROVE BalancedOn(d)'
  <2>1. Counted(d)' \subseteq Counted(d)
    BY <1>9, <1>12 DEF Claimed, HistoryStays
  <2>2. CASE d = e
    <3>1. Room(d)' = Room(d) + 1
      BY <1>1, <1>12, <2>2 DEF Claimed, HistoryStays, Room
    <3>2. /\ Cardinality(Counted(d)') \in Nat /\ Cardinality(Counted(d)') <= Cardinality(Counted(d))
          /\ Cardinality(Busy(d)') \in Nat /\ Cardinality(Busy(d)') <= Cardinality(Busy(d)) + 1
          /\ Cardinality(Counted(d)) \in Nat /\ Cardinality(Busy(d)) \in Nat
      BY <1>7, <1>8, <2>1, Counting
    <3>3. QED
      BY <1>7, <3>1, <3>2 DEF BalancedOn
  <2>3. CASE d # e
    <3>1. Room(d)' = Room(d)
      BY <1>12, <2>3 DEF Claimed, HistoryStays, Room
    <3>2. ~InBusy(mine)
      BY <1>12, <2>3 DEF Claimed
    <3>3. QED
      BY <1>1, <1>7, <1>8, <2>1, <3>1, <3>2, BalanceStays
  <2>4. QED
    BY <2>2, <2>3
<1>13. ASSUME NEW i \in Ids, MadeOne(w, i)
       PROVE  /\ Counted(d)' \subseteq Counted(d) \cup {i}
              /\ me.day # d => Counted(d)' \subseteq Counted(d)
  <2> SUFFICES ASSUME NEW j \in Counted(d)', j # i \/ me.day # d
               PROVE  j \in Counted(d)
    OBVIOUS
  <2>1. j \in Ids /\ dropped' = dropped
    BY <1>6, <1>13 DEF MadeOne
  <2>2. Gone(j)' => Gone(j)
    BY <1>13, <2>1 DEF MadeOne
  <2>3. j \in LiveOn(d)' => j \in LiveOn(d)
    BY <1>13, <2>1 DEF MadeOne, LiveOn
  <2> HIDE DEF Gone
  <2>4. QED
    BY <1>2, <1>3, <1>4, <2>1, <2>2, <2>3
<1>14. ASSUME NEW i \in Ids, Created(w, i) PROVE BalancedOn(d)'
  <2>1. Room(d)' = Room(d) /\ me.at = "creating" /\ ~InBusy(mine)
    BY <1>14 DEF Created, MadeOne, Room, ClaimsStay
  <2>2. CASE me.day = d
    <3>1. w \in Busy(d)
      BY <1>5, <2>1, <2>2
    <3>2. /\ Cardinality(Counted(d)') \in Nat /\ Cardinality(Counted(d)') <= Cardinality(Counted(d)) + 1
          /\ Cardinality(Counted(d)) \in Nat
      BY <1>7, <1>13, <1>14, Counting DEF Created
    <3>3. /\ Cardinality(Busy(d)') \in Nat /\ Cardinality(Busy(d)') <= Cardinality(Busy(d)) - 1
          /\ Cardinality(Busy(d)) \in Nat
      BY <1>7, <1>8, <2>1, <3>1, Counting
    <3>4. QED
      BY <1>7, <2>1, <3>2, <3>3 DEF BalancedOn
  <2>3. CASE me.day # d
    BY <1>1, <1>7, <1>8, <1>13, <1>14, <2>1, <2>3, BalanceStays DEF Created
  <2>4. QED
    BY <2>2, <2>3
<1>15. ASSUME NEW i \in Ids, CreatedUntold(w, i) PROVE BalancedOn(d)'
  <2>1. /\ me.at = "creating" /\ InBusy(mine) => InBusy(me)
        /\ twice' = twice /\ lost' = [lost EXCEPT ![me.day] = @ + 1] /\ claims'[d].status = claims[d].status
    BY <1>15 DEF CreatedUntold, MadeOne, ClaimsStay
  <2>2. Busy(d)' \subseteq Busy(d)
    BY <1>8, <1>15 DEF CreatedUntold, MadeOne
  <2>3. CASE me.day = d
    <3>1. Room(d)' = Room(d) + 1
      BY <1>1, <2>1, <2>3 DEF Room
    <3>2. /\ Cardinality(Counted(d)') \in Nat /\ Cardinality(Counted(d)') <= Cardinality(Counted(d)) + 1
          /\ Cardinality(Counted(d)) \in Nat
      BY <1>7, <1>13, <1>15, Counting DEF CreatedUntold
    <3>3. /\ Cardinality(Busy(d)') \in Nat /\ Cardinality(Busy(d)') <= Cardinality(Busy(d))
          /\ Cardinality(Busy(d)) \in Nat
      BY <1>7, <2>2, Counting
    <3>4. QED
      BY <1>7, <3>1, <3>2, <3>3 DEF BalancedOn
  <2>4. CASE me.day # d
    <3>1. Room(d)' = Room(d)
      BY <1>1, <2>1, <2>4 DEF Room
    <3>2. QED
      BY <1>1, <1>7, <1>13, <1>15, <2>2, <2>4, <3>1, BalanceStays DEF CreatedUntold
  <2>5. QED
    BY <2>3, <2>4
<1>16. CASE Released(w)
  <2>1. Counted(d)' \subseteq Counted(d) /\ ~InBusy(mine) /\ lost' = lost /\ twice' = twice
    BY <1>9, <1>16 DEF Released, HistoryStays
  <2>2. CASE me.day = d
    <3>1. w \in Busy(d)
      BY <1>5, <1>16, <2>2 DEF Released
    <3>2. Room(d)' >= Room(d) - 1
      BY <1>1, <1>16, <2>1, <2>2 DEF Released, Room
    <3>3. /\ Cardinality(Busy(d)') \in Nat /\ Cardinality(Busy(d)') <= Cardinality(Busy(d)) - 1
          /\ Cardinality(Busy(d)) \in Nat
      BY <1>7, <1>8, <2>1, <3>1, Counting
    <3>4. /\ Cardinality(Counted(d)') \in Nat /\ Cardinality(Counted(d)') <= Cardinality(Counted(d))
          /\ Cardinality(Counted(d)) \in Nat
      BY <1>7, <2>1, Counting
    <3>5. QED
      BY <1>7, <3>2, <3>3, <3>4 DEF BalancedOn
  <2>3. CASE me.day # d
    <3>1. Room(d)' = Room(d)
      BY <1>16, <2>1, <2>3 DEF Released, Room
    <3>2. QED
      BY <1>1, <1>7, <1>8, <2>1, <3>1, BalanceStays
  <2>4. QED
    BY <2>2, <2>3
<1>17. CASE Archived(w)
  <2>1. /\ Counted(d)' \subseteq Counted(d) /\ lost' = lost
        /\ claims'[d].status = claims[d].status
        /\ me.at = "archiving" /\ mine.day = me.day
        /\ me.upkeeping /\ mine.at = "archived" /\ dropped' = dropped
    BY <1>10, <1>17 DEF Archived, ClaimsStay, PassesAreSound, PassesInOrder
  <2>2. twice' = [twice EXCEPT ![me.day] =
            IF meetings[me.id].status \in Live \/ Alone(w) THEN @ ELSE @ + 1]
    BY <1>17 DEF Archived
  <2>3. CASE me.day # d
    <3>1. Room(d)' = Room(d)
      BY <1>1, <2>1, <2>2, <2>3 DEF Room
    <3>2. QED
      BY <1>1, <1>7, <1>8, <2>1, <2>3, <3>1, BalanceStays
  <2>4. CASE me.day = d /\ ~(meetings[me.id].status \in Live \/ Alone(w))
    <3>1. Room(d)' = Room(d) + 1
      BY <1>1, <2>1, <2>2, <2>4 DEF Room
    <3>2. /\ Cardinality(Counted(d)') \in Nat /\ Cardinality(Counted(d)') <= Cardinality(Counted(d))
          /\ Cardinality(Counted(d)) \in Nat /\ Cardinality(Busy(d)) \in Nat
          /\ Cardinality(Busy(d)') \in Nat /\ Cardinality(Busy(d)') <= Cardinality(Busy(d)) + 1
      BY <1>7, <1>8, <2>1, Counting
    <3>3. QED
      BY <1>7, <3>1, <3>2 DEF BalancedOn
  <2>5. CASE me.day = d /\ (meetings[me.id].status \in Live \/ Alone(w))
    <3>0. Room(d)' = Room(d)
      BY <1>1, <2>1, <2>2, <2>5 DEF Room
    <3> PICK i \in Ids : i = me.id
      BY <1>1
    <3>1. meetings[i].day = d
      BY <2>1, <2>5 DEF PassesAreSound, JobsAreInstances, ReadMeetings, InstanceOf
    <3>2. i \in Counted(d)
      <4>1. CASE Alone(w)
        BY <1>1, <1>2, <2>1, <2>5, <4>1 DEF HeldBy
      <4>2. CASE meetings[i].status \in Live
        BY <1>1, <1>2, <3>1, <4>2 DEF LiveOn
      <4>3. QED
        BY <2>5, <4>1, <4>2
    <3>3. i \notin LiveOn(d)'
      BY <1>17 DEF Archived, OneArchived, LiveOn
    <3>4. ~(Alone(w) /\ HeldBy(w, i, d)')
      <4>1. ToArchive(w)' = ToArchive(w) /\ mine.upkeeping
        BY <1>17, <2>1 DEF Archived, Keeps, KeepsFound, KeepsDuties, ToArchive
      <4>2. \A job \in ToArchive(w) : job.id # i
        BY <2>1 DEF PassesAreSound, JobsAreInstances
      <4>3. QED
        BY <2>1, <4>1, <4>2 DEF HeldBy
    <3>5. ~Gone(i)'
      <4>1. CASE meetings[i].status \in Live
        BY <1>1, <1>17, <4>1 DEF Archived, OneArchived
      <4>2. CASE Alone(w)
        BY <2>1, <2>5, <4>2 DEF TheLoneRelies, RelyAlone, ArchivesDropped
      <4>3. QED
        BY <2>5, <4>1, <4>2
    <3> HIDE DEF Gone
    <3>6. Counted(d)' \subseteq Counted(d) \ {i}
      BY <1>1, <1>3, <2>1, <3>3, <3>4, <3>5
    <3>7. /\ Cardinality(Counted(d)') \in Nat /\ Cardinality(Counted(d)') <= Cardinality(Counted(d)) - 1
          /\ Cardinality(Counted(d)) \in Nat
      BY <1>7, <3>2, <3>6, Counting
    <3>8. /\ Cardinality(Busy(d)') \in Nat /\ Cardinality(Busy(d)') <= Cardinality(Busy(d)) + 1
          /\ Cardinality(Busy(d)) \in Nat
      BY <1>7, <1>8, Counting
    <3>9. QED
      BY <1>7, <3>0, <3>7, <3>8 DEF BalancedOn
  <2>6. QED
    BY <2>3, <2>4, <2>5
<1>18. CASE Rests(w) \/ SeesSeries(w) \/ SeesInstances(w) \/ Proceeds(w) \/ Planned(w)
              \/ Excluded(w) \/ NotArchived(w) \/ NotCreated(w)
              \/ \E job \in me.jobs : TookUp(w, job)
  <2>1. /\ MeetingsStay \/ OneArchived(me.id)
        /\ HistoryStays /\ ClaimsStay
        /\ mine.at \notin {"creating", "releasing", "archived"} \/ (mine.day = me.day /\ me.at = "creating")
    BY <1>18 DEF Rests, Resting, SeesSeries, SeesInstances, Proceeds, Planned, Excluded,
                 NotArchived, NotCreated, TookUp, Aside
  <2>2. QED
    BY <1>11, <2>1
<1>19. QED
  BY <1>12, <1>14, <1>15, <1>16, <1>17, <1>18 DEF Steps

LEMMA OthersKeepBalance ==
    ASSUME TypeOK, TypeOK', Balanced, Others
    PROVE  Balanced'
<1> SUFFICES ASSUME NEW d \in Days PROVE BalancedOn(d)'
  BY DEF Balanced
<1>1. pass' = pass /\ lost' = lost /\ twice' = twice /\ dropped \subseteq dropped'
  BY OthersTouch DEF EditSeries
<1>2. Busy(d)' = Busy(d) /\ \A w \in Workers, i \in Ids : (Alone(w) /\ HeldBy(w, i, d))' <=> Alone(w) /\ HeldBy(w, i, d)
  BY <1>1 DEF Busy, Alone, HeldBy, ToArchive
<1>3. Room(d)' = Room(d)
  <2>1. claims'[d].status = "free" <=> claims[d].status = "free"
    <3>1. CASE ClaimsStay
      BY <3>1 DEF ClaimsStay
    <3>2. CASE \E e \in Days : Settle(e)
      BY <3>2 DEF Settle, TypeOK, Claims
    <3>3. QED
      BY <3>1, <3>2, OthersTouch
  <2>2. QED
    BY <1>1, <2>1 DEF Room
<1>4. \A i \in Ids :
        \/ i \in LiveOn(d)'
        \/ meetings'[i].status = "deleted" /\ meetings'[i].day = d /\ d \notin dropped'
        => \/ i \in LiveOn(d)
           \/ meetings[i].status = "deleted" /\ meetings[i].day = d /\ d \notin dropped
  BY <1>1, OthersTouch DEF MeetingsStay, OneTouched, LiveOn, Live
<1>5. Counted(d)' \subseteq Counted(d)
  BY <1>2, <1>4 DEF Counted
<1>6. Room(d) \in Nat /\ BalancedOn(d)
  BY DEF TypeOK, Room, Balanced
<1>7. QED
  BY <1>2, <1>3, <1>5, <1>6, BalanceStays

-----------------------------------------------------------------------------
(* The invariant *)

SeriesInv ==
    TypeOK /\ SettledIsFound /\ PassesAreSound /\ TheLoneRelies /\ Balanced

LEMMA InitialInv == Init => SeriesInv
<1> SUFFICES ASSUME Init PROVE SeriesInv
  OBVIOUS
<1>1. TypeOK
  BY InitialTypes
<1>2. \A w \in Workers :
        /\ pass[w].at \in {"idle", "stopped"} /\ pass[w].instances = {} /\ pass[w].jobs = {}
        /\ ~pass[w].upkeeping /\ pass[w].settled = {} /\ pass[w].excludes = {}
  <2>1. \A w \in Workers : pass[w] \in {Resting, [Resting EXCEPT !.at = "stopped"]}
    BY DEF Init, Scenario
  <2>2. \A p \in {Resting, [Resting EXCEPT !.at = "stopped"]} :
            /\ p.at \in {"idle", "stopped"} /\ p.instances = {} /\ p.jobs = {}
            /\ ~p.upkeeping /\ p.settled = {} /\ p.excludes = {}
    BY DEF Resting
  <2>3. QED
    BY <2>1, <2>2
<1>3. /\ \A d \in Days : claims[d].status = "free" /\ lost[d] = 0 /\ twice[d] = 0
      /\ \A i \in Ids : meetings[i].status = "none"
  BY DEF Init, Free
<1>4. SettledIsFound
  BY <1>3 DEF SettledIsFound
<1>5. PassesAreSound
  BY <1>2 DEF PassesAreSound, ReadMeetings, JobsAreInstances, PassesInOrder, ToArchive
<1>6. TheLoneRelies
  <2>1. Away(series) = {}
    BY DEF Init, Away, DaysOf
  <2>2. QED
    BY <1>2, <2>1 DEF TheLoneRelies, RelyAlone, SettledStays, ArchivesDropped, ToArchive
<1>7. Balanced
  <2> SUFFICES ASSUME NEW d \in Days PROVE BalancedOn(d)
    BY DEF Balanced
  <2>1. Counted(d) = {}
    BY <1>2, <1>3 DEF Counted, LiveOn, Live, HeldBy, ToArchive
  <2>2. Busy(d) = {}
    BY <1>2 DEF Busy
  <2>3. QED
    BY <1>3, <2>1, <2>2, FS_EmptySet DEF BalancedOn, Room
<1>8. QED
  BY <1>1, <1>4, <1>5, <1>6, <1>7 DEF SeriesInv

\* Every step of anybody keeps the invariant.
THEOREM SeriesStep == SeriesInv /\ [Next]_vars => SeriesInv'
<1> SUFFICES ASSUME SeriesInv, [Next]_vars PROVE SeriesInv'
  OBVIOUS
<1> USE DEF SeriesInv
<1>1. CASE UNCHANGED vars
  <2>1. UNCHANGED <<series, meetings, claims, pass, lost, twice, dropped>>
    BY <1>1 DEF vars
  <2>2. TypeOK'
    BY <1>1 DEF vars, TypeOK
  <2>3. SettledIsFound' /\ PassesAreSound'
    BY <2>1 DEF SettledIsFound, LiveOn, PassesAreSound, ReadMeetings, JobsAreInstances,
                PassesInOrder, InstanceOf, ToArchive
  <2>4. TheLoneRelies'
    BY <2>1 DEF TheLoneRelies, Alone, RelyAlone, Away, Excused, UsedUp, LiveOn, SettledStays,
                ArchivesDropped, ToArchive, DaysOf, Missing, Wanted
  <2>5. Balanced'
    BY <2>1 DEF Balanced, BalancedOn, Counted, LiveOn, Alone, HeldBy, ToArchive, Busy, Room
  <2>6. QED
    BY <2>2, <2>3, <2>4, <2>5
<1>2. CASE Others
  <2>1. TypeOK'
    BY <1>2, PeopleKeepTypes DEF Others
  <2>2. PassesAreSound'
    BY <1>2, MeetingsAreKept, PassesOfOthersAreSound, OthersTouch DEF PassesAreSound
  <2>3. QED
    BY <1>2, <2>1, <2>2, SettledStaysFoundByOthers, LoneReliesOnOthers, OthersKeepBalance
<1>3. ASSUME NEW w \in Workers, Work(w) \/ Crash(w) PROVE SeriesInv'
  <2>1. TypeOK'
    BY <1>3, WorkKeepsTypes
  <2>2. Steps(w) /\ \A v \in Workers : v # w => pass'[v] = pass[v]
    BY <1>3, WorkSteps, WorkMoves
  <2>3. \A v \in Workers : (Alone(v)' <=> Alone(v)) /\ (Alone(v) => v = w)
    BY <1>3, AloneStays
  <2>4. SettledIsFound'
    BY <2>2, SettledStaysFound
  <2>5. PassesAreSound'
    BY <2>2, MeetingsAreKept, PassesStaySound
  <2>6. TheLoneRelies'
    <3>1. ASSUME Alone(w) PROVE RelyAlone(w)'
      BY <2>2, <3>1, LoneStillRelies
    <3>2. \A v \in Workers : Alone(v)' => Alone(w) /\ v = w
      BY <2>3
    <3>3. QED
      BY <3>1, <3>2 DEF TheLoneRelies
  <2>7. Balanced'
    BY <2>1, <2>2, <2>3, WorkKeepsBalance
  <2>8. QED
    BY <2>1, <2>4, <2>5, <2>6, <2>7
<1>4. QED
  BY <1>1, <1>2, <1>3 DEF Next, Others

\* The invariant holds of every reachable state.
THEOREM SeriesInvariant == Spec => []SeriesInv
  BY InitialInv, SeriesStep, PTL DEF Spec

LEMMA InvMeansOne == SeriesInv => OneMeetingPerDay
<1> SUFFICES ASSUME SeriesInv, NEW d \in Days PROVE Cardinality(LiveOn(d)) <= 1 + lost[d] + twice[d]
  BY DEF OneMeetingPerDay
<1>1. LiveOn(d) \subseteq Counted(d)
  BY DEF Counted, LiveOn
<1>2. /\ Cardinality(LiveOn(d)) \in Nat /\ Cardinality(LiveOn(d)) <= Cardinality(Counted(d))
      /\ Cardinality(Counted(d)) \in Nat /\ Cardinality(Busy(d)) \in Nat
  BY <1>1, DaysAreFinite, Counting
<1>3. lost[d] \in Nat /\ twice[d] \in Nat /\ Room(d) \in Nat /\ Room(d) <= 1 + lost[d] + twice[d]
  BY DEF SeriesInv, TypeOK, Room
<1>4. QED
  BY <1>2, <1>3 DEF SeriesInv, Balanced, BalancedOn

LEMMA InvMeansDeleted == SeriesInv => DeletedStaysDeleted
<1> SUFFICES ASSUME SeriesInv, NEW i \in Ids, NEW d, d = meetings[i].day,
                    meetings[i].status = "deleted", d \notin dropped, lost[d] = 0, twice[d] = 0,
                    NEW j \in LiveOn(d)
             PROVE  FALSE
  BY DEF DeletedStaysDeleted
<1>1. d \in Days /\ j \in Ids /\ j # i
  BY DEF SeriesInv, TypeOK, Meetings, LiveOn, Live
<1>2. {j} \subseteq Counted(d) \ {i} /\ i \in Counted(d)
  BY <1>1 DEF Counted
<1>3. Cardinality({j}) = 1
  BY FS_Singleton
<1>4. /\ 1 <= Cardinality(Counted(d)) - 1
      /\ Cardinality(Counted(d)) \in Nat /\ Cardinality(Busy(d)) \in Nat
  BY <1>1, <1>2, <1>3, DaysAreFinite, Counting
<1>5. Room(d) <= 1 /\ Room(d) \in Nat
  BY DEF Room
<1>6. QED
  BY <1>1, <1>4, <1>5 DEF SeriesInv, Balanced, BalancedOn

\* However many processes there are, and however passes, failures, restarts, search's delay
\* and edits interleave: a day has at most one meeting of the generator, and one more for
\* every create whose answer was lost and every claim given up by a second process that
\* archived the day's meeting again.
THEOREM DaysHaveOneMeeting == Spec => []OneMeetingPerDay
  BY SeriesInvariant, InvMeansOne, PTL

\* A meeting that somebody deleted by hand is not made again, but for the same two cases.
THEOREM DeletedMeetingsStayDeleted == Spec => []DeletedStaysDeleted
  BY SeriesInvariant, InvMeansDeleted, PTL
=============================================================================
