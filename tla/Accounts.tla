------------------------------ MODULE Accounts ------------------------------
(***************************************************************************)
(* Who may do what: people and their calendars as a listing of the space   *)
(* finds them (src/src/anytype_source.rs), the accounts derived from it    *)
(* (src/src/accounts.rs, src/src/caldav/auth.rs), and what a reader does   *)
(* then: takes a task out of a calendar or moves it, or keeps a document.  *)
(*                                                                         *)
(* A listing is three reads of Anytype, between which people edit.  The    *)
(* feed lists for its refreshes and the scheduler for its passes, from one *)
(* source and at the same time: the table of the people is shared, and in  *)
(* use as soon as it is read; a snapshot is there only when the feed has   *)
(* rendered.                                                               *)
(***************************************************************************)
EXTENDS Calendars, Directory, Documents

CONSTANTS
    InitialSpaces,
    BusySpaces,             \* those in which a pass and a request come together
    Addressings,            \* what people assign the task to
    MaxEdits, MaxFailures,  \* bounds on edits in Anytype and on its failures
    MaxPasses,              \* bound on the passes of the scheduler
    MaxTurns                \* bound on the requests

\* Who a request may be made by, and whom a storage of documents is for.
SignIns == Profiles \cup {Nobody}

ASSUME PeopleAssumption == People = Profiles \cup Members /\ Storages = SignIns
ASSUME AddressingsAssumption == Addressings \subseteq Seq(People)

\* known: the space has a property for each configured selector.
Spaces == [pages : Seq(Pages), active : SUBSET Members, assignees : Seq(People), known : BOOLEAN]

ASSUME AccountsBoundsAssumption ==
    /\ MaxEdits \in Nat /\ MaxFailures \in Nat /\ MaxPasses \in Nat /\ MaxTurns \in Nat
    /\ InitialSpaces \subseteq Spaces /\ BusySpaces \subseteq InitialSpaces

VARIABLES
    space,                  \* Anytype: the pages, the members, one task and its type
    listing,                \* per lister, its listing under way, and what it has read
    table,                  \* profiles_by_participant, as of the last listing of either
    snapshot,               \* what the feed serves
    request,                \* per device, the request it makes
    edits, failures, passes, turns  \* the budgets left

vars == <<space, listing, table, snapshot, request, edits, failures, passes, turns, documents>>

\* Whoever asks the one AnytypeTaskSource for a batch.
Listers == {"feed", "scheduler"}

Tables == UNION {[linked -> Profiles] : linked \in SUBSET Members}
NoTable == [member \in {} |-> Nobody]

\* table, mixed: history, the table of the people as the listing read it, and whether the
\* other lister put its own in use before the tasks of this one were normalized.
Snapshots == [there : BOOLEAN, assignees : Seq(People), names : SUBSET People,
              holders : SUBSET Profiles, table : Tables, mixed : BOOLEAN]
NoSnapshot == [there |-> FALSE, assignees |-> <<>>, names |-> {}, holders |-> {}, table |-> NoTable,
               mixed |-> FALSE]

\* carried: the task that was read has a value for each selector.  failed: there is no
\* snapshot, and the feed's last listing did not make one.
Listings == [at : {"idle", "schema", "people", "members", "replaced", "batch"}, assignees : Seq(People),
             carried : BOOLEAN, pages : Seq(Pages), batch : Snapshots, failed : BOOLEAN]
NotListing == [at |-> "idle", assignees |-> <<>>, carried |-> FALSE, pages |-> <<>>,
               batch |-> NoSnapshot, failed |-> FALSE]

\* takes: whose calendar the task leaves.  brings: whose it enters, Unassigned for none.
\* assignees: the task's, as it was read and then as it is written.  located, mixed, used:
\* history, the table of the snapshot it was located in, whether that is the one its tasks
\* were normalized by, and the table that the task which was read was normalized by.
Requests == [at : {"idle", "serving", "located", "fetched", "read", "written", "over"},
             reader : SignIns, takes : People \cup {Nobody}, brings : People \cup {Unassigned},
             assignees : Seq(People), located : Tables, mixed : BOOLEAN, used : Tables]
NoRequest == [at |-> "idle", reader |-> Nobody, takes |-> Nobody, brings |-> Unassigned,
              assignees |-> <<>>, located |-> NoTable, mixed |-> FALSE, used |-> NoTable]

TypeOK ==
    /\ space \in Spaces
    /\ listing \in [Listers -> Listings]
    /\ table \in Tables
    /\ snapshot \in Snapshots
    /\ request \in [Devices -> Requests]
    /\ edits \in 0 .. MaxEdits /\ failures \in 0 .. MaxFailures
    /\ passes \in 0 .. MaxPasses /\ turns \in 0 .. MaxTurns
    /\ DocumentsTypeOK

\* Bound: the budgets are spent by edits, on their own or with a pass of the scheduler or
\* a request on the task or both; or by requests on documents, the task being nobody's.
Scenario ==
    \/ /\ space.assignees # <<>>
       /\ \/ edits = MaxEdits /\ failures = MaxFailures /\ passes = 0 /\ turns = 0
          \/ edits = 1 /\ failures = MaxFailures /\ passes = MaxPasses /\ turns = 0
          \/ edits = 1 /\ failures = MaxFailures /\ passes = 0 /\ turns = 1
          \/ edits = 1 /\ failures = 0 /\ passes = MaxPasses /\ turns = 1 /\ space \in BusySpaces
       /\ edits <= MaxEdits /\ turns <= MaxTurns
       /\ saves = MaxSaves /\ errors = 0
    \/ /\ space.assignees = <<>>
       /\ edits = 0 /\ failures = 0 /\ passes = 0 /\ turns = MaxTurns
       /\ saves = 0 /\ errors = MaxErrors

Init ==
    /\ space \in InitialSpaces
    /\ Scenario
    /\ listing = [l \in Listers |-> NotListing]
    /\ table = NoTable
    /\ snapshot = NoSnapshot
    /\ request = [d \in Devices |-> NoRequest]
    /\ DocumentsInit

-----------------------------------------------------------------------------
(* People, in Anytype.  What search shows lags an edit: to a listing, it comes later. *)

served == <<listing, table, snapshot>>

EditSpace ==
    /\ edits > 0 /\ edits' = edits - 1
    /\ \/ \E n \in DOMAIN space.pages :
            \/ space' = [space EXCEPT !.pages[n].archived = ~@]
            \/ \E links \in (SUBSET Members) \ {space.pages[n].links} :
                    space' = [space EXCEPT !.pages[n].links = links]
       \/ \E member \in Members :
            space' = [space EXCEPT !.active = IF member \in @ THEN @ \ {member} ELSE @ \cup {member}]
       \/ space' = [space EXCEPT !.known = ~@]
       \/ \E assignees \in Addressings \ {space.assignees} :
            space' = [space EXCEPT !.assignees = assignees]
    /\ UNCHANGED <<served, request, failures, passes, turns, documents>>

-----------------------------------------------------------------------------
(* list_tasks, and what the feed makes of it *)

rest == <<space, request, edits, turns, documents>>

Reaches(l, reading) == listing' = [listing EXCEPT ![l] = reading]
GivesUp(l) == Reaches(l, [NotListing EXCEPT !.failed = l = "feed" /\ ~snapshot.there])

ListTasks(l) ==
    /\ listing[l].at = "idle"
    /\ l = "scheduler" => passes > 0
    /\ passes' = IF l = "scheduler" THEN passes - 1 ELSE passes
    /\ \E carried \in {FALSE, space.known} :
        Reaches(l, [listing[l] EXCEPT !.at = "schema", !.assignees = space.assignees,
                                      !.carried = carried])
    /\ UNCHANGED <<table, snapshot, failures, rest>>

\* A property without a value may still be one of the space; one that is neither fails
\* every listing until somebody brings it back.
VerifySchema(l) ==
    /\ listing[l].at = "schema"
    /\ IF listing[l].carried \/ space.known
       THEN Reaches(l, [listing[l] EXCEPT !.at = "people", !.carried = FALSE])
       ELSE GivesUp(l)
    /\ UNCHANGED <<table, snapshot, failures, passes, rest>>

ReadPages(l) ==
    /\ listing[l].at = "people"
    /\ Reaches(l, [listing[l] EXCEPT !.at = "members", !.pages = space.pages])
    /\ UNCHANGED <<table, snapshot, failures, passes, rest>>

\* Mutant of Batch: is_active is not asked.
BatchOfAnyone(pages, active, assignees) ==
    [there |-> TRUE, assignees |-> assignees, names |-> Names(pages, Members),
     holders |-> AccountHolders(pages, Members), table |-> ProfilesByParticipant(pages), mixed |-> FALSE]

Batch(pages, active, assignees) ==
    [there |-> TRUE, assignees |-> assignees, names |-> Names(pages, active),
     holders |-> AccountHolders(pages, active), table |-> ProfilesByParticipant(pages), mixed |-> FALSE]

\* The other lister will find that table, if it has yet to normalize its tasks.
Overtaken(reading) == [reading EXCEPT !.batch.mixed = @ \/ reading.at = "replaced"]

\* The listing has its directory: it puts the table in use.
Replaces(l, reading) ==
    /\ table' = ProfilesByParticipant(listing[l].pages)
    /\ listing' = [k \in Listers |-> IF k = l THEN reading ELSE Overtaken(listing[k])]

\* Mutant of ReadMembers: the tasks are normalized before the table is replaced.
ReadMembersLate(l) ==
    /\ listing[l].at = "members"
    /\ Replaces(l, [NotListing EXCEPT !.at = "batch", !.failed = listing[l].failed,
                        !.batch = Batch(listing[l].pages, space.active,
                                        Normalized(table, listing[l].assignees))])
    /\ UNCHANGED <<snapshot, failures, passes, rest>>

\* The members are the last read.
ReadMembers(l) ==
    /\ listing[l].at = "members"
    /\ Replaces(l, [NotListing EXCEPT !.at = "replaced", !.failed = listing[l].failed,
                        !.batch = Batch(listing[l].pages, space.active, listing[l].assignees)])
    /\ UNCHANGED <<snapshot, failures, passes, rest>>

\* The tasks are normalized through the table there is now, under a lock taken anew.  The
\* batch of the scheduler is not the feed's: its pass goes on elsewhere.
NormalizeTasks(l) ==
    /\ listing[l].at = "replaced"
    /\ Reaches(l, IF l = "feed"
                  THEN [listing[l] EXCEPT !.at = "batch", !.batch.assignees = Normalized(table, @)]
                  ELSE NotListing)
    /\ UNCHANGED <<table, snapshot, failures, passes, rest>>

Publish ==
    /\ listing["feed"].at = "batch"
    /\ snapshot' = listing["feed"].batch
    /\ Reaches("feed", NotListing)
    /\ UNCHANGED <<table, failures, passes, rest>>

\* A read fails or is timed out, or the feed is not rendered: the snapshot stays, and so
\* does a table that was replaced.
ListingFails(l) ==
    /\ listing[l].at \notin {"idle", "replaced"}
    /\ failures > 0 /\ failures' = failures - 1
    /\ GivesUp(l)
    /\ UNCHANGED <<table, snapshot, passes, rest>>

-----------------------------------------------------------------------------
(* Requests *)

others == <<space, served, edits, passes>>

Task == 1
Shown(key, reader) == Task \in View([n \in {Task} |-> snapshot.assignees], key, reader)
Calendar(key) == key \in Collections([n \in {Task} |-> snapshot.assignees], snapshot.names, snapshot.holders)

Goes(d, r) == request' = [request EXCEPT ![d] = r]
Ends(d) == Goes(d, [NoRequest EXCEPT !.at = "over"])

\* get has an answer: a snapshot, old or new, or the failure of a first listing.
FeedAnswers == snapshot.there \/ listing["feed"].failed

\* A person is looked up among the calendars of the snapshot, the shared login is not.
MaySignIn(reader) ==
    reader = Nobody \/ (snapshot.there /\ reader \in snapshot.holders /\ Calendar(reader))

Arrive(d) ==
    /\ request[d].at \in {"idle", "written", "over"}
    /\ turns > 0 /\ turns' = turns - 1
    /\ \E reader \in SignIns :
        /\ reader = Nobody \/ FeedAnswers
        /\ IF MaySignIn(reader)
           THEN Goes(d, [NoRequest EXCEPT !.at = "serving", !.reader = reader])
           ELSE Ends(d)
    /\ UNCHANGED <<others, failures, documents>>

\* The task is located in the snapshot of another get: for a DELETE in this person's
\* calendar, or for the PUT of a move from someone's calendar to another one.
Locate(d) ==
    /\ request[d].at = "serving" /\ ~put[d].under_way /\ FeedAnswers
    /\ LET reader == request[d].reader
           by == ServedBy(snapshot.assignees, reader)
           Found(takes, brings) ==
             Goes(d, [request[d] EXCEPT !.at = "located", !.takes = takes, !.brings = brings,
                                        !.located = snapshot.table, !.mixed = snapshot.mixed])
       IN \E key \in People \cup {Unassigned} :
            IF ~snapshot.there \/ ~Calendar(key) THEN Ends(d)
            ELSE IF Shown(key, reader) THEN key # Unassigned /\ Found(key, Unassigned)
            ELSE IF by # Unassigned THEN Found(by, key)
            ELSE Ends(d)
    /\ UNCHANGED <<others, failures, turns, documents>>

\* get_task reads it afresh, whatever search has found by now.
ReadTask(d) ==
    /\ request[d].at = "located"
    /\ Goes(d, [request[d] EXCEPT !.at = "fetched", !.assignees = space.assignees])
    /\ UNCHANGED <<others, failures, turns, documents>>

\* Mutant of NormalizeTask: get_task does not normalize.
TaskAsIs(d) ==
    /\ request[d].at = "fetched"
    /\ Goes(d, [request[d] EXCEPT !.at = "read", !.used = table])
    /\ UNCHANGED <<others, failures, turns, documents>>

\* What came is normalized through the table there is by then.
NormalizeTask(d) ==
    /\ request[d].at = "fetched"
    /\ Goes(d, [request[d] EXCEPT !.at = "read", !.used = table, !.assignees = Normalized(table, @)])
    /\ UNCHANGED <<others, failures, turns, documents>>

\* delete and handed_over, each over the whole list.
Left(r) == IF r.brings = Unassigned THEN TakenOff(r.assignees, r.takes)
           ELSE HandedOver(r.assignees, r.takes, r.brings)

WriteTask(d) ==
    /\ request[d].at = "read"
    /\ space' = [space EXCEPT !.assignees = Left(request[d])]
    /\ Goes(d, [request[d] EXCEPT !.at = "written", !.assignees = Left(request[d])])
    /\ UNCHANGED <<served, edits, failures, passes, turns, documents>>

RequestFails(d) ==
    /\ request[d].at \in {"located", "read"}
    /\ failures > 0 /\ failures' = failures - 1
    /\ Ends(d)
    /\ UNCHANGED <<others, turns, documents>>

\* A document of the reader's own.
ServeDocument(d) ==
    /\ request[d].at = "serving"
    /\ LET s == request[d].reader IN
        \/ ~put[d].under_way /\ Ends(d) /\ (GetDocument(d, s) \/ DeleteDocument(d, s))
        \/ \E condition \in Conditions :
            /\ ~put[d].under_way
            /\ condition = "If-Match" => copy[d][s] # 0
            /\ \/ CheckPut(d, s, condition) /\ UNCHANGED request
               \/ RefusePut(d, s, condition) /\ Ends(d)
        \/ (Save(d, s) \/ SaveFails(d)) /\ Ends(d)
    /\ UNCHANGED <<others, failures, turns>>

-----------------------------------------------------------------------------
Listing(l) ==
    \/ ListTasks(l) \/ VerifySchema(l) \/ ReadPages(l) \/ ReadMembers(l) \/ NormalizeTasks(l)
    \/ l = "feed" /\ Publish
    \/ ListingFails(l)

Serve(d) ==
    Locate(d) \/ ReadTask(d) \/ NormalizeTask(d) \/ WriteTask(d) \/ RequestFails(d) \/ ServeDocument(d)

Next ==
    \/ EditSpace
    \/ \E l \in Listers : Listing(l)
    \/ \E d \in Devices : Arrive(d) \/ Serve(d)

\* Some client asks for the feed again and again.  The passes of the scheduler do not
\* refresh it, and may stop at any point.
Spec == Init /\ [][Next]_vars
FairSpec == Spec /\ WF_vars(Listing("feed"))

-----------------------------------------------------------------------------
(* Properties *)

\* One person has one calendar, however a task addresses them: no calendar of a snapshot
\* is kept under a membership that has a page, unless the other lister put its table in
\* use between the two steps in which this listing put its own and normalized its tasks.
OneCalendarEach ==
    snapshot.there /\ ~snapshot.mixed =>
        \A member \in DOMAIN snapshot.table : ~Calendar(member)

\* Whoever joins has an account after some refresh, and whoever leaves has none, and a
\* second calendar that listings have made together goes away, however the reads of the
\* listings fell between the edits and failed, once the schema is right.
AccountsFollowTheSpace ==
    <>[]space.known =>
        <>[](/\ snapshot.there /\ snapshot.holders = AccountHolders(space.pages, space.active)
             /\ \A member \in Linked(space.pages) : ~Calendar(member))

\* A task taken out of someone's calendar addresses them no more, by neither id, unless it
\* went to the other calendar of the same person.
TakenOffFor(r) ==
    OwnId(r.used, r.brings) # OwnId(r.used, r.takes) =>
        \A id \in Assigned(r.assignees) : OwnId(r.used, id) # OwnId(r.used, r.takes)

\* That holds where the tasks of the snapshot and the task that was read were normalized
\* by the table of that snapshot's own listing, whatever the listings of both did since.
TakenOffForGood ==
    \A d \in Devices :
        request[d].at = "written" /\ ~request[d].mixed /\ request[d].located = request[d].used =>
            TakenOffFor(request[d])

\* The comment on profiles_by_participant: a write compares the ids that the calendars
\* are kept under.
ServedIdsAreCompared == \A d \in Devices : request[d].at = "written" => TakenOffFor(request[d])

\* A conditional save overwrites no save that its device has not seen, except for one that
\* was made between its check and its write, and except under If-None-Match where the read
\* of its check failed, which counts as finding nothing.
EarlierSaveIsKept ==
    [][\A d \in Devices :
        LET s == request[d].reader
            seen == IF put[d].condition = "If-Match" THEN {0, copy[d][s]} ELSE {0}
        IN put[d].condition # "none" /\ document'[s] # document[s] /\ put'[d] # put[d] =>
            \/ document[s] \in seen
            \/ document[s] > put[d].checked
            \/ put[d].condition = "If-None-Match" /\ put[d].blind]_vars
=============================================================================
