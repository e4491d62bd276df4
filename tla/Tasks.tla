-------------------------------- MODULE Tasks -------------------------------
(***************************************************************************)
(* Writing tasks over CalDAV: PUT and DELETE of src/src/caldav/tasks.rs,   *)
(* on one resource name, with the feed they locate it through as its       *)
(* abstract specification (CachedSource.tla) and Anytype behind both.      *)
(*                                                                         *)
(* A client's request takes several steps, each an await: it locates the   *)
(* object in the feed's snapshot, reads it afresh, writes, invalidates.    *)
(* People edit in Anytype in between, requests overlap, calls fail.        *)
(***************************************************************************)
EXTENDS Calendars, FiniteSets

CONSTANTS
    Requests,
    Fields,                 \* what a PUT can change of a task
    Ids,                    \* bound: the objects that ever have this name
    Absent,                 \* no base version, no field, no assignees
    MaxEdits, MaxFaults,    \* bounds on edits in Anytype and on failed calls
    MaxSecond,              \* bound on the clock behind last_modified
    Bumps                   \* what clients add to SEQUENCE when they edit

ASSUME IdsAssumption == Ids \subseteq Nat /\ IsFiniteSet(Ids)
ASSUME AbsentAssumption == Absent \notin Nat /\ Absent \notin Seq(People)
ASSUME TasksBoundsAssumption ==
    /\ MaxEdits \in Nat /\ MaxFaults \in Nat /\ MaxSecond \in Nat
    /\ Bumps \subseteq Nat

VARIABLES
    past,                   \* what Anytype held, version after version
    body,                   \* the version the feed's snapshot shows
    answer,                 \* what the feed told a request
    request,                \* what the client sent
    pc,                     \* the step a request is at
    patch, target,          \* what it is about to write, and to which object
    invalidated,            \* history: the newest version `invalidate` was called at
    asked_after,            \* history: `invalidated` when the request came
    edits, faults           \* budgets: the edits and failures still to come

version == Len(past) - 1
C == INSTANCE CachedSource

feed == <<body, answer>>
sent == <<request, asked_after>>
locals == <<patch, target>>
vars == <<past, feed, sent, pc, locals, invalidated, edits, faults>>

-----------------------------------------------------------------------------
(* Anytype *)

World == past[Len(past)]
At(v) == past[v + 1]

\* A field's value is told by its writer: a version, for an edit in Anytype.
Values == Nat \cup Requests
Objects == [status : {"none", "live", "archived"}, assignees : Seq(People),
            values : [Fields -> Values], modified : Nat]
NoObject == [status |-> "none", assignees |-> <<>>, values |-> [f \in Fields |-> 0], modified |-> 0]

\* last_modified has whole seconds: two writes may fall in the same one.
Stamps == {s \in 0 .. MaxSecond : /\ \A i \in Ids : World[i].modified <= s
                                  /\ \E i \in Ids : s <= World[i].modified + 1}

Holds(i, object) == past' = Append(past, [World EXCEPT ![i] = object])

-----------------------------------------------------------------------------
(* What a snapshot shows under the name *)

\* keep_distinct_uids serves one of the objects that have the UID, the first one that
\* Anytype lists, in an order that is its own: any of them.
Live(w) == {i \in Ids : w[i].status = "live"}
Space(w) == [i \in Live(w) |-> w[i].assignees]
Shows(v, i, key, reader) == i \in View(Space(At(v)), key, reader)

\* The rendered task: its fields and when it was last modified, not its assignees.
ETag(object) == <<object.values, object.modified>>

-----------------------------------------------------------------------------
(* Requests *)

Keys == People \cup {Unassigned}
Bases == [at : Nat, id : Ids]

\* base: the task that body or ETag is from, at a version.  field: what a PUT changes of
\* that body, or Absent when the client made the whole task.  bump: what the client's
\* edit adds to the SEQUENCE it was served.  condition: If-Match with the ETag of the
\* base, or If-None-Match: *.
RequestsFrom(bases) ==
    [op : {"PUT", "DELETE"}, key : Keys \cup {Flat}, reader : Readers,
     field : Fields \cup {Absent}, base : bases, bump : Bumps \cup {0},
     condition : {"none", "If-Match", "If-None-Match"}]

NotSent == [op |-> "DELETE", key |-> Flat, reader |-> Nobody, field |-> Absent,
            base |-> Absent, bump |-> 0, condition |-> "none"]

\* What is left out of a patch is Absent.
Patches == [values : [Fields -> Values \cup {Absent}], assignees : Seq(People) \cup {Absent}]
NoPatch == [values |-> [f \in Fields |-> Absent], assignees |-> Absent]

Points == {"idle", "locate", "get", "create", "update", "archive", "invalidate", "done"}

TypeOK ==
    /\ past \in Seq([Ids -> Objects]) /\ Len(past) > 0
    /\ body \in C!Versions
    /\ answer \in [Requests -> C!Answers]
    /\ request \in [Requests -> RequestsFrom(Bases \cup {Absent})]
    /\ pc \in [Requests -> Points]
    /\ patch \in [Requests -> Patches]
    /\ target \in [Requests -> Ids \cup {Absent}]
    /\ invalidated \in 0 .. version
    /\ asked_after \in [Requests -> 0 .. version]
    /\ edits \in 0 .. MaxEdits /\ faults \in 0 .. MaxFaults

\* The task is there, assigned to nobody, to one or to two people, or it is not.
InitialAssignees == {<<>>} \cup [{1} -> People] \cup
    {pair \in [{1, 2} -> People] : pair[1] # pair[2]}
First == CHOOSE i \in Ids : \A j \in Ids : i <= j
InitialWorlds(second) ==
    LET empty == [i \in Ids |-> [NoObject EXCEPT !.modified = second]]
    IN {empty} \cup {[empty EXCEPT ![First].status = "live", ![First].assignees = a] :
                        a \in InitialAssignees}

\* Bound: the requests overlap, within a second or two, and calls fail, or one of them
\* meets edits in Anytype.
Scenario ==
    \/ /\ \E world \in InitialWorlds(IF MaxSecond = 0 THEN 0 ELSE MaxSecond - 1) : past = <<world>>
       /\ pc = [r \in Requests |-> "idle"]
       /\ edits = 0 /\ faults = MaxFaults
    \/ /\ \E world \in InitialWorlds(0) : past = <<world>>
       /\ \E lone \in Requests : pc = [r \in Requests |-> IF r = lone THEN "idle" ELSE "done"]
       /\ edits = MaxEdits /\ faults = 0

Init ==
    /\ Scenario
    /\ body = C!NoBody
    /\ answer = [r \in Requests |-> C!Unanswered]
    /\ request = [r \in Requests |-> NotSent]
    /\ patch = [r \in Requests |-> NoPatch]
    /\ target = [r \in Requests |-> Absent]
    /\ invalidated = 0
    /\ asked_after = [r \in Requests |-> 0]

-----------------------------------------------------------------------------
(* The people in Anytype, and the feed *)

Edited(object) ==
    {[object EXCEPT !.values[f] = Len(past)] : f \in Fields} \cup
    {[object EXCEPT !.assignees = HandedOver(@, Unassigned, person)] : person \in People} \cup
    {[object EXCEPT !.status = "archived"]}

Edit(i) ==
    /\ edits > 0 /\ edits' = edits - 1
    /\ World[i].status = "live"
    /\ \E object \in Edited(World[i]), s \in Stamps : Holds(i, [object EXCEPT !.modified = s])
    /\ UNCHANGED <<feed, sent, pc, locals, invalidated, faults>>

Refresh ==
    /\ UNCHANGED past
    /\ C!Replace
    /\ UNCHANGED <<sent, pc, locals, invalidated, edits, faults>>

-----------------------------------------------------------------------------
(* PUT and DELETE *)

Goto(r, point) == pc' = [pc EXCEPT ![r] = point]

\* The response goes out and what was local to the request is gone.
Reply(r) ==
    /\ Goto(r, "done")
    /\ request' = [request EXCEPT ![r] = NotSent]
    /\ patch' = [patch EXCEPT ![r] = NoPatch]
    /\ target' = [target EXCEPT ![r] = Absent]
    /\ asked_after' = [asked_after EXCEPT ![r] = 0]
Fault == faults > 0 /\ faults' = faults - 1

\* A client works in a calendar of its home set, or in the flat one (whoever it is).
ClientsOf(key) ==
    IF key = Flat THEN {Nobody}
    ELSE {reader \in Readers : key \in Home(<<>>, People, People, reader)}

\* What can be sent by a client that holds the task as it was at base, or does not.
SentFrom(base) ==
    {q \in RequestsFrom({base}) :
        /\ q.reader \in ClientsOf(q.key)
        /\ q.op = "DELETE" => q.field = Absent /\ (base = Absent <=> q.condition = "none")
        /\ q.op = "PUT" => (base = Absent <=> q.field = Absent)
        /\ IF q.op = "PUT" /\ base # Absent THEN q.bump \in Bumps ELSE q.bump = 0
        /\ base = Absent => q.condition # "If-Match"
        /\ q.op = "DELETE" => q.condition # "If-None-Match"}

\* A request comes.  When it was sent tells what it can be based on; what else it
\* says matters from `locate` on, and is chosen there.
Send(r) ==
    /\ pc[r] = "idle"
    /\ \E base \in {b \in [at : 0 .. body, id : Ids] : b.id \in Live(At(b.at))} \cup {Absent} :
        request' = [request EXCEPT ![r].base = base]
    /\ asked_after' = [asked_after EXCEPT ![r] = invalidated]
    /\ Goto(r, "locate")
    /\ UNCHANGED <<past, feed, locals, invalidated, edits, faults>>

\* Located: what the snapshot the request was answered with says of the name.
Moving(r, i) ==
    request[r].op = "PUT" /\ ~Shows(answer[r].body, i, request[r].key, request[r].reader)
ServedByAt(v, i, reader) == ServedBy(At(v)[i].assignees, reader)

\* Nothing has the name: 404, 412 or a new task.
Absence(r, q) ==
    IF q.op = "PUT" /\ q.condition # "If-Match"
    THEN /\ Goto(r, "create")
         /\ request' = [request EXCEPT ![r] = q]
         /\ UNCHANGED <<asked_after, locals>>
    ELSE Reply(r)

Pursue(r, q, i) ==
    /\ target' = [target EXCEPT ![r] = i]
    /\ request' = [request EXCEPT ![r] = q]
    /\ Goto(r, "get")
    /\ UNCHANGED <<asked_after, patch>>

\* The body the feed answers with, fresh or stale.  Neither kind tells that it shows the
\* writes the feed was told of: a refresh may have read Anytype before them, and search
\* lags.
Snapshot(r) ==
    /\ pc[r] = "locate"
    /\ UNCHANGED <<past, body, invalidated, edits, faults>>
    /\ C!Tell(r)

\* Mutant of Located: the name is looked up in the calendar, not in the flat index.
LocatedInTheView(r, q) ==
    LET Here(i) == Shows(body, i, q.key, q.reader)
    IN \/ (\A i \in Live(At(body)) : ~Here(i)) /\ Absence(r, q)
       \/ \E i \in Live(At(body)) : Here(i) /\ Pursue(r, q, i)

\* Mutant of Located: a DELETE goes on wherever the task is.
LocatedAnywhere(r, q) ==
    \/ Live(At(body)) = {} /\ Absence(r, q)
    \/ \E i \in Live(At(body)) : Pursue(r, q, i)

\* A DELETE ends here when the task is in another calendar, as after a move.
Located(r, q) ==
    LET Here(i) == Shows(body, i, q.key, q.reader)
    IN \/ Live(At(body)) = {} /\ Absence(r, q)
       \/ \E i \in Live(At(body)) : (q.op = "DELETE" => Here(i)) /\ Pursue(r, q, i)
       \/ \E i \in Live(At(body)) : q.op = "DELETE" /\ ~Here(i) /\ Reply(r)

Locate(r) ==
    /\ Snapshot(r)
    /\ IF body = C!NoBody THEN Reply(r)
       ELSE \E q \in SentFrom(request[r].base) : Located(r, q)

\* The body a client sends, made from the task it was served.
BaseOf(q) == At(q.base.at)[q.base.id]
Sends(r, f) ==
    LET q == request[r]
    IN IF q.base = Absent \/ f = q.field THEN r ELSE BaseOf(q).values[f]

Sequence(q) == BaseOf(q).modified + q.bump

\* Mutant of MadeFromOlder: the SEQUENCE of the body is not looked at.
MadeFromAny(q, current) == FALSE

MadeFromOlder(q, current) ==
    q.op = "PUT" /\ q.base # Absent /\ Sequence(q) < current.modified

Refused(r, i, current) ==
    LET q == request[r]
    IN \/ q.condition = "If-None-Match" /\ ~Moving(r, i)
       \/ q.condition = "If-Match" /\ ETag(BaseOf(q)) # ETag(current)
       \/ MadeFromOlder(q, current)

\* for_update: the fields in which the body differs from the task as it is now.
ForUpdate(r, i, current) ==
    [values |-> [f \in Fields |-> IF Sends(r, f) # current.values[f] THEN Sends(r, f) ELSE Absent],
     assignees |->
        IF Moving(r, i)
        THEN HandedOver(current.assignees,
                        ServedByAt(answer[r].body, i, request[r].reader), request[r].key)
        ELSE Absent]

ForDelete(r, current) ==
    [NoPatch EXCEPT !.assignees = TakenOff(current.assignees, request[r].key)]

GetFails(r) ==
    /\ pc[r] = "get"
    /\ Fault
    /\ Reply(r)
    /\ UNCHANGED <<past, feed, invalidated, edits>>

\* The fresh read finds the object archived.
GetGone(r) ==
    /\ pc[r] = "get"
    /\ World[target[r]].status = "archived"
    /\ invalidated' = version
    /\ Absence(r, request[r])
    /\ UNCHANGED <<past, feed, edits, faults>>

Prepare(r, p, point) ==
    /\ patch' = [patch EXCEPT ![r] = p]
    /\ Goto(r, point)
    /\ UNCHANGED <<sent, target>>

\* The preconditions, and what is to be written.  A body that changes nothing is
\* answered at once.
Get(r) ==
    LET i == target[r]
        current == World[i]
        Accepted == pc[r] = "get" /\ current.status = "live" /\ ~Refused(r, i, current)
    IN /\ \/ /\ pc[r] = "get" /\ current.status = "live"
             /\ \/ Refused(r, i, current)
                \/ request[r].op = "PUT" /\ ForUpdate(r, i, current) = NoPatch
             /\ Reply(r)
          \/ /\ Accepted /\ request[r].op = "PUT" /\ ForUpdate(r, i, current) # NoPatch
             /\ Prepare(r, ForUpdate(r, i, current), "update")
          \/ /\ Accepted /\ request[r].op = "DELETE" /\ request[r].key \in People
             /\ Prepare(r, ForDelete(r, current), "update")
          \/ /\ Accepted /\ request[r].op = "DELETE" /\ request[r].key \notin People
             /\ Prepare(r, NoPatch, "archive")
       /\ UNCHANGED <<past, feed, invalidated, edits, faults>>

\* update_task: a field the patch leaves out keeps its value.
\* Mutant of Given: what a patch leaves out is cleared.
GivenAlways(new, old) == new

Given(new, old) == IF new = Absent THEN old ELSE new
Patched(object, p, s) ==
    [object EXCEPT
        !.values = [f \in Fields |-> Given(p.values[f], @[f])],
        !.assignees = Given(p.assignees, @),
        !.modified = s]

\* When Anytype's answer is lost, the write is there, the client is told 503, and the
\* feed is not told.
Ends(r) ==
    /\ \/ Goto(r, "invalidate") /\ UNCHANGED <<sent, locals, faults>>
       \/ Fault /\ Reply(r)
    /\ UNCHANGED <<feed, invalidated, edits>>

Update(r) ==
    /\ pc[r] = "update"
    /\ \E s \in Stamps : Holds(target[r], Patched(World[target[r]], patch[r], s))
    /\ Ends(r)

Archive(r) ==
    /\ pc[r] = "archive"
    /\ \E s \in Stamps :
        Holds(target[r], [World[target[r]] EXCEPT !.status = "archived", !.modified = s])
    /\ Ends(r)

\* A task created in a person's calendar is theirs.
ForCreate(r, s) ==
    [status |-> "live", modified |-> s, values |-> [f \in Fields |-> Sends(r, f)],
     assignees |-> IF request[r].key \in People THEN <<request[r].key>> ELSE <<>>]

Create(r) ==
    /\ pc[r] = "create"
    /\ \E i \in Ids, s \in Stamps :
        /\ World[i].status = "none" /\ \A j \in Ids : World[j].status = "none" => i <= j
        /\ Holds(i, ForCreate(r, s))
    /\ Ends(r)

WriteFails(r) ==
    /\ pc[r] \in {"create", "update", "archive"}
    /\ Fault
    /\ Reply(r)
    /\ UNCHANGED <<past, feed, invalidated, edits>>

\* The feed is told of the write before the client is.
Invalidate(r) ==
    /\ pc[r] = "invalidate"
    /\ invalidated' = version
    /\ Reply(r)
    /\ UNCHANGED <<past, feed, edits, faults>>

-----------------------------------------------------------------------------

Handle(r) ==
    \/ Locate(r) \/ Get(r) \/ GetFails(r) \/ GetGone(r)
    \/ Create(r) \/ Update(r) \/ Archive(r) \/ WriteFails(r) \/ Invalidate(r)

Next ==
    \/ \E i \in Ids : Edit(i)
    \/ Refresh
    \/ \E r \in Requests : Send(r) \/ Handle(r)

Spec == Init /\ [][Next]_vars
-----------------------------------------------------------------------------
(* Properties *)

\* The comment of `made_from_older`: a PUT whose body was made from an older version
\* does not put back what that version held.  A field the client did not edit changes
\* only when someone changed it no later than the second its SEQUENCE tells.
EditsOfOthersSurvive ==
    [][\A r \in Requests :
        LET q == request[r]
        IN Update(r) /\ q.op = "PUT" /\ q.base # Absent =>
            \A f \in Fields \ {q.field} :
                World'[target[r]].values[f] = World[target[r]].values[f]
                \/ \E v \in q.base.at .. version :
                    /\ At(v)[target[r]].status = "live"
                    /\ At(v)[target[r]].values[f] # BaseOf(q).values[f]
                    /\ At(v)[target[r]].modified <= Sequence(q)]_vars

\* A PUT makes a task only if, at some moment since the snapshot it was answered from,
\* there was none with its UID to be found (none, or two of which a snapshot shows but
\* one), whatever others create and archive while it is under way.  How old that snapshot
\* may be is the feed's affair: of a task that came later a second one is made.
CreateSeesEarlierTasks ==
    [][\A r \in Requests :
        Create(r) => \E v \in answer[r].body .. version : Cardinality(Live(At(v))) # 1]_vars

\* The comment of the moving PUT: once the task is handed over, the DELETE in the old
\* calendar finds it gone.  A DELETE archives a task, or takes its person off, only if
\* it was in that calendar at some moment since the writes the feed was told of.
LeavesMovedTasks(r) ==
    Archive(r) \/ (Update(r) /\ request[r].op = "DELETE") =>
        \E v \in asked_after[r] .. version :
            Shows(v, target[r], request[r].key, request[r].reader)

\* ... when its snapshot, be it called fresh or stale, shows those writes.
DeleteSeesTheMove ==
    [][\A r \in Requests : asked_after[r] <= answer[r].body => LeavesMovedTasks(r)]_vars

\* ... and as the comment has it, whatever the feed answered.
MovedTaskIsKept == [][\A r \in Requests : LeavesMovedTasks(r)]_vars

\* The comment of `handed_over`: a task moved to a person's calendar is served there,
\* to the one who moved it, whatever became of its assignees since the snapshot and
\* since it was read, unless it was archived meanwhile.
MovedIsShownThere ==
    [][\A r \in Requests :
        LET i == target[r]
        IN /\ Update(r) /\ Moving(r, i) /\ request[r].key \in People
           /\ World[i].status = "live"
           => i \in View(Space(World'), request[r].key, request[r].reader)]_vars

\* The comment of `collection_view`: whoever reads meets each UID once.  Every task is
\* in one calendar, as each reader sees the calendars of all.
EachTaskShownOnce ==
    \A reader \in Readers, i \in Live(World) :
        Cardinality({key \in Keys : Shows(version, i, key, reader)}) = 1
=============================================================================
