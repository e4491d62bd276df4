------------------------------- MODULE Events -------------------------------
(***************************************************************************)
(* Writing events over CalDAV: src/src/caldav/events.rs on one resource    *)
(* name, with the service of src/src/events.rs behind it and Anytype       *)
(* behind both.                                                            *)
(*                                                                         *)
(* A resource is one object, or a series: a master with a rule and the     *)
(* objects that replace single occurrences of it. A PUT becomes a plan of  *)
(* several writes, carried out one after the other; each can fail, or be   *)
(* done without the server being told. People edit in Anytype in between,  *)
(* the generator makes meetings, search lags behind, other clients write.  *)
(***************************************************************************)
EXTENDS Integers, FiniteSets

CONSTANTS
    Clients,                \* each with one request at a time
    Occurrences,            \* of the rule, matched by their instant
    TookPlace,              \* the occurrences that lie before now
    Values,                 \* what can be changed of an event or occurrence
    Ids,                    \* bound: the objects that are ever made
    None,                   \* no link, no occurrence, no value, nothing written
    MaxTurns,               \* bound: requests, edits in Anytype and failed calls together
    MaxSecond               \* bound on the clock behind last_modified

ASSUME EventsAssumption ==
    /\ Ids \subseteq Nat /\ IsFiniteSet(Ids) /\ \E i, j \in Ids : i # j
    /\ Values # {} /\ TookPlace \subseteq Occurrences
    /\ None \notin Ids \cup Occurrences \cup Values /\ None \notin BOOLEAN
    /\ MaxTurns \in Nat /\ MaxSecond \in Nat

VARIABLES
    objects,                \* what Anytype holds
    cache,                  \* the service's snapshot, as far as it has this name
    copy,                   \* the resource as a client was served it last
    request,                \* what a client sent
    pc,                     \* the step its request is at
    held,                   \* what the request has read
    plan,                   \* the writes still to come
    disturbed,              \* history: others wrote since the request read the event
    turns                   \* the turns still to come

server == <<cache, pc, held, plan>>
clients == <<copy, request>>
vars == <<objects, server, clients, disturbed, turns>>

-----------------------------------------------------------------------------
(* Anytype *)

Optional(S) == S \cup {None}

\* uid: the object has this resource's name.  recurring: its type is recurring_event.
Objects == [status : {"none", "new", "live", "archived"}, uid : BOOLEAN, recurring : BOOLEAN,
            dated : BOOLEAN, rule : BOOLEAN, exdates : SUBSET Occurrences,
            series : Optional(Ids), occurrence : Optional(Occurrences),
            value : Values, deadline : Optional(Values), modified : 0 .. MaxSecond]

AValue == CHOOSE v \in Values : TRUE
NoObject == [status |-> "none", uid |-> FALSE, recurring |-> FALSE, dated |-> TRUE,
             rule |-> FALSE, exdates |-> {}, series |-> None, occurrence |-> None,
             value |-> AValue, deadline |-> None, modified |-> 0]

\* Every write falls in a later second, up to a bound; for writes in one second see Tasks.
Latest == CHOOSE s \in {objects[i].modified : i \in Ids} : \A i \in Ids : objects[i].modified <= s
Now == IF Latest < MaxSecond THEN Latest + 1 ELSE Latest

\* Anytype serves an object as soon as it is made, search finds it later.
Alive(object) == object.status \in {"new", "live"}
Listed(world) == {i \in Ids : world[i].status = "live"}
NextId == CHOOSE i \in Ids : objects[i].status = "none" /\
                             \A j \in Ids : objects[j].status = "none" => i <= j
RoomLeft == \E i \in Ids : objects[i].status = "none"

\* Nobody looks at what is archived.
Archived == [NoObject EXCEPT !.status = "archived"]
Holds(i, object) ==
    objects' = [objects EXCEPT ![i] = [(IF object.status = "archived" THEN Archived ELSE object)
                                        EXCEPT !.modified = Now]]

-----------------------------------------------------------------------------
(* What a listing shows under the name *)

Linked(world, id) == {i \in Listed(world) : world[i].series = id}
ReplacementsOf(world, id) == {i \in Linked(world, id) : world[i].occurrence # None}

\* Mutant: an occurrence is taken out of the calendar though its series does not recur.
ReplacesAnyOccurrence(world, i) ==
    world[i].occurrence # None /\ \E m \in Listed(world) : m = world[i].series

\* Served inside the resource of its series rather than on its own.
ReplacesAnOccurrence(world, i) ==
    world[i].occurrence # None /\ \E m \in Listed(world) : m = world[i].series /\ world[m].rule

\* Mutant: only the master counts.
MasterOnly(master, occurrences) ==
    [value |-> master.value, modified |-> master.modified, rule |-> master.rule,
     exdates |-> master.exdates, replaced |-> {}]

\* The rendered resource, which its ETag is the digest of.
Rendered(master, occurrences) ==
    [value |-> master.value, modified |-> master.modified, rule |-> master.rule,
     exdates |-> IF master.rule THEN master.exdates ELSE {},
     replaced |-> IF master.rule
                    THEN {[id |-> i, at |-> occurrences[i].occurrence,
                           value |-> occurrences[i].value, modified |-> occurrences[i].modified] :
                            i \in {j \in DOMAIN occurrences : occurrences[j].occurrence # None}}
                    ELSE {}]

Resource(world, id) == Rendered(world[id], [i \in ReplacementsOf(world, id) |-> world[i]])

\* The entry of a deadline, a resource of its own beside the event's.
Entry(event) == [value |-> event.value, deadline |-> event.deadline, modified |-> event.modified]

\* One name stands for one object of those that have it, the one listed last.
Served(world) == {i \in Listed(world) : world[i].uid /\ ~ReplacesAnOccurrence(world, i)}
Dated(world) == {i \in Served(world) : world[i].dated}
HasEntry(world) == {i \in Served(world) : ~world[i].rule /\ world[i].deadline # None}

Snapshots(world) ==
    {[event |-> event, deadline |-> deadline] :
        event \in IF Dated(world) = {} THEN {{}}
                  ELSE {{[id |-> i, ics |-> Resource(world, i)]} : i \in Dated(world)},
        deadline \in IF HasEntry(world) = {} THEN {{}}
                     ELSE {{[id |-> i, ics |-> Entry(world[i])]} : i \in HasEntry(world)}}

-----------------------------------------------------------------------------
(* Requests *)

\* The body of a PUT.  A client keeps one version of an occurrence.
Bodies == [value : Values, rule : BOOLEAN, exdates : SUBSET Occurrences,
           replaced : [Occurrences -> Optional(Values)]]

NotReplaced == [d \in Occurrences |-> None]

\* A copy as a body, and the changes a client makes to it.
BodiesOf(ics) ==
    {[value |-> ics.value, rule |-> ics.rule, exdates |-> ics.exdates, replaced |-> replaced] :
        replaced \in {f \in [Occurrences -> Optional(Values)] : \A d \in Occurrences :
            LET served == {one.value : one \in {o \in ics.replaced : o.at = d}}
            IN  IF served = {} THEN f[d] = None ELSE f[d] \in served}}

Changed(body) ==
    {[body EXCEPT !.value = v] : v \in Values} \cup
    (IF body.rule
       THEN {[body EXCEPT !.replaced[d] = v] : d \in Occurrences \ body.exdates, v \in Optional(Values)}
            \cup {[body EXCEPT !.replaced[d] = None, !.exdates = @ \cup {d}] : d \in Occurrences}
            \cup {[body EXCEPT !.rule = FALSE, !.exdates = {}, !.replaced = NotReplaced]}
       ELSE {[body EXCEPT !.rule = TRUE]})

NewBodies == [value : Values, rule : {TRUE}, exdates : {{}},
              replaced : {NotReplaced} \cup
                  {[NotReplaced EXCEPT ![d] = v] : d \in Occurrences, v \in Values}]
             \cup [value : Values, rule : {FALSE}, exdates : {{}}, replaced : {NotReplaced}]

NoBody == [value |-> AValue, rule |-> FALSE, exdates |-> {}, replaced |-> NotReplaced]
NotSent == [op |-> "none", of |-> "event", body |-> NoBody, condition |-> "none"]
NothingHeld == [id |-> None, listing |-> {}, master |-> {}]
NoPlan == [master |-> {}, update |-> {}, create |-> {}, archive |-> {}]

Operations == {"GET", "PUT", "DELETE"}
Resources == {"event", "deadline"}
Points == {"idle", "locate", "store", "get", "list", "new", "apply", "delete", "deadline",
           "invalidate"}

Renderings == [value : Values, modified : 0 .. MaxSecond, rule : BOOLEAN,
               exdates : SUBSET Occurrences,
               replaced : SUBSET [id : Ids, at : Occurrences, value : Values,
                                  modified : 0 .. MaxSecond]]
Entries == [value : Values, deadline : Values, modified : 0 .. MaxSecond]
Listings == [event : SUBSET [id : Ids, ics : Renderings], deadline : SUBSET [id : Ids, ics : Entries]]
Copies == [of : {"event"}, ics : Renderings] \cup [of : {"deadline"}, ics : Entries]
Requests == [op : Operations \cup {"none"}, of : Resources, body : Bodies,
             condition : {"none", "If-Match", "If-None-Match"}]
Patches == [value : Optional(Values), dated : Optional(BOOLEAN), rule : Optional(BOOLEAN),
            exdates : SUBSET SUBSET Occurrences]
Plans == [master : SUBSET Patches, update : SUBSET (Ids \X Values),
          create : SUBSET (Occurrences \X Values), archive : SUBSET Ids]

TypeOK ==
    /\ objects \in [Ids -> Objects]
    /\ cache \subseteq Listings
    /\ copy \in [Clients -> SUBSET Copies]
    /\ request \in [Clients -> Requests]
    /\ pc \in [Clients -> Points]
    /\ held \in [Clients -> [id : Optional(Ids), listing : SUBSET Listings, master : SUBSET Objects]]
    /\ plan \in [Clients -> Plans]
    /\ disturbed \in [Clients -> BOOLEAN]
    /\ turns \in 0 .. MaxTurns

First == CHOOSE i \in Ids : \A j \in Ids : i <= j
Second == CHOOSE i \in Ids \ {First} : \A j \in Ids \ {First} : i <= j
Event == [NoObject EXCEPT !.status = "live", !.uid = TRUE]
Occurrence(d) == [NoObject EXCEPT !.status = "live", !.series = First, !.occurrence = d]

\* Nothing, an event with or without a deadline, or a series of either type with
\* an occurrence of its own or none.
Init ==
    /\ \/ objects = [i \in Ids |-> NoObject]
       \/ \E deadline \in {None, AValue} :
            objects = [[i \in Ids |-> NoObject] EXCEPT ![First] = [Event EXCEPT !.deadline = deadline]]
       \/ \E recurring \in BOOLEAN :
            LET series == [Event EXCEPT !.rule = TRUE, !.recurring = recurring]
            IN  \/ objects = [[i \in Ids |-> NoObject] EXCEPT ![First] = series]
                \/ \E d \in Occurrences :
                    objects = [[i \in Ids |-> NoObject] EXCEPT
                                    ![First] = series, ![Second] = Occurrence(d)]
    /\ cache = {}
    /\ copy = [c \in Clients |-> {}]
    /\ request = [c \in Clients |-> NotSent]
    /\ pc = [c \in Clients |-> "idle"]
    /\ held = [c \in Clients |-> NothingHeld]
    /\ plan = [c \in Clients |-> NoPlan]
    /\ disturbed = [c \in Clients |-> FALSE]
    /\ turns = MaxTurns

-----------------------------------------------------------------------------
(* People, the generator, search and time *)

\* What a request has read of the event may no longer be so.
Reading(c) == pc[c] \in {"list", "new", "apply", "delete", "deadline", "invalidate"}
DisturbsAll == disturbed' = [c \in Clients |-> disturbed[c] \/ Reading(c)]
DisturbsOthers(c) ==
    disturbed' = [other \in Clients |-> disturbed[other] \/ (other # c /\ Reading(other))]

Edited(object) ==
    {[object EXCEPT !.value = v] : v \in Values \ {object.value}} \cup {[object EXCEPT !.status = "archived"]}
    \cup (IF object.uid THEN {[object EXCEPT !.rule = ~@], [object EXCEPT !.dated = FALSE]} ELSE {})

\* A request comes, somebody edits, a call fails.
Turn == turns > 0 /\ turns' = turns - 1

Edit(i) ==
    /\ Turn
    /\ Alive(objects[i])
    /\ \E object \in Edited(objects[i]) : Holds(i, object)
    /\ DisturbsAll
    /\ UNCHANGED <<server, clients>>

\* The generator makes a meeting of a series (see Series).
MakeMeeting(m, d) ==
    /\ Turn
    /\ RoomLeft
    /\ m \in Listed(objects) /\ objects[m].recurring /\ objects[m].rule
    /\ d \notin objects[m].exdates
    /\ \A i \in Ids : Alive(objects[i]) => objects[i].series # m \/ objects[i].occurrence # d
    /\ Holds(NextId, [Occurrence(d) EXCEPT !.status = "new", !.series = m])
    /\ DisturbsAll
    /\ UNCHANGED <<server, clients>>

Index(i) ==
    /\ objects[i].status = "new"
    /\ objects' = [objects EXCEPT ![i].status = "live"]
    /\ UNCHANGED <<server, clients, disturbed, turns>>

-----------------------------------------------------------------------------
(* A request: sent, located, read *)

Goto(c, point) == pc' = [pc EXCEPT ![c] = point]
Invalidates == cache' = {}

\* The response goes out; the client keeps its copy, to try again or to go on from.
Reply(c) ==
    /\ Goto(c, "idle")
    /\ request' = [request EXCEPT ![c] = NotSent]
    /\ held' = [held EXCEPT ![c] = NothingHeld]
    /\ plan' = [plan EXCEPT ![c] = NoPlan]
Ends(c) == Reply(c) /\ disturbed' = [disturbed EXCEPT ![c] = FALSE]

\* A PUT is made from the copy the client has, or without one.
Sent(c) ==
    {[op |-> op, of |-> of, body |-> NoBody, condition |-> condition] :
        op \in Operations, of \in Resources,
        condition \in {"none"} \cup (IF copy[c] = {} THEN {"If-None-Match"} ELSE {"If-Match"})}

\* What a PUT says matters once the event has been read, and is chosen there.
SentBodies(c) ==
    IF copy[c] = {} THEN NewBodies
    ELSE UNION {UNION {Changed(body) : body \in BodiesOf(one.ics)} : one \in copy[c]}

Send(c) ==
    /\ Turn
    /\ pc[c] = "idle"
    /\ \E q \in Sent(c) :
        /\ q.op = "GET" => q.condition = "none"
        /\ q.condition = "If-None-Match" => q.op = "PUT" /\ q.of = "event"
        /\ q.op = "PUT" \/ q.condition = "If-Match" => \A one \in copy[c] : one.of = q.of
        /\ request' = [request EXCEPT ![c] = q]
    /\ Goto(c, "locate")
    /\ UNCHANGED <<objects, cache, held, plan, copy, disturbed>>

\* plan_series_create; a master is made first.
ForCreate(body) ==
    [NoPlan EXCEPT !.create = {<<d, body.replaced[d]>> : d \in {e \in Occurrences : body.replaced[e] # None}}]

\* Nothing has the name.
Absence(c) ==
    LET q == request[c]
    IN IF q.op = "PUT" /\ q.of = "event" /\ q.condition # "If-Match"
       THEN /\ Goto(c, "new")
            /\ \E body \in SentBodies(c) :
                /\ request' = [request EXCEPT ![c].body = body]
                /\ plan' = [plan EXCEPT ![c] = ForCreate(body)]
            /\ held' = [held EXCEPT ![c] = NothingHeld]
            /\ UNCHANGED disturbed
       ELSE Ends(c)

\* What the snapshot says of the name.  A PROPFIND or a REPORT is a GET of several names.
Answered(c, snapshot) ==
    LET q == request[c]
        found == snapshot[q.of]
    IN /\ \/ /\ q.op = "GET"
             /\ copy' = [copy EXCEPT ![c] = {[of |-> q.of, ics |-> one.ics] : one \in found}]
             /\ Ends(c)
          \/ /\ q.op # "GET" /\ found = {}
             /\ Absence(c)
             /\ UNCHANGED copy
          \/ \E one \in found :
                /\ q.op # "GET"
                /\ held' = [held EXCEPT ![c] = [NothingHeld EXCEPT !.id = one.id]]
                /\ Goto(c, "get")
                /\ UNCHANGED <<plan, request, copy, disturbed>>

Locate(c) ==
    /\ pc[c] = "locate"
    /\ \E snapshot \in cache : Answered(c, snapshot)
    /\ UNCHANGED <<objects, cache, turns>>

\* There is no snapshot, or it is older than its ttl by now.  Anytype is listed, and
\* what it said is kept when it has arrived.
List(c) ==
    /\ pc[c] = "locate"
    /\ Invalidates
    /\ \E snapshot \in Snapshots(objects) : held' = [held EXCEPT ![c].listing = {snapshot}]
    /\ Goto(c, "store")
    /\ UNCHANGED <<objects, plan, clients, disturbed, turns>>

Store(c) ==
    /\ pc[c] = "store"
    /\ cache' = held[c].listing
    /\ \E snapshot \in held[c].listing : Answered(c, snapshot)
    /\ UNCHANGED <<objects, turns>>

ReadFails(c) ==
    /\ pc[c] \in {"store", "get", "list"}
    /\ Turn
    /\ Ends(c)
    /\ UNCHANGED <<objects, cache, copy>>

\* The fresh read finds the object archived.
GetGone(c) ==
    /\ pc[c] = "get"
    /\ ~Alive(objects[held[c].id])
    /\ Invalidates
    /\ Absence(c)
    /\ UNCHANGED <<objects, copy, turns>>

MadeFromOlder(c, current) ==
    \E one \in copy[c] : one.of = request[c].of /\ one.ics.modified < current.modified

\* The preconditions, against the resource as it was read.
Refused(c, current, etag) ==
    LET q == request[c]
    IN \/ q.condition = "If-None-Match"
       \/ q.condition = "If-Match" /\ {one.ics : one \in copy[c]} # etag
       \/ q.op = "PUT" /\ MadeFromOlder(c, current)

-----------------------------------------------------------------------------
(* A plan: made, and carried out *)

\* The fields of the master that the body changes.
MasterPatch(current, body) ==
    LET Given(now, sent) == IF now = sent THEN None ELSE sent
        patch == [value |-> Given(current.value, body.value), dated |-> Given(current.dated, TRUE),
                  rule |-> Given(current.rule, body.rule),
                  exdates |-> IF current.exdates = body.exdates THEN {} ELSE {body.exdates}]
    IN  IF patch = [value |-> None, dated |-> None, rule |-> None, exdates |-> {}]
          THEN {} ELSE {patch}

\* The occurrences of a body, each with the first object listed that replaces it.
Sends(body) == {d \in Occurrences : body.replaced[d] # None}
Matches(body, replacements) ==
    {f \in [Sends(body) -> replacements \cup {None}] : \A d \in Sends(body) :
        LET there == {i \in replacements : objects[i].occurrence = d}
        IN  IF there = {} THEN f[d] = None ELSE f[d] \in there}

\* Mutant: only what the body excludes goes.
LeftOutIfExcluded(current, body, i) == objects[i].occurrence \in body.exdates

\* An object the body leaves out goes, but for a meeting whose occurrence it has.
LeftOut(current, body, i) ==
    ~current.recurring \/ objects[i].occurrence \in body.exdates

PlanUpdate(current, replacements, body, match) ==
    LET matched == {match[d] : d \in Sends(body)}
    IN  [master |-> MasterPatch(current, body),
         update |-> {<<match[d], body.replaced[d]>> : d \in
                        {e \in Sends(body) : match[e] # None /\ objects[match[e]].value # body.replaced[e]}},
         create |-> {<<d, body.replaced[d]>> : d \in {e \in Sends(body) : match[e] = None}},
         archive |-> {i \in replacements \ matched : LeftOut(current, body, i)}]

\* The meetings of a recurring_event that took place stay, as the record of them.
PlanDelete(current, replacements) ==
    [NoPlan EXCEPT !.archive = {i \in replacements :
        ~current.recurring \/ objects[i].occurrence \notin TookPlace}]

\* The request has read the event, as it is now: it is refused, or it has a plan.
Decide(c, current, replacements) ==
    LET etag == IF current.dated
                  THEN {Rendered(current, [i \in replacements |-> objects[i]])} ELSE {}
        Refuses == Refused(c, current, etag)
    IN \/ Refuses /\ Ends(c)
       \/ /\ ~Refuses /\ request[c].op = "DELETE"
          /\ plan' = [plan EXCEPT ![c] = PlanDelete(current, replacements)]
          /\ held' = [held EXCEPT ![c].master = {current}]
          /\ Goto(c, "delete")
          /\ UNCHANGED request
       \/ /\ ~Refuses /\ request[c].op = "PUT"
          /\ \E body \in SentBodies(c) : \E match \in Matches(body, replacements) :
                LET planned == PlanUpdate(current, replacements, body, match)
                IN \/ planned = NoPlan /\ Ends(c)
                   \/ /\ planned # NoPlan
                      /\ plan' = [plan EXCEPT ![c] = planned]
                      /\ request' = [request EXCEPT ![c].body = body]
                      /\ held' = [held EXCEPT ![c].master = {current}]
                      /\ Goto(c, "apply")

\* history: what search does not find yet is disturbing as well.
Overlooks(c) == \E i \in Ids : objects[i].status = "new" /\ objects[i].series = held[c].id
NotesDisturbance(c) ==
    disturbed' = [disturbed EXCEPT ![c] = pc'[c] # "idle" /\ (@ \/ Overlooks(c))]

\* An event without a rule is read at once: nothing is looked for inside it.
GetEvent(c) ==
    LET current == objects[held[c].id]
    IN /\ pc[c] = "get" /\ request[c].of = "event"
       /\ Alive(current) /\ ~current.rule
       /\ Decide(c, current, {})
       /\ NotesDisturbance(c)
       /\ UNCHANGED <<objects, cache, copy, turns>>

GetSeries(c) ==
    LET current == objects[held[c].id]
    IN /\ pc[c] = "get" /\ request[c].of = "event"
       /\ Alive(current) /\ current.rule
       /\ held' = [held EXCEPT ![c].master = {current}]
       /\ Goto(c, "list")
       /\ UNCHANGED <<objects, cache, plan, clients, disturbed, turns>>

ListReplacements(c) ==
    /\ pc[c] = "list"
    /\ \E current \in held[c].master : Decide(c, current, Linked(objects, held[c].id))
    /\ NotesDisturbance(c)
    /\ UNCHANGED <<objects, cache, copy, turns>>

\* A write that is not the last of its plan, or one after which the client is told 503.
Continues(c, rest) ==
    /\ \/ /\ plan' = [plan EXCEPT ![c] = rest]
          /\ UNCHANGED <<cache, pc, request, held, turns>>
          /\ DisturbsOthers(c)
       \/ /\ Turn /\ Invalidates /\ Reply(c)
          /\ disturbed' = [other \in Clients |-> other # c /\ (disturbed[other] \/ Reading(other))]
    /\ UNCHANGED copy

Patched(object, patch) ==
    [object EXCEPT !.value = IF patch.value = None THEN @ ELSE patch.value,
                   !.dated = TRUE,
                   !.rule = IF patch.rule = None THEN @ ELSE patch.rule,
                   !.exdates = UNION (IF patch.exdates = {} THEN {@} ELSE patch.exdates)]

ApplyMaster(c) ==
    /\ pc[c] = "apply"
    /\ \E patch \in plan[c].master : Holds(held[c].id, Patched(objects[held[c].id], patch))
    /\ Continues(c, [plan[c] EXCEPT !.master = {}])

\* Mutant: occurrences are written in any order with their series.
AtAnyTime(c) == TRUE
MasterWritten(c) == plan[c].master = {}

ApplyUpdate(c) ==
    /\ pc[c] = "apply" /\ MasterWritten(c)
    /\ \E write \in plan[c].update :
        /\ Holds(write[1], [objects[write[1]] EXCEPT !.value = write[2]])
        /\ Continues(c, [plan[c] EXCEPT !.update = @ \ {write}])

ApplyCreate(c) ==
    /\ pc[c] = "apply" /\ MasterWritten(c) /\ plan[c].update = {}
    /\ RoomLeft
    /\ \E write \in plan[c].create :
        /\ Holds(NextId, [Occurrence(write[1]) EXCEPT
                            !.status = "new", !.series = held[c].id, !.value = write[2]])
        /\ Continues(c, [plan[c] EXCEPT !.create = @ \ {write}])

ApplyArchive(c) ==
    /\ pc[c] = "apply" /\ MasterWritten(c) /\ plan[c].update = {} /\ plan[c].create = {}
    /\ \E i \in plan[c].archive :
        /\ Holds(i, [objects[i] EXCEPT !.status = "archived"])
        /\ Continues(c, [plan[c] EXCEPT !.archive = @ \ {i}])

\* A new event: its object, then the plan's occurrences.  A series may become a
\* recurring_event, as the program is configured.
CreateEvent(c) ==
    /\ pc[c] = "new"
    /\ RoomLeft
    /\ \E recurring \in IF request[c].body.rule THEN BOOLEAN ELSE {FALSE} :
        LET object == [Event EXCEPT !.status = "new", !.recurring = recurring,
                            !.value = request[c].body.value, !.rule = request[c].body.rule,
                            !.exdates = request[c].body.exdates]
        IN /\ Holds(NextId, object)
           /\ \/ /\ held' = [held EXCEPT ![c] = [NothingHeld EXCEPT !.id = NextId, !.master = {object}]]
                 /\ Goto(c, "apply")
                 /\ DisturbsOthers(c)
                 /\ UNCHANGED <<request, plan, turns>>
              \/ /\ Turn /\ Reply(c)
                 /\ disturbed' = [other \in Clients |->
                                    other # c /\ (disturbed[other] \/ Reading(other))]
    /\ UNCHANGED <<cache, copy>>

DeleteReplacement(c) ==
    /\ pc[c] = "delete"
    /\ \E i \in plan[c].archive :
        /\ Holds(i, [objects[i] EXCEPT !.status = "archived"])
        /\ Continues(c, [plan[c] EXCEPT !.archive = @ \ {i}])

\* Mutant: the series goes before the occurrences it was read with.
DeleteSeriesAtOnce(c) == pc[c] = "delete"
DeletesSeries(c) == pc[c] = "delete" /\ plan[c].archive = {}

DeleteEvent(c) ==
    /\ DeletesSeries(c)
    /\ Holds(held[c].id, [objects[held[c].id] EXCEPT !.status = "archived"])
    /\ \/ /\ Goto(c, "invalidate")
          /\ DisturbsOthers(c)
          /\ UNCHANGED <<cache, request, held, plan, turns>>
       \/ /\ Turn /\ Invalidates /\ Reply(c)
          /\ disturbed' = [other \in Clients |-> other # c /\ (disturbed[other] \/ Reading(other))]
    /\ UNCHANGED copy

\* The deadline's entry as it is now, if the event still has one.
CurrentEntry(current) ==
    IF ~current.rule /\ current.deadline # None THEN {Entry(current)} ELSE {}

GetDeadline(c) ==
    LET current == objects[held[c].id]
        Refuses == Refused(c, current, CurrentEntry(current))
    IN /\ pc[c] = "get" /\ request[c].of = "deadline" /\ Alive(current)
       /\ \/ Refuses /\ Ends(c)
          \/ ~Refuses /\ Goto(c, "deadline") /\ UNCHANGED <<request, held, plan, disturbed>>
       /\ UNCHANGED <<objects, cache, copy, turns>>

\* Moved to the body's start, or cleared.  Whoever is told 503 may find it done, and
\* the snapshot is kept.
WriteDeadline(c) ==
    LET id == held[c].id
        Written == IF request[c].op = "PUT" THEN Values ELSE {None}
    IN /\ pc[c] = "deadline"
       /\ \E deadline \in Written : Holds(id, [objects[id] EXCEPT !.deadline = deadline])
       /\ \/ /\ Goto(c, "invalidate")
             /\ DisturbsOthers(c)
             /\ UNCHANGED <<request, held, plan, turns>>
          \/ /\ Turn /\ Reply(c)
             /\ disturbed' = [other \in Clients |-> other # c /\ (disturbed[other] \/ Reading(other))]
       /\ UNCHANGED <<cache, copy>>

\* Only a failed write of a plan or of a DELETE makes the service forget its snapshot.
WriteFails(c) ==
    /\ pc[c] \in {"new", "apply", "delete", "deadline"}
    /\ Turn
    /\ IF pc[c] \in {"apply", "delete"} THEN Invalidates ELSE UNCHANGED cache
    /\ Ends(c)
    /\ UNCHANGED <<objects, copy>>

Invalidate(c) ==
    /\ \/ pc[c] = "invalidate"
       \/ pc[c] = "apply" /\ plan[c] = NoPlan
    /\ Invalidates
    /\ Ends(c)
    /\ UNCHANGED <<objects, copy, turns>>

-----------------------------------------------------------------------------

Handle(c) ==
    \/ Locate(c) \/ List(c) \/ Store(c) \/ ReadFails(c)
    \/ GetGone(c) \/ GetEvent(c) \/ GetSeries(c) \/ ListReplacements(c) \/ GetDeadline(c)
    \/ ApplyMaster(c) \/ ApplyUpdate(c) \/ ApplyCreate(c) \/ ApplyArchive(c)
    \/ CreateEvent(c) \/ DeleteReplacement(c) \/ DeleteEvent(c) \/ WriteDeadline(c)
    \/ WriteFails(c) \/ Invalidate(c)

Next ==
    \/ \E i \in Ids : Edit(i) \/ Index(i)
    \/ \E m \in Ids, d \in Occurrences : MakeMeeting(m, d)
    \/ \E c \in Clients : Send(c) \/ Handle(c)

Spec == Init /\ [][Next]_vars
-----------------------------------------------------------------------------
(* Properties *)

\* As search will find it.
Found(world) == [i \in Ids |-> IF world[i].status = "new"
                                 THEN [world[i] EXCEPT !.status = "live"] ELSE world[i]]
Done(c) == pc[c] = "apply" /\ plan[c] = NoPlan

\* A PUT that is about to be answered with success has made the series what its body
\* says, whatever earlier requests left half done: its fields, and one object for each
\* occurrence the body replaces. Only meetings of a recurring_event may be there that
\* the body neither has nor excludes. It is so unless others wrote since the series was
\* read, or occurrences were not looked for because it did not recur then.
SavedSeriesIsAsSent ==
    \A c \in Clients :
        LET body == request[c].body
            id == held[c].id
            world == Found(objects)
            shown == Resource(world, id)
            At(d) == {one.value : one \in {o \in shown.replaced : o.at = d}}
        IN /\ Done(c) /\ ~disturbed[c]
           /\ \A was \in held[c].master : was.rule \/ ReplacementsOf(world, id) = {}
           => /\ [value |-> shown.value, rule |-> shown.rule, exdates |-> shown.exdates]
                    = [value |-> body.value, rule |-> body.rule, exdates |-> body.exdates]
              /\ \A d \in Occurrences :
                    LET sent == {body.replaced[d]} \ {None}
                        MayStay == world[id].recurring /\ d \notin body.exdates
                    IN  sent \subseteq At(d) /\ (MayStay \/ At(d) = sent)

\* Whether the body has an occurrence otherwise than the copy it was made from, or
\* the copy had it twice and the body once.
ChangesOccurrence(c, d) ==
    \A one \in copy[c] :
        LET served == {o \in one.ics.replaced : o.at = d}
        IN  Cardinality(served) > 1 \/ {o.value : o \in served} # {request[c].body.replaced[d]} \ {None}

\* A write of this request to an occurrence that was there.
WritesOccurrence(c, i) ==
    /\ pc[c] = "apply" /\ plan'[c] # plan[c]
    /\ objects[i].series = held[c].id /\ objects'[i] # objects[i]
    /\ Alive(objects[i])

\* The ETag of a series covers its replaced occurrences: under If-Match a PUT writes or
\* archives an occurrence only if its client changed that very occurrence, whoever
\* edited which object after the client read the series.
IfMatchProtectsOccurrences ==
    [][\A c \in Clients, i \in Ids :
        WritesOccurrence(c, i) /\ request[c].condition = "If-Match" /\ ~disturbed[c]
            => ChangesOccurrence(c, objects[i].occurrence)]_vars

\* A series that is deleted leaves no occurrence behind to come up on its own in the
\* calendar, but for the meetings that took place; and a DELETE that fails part-way
\* leaves a series that can be deleted.
DeletedSeriesIsGone ==
    [][\A c \in Clients :
        /\ DeletesSeries(c) /\ ~disturbed[c] /\ objects'[held[c].id] # objects[held[c].id]
        /\ \E was \in held[c].master : was.rule
        => \A i \in Ids : Alive(objects[i]) /\ objects[i].series = held[c].id =>
                objects[held[c].id].recurring /\ objects[i].occurrence \in TookPlace]_vars

\* plan_series_update, upkeep of series.rs: a meeting that a client deletes is in the
\* exdate of its series before it is archived, or the generator would take its place
\* for one that has to be made.
DeletedMeetingStaysOut ==
    [][\A c \in Clients, i \in Ids :
        /\ WritesOccurrence(c, i) /\ ~disturbed[c]
        /\ objects'[i].status = "archived" /\ objects[held[c].id].recurring
        => objects[i].occurrence \in objects[held[c].id].exdates]_vars

\* The comment of `replaces_an_occurrence`: nothing ever disappears from the calendar.
\* What is listed and has a start is served, on its own or inside one series; two
\* objects of one name share its resource. A series that lost its own start is the
\* exception: it is not served, nor is what it should hold.
EveryEventIsServed ==
    \A i \in Listed(objects) :
        LET holders == {m \in Dated(objects) : objects[m].rule /\ i \in ReplacementsOf(objects, m)}
            alone == ~ReplacesAnOccurrence(objects, i)
        IN /\ \/ alone <=> holders = {}
              \/ \E m \in Listed(objects) : m = objects[i].series /\ ~objects[m].dated
           /\ Cardinality(holders) <= 1
=============================================================================
