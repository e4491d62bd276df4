----------------------------- MODULE TasksProofs ----------------------------
(***************************************************************************)
(* Proofs about Tasks for any people, requests, fields and objects.        *)
(***************************************************************************)
EXTENDS Tasks, CalendarsProofs, FiniteSetTheorems, SequenceTheorems

\* What the types need: a body is made from a version there was, and whoever has read
\* or is about to write has found an object.
BodyIsThere == body <= version
BasesAreThere == \A r \in Requests : request[r].base # Absent => request[r].base.at <= version
TargetsAreObjects ==
    \A r \in Requests : pc[r] \in {"get", "update", "archive"} => target[r] \in Ids

Typed == TypeOK /\ BodyIsThere /\ BasesAreThere /\ TargetsAreObjects

-----------------------------------------------------------------------------
(* The history *)

LEMMA PastIs ==
    ASSUME TypeOK
    PROVE  /\ version \in Nat /\ World = At(version) /\ World \in [Ids -> Objects]
           /\ \A v \in 0 .. version : At(v) \in [Ids -> Objects]
<1>1. Len(past) \in Nat /\ Len(past) > 0 /\ past \in Seq([Ids -> Objects])
  BY DEF TypeOK
<1>2. \A n \in 1 .. Len(past) : past[n] \in [Ids -> Objects]
  BY <1>1
<1>3. version \in Nat /\ version + 1 = Len(past)
  BY <1>1 DEF version
<1>4. QED
  BY <1>1, <1>2, <1>3 DEF World, At

\* A write adds one version, in which one object is another.
LEMMA HoldsIs ==
    ASSUME TypeOK, NEW i \in Ids, NEW object \in Objects, Holds(i, object)
    PROVE  /\ past' \in Seq([Ids -> Objects]) /\ Len(past') > 0
           /\ version' = version + 1
           /\ World' = [World EXCEPT ![i] = object]
           /\ \A v \in 0 .. version : At(v)' = At(v)
<1>1. past \in Seq([Ids -> Objects]) /\ Len(past) > 0 /\ Len(past) \in Nat
  BY DEF TypeOK
<1> DEFINE next == [World EXCEPT ![i] = object]
<1>2. next \in [Ids -> Objects]
  BY PastIs
<1> HIDE DEF next
<1>3. past' = Append(past, next)
  BY DEF Holds, next
<1>4. /\ past' \in Seq([Ids -> Objects]) /\ Len(past') = Len(past) + 1
      /\ past'[Len(past')] = next
      /\ \A n \in 1 .. Len(past) : past'[n] = past[n]
  BY <1>1, <1>2, <1>3
<1>5. \A v \in 0 .. version : At(v)' = At(v)
  BY <1>1, <1>4 DEF At, version
<1>6. QED
  BY <1>1, <1>4, <1>5 DEF version, World, next

\* What a step of anybody makes of the history.
Grows ==
    \/ past' = past
    \/ \E i \in Ids, object \in Objects : Holds(i, object)

LEMMA PastStays ==
    ASSUME past' = past
    PROVE  /\ version' = version /\ World' = World
           /\ \A v \in 0 .. version : At(v)' = At(v)
BY DEF version, World, At

LEMMA ListsOfPeople ==
    ASSUME NEW assignees \in Seq(People), NEW from, NEW to
    PROVE  /\ HandedOver(assignees, from, to) \in Seq(People)
           /\ TakenOff(assignees, to) \in Seq(People)
<1>1. /\ Without(assignees, {from, to}) \in Seq(People)
      /\ Without(assignees, {to}) \in Seq(People)
  BY WithoutIsWithout
<1>2. (IF to \in People THEN <<to>> ELSE <<>>) \in Seq(People)
  OBVIOUS
<1>3. QED
  BY <1>1, <1>2 DEF HandedOver, TakenOff

\* Whoever the task is handed to comes first.
LEMMA HandedOverIsFirst ==
    ASSUME NEW a \in Seq(People), NEW from, NEW to \in People
    PROVE  /\ HandedOver(a, from, to) \in Seq(People)
           /\ HandedOver(a, from, to) # <<>> /\ HandedOver(a, from, to)[1] = to
<1>1. Without(a, {from, to}) \in Seq(People)
  BY WithoutIsWithout
<1>2. HandedOver(a, from, to) = <<to>> \o Without(a, {from, to})
  BY DEF HandedOver
<1>3. QED
  BY <1>1, <1>2

-----------------------------------------------------------------------------
(* The types *)

LEMMA InitialTypes == Init => Typed
<1> SUFFICES ASSUME Init PROVE Typed
  OBVIOUS
<1>1. /\ MaxEdits \in Nat /\ MaxFaults \in Nat /\ MaxSecond \in Nat
  BY TasksBoundsAssumption
<1>2. \A second \in Nat : InitialWorlds(second) \subseteq [Ids -> Objects]
  <2> SUFFICES ASSUME NEW second \in Nat, NEW world \in InitialWorlds(second)
               PROVE  world \in [Ids -> Objects]
    OBVIOUS
  <2>1. [NoObject EXCEPT !.modified = second] \in Objects
    <3>1. <<>> \in Seq(People) /\ [f \in Fields |-> 0] \in [Fields -> Values]
      BY DEF Values
    <3>2. QED
      BY <3>1 DEF NoObject, Objects
  <2>2. InitialAssignees \subseteq Seq(People)
    <3>1. <<>> \in Seq(People)
      OBVIOUS
    <3>2. [{1} -> People] \subseteq Seq(People)
      <4> SUFFICES ASSUME NEW a \in [{1} -> People] PROVE a \in Seq(People)
        OBVIOUS
      <4>1. {1} = 1 .. 1 /\ 1 \in Nat
        OBVIOUS
      <4>2. QED
        BY <4>1, SeqDef, Zenon
    <3>3. [{1, 2} -> People] \subseteq Seq(People)
      <4> SUFFICES ASSUME NEW a \in [{1, 2} -> People] PROVE a \in Seq(People)
        OBVIOUS
      <4>1. {1, 2} = 1 .. 2 /\ 2 \in Nat
        OBVIOUS
      <4>2. QED
        BY <4>1, SeqDef, Zenon
    <3>4. QED
      BY <3>1, <3>2, <3>3 DEF InitialAssignees
  <2> DEFINE empty == [i \in Ids |-> [NoObject EXCEPT !.modified = second]]
  <2>3. empty \in [Ids -> Objects]
    BY <2>1
  <2>4. \A a \in Seq(People) :
            [empty EXCEPT ![First].status = "live", ![First].assignees = a] \in [Ids -> Objects]
    <3> SUFFICES ASSUME NEW a \in Seq(People)
                 PROVE [empty EXCEPT ![First].status = "live", ![First].assignees = a] \in [Ids -> Objects]
      OBVIOUS
    <3>1. \A object \in Objects : [object EXCEPT !.status = "live"] \in Objects /\ [object EXCEPT !.assignees = a] \in Objects
      BY DEF Objects
    <3> HIDE DEF empty
    <3>2. QED
      BY <2>3, <3>1
  <2>5. world = empty \/ \E a \in InitialAssignees :
            world = [empty EXCEPT ![First].status = "live", ![First].assignees = a]
    BY Zenon DEF InitialWorlds
  <2> HIDE DEF empty
  <2>6. QED
    BY <2>2, <2>3, <2>4, <2>5
<1>3. past \in Seq([Ids -> Objects]) /\ Len(past) = 1
  <2>1. (IF MaxSecond = 0 THEN 0 ELSE MaxSecond - 1) \in Nat
    BY <1>1
  <2>2. PICK world \in [Ids -> Objects] : past = <<world>>
    BY <1>2, <2>1 DEF Init, Scenario
  <2>3. QED
    BY <2>2
<1>4. pc \in [Requests -> Points] /\ \A r \in Requests : pc[r] \in {"idle", "done"}
  BY DEF Init, Scenario, Points
<1>5. edits \in 0 .. MaxEdits /\ faults \in 0 .. MaxFaults
  BY <1>1 DEF Init, Scenario
<1>6. NotSent \in RequestsFrom(Bases \cup {Absent}) /\ NoPatch \in Patches
  BY DEF NotSent, RequestsFrom, Keys, Readers, NoPatch, Patches
<1>7. C!Unanswered \in C!Answers /\ C!NoBody \in C!Versions /\ C!NoBody = -1
  BY DEF C!Unanswered, C!Answers, C!NoBody, C!Versions, C!Kinds
<1>8. version = 0
  BY <1>3 DEF version
<1>9. QED
  BY <1>3, <1>4, <1>5, <1>6, <1>7, <1>8
     DEF Init, Typed, TypeOK, BodyIsThere, BasesAreThere, TargetsAreObjects, NotSent

LEMMA GrowsTypes ==
    ASSUME TypeOK, Grows
    PROVE  /\ past' \in Seq([Ids -> Objects]) /\ Len(past') > 0
           /\ version \in Nat /\ version' \in Nat /\ version <= version'
<1>1. version \in Nat
  BY PastIs
<1>2. CASE past' = past
  BY <1>1, <1>2, PastStays DEF TypeOK
<1>3. CASE \E i \in Ids, object \in Objects : Holds(i, object)
  <2>1. PICK i \in Ids, object \in Objects : Holds(i, object)
    BY <1>3
  <2>2. past' \in Seq([Ids -> Objects]) /\ Len(past') > 0 /\ version' = version + 1
    BY <2>1, HoldsIs
  <2>3. QED
    BY <1>1, <2>2
<1>4. QED
  BY <1>2, <1>3 DEF Grows

\* What the requests are typed by, and by how long the history is.
Addressed ==
    /\ request \in [Requests -> RequestsFrom(Bases \cup {Absent})]
    /\ pc \in [Requests -> Points]
    /\ patch \in [Requests -> Patches]
    /\ target \in [Requests -> Ids \cup {Absent}]
    /\ TargetsAreObjects
Dated == BasesAreThere /\ asked_after \in [Requests -> 0 .. version]
Told == body \in C!Versions /\ answer \in [Requests -> C!Answers]
Budgets == edits \in 0 .. MaxEdits /\ faults \in 0 .. MaxFaults

LEMMA TypesGrow ==
    ASSUME Typed, Grows, Told', body' <= version', Addressed', Dated',
           invalidated' \in 0 .. version', Budgets'
    PROVE  Typed'
<1>1. past' \in Seq([Ids -> Objects]) /\ Len(past') > 0
  BY GrowsTypes DEF Typed
<1>2. QED
  BY <1>1 DEF Typed, TypeOK, BodyIsThere, Addressed, Dated, Told, Budgets

LEMMA TypesAre ==
    ASSUME Typed
    PROVE  /\ TypeOK /\ Told /\ Addressed /\ Dated /\ Budgets
           /\ body <= version /\ body \in Int /\ body >= -1
           /\ invalidated \in 0 .. version
           /\ version \in Nat
<1>1. version \in Nat
  BY PastIs DEF Typed
<1>2. body \in Int /\ body >= -1
  BY DEF Typed, TypeOK, C!Versions, C!NoBody
<1>3. QED
  BY <1>1, <1>2
     DEF Typed, TypeOK, BodyIsThere, Addressed, Dated, Told, Budgets

\* What another step leaves alone keeps its type while the history grows.
LEMMA RestKeepsTypes ==
    ASSUME Typed, Grows
    PROVE  /\ body <= version'
           /\ invalidated \in 0 .. version'
           /\ body' = body /\ answer' = answer => Told' /\ body' <= version'
           /\ invalidated' = invalidated => invalidated' \in 0 .. version'
           /\ UNCHANGED <<request, pc, patch, target>> => Addressed'
           /\ UNCHANGED <<request, asked_after>> => Dated'
<1>1. version \in Nat /\ version' \in Nat /\ version <= version'
  BY GrowsTypes DEF Typed
<1>2. /\ body <= version /\ body \in Int /\ body >= -1 /\ Told
      /\ invalidated \in 0 .. version /\ Addressed /\ Dated
  BY TypesAre
<1>3. body <= version' /\ invalidated \in 0 .. version'
  BY <1>1, <1>2
<1>4. body' = body /\ answer' = answer => Told' /\ body' <= version'
  BY <1>2, <1>3 DEF Told
<1>5. UNCHANGED <<request, pc, patch, target>> => Addressed'
  BY <1>2 DEF Addressed, TargetsAreObjects
<1>6. UNCHANGED <<request, asked_after>> => Dated'
  <2> SUFFICES ASSUME UNCHANGED <<request, asked_after>> PROVE Dated'
    OBVIOUS
  <2>1. asked_after' \in [Requests -> 0 .. version']
    BY <1>1, <1>2 DEF Dated
  <2>2. ASSUME NEW r \in Requests, request'[r].base # Absent
        PROVE  request'[r].base.at <= version'
    <3>1. request[r].base # Absent /\ request[r].base.at <= version
      BY <1>2, <2>2 DEF Dated, BasesAreThere
    <3>2. request[r].base \in Bases
      BY <1>2, <3>1 DEF Addressed, RequestsFrom
    <3>3. request[r].base.at \in Nat
      BY <3>2 DEF Bases
    <3>4. QED
      BY <1>1, <3>1, <3>3
  <2>3. QED
    BY <2>1, <2>2 DEF Dated, BasesAreThere
<1>7. QED
  BY <1>3, <1>4, <1>5, <1>6

LEMMA RequestIs ==
    ASSUME Typed, NEW r \in Requests
    PROVE  /\ request[r] \in RequestsFrom(Bases \cup {Absent})
           /\ request[r].base # Absent =>
                /\ request[r].base \in Bases /\ request[r].base.at \in 0 .. version
                /\ request[r].base.id \in Ids
                /\ BaseOf(request[r]) \in Objects
<1>1. request[r] \in RequestsFrom(Bases \cup {Absent})
  BY TypesAre DEF Addressed
<1>2. SUFFICES ASSUME request[r].base # Absent
               PROVE  /\ request[r].base \in Bases /\ request[r].base.at \in 0 .. version
                      /\ request[r].base.id \in Ids
                      /\ BaseOf(request[r]) \in Objects
  BY <1>1
<1>3. request[r].base \in Bases
  BY <1>1, <1>2 DEF RequestsFrom
<1>4. request[r].base.at <= version /\ version \in Nat
  BY <1>2, TypesAre DEF Dated, BasesAreThere
<1>5. request[r].base.at \in 0 .. version /\ request[r].base.id \in Ids
  BY <1>3, <1>4 DEF Bases
<1>6. At(request[r].base.at) \in [Ids -> Objects]
  BY <1>5, PastIs DEF Typed
<1>7. QED
  BY <1>3, <1>5, <1>6 DEF BaseOf

-----------------------------------------------------------------------------
(* The types of a step *)

LEMMA NothingIsTyped ==
    NotSent \in RequestsFrom(Bases \cup {Absent}) /\ NoPatch \in Patches
BY DEF NotSent, RequestsFrom, Keys, Readers, NoPatch, Patches

LEMMA ReplyTypes ==
    ASSUME Typed, Grows, NEW r \in Requests, Reply(r)
    PROVE  Addressed' /\ Dated'
<1>1. Addressed /\ Dated /\ version \in Nat /\ version' \in Nat /\ version <= version'
  BY TypesAre, GrowsTypes DEF Typed
<1>2. /\ pc' = [pc EXCEPT ![r] = "done"]
      /\ request' = [request EXCEPT ![r] = NotSent]
      /\ patch' = [patch EXCEPT ![r] = NoPatch]
      /\ target' = [target EXCEPT ![r] = Absent]
      /\ asked_after' = [asked_after EXCEPT ![r] = 0]
  BY DEF Reply, Goto
<1>3. Addressed'
  BY <1>1, <1>2, NothingIsTyped DEF Addressed, TargetsAreObjects, Points
<1>4. asked_after' \in [Requests -> 0 .. version']
  BY <1>1, <1>2 DEF Dated
<1>5. ASSUME NEW s \in Requests, request'[s].base # Absent
      PROVE  request'[s].base.at <= version'
  <2>1. s # r /\ request'[s] = request[s]
    BY <1>1, <1>2, <1>5 DEF Addressed, NotSent
  <2>2. request[s].base.at \in 0 .. version
    BY <1>5, <2>1, RequestIs
  <2>3. QED
    BY <1>1, <2>1, <2>2
<1>6. QED
  BY <1>3, <1>4, <1>5 DEF Dated, BasesAreThere

LEMMA AbsenceTypes ==
    ASSUME Typed, Grows, NEW r \in Requests, NEW q \in RequestsFrom({request[r].base}),
           Absence(r, q)
    PROVE  Addressed' /\ Dated'
<1>1. CASE Reply(r)
  BY <1>1, ReplyTypes
<1>2. CASE /\ Goto(r, "create")
           /\ request' = [request EXCEPT ![r] = q]
           /\ UNCHANGED <<asked_after, locals>>
  <2>1. Addressed /\ Dated /\ version \in Nat /\ version' \in Nat /\ version <= version'
    BY TypesAre, GrowsTypes DEF Typed
  <2>2. q.base = request[r].base /\ q \in RequestsFrom(Bases \cup {Absent})
    BY <2>1 DEF Addressed, RequestsFrom
  <2>3. pc' = [pc EXCEPT ![r] = "create"] /\ UNCHANGED <<patch, target, asked_after>>
    BY <1>2 DEF Goto, locals
  <2>4. Addressed'
    BY <1>2, <2>1, <2>2, <2>3 DEF Addressed, TargetsAreObjects, Points
  <2>5. asked_after' \in [Requests -> 0 .. version']
    BY <2>1, <2>3 DEF Dated
  <2>6. ASSUME NEW s \in Requests, request'[s].base # Absent
        PROVE  request'[s].base.at <= version'
    <3>1. request'[s].base = request[s].base
      BY <1>2, <2>1, <2>2 DEF Addressed
    <3>2. request[s].base.at \in 0 .. version
      BY <2>6, <3>1, RequestIs
    <3>3. QED
      BY <2>1, <3>1, <3>2
  <2>7. QED
    BY <2>4, <2>5, <2>6 DEF Dated, BasesAreThere
<1>3. QED
  BY <1>1, <1>2 DEF Absence

LEMMA PursueTypes ==
    ASSUME Typed, Grows, NEW r \in Requests, NEW q \in RequestsFrom({request[r].base}),
           NEW i \in Ids, Pursue(r, q, i)
    PROVE  Addressed' /\ Dated'
<1>1. Addressed /\ Dated /\ version \in Nat /\ version' \in Nat /\ version <= version'
  BY TypesAre, GrowsTypes DEF Typed
<1>2. q.base = request[r].base /\ q \in RequestsFrom(Bases \cup {Absent})
  BY <1>1 DEF Addressed, RequestsFrom
<1>3. /\ pc' = [pc EXCEPT ![r] = "get"] /\ target' = [target EXCEPT ![r] = i]
      /\ request' = [request EXCEPT ![r] = q] /\ UNCHANGED <<patch, asked_after>>
  BY DEF Pursue, Goto
<1>4. Addressed'
  BY <1>1, <1>2, <1>3 DEF Addressed, TargetsAreObjects, Points
<1>5. asked_after' \in [Requests -> 0 .. version']
  BY <1>1, <1>3 DEF Dated
<1>6. ASSUME NEW s \in Requests, request'[s].base # Absent
      PROVE  request'[s].base.at <= version'
  <2>1. request'[s].base = request[s].base
    BY <1>1, <1>2, <1>3 DEF Addressed
  <2>2. request[s].base.at \in 0 .. version
    BY <1>6, <2>1, RequestIs
  <2>3. QED
    BY <1>1, <2>1, <2>2
<1>7. QED
  BY <1>4, <1>5, <1>6 DEF Dated, BasesAreThere

LEMMA EditTypes ==
    ASSUME Typed, NEW i \in Ids, Edit(i)
    PROVE  Grows /\ Typed'
<1>1. Budgets /\ World[i] \in Objects /\ Len(past) \in Nat
  <2>1. TypeOK /\ Budgets
    BY TypesAre
  <2>2. Len(past) \in Nat
    BY <2>1 DEF TypeOK
  <2>3. QED
    BY <2>1, <2>2, PastIs
<1>2. PICK object \in Edited(World[i]), s \in Stamps : Holds(i, [object EXCEPT !.modified = s])
  BY DEF Edit
<1>3. object \in Objects
  <2>1. \A f \in Fields : [World[i] EXCEPT !.values[f] = Len(past)] \in Objects
    BY <1>1 DEF Objects, Values
  <2>2. \A a \in Seq(People) : [World[i] EXCEPT !.assignees = a] \in Objects
    BY <1>1 DEF Objects
  <2>3. [World[i] EXCEPT !.status = "archived"] \in Objects
    BY <1>1 DEF Objects
  <2>4. \A person \in People : HandedOver(World[i].assignees, Unassigned, person) \in Seq(People)
    BY <1>1, ListsOfPeople DEF Objects
  <2>5. CASE \E f \in Fields : object = [World[i] EXCEPT !.values[f] = Len(past)]
    BY <2>1, <2>5
  <2>6. CASE \E person \in People : object =
                [World[i] EXCEPT !.assignees = HandedOver(@, Unassigned, person)]
    BY <2>2, <2>4, <2>6
  <2>7. CASE object = [World[i] EXCEPT !.status = "archived"]
    BY <2>3, <2>7
  <2>8. QED
    BY <1>2, <2>5, <2>6, <2>7 DEF Edited
<1>4. [object EXCEPT !.modified = s] \in Objects
  <2>1. s \in Nat
    BY <1>2 DEF Stamps
  <2>2. QED
    BY <1>3, <2>1 DEF Objects
<1>5. Grows
  BY <1>2, <1>4 DEF Grows
<1>6. /\ UNCHANGED <<body, answer, request, asked_after, pc, patch, target, invalidated, faults>>
      /\ edits > 0 /\ edits' = edits - 1
  BY DEF Edit, feed, sent, locals
<1>7. Budgets'
  BY <1>1, <1>6, TasksBoundsAssumption DEF Budgets
<1>8. QED
  BY <1>5, <1>6, <1>7, RestKeepsTypes, TypesGrow

LEMMA RefreshTypes ==
    ASSUME Typed, Refresh
    PROVE  Grows /\ Typed'
<1>1. Grows /\ version' = version
  BY PastStays DEF Refresh, Grows
<1>2. Told /\ Budgets /\ body \in Int /\ body >= -1 /\ version \in Nat
  BY TypesAre
<1>3. /\ body' \in (body .. version) \ {-1} /\ answer' = answer
      /\ UNCHANGED <<request, asked_after, pc, patch, target, invalidated, edits, faults>>
  BY DEF Refresh, C!Replace, C!NoBody, sent, locals
<1>4. Told' /\ body' <= version'
  BY <1>1, <1>2, <1>3 DEF Told, C!Versions
<1>5. Budgets'
  BY <1>2, <1>3 DEF Budgets
<1>6. QED
  BY <1>1, <1>3, <1>4, <1>5, RestKeepsTypes, TypesGrow

LEMMA SendTypes ==
    ASSUME Typed, NEW r \in Requests, Send(r)
    PROVE  Grows /\ Typed'
<1>1. /\ Told /\ Addressed /\ Dated /\ Budgets /\ body <= version /\ body \in Int
      /\ version \in Nat /\ invalidated \in 0 .. version
  BY TypesAre
<1>2. PICK base \in {b \in [at : 0 .. body, id : Ids] : b.id \in Live(At(b.at))} \cup {Absent} :
        request' = [request EXCEPT ![r].base = base]
  BY DEF Send
<1>3. /\ asked_after' = [asked_after EXCEPT ![r] = invalidated]
      /\ pc' = [pc EXCEPT ![r] = "locate"]
      /\ UNCHANGED <<past, body, answer, patch, target, invalidated, edits, faults>>
  BY DEF Send, Goto, feed, locals
<1>4. Grows /\ version' = version
  BY <1>3, PastStays DEF Grows
<1>5. base \in Bases \cup {Absent} /\ (base # Absent => base.at <= version)
  <2>1. CASE base \in [at : 0 .. body, id : Ids]
    BY <1>1, <2>1 DEF Bases
  <2>2. QED
    BY <1>2, <2>1
<1>6. request'[r] \in RequestsFrom(Bases \cup {Absent}) /\ request'[r].base = base
  BY <1>1, <1>2, <1>5 DEF Addressed, RequestsFrom
<1>7. \A s \in Requests : s # r => request'[s] = request[s]
  BY <1>1, <1>2 DEF Addressed
<1>8. request' \in [Requests -> RequestsFrom(Bases \cup {Absent})]
  BY <1>1, <1>2, <1>6 DEF Addressed
<1>9. Addressed'
  BY <1>1, <1>3, <1>8 DEF Addressed, TargetsAreObjects, Points
<1>10. Dated'
  <2>1. asked_after' \in [Requests -> 0 .. version']
    BY <1>1, <1>3, <1>4 DEF Dated
  <2>2. ASSUME NEW s \in Requests, request'[s].base # Absent
        PROVE  request'[s].base.at <= version'
    BY <1>1, <1>4, <1>5, <1>6, <1>7, <2>2 DEF Dated, BasesAreThere
  <2>3. QED
    BY <2>1, <2>2 DEF Dated, BasesAreThere
<1>11. Budgets'
  BY <1>1, <1>3 DEF Budgets
<1>12. QED
  BY <1>3, <1>4, <1>9, <1>10, <1>11, RestKeepsTypes, TypesGrow

\* What a request is told, when it locates the object.
LEMMA SnapshotIs ==
    ASSUME Typed, NEW r \in Requests, Snapshot(r)
    PROVE  /\ Grows /\ version' = version /\ pc[r] = "locate"
           /\ UNCHANGED <<past, body, invalidated, edits, faults>>
           /\ \A s \in Requests : s # r => answer'[s] = answer[s]
           /\ answer'[r].body = body /\ answer'[r].kind \in C!Kinds
           /\ Told'
<1>1. Told
  BY TypesAre
<1>2. /\ pc[r] = "locate" /\ UNCHANGED <<past, body, invalidated, edits, faults>>
      /\ C!Tell(r)
  BY DEF Snapshot
<1>3. PICK kind \in C!Kinds \ {"none"} :
        answer' = [answer EXCEPT ![r] = [kind |-> kind, body |-> body]]
  BY <1>2 DEF C!Tell
<1>4. Told'
  BY <1>1, <1>2, <1>3 DEF Told, C!Answers
<1>5. QED
  BY <1>1, <1>2, <1>3, <1>4, PastStays DEF Grows, Told

LEMMA LocateTypes ==
    ASSUME Typed, NEW r \in Requests, Locate(r)
    PROVE  Grows /\ Typed'
<1>1. /\ Grows /\ version' = version /\ UNCHANGED <<past, body, invalidated, edits, faults>>
      /\ Told'
  BY SnapshotIs DEF Locate
<1>2. Addressed' /\ Dated'
  <2>1. CASE Reply(r)
    BY <1>1, <2>1, ReplyTypes
  <2>2. CASE \E q \in SentFrom(request[r].base) : Located(r, q)
    <3>1. PICK q \in SentFrom(request[r].base) : Located(r, q)
      BY <2>2
    <3>2. q \in RequestsFrom({request[r].base})
      BY DEF SentFrom
    <3>3. CASE Absence(r, q)
      BY <1>1, <3>2, <3>3, AbsenceTypes
    <3>4. CASE \E i \in Live(At(body)) : Pursue(r, q, i)
      BY <1>1, <3>2, <3>4, PursueTypes DEF Live
    <3>5. CASE Reply(r)
      BY <1>1, <3>5, ReplyTypes
    <3>6. QED
      BY <3>1, <3>3, <3>4, <3>5 DEF Located
  <2>3. QED
    BY <2>1, <2>2 DEF Locate
<1>3. Budgets'
  BY <1>1, TypesAre DEF Budgets
<1>4. body' <= version' /\ invalidated' \in 0 .. version'
  BY <1>1, RestKeepsTypes
<1>5. QED
  BY <1>1, <1>2, <1>3, <1>4, TypesGrow

LEMMA GotoTypes ==
    ASSUME Typed, Grows, NEW r \in Requests, NEW point \in Points, Goto(r, point),
           point \in {"get", "update", "archive"} => pc[r] = "get",
           patch' \in [Requests -> Patches], UNCHANGED <<sent, target>>
    PROVE  Addressed' /\ Dated'
<1>1. Addressed
  BY TypesAre
<1>2. pc' = [pc EXCEPT ![r] = point] /\ UNCHANGED <<request, asked_after, target>>
  BY DEF Goto, sent
<1>3. \A s \in Requests : pc'[s] \in {"get", "update", "archive"} =>
            pc[s] \in {"get", "update", "archive"}
  BY <1>1, <1>2 DEF Addressed
<1>4. Addressed'
  BY <1>1, <1>2, <1>3 DEF Addressed, TargetsAreObjects
<1>5. QED
  BY <1>2, <1>4, RestKeepsTypes

LEMMA ForUpdateTypes ==
    ASSUME Typed, NEW r \in Requests, NEW i, NEW current \in Objects
    PROVE  /\ \A f \in Fields : Sends(r, f) \in Values
           /\ ForUpdate(r, i, current) \in Patches /\ ForDelete(r, current) \in Patches
<1>1. \A f \in Fields : Sends(r, f) \in Values
  <2> SUFFICES ASSUME NEW f \in Fields PROVE Sends(r, f) \in Values
    OBVIOUS
  <2>1. CASE request[r].base = Absent \/ f = request[r].field
    BY <2>1 DEF Sends, Values
  <2>2. CASE ~(request[r].base = Absent \/ f = request[r].field)
    <3>1. BaseOf(request[r]) \in Objects
      BY <2>2, RequestIs
    <3>2. BaseOf(request[r]).values[f] \in Values
      BY <3>1 DEF Objects
    <3>3. QED
      BY <2>2, <3>2 DEF Sends
  <2>3. QED
    BY <2>1, <2>2
<1>2. current.assignees \in Seq(People)
  BY DEF Objects
<1>3. /\ \A from, to : HandedOver(current.assignees, from, to) \in Seq(People)
      /\ TakenOff(current.assignees, request[r].key) \in Seq(People)
  BY <1>2, ListsOfPeople
<1>4. ForUpdate(r, i, current) \in Patches
  <2>1. [f \in Fields |-> IF Sends(r, f) # current.values[f] THEN Sends(r, f) ELSE Absent]
            \in [Fields -> Values \cup {Absent}]
    BY <1>1
  <2>2. QED
    BY <1>3, <2>1 DEF ForUpdate, Patches
<1>5. ForDelete(r, current) \in Patches
  BY <1>3 DEF ForDelete, Patches, NoPatch
<1>6. QED
  BY <1>1, <1>4, <1>5

\* A step that writes nothing, about the answer to a request or the next step of it.
LEMMA StaysTypes ==
    ASSUME Typed, UNCHANGED <<past, body, answer, edits>>, Addressed', Dated',
           faults' \in 0 .. MaxFaults, invalidated' \in {invalidated, version}
    PROVE  Grows /\ Typed'
<1>1. Grows /\ version' = version
  BY PastStays DEF Grows
<1>2. Budgets /\ invalidated \in 0 .. version /\ version \in Nat
  BY TypesAre
<1>3. Budgets' /\ invalidated' \in 0 .. version'
  BY <1>1, <1>2 DEF Budgets
<1>4. QED
  BY <1>1, <1>3, RestKeepsTypes, TypesGrow

LEMMA FaultTypes ==
    ASSUME Typed
    PROVE  faults \in 0 .. MaxFaults /\ (Fault => faults' \in 0 .. MaxFaults)
BY TypesAre, TasksBoundsAssumption DEF Fault, Budgets

LEMMA GetTypes ==
    ASSUME Typed, NEW r \in Requests, Get(r)
    PROVE  Grows /\ Typed'
<1>1. /\ pc[r] = "get" /\ UNCHANGED <<past, body, answer, invalidated, edits, faults>>
  BY DEF Get, feed
<1>2. Grows
  BY <1>1 DEF Grows
<1>3. PICK i \in Ids : i = target[r]
  BY <1>1, TypesAre DEF Addressed, TargetsAreObjects
<1>4. World[i] \in Objects
  BY TypesAre, PastIs
<1>5. ForUpdate(r, i, World[i]) \in Patches /\ ForDelete(r, World[i]) \in Patches
  BY <1>4, ForUpdateTypes
<1>6. ASSUME NEW p \in Patches, NEW point \in {"update", "archive"}, Prepare(r, p, point)
      PROVE  Addressed' /\ Dated'
  <2>1. Goto(r, point) /\ UNCHANGED <<sent, target>> /\ patch' = [patch EXCEPT ![r] = p]
    BY <1>6 DEF Prepare
  <2>2. patch' \in [Requests -> Patches] /\ point \in Points
    BY <2>1, TypesAre DEF Addressed, Points
  <2>3. QED
    BY <1>1, <1>2, <2>1, <2>2, GotoTypes
<1>7. \/ Reply(r)
      \/ Prepare(r, ForUpdate(r, i, World[i]), "update")
      \/ Prepare(r, ForDelete(r, World[i]), "update")
      \/ Prepare(r, NoPatch, "archive")
  BY <1>3 DEF Get
<1>8. Addressed' /\ Dated'
  BY <1>2, <1>5, <1>6, <1>7, ReplyTypes, NothingIsTyped
<1>9. QED
  BY <1>1, <1>8, StaysTypes, FaultTypes

LEMMA AnswersTypes ==
    ASSUME Typed, NEW r \in Requests, GetFails(r) \/ WriteFails(r) \/ Invalidate(r)
    PROVE  Grows /\ Typed'
<1>1. /\ Reply(r) /\ UNCHANGED <<past, body, answer, edits>>
      /\ invalidated' \in {invalidated, version} /\ faults' \in 0 .. MaxFaults
  <2>1. CASE GetFails(r)
    BY <2>1, FaultTypes DEF GetFails, feed
  <2>2. CASE WriteFails(r)
    BY <2>2, FaultTypes DEF WriteFails, feed
  <2>3. CASE Invalidate(r)
    BY <2>3, FaultTypes DEF Invalidate, feed
  <2>4. QED
    BY <2>1, <2>2, <2>3
<1>2. Addressed' /\ Dated'
  BY <1>1, ReplyTypes DEF Grows
<1>3. QED
  BY <1>1, <1>2, StaysTypes

LEMMA GetGoneTypes ==
    ASSUME Typed, NEW r \in Requests, GetGone(r)
    PROVE  Grows /\ Typed'
<1>1. /\ Absence(r, request[r]) /\ invalidated' = version
      /\ UNCHANGED <<past, body, answer, edits, faults>>
  BY DEF GetGone, feed
<1>2. request[r] \in RequestsFrom({request[r].base})
  BY RequestIs DEF RequestsFrom
<1>3. Addressed' /\ Dated'
  BY <1>1, <1>2, AbsenceTypes DEF Grows
<1>4. QED
  BY <1>1, <1>3, StaysTypes, FaultTypes

LEMMA EndsTypes ==
    ASSUME Typed, NEW r \in Requests, NEW i \in Ids, NEW object \in Objects,
           Holds(i, object), Ends(r)
    PROVE  Grows /\ Typed'
<1>1. Grows
  BY DEF Grows
<1>2. UNCHANGED <<body, answer, invalidated, edits>>
  BY DEF Ends, feed
<1>3. Addressed' /\ Dated' /\ Budgets'
  <2>1. CASE Goto(r, "invalidate") /\ UNCHANGED <<sent, locals, faults>>
    <3>1. patch' \in [Requests -> Patches] /\ UNCHANGED <<sent, target>>
      BY <2>1, TypesAre DEF Addressed, locals
    <3>2. Addressed' /\ Dated'
      BY <1>1, <2>1, <3>1, GotoTypes DEF Points
    <3>3. QED
      BY <1>2, <2>1, <3>2, TypesAre DEF Budgets
  <2>2. CASE Fault /\ Reply(r)
    BY <1>1, <1>2, <2>2, ReplyTypes, FaultTypes, TypesAre DEF Budgets
  <2>3. QED
    BY <2>1, <2>2 DEF Ends
<1>4. QED
  BY <1>1, <1>2, <1>3, RestKeepsTypes, TypesGrow

\* What is written.
LEMMA UpdateWrites ==
    ASSUME Typed, NEW r \in Requests, Update(r)
    PROVE  \E s \in Nat :
            /\ target[r] \in Ids /\ pc[r] = "update"
            /\ Patched(World[target[r]], patch[r], s) \in Objects
            /\ Holds(target[r], Patched(World[target[r]], patch[r], s))
<1>1. pc[r] = "update" /\ target[r] \in Ids /\ patch[r] \in Patches
  BY TypesAre DEF Update, Addressed, TargetsAreObjects
<1>2. PICK s \in Stamps : Holds(target[r], Patched(World[target[r]], patch[r], s))
  BY DEF Update
<1>3. World[target[r]] \in Objects
  BY <1>1, TypesAre, PastIs
<1>4. \A object \in Objects, p \in Patches : Patched(object, p, s) \in Objects
  <2> SUFFICES ASSUME NEW object \in Objects, NEW p \in Patches
               PROVE  Patched(object, p, s) \in Objects
    OBVIOUS
  <2>1. [f \in Fields |-> Given(p.values[f], object.values[f])] \in [Fields -> Values]
    BY DEF Given, Objects, Patches
  <2>2. Given(p.assignees, object.assignees) \in Seq(People)
    BY DEF Given, Objects, Patches
  <2>3. s \in Nat
    BY <1>2 DEF Stamps
  <2>4. Patched(object, p, s) =
            [object EXCEPT !.values = [f \in Fields |-> Given(p.values[f], object.values[f])],
                           !.assignees = Given(p.assignees, object.assignees), !.modified = s]
    BY DEF Patched, Objects
  <2>5. QED
    BY <2>1, <2>2, <2>3, <2>4 DEF Objects
<1>5. s \in Nat
  BY <1>2 DEF Stamps
<1>6. QED
  BY <1>1, <1>2, <1>3, <1>4, <1>5

LEMMA ArchiveWrites ==
    ASSUME Typed, NEW r \in Requests, Archive(r)
    PROVE  \E s \in Nat :
            /\ target[r] \in Ids /\ pc[r] = "archive"
            /\ [World[target[r]] EXCEPT !.status = "archived", !.modified = s] \in Objects
            /\ Holds(target[r],
                    [World[target[r]] EXCEPT !.status = "archived", !.modified = s])
<1>1. pc[r] = "archive" /\ target[r] \in Ids
  BY TypesAre DEF Archive, Addressed, TargetsAreObjects
<1>2. PICK s \in Stamps :
        Holds(target[r], [World[target[r]] EXCEPT !.status = "archived", !.modified = s])
  BY DEF Archive
<1>3. World[target[r]] \in Objects /\ s \in Nat
  BY <1>1, <1>2, TypesAre, PastIs DEF Stamps
<1>4. [World[target[r]] EXCEPT !.status = "archived", !.modified = s] \in Objects
  BY <1>3 DEF Objects
<1>5. QED
  BY <1>1, <1>2, <1>3, <1>4

LEMMA CreateWrites ==
    ASSUME Typed, NEW r \in Requests, Create(r)
    PROVE  \E i \in Ids, s \in Nat :
            /\ pc[r] = "create" /\ World[i].status = "none"
            /\ ForCreate(r, s) \in Objects /\ Holds(i, ForCreate(r, s))
<1>1. PICK i \in Ids, s \in Stamps : World[i].status = "none" /\ Holds(i, ForCreate(r, s))
  BY DEF Create
<1>2. s \in Nat /\ pc[r] = "create"
  BY <1>1 DEF Stamps, Create
<1>3. ForCreate(r, s) \in Objects
  <2>1. World[i] \in Objects
    BY TypesAre, PastIs
  <2>2. [f \in Fields |-> Sends(r, f)] \in [Fields -> Values]
    BY <2>1, ForUpdateTypes
  <2>3. (IF request[r].key \in People THEN <<request[r].key>> ELSE <<>>) \in Seq(People)
    OBVIOUS
  <2>4. QED
    BY <1>2, <2>2, <2>3 DEF ForCreate, Objects
<1>4. QED
  BY <1>1, <1>2, <1>3

\* One step of anybody.
LEMMA TypeStep == Typed /\ [Next]_vars => Grows /\ Typed'
<1> SUFFICES ASSUME Typed, [Next]_vars PROVE Grows /\ Typed'
  OBVIOUS
<1>1. CASE UNCHANGED vars
  <2>1. UNCHANGED <<past, body, answer, request, asked_after, pc, patch, target,
                    invalidated, edits, faults>>
    BY <1>1 DEF vars, feed, sent, locals
  <2>2. Grows
    BY <2>1 DEF Grows
  <2>3. Addressed' /\ Dated'
    BY <2>1, <2>2, RestKeepsTypes
  <2>4. QED
    BY <2>1, <2>3, StaysTypes, FaultTypes
<1>2. CASE \E i \in Ids : Edit(i)
  BY <1>2, EditTypes
<1>3. CASE Refresh
  BY <1>3, RefreshTypes
<1>4. ASSUME NEW r \in Requests, Send(r)
      PROVE  Grows /\ Typed'
  BY <1>4, SendTypes
<1>5. ASSUME NEW r \in Requests, Handle(r)
      PROVE  Grows /\ Typed'
  <2>1. CASE Locate(r)
    BY <2>1, LocateTypes
  <2>2. CASE Get(r)
    BY <2>2, GetTypes
  <2>3. CASE GetFails(r) \/ WriteFails(r) \/ Invalidate(r)
    BY <2>3, AnswersTypes
  <2>4. CASE GetGone(r)
    BY <2>4, GetGoneTypes
  <2>5. CASE Create(r)
    <3>1. Ends(r)
      BY <2>5 DEF Create
    <3>2. QED
      BY <2>5, <3>1, CreateWrites, EndsTypes
  <2>6. CASE Update(r)
    <3>1. Ends(r)
      BY <2>6 DEF Update
    <3>2. QED
      BY <2>6, <3>1, UpdateWrites, EndsTypes
  <2>7. CASE Archive(r)
    <3>1. Ends(r)
      BY <2>7 DEF Archive
    <3>2. QED
      BY <2>7, <3>1, ArchiveWrites, EndsTypes
  <2>8. QED
    BY <1>5, <2>1, <2>2, <2>3, <2>4, <2>5, <2>6, <2>7 DEF Handle
<1>6. QED
  BY <1>1, <1>2, <1>3, <1>4, <1>5 DEF Next

\* Every variable of the model of PUT and DELETE keeps its type.
THEOREM TasksTypeCorrect == Spec => []TypeOK
<1>1. Spec => []Typed
  BY InitialTypes, TypeStep, PTL DEF Spec
<1>2. Typed => TypeOK
  BY DEF Typed
<1>3. QED
  BY <1>1, <1>2, PTL

-----------------------------------------------------------------------------
(* What a request goes on from *)

\* No two objects change from a version to the next.
OneChangeAtATime ==
    \A v \in 1 .. version : \E k \in Ids : \A j \in Ids \ {k} : At(v)[j] = At(v - 1)[j]

\* Some moment between two versions the name did not have exactly one task.
Unsettled(a, b) == \E v \in a .. b : Cardinality(Live(At(v))) # 1

\* Somebody else's value of a field was there to be seen by the second of the base.
ChangedBy(q, i, f) ==
    \E v \in q.base.at .. version :
        /\ At(v)[i].status = "live"
        /\ At(v)[i].values[f] # BaseOf(q).values[f]
        /\ At(v)[i].modified <= Sequence(q)

\* Whoever has located the name was told of a version, and found there, or since, what it
\* goes on with.
ToldOf(r) ==
    pc[r] \in {"get", "create", "update", "archive"} =>
        /\ answer[r].body \in 0 .. version
        /\ request[r] \in SentFrom(request[r].base)
FoundThere(r) ==
    pc[r] \in {"get", "update", "archive"} =>
        /\ target[r] \in Live(At(answer[r].body))
        /\ request[r].op = "DELETE" =>
                Shows(answer[r].body, target[r], request[r].key, request[r].reader)
FoundNothing(r) == pc[r] = "create" => Unsettled(answer[r].body, version)
ArchivesForDelete(r) == pc[r] = "archive" => request[r].op = "DELETE"

\* What a PUT is about to write: a field of the base only where somebody's later value
\* was known to whoever sent it, and the assignees as a move makes them.
WritesWhatWasKnown(r) ==
    pc[r] = "update" /\ request[r].op = "PUT" /\ request[r].base # Absent =>
        \A f \in Fields \ {request[r].field} :
            patch[r].values[f] # Absent => ChangedBy(request[r], target[r], f)
HandsOver(r) ==
    pc[r] = "update" /\ Moving(r, target[r]) =>
        \E a \in Seq(People), from \in People \cup {Unassigned} :
            patch[r].assignees = HandedOver(a, from, request[r].key)

GoesOnFrom(r) ==
    /\ ToldOf(r) /\ FoundThere(r) /\ FoundNothing(r) /\ ArchivesForDelete(r)
    /\ WritesWhatWasKnown(r) /\ HandsOver(r)

TasksInv == Typed /\ OneChangeAtATime /\ \A r \in Requests : GoesOnFrom(r)

-----------------------------------------------------------------------------
(* The history, as it grows *)

LEMMA HistoryStays ==
    ASSUME Typed, Grows
    PROVE  /\ version \in Nat /\ version' \in Nat /\ version <= version'
           /\ \A v \in 0 .. version : At(v)' = At(v)
<1>1. TypeOK
  BY TypesAre
<1>2. \A v \in 0 .. version : At(v)' = At(v)
  BY <1>1, HoldsIs, PastStays DEF Grows
<1>3. QED
  BY <1>1, <1>2, GrowsTypes

LEMMA ChangesAreSingle ==
    ASSUME Typed, Grows, OneChangeAtATime
    PROVE  OneChangeAtATime'
<1>1. CASE past' = past
  BY <1>1 DEF OneChangeAtATime, version, At
<1>2. CASE \E i \in Ids, object \in Objects : Holds(i, object)
  <2>1. PICK i \in Ids, object \in Objects : Holds(i, object)
    BY <1>2
  <2>2. TypeOK
    BY TypesAre
  <2>3. /\ version \in Nat /\ version' = version + 1
        /\ World' = [World EXCEPT ![i] = object] /\ World \in [Ids -> Objects]
        /\ World = At(version) /\ \A v \in 0 .. version : At(v)' = At(v)
    BY <2>1, <2>2, HoldsIs, PastIs
  <2>4. Len(past') > 0 /\ past' \in Seq([Ids -> Objects])
    BY <2>1, <2>2, HoldsIs
  <2>5. PICK n : n = version
    OBVIOUS
  <2>6. At(n + 1)' = World' /\ At(n)' = World
    <3>1. Len(past') = n + 2 /\ n \in 0 .. version
      BY <2>3, <2>4, <2>5 DEF version
    <3>2. At(n + 1)' = World'
      BY <2>5, <3>1 DEF World, At
    <3>3. QED
      BY <2>3, <2>5, <3>1, <3>2
  <2>7. ASSUME NEW v \in 1 .. version'
        PROVE  \E k \in Ids : \A j \in Ids \ {k} : At(v)'[j] = At(v - 1)'[j]
    <3>1. CASE v = n + 1
      <4>1. v - 1 = n
        BY <2>3, <2>5, <3>1
      <4>2. At(v)' = World' /\ At(v - 1)' = World
        BY <2>6, <3>1, <4>1
      <4>3. \A j \in Ids \ {i} : At(v)'[j] = At(v - 1)'[j]
        BY <2>3, <4>2
      <4>4. QED
        BY <4>3
    <3>2. CASE v # n + 1
      <4>1. v \in 1 .. version /\ v \in 0 .. version /\ v - 1 \in 0 .. version
        BY <2>3, <2>5, <3>2
      <4>2. At(v)' = At(v) /\ At(v - 1)' = At(v - 1)
        BY <2>3, <4>1
      <4>3. QED
        BY <4>1, <4>2 DEF OneChangeAtATime
    <3>3. QED
      BY <3>1, <3>2
  <2>8. QED
    BY <2>7 DEF OneChangeAtATime
<1>3. QED
  BY <1>1, <1>2 DEF Grows

\* An object that was there and is not any more: at some moment between there were none
\* or two, for in one step one object does not come in another's place.
LEMMA GoneMeansUnsettled ==
    ASSUME Typed, OneChangeAtATime, NEW i \in Ids, NEW a \in 0 .. version, NEW b \in 0 .. version,
           a <= b, i \in Live(At(a)), i \notin Live(At(b))
    PROVE  Unsettled(a, b)
<1>1. SUFFICES ASSUME \A v \in a .. b : Cardinality(Live(At(v))) = 1
               PROVE  FALSE
  BY DEF Unsettled
<1>2. \A v \in a .. b : \E x : Live(At(v)) = {x}
  <2>1. \A v \in a .. b : IsFiniteSet(Live(At(v)))
    BY FS_Subset, IdsAssumption DEF Live
  <2>2. QED
    BY <1>1, <2>1, FS_Singleton
<1> DEFINE Gone == {v \in a .. b : i \notin Live(At(v))}
<1>3. version \in Nat
  BY TypesAre
<1>4. PICK v \in Gone : \A k \in Gone : v <= k
  <2>1. Gone \in SUBSET Nat /\ b \in Gone
    BY <1>3
  <2> HIDE DEF Gone
  <2>2. QED
    BY <2>1, LeastOne
<1>5. v # a
  BY <1>4
<1>6. v \in Int /\ v \in 1 .. version /\ v - 1 \in a .. b /\ v \in a .. b /\ i \notin Live(At(v))
  BY <1>3, <1>4, <1>5
<1>7. i \in Live(At(v - 1))
  <2>1. ~(v <= v - 1)
    BY <1>6
  <2>2. QED
    BY <1>4, <1>6, <2>1
<1>8. PICK j : Live(At(v)) = {j}
  BY <1>2, <1>6
<1>9. PICK k \in Ids : \A other \in Ids \ {k} : At(v)[other] = At(v - 1)[other]
  BY <1>6 DEF OneChangeAtATime
<1>10. j \in Ids /\ j # i /\ At(v)[j].status = "live"
  BY <1>6, <1>8 DEF Live
<1>11. k = i
  BY <1>6, <1>7, <1>9 DEF Live
<1>12. j \in Live(At(v - 1))
  BY <1>9, <1>10, <1>11 DEF Live
<1>13. QED
  BY <1>2, <1>6, <1>7, <1>10, <1>12

\* What a request goes on from stays so while others write.
LEMMA OthersGoOn ==
    ASSUME Typed, Grows, NEW r \in Requests, GoesOnFrom(r),
           pc'[r] = pc[r], request'[r] = request[r], answer'[r] = answer[r],
           patch'[r] = patch[r], target'[r] = target[r], asked_after'[r] = asked_after[r]
    PROVE  GoesOnFrom(r)'
<1>1. /\ version \in Nat /\ version' \in Nat /\ version <= version'
      /\ \A v \in 0 .. version : At(v)' = At(v)
  BY HistoryStays
<1>2. ToldOf(r)'
  BY <1>1 DEF GoesOnFrom, ToldOf
<1>3. PICK v : v = answer[r].body
  OBVIOUS
<1>4. FoundThere(r)'
  <2> SUFFICES ASSUME pc[r] \in {"get", "update", "archive"}
               PROVE  /\ target'[r] \in Live(At(v)')
                      /\ request'[r].op = "DELETE" =>
                            target'[r] \in View(Space(At(v)'), request'[r].key, request'[r].reader)
    BY <1>3 DEF FoundThere, Shows, At
  <2>1. v \in 0 .. version /\ FoundThere(r)
    BY <1>3 DEF GoesOnFrom, ToldOf
  <2>2. At(v)' = At(v)
    BY <1>1, <2>1
  <2>3. QED
    BY <1>3, <2>1, <2>2 DEF FoundThere, Shows
<1>5. FoundNothing(r)'
  <2> SUFFICES ASSUME pc[r] = "create"
               PROVE  Unsettled(answer[r].body, version)'
    BY DEF FoundNothing, Unsettled
  <2>1. PICK w \in v .. version : Cardinality(Live(At(w))) # 1
    BY <1>3 DEF GoesOnFrom, FoundNothing, Unsettled
  <2>2. v \in 0 .. version
    BY <1>3 DEF GoesOnFrom, ToldOf
  <2>3. w \in 0 .. version /\ w \in v .. version'
    BY <1>1, <2>1, <2>2
  <2>4. At(w)' = At(w)
    BY <1>1, <2>3
  <2>5. Cardinality(Live(At(w)')) # 1
    BY <2>1, <2>4
  <2>6. QED
    BY <1>3, <2>3, <2>5 DEF Unsettled, Live, At
<1>6. ArchivesForDelete(r)'
  BY DEF GoesOnFrom, ArchivesForDelete
<1>7. WritesWhatWasKnown(r)'
  <2> SUFFICES ASSUME pc[r] = "update" /\ request[r].op = "PUT" /\ request[r].base # Absent,
                      NEW f \in Fields \ {request[r].field}, patch[r].values[f] # Absent
               PROVE  ChangedBy(request[r], target[r], f)'
    BY DEF WritesWhatWasKnown
  <2>1. PICK w \in request[r].base.at .. version :
            /\ At(w)[target[r]].status = "live"
            /\ At(w)[target[r]].values[f] # BaseOf(request[r]).values[f]
            /\ At(w)[target[r]].modified <= Sequence(request[r])
    BY DEF GoesOnFrom, WritesWhatWasKnown, ChangedBy
  <2>2. request[r].base.at \in 0 .. version
    BY RequestIs
  <2>3. w \in 0 .. version /\ w \in request[r].base.at .. version'
    BY <1>1, <2>1, <2>2
  <2>4. At(w)' = At(w) /\ BaseOf(request[r])' = BaseOf(request[r])
    BY <1>1, <2>2, <2>3 DEF BaseOf, At
  <2>5. QED
    BY <2>1, <2>3, <2>4 DEF ChangedBy, Sequence, BaseOf, At
<1>8. HandsOver(r)'
  <2> SUFFICES ASSUME pc[r] = "update", Moving(r, target[r])'
               PROVE  \E a \in Seq(People), from \in People \cup {Unassigned} :
                        patch[r].assignees = HandedOver(a, from, request[r].key)
    BY DEF HandsOver
  <2>1. v \in 0 .. version
    BY <1>3 DEF GoesOnFrom, ToldOf
  <2>2. At(v)' = At(v)
    BY <1>1, <2>1
  <2>3. /\ request[r].op = "PUT"
        /\ target[r] \notin View(Space(At(v)'), request[r].key, request[r].reader)
    BY <1>3 DEF Moving, Shows, At
  <2>4. Moving(r, target[r])
    BY <1>3, <2>2, <2>3 DEF Moving, Shows
  <2>5. QED
    BY <2>4 DEF GoesOnFrom, HandsOver
<1>9. QED
  BY <1>2, <1>4, <1>5, <1>6, <1>7, <1>8 DEF GoesOnFrom

-----------------------------------------------------------------------------
(* What a step leaves a request to go on from *)

\* Only r moves.
Alone(r) ==
    \A s \in Requests \ {r} :
        /\ pc'[s] = pc[s] /\ request'[s] = request[s] /\ answer'[s] = answer[s]
        /\ patch'[s] = patch[s] /\ target'[s] = target[s] /\ asked_after'[s] = asked_after[s]

LEMMA AloneGoesOn ==
    ASSUME TasksInv, Grows, NEW r \in Requests, Alone(r), GoesOnFrom(r)'
    PROVE  \A s \in Requests : GoesOnFrom(s)'
<1> SUFFICES ASSUME NEW s \in Requests, s # r PROVE GoesOnFrom(s)'
  OBVIOUS
<1>1. /\ pc'[s] = pc[s] /\ request'[s] = request[s] /\ answer'[s] = answer[s]
      /\ patch'[s] = patch[s] /\ target'[s] = target[s] /\ asked_after'[s] = asked_after[s]
  BY DEF Alone
<1>2. Typed /\ GoesOnFrom(s)
  BY DEF TasksInv
<1>3. QED
  BY <1>1, <1>2, OthersGoOn

\* Where there is nothing to go on from.
LEMMA RestingGoesOn ==
    ASSUME NEW r \in Requests, pc'[r] \notin {"get", "create", "update", "archive"}
    PROVE  GoesOnFrom(r)'
BY DEF GoesOnFrom, ToldOf, FoundThere, FoundNothing, ArchivesForDelete,
       WritesWhatWasKnown, HandsOver

LEMMA ReplyGoesOn ==
    ASSUME TasksInv, Grows, NEW r \in Requests, Reply(r),
           \A s \in Requests \ {r} : answer'[s] = answer[s]
    PROVE  \A s \in Requests : GoesOnFrom(s)'
<1>1. Addressed /\ Dated
  BY TypesAre DEF TasksInv
<1>2. Alone(r) /\ pc'[r] = "done"
  BY <1>1 DEF Reply, Goto, Alone, Addressed, Dated
<1>3. QED
  BY <1>2, RestingGoesOn, AloneGoesOn

\* Nothing is found in the snapshot, or what was found there is gone.
LEMMA AbsenceGoesOn ==
    ASSUME TasksInv, Grows, NEW r \in Requests, NEW q \in SentFrom(request[r].base),
           Absence(r, q), past' = past,
           \A s \in Requests \ {r} : answer'[s] = answer[s],
           NEW b \in 0 .. version, answer'[r].body = b, Unsettled(b, version)
    PROVE  \A s \in Requests : GoesOnFrom(s)'
<1>1. CASE Reply(r)
  BY <1>1, ReplyGoesOn
<1>2. CASE /\ Goto(r, "create")
           /\ request' = [request EXCEPT ![r] = q]
           /\ UNCHANGED <<asked_after, locals>>
  <2>1. Addressed /\ Dated
    BY TypesAre DEF TasksInv
  <2>2. /\ Alone(r) /\ pc'[r] = "create" /\ request'[r] = q
        /\ asked_after'[r] = asked_after[r]
    BY <1>2, <2>1 DEF Goto, Alone, Addressed, Dated, locals
  <2>3. q \in SentFrom(q.base)
    BY DEF SentFrom, RequestsFrom
  <2>4. version' = version /\ Unsettled(b, version)'
    <3>1. version' = version
      BY PastStays
    <3>2. \A v : Live(At(v))' = Live(At(v))
      BY DEF Live, At
    <3>3. QED
      BY <2>2, <3>1, <3>2 DEF Unsettled
  <2>5. ToldOf(r)'
    BY <2>2, <2>3, <2>4 DEF ToldOf
  <2>6. FoundNothing(r)'
    BY <2>2, <2>4 DEF FoundNothing, Unsettled
  <2>7. GoesOnFrom(r)'
    BY <2>2, <2>5, <2>6
       DEF GoesOnFrom, FoundThere, ArchivesForDelete, WritesWhatWasKnown, HandsOver
  <2>8. QED
    BY <2>2, <2>7, AloneGoesOn
<1>3. QED
  BY <1>1, <1>2 DEF Absence

LEMMA PursueGoesOn ==
    ASSUME TasksInv, Grows, NEW r \in Requests, NEW q \in SentFrom(request[r].base),
           NEW i \in Live(At(body)), Pursue(r, q, i), Snapshot(r), body # C!NoBody,
           q.op = "DELETE" => Shows(body, i, q.key, q.reader)
    PROVE  \A s \in Requests : GoesOnFrom(s)'
<1>1. Typed /\ Addressed /\ Dated /\ body \in 0 .. version
  <2>1. body \in Int /\ body >= -1 /\ body # -1 /\ body <= version
    BY TypesAre DEF TasksInv, C!NoBody
  <2>2. QED
    BY <2>1, TypesAre DEF TasksInv
<1>2. /\ UNCHANGED <<past, body>> /\ version' = version
      /\ \A s \in Requests \ {r} : answer'[s] = answer[s]
      /\ answer'[r].body = body
  BY <1>1, SnapshotIs
<1>3. /\ Alone(r) /\ pc'[r] = "get" /\ target'[r] = i /\ request'[r] = q
      /\ asked_after'[r] = asked_after[r] /\ asked_after[r] \in 0 .. version
  BY <1>1, <1>2 DEF Pursue, Goto, Alone, Addressed, Dated
<1>4. q \in SentFrom(q.base)
  BY DEF SentFrom, RequestsFrom
<1>5. PICK v : v = body
  OBVIOUS
<1>6. At(v)' = At(v) /\ answer'[r].body = v
  BY <1>2, <1>5 DEF At
<1>7. ToldOf(r)'
  BY <1>1, <1>2, <1>3, <1>4 DEF ToldOf
<1>8. FoundThere(r)'
  <2>1. i \in Live(At(v)') /\ (q.op = "DELETE" => i \in View(Space(At(v)'), q.key, q.reader))
    BY <1>5, <1>6 DEF Shows
  <2>2. QED
    BY <1>3, <1>6, <2>1 DEF FoundThere, Shows, At
<1>9. GoesOnFrom(r)'
  BY <1>3, <1>7, <1>8
     DEF GoesOnFrom, FoundNothing, ArchivesForDelete, WritesWhatWasKnown, HandsOver
<1>10. QED
  BY <1>3, <1>9, AloneGoesOn

LEMMA LocateGoesOn ==
    ASSUME TasksInv, Grows, NEW r \in Requests, Locate(r)
    PROVE  \A s \in Requests : GoesOnFrom(s)'
<1>1. Typed /\ Dated /\ body \in Int /\ body >= -1 /\ body <= version
  BY TypesAre DEF TasksInv
<1>2. /\ UNCHANGED <<past, body>> /\ version' = version /\ Snapshot(r)
      /\ \A s \in Requests \ {r} : answer'[s] = answer[s]
      /\ answer'[r].body = body
  BY <1>1, SnapshotIs DEF Locate
<1>3. CASE Reply(r)
  BY <1>2, <1>3, ReplyGoesOn
<1>4. CASE body # C!NoBody /\ \E q \in SentFrom(request[r].base) : Located(r, q)
  <2>1. PICK q \in SentFrom(request[r].base) : Located(r, q)
    BY <1>4
  <2>2. body \in 0 .. version
    BY <1>1, <1>4 DEF C!NoBody
  <2>3. CASE Live(At(body)) = {} /\ Absence(r, q)
    <3>1. Cardinality(Live(At(body))) # 1
      BY <2>3, FS_EmptySet
    <3>2. Unsettled(body, version)
      BY <1>1, <2>2, <3>1 DEF Unsettled
    <3>3. QED
      BY <1>2, <2>2, <2>3, <3>2, AbsenceGoesOn
  <2>4. CASE \E i \in Live(At(body)) :
                (q.op = "DELETE" => Shows(body, i, q.key, q.reader)) /\ Pursue(r, q, i)
    BY <1>2, <1>4, <2>4, PursueGoesOn
  <2>5. CASE Reply(r)
    BY <1>2, <2>5, ReplyGoesOn
  <2>6. QED
    BY <2>1, <2>3, <2>4, <2>5 DEF Located
<1>5. QED
  BY <1>3, <1>4 DEF Locate

LEMMA GetGoneGoesOn ==
    ASSUME TasksInv, Grows, NEW r \in Requests, GetGone(r)
    PROVE  \A s \in Requests : GoesOnFrom(s)'
<1>1. /\ pc[r] = "get" /\ World[target[r]].status = "archived"
      /\ Absence(r, request[r]) /\ UNCHANGED <<past, answer>>
  BY DEF GetGone, feed
<1>2. /\ Typed /\ OneChangeAtATime /\ version \in Nat /\ World = At(version)
  <2>1. Typed /\ OneChangeAtATime /\ TypeOK /\ version \in Nat
    BY TypesAre DEF TasksInv
  <2>2. QED
    BY <2>1, PastIs
<1>3. /\ answer[r].body \in 0 .. version /\ target[r] \in Live(At(answer[r].body))
      /\ request[r] \in SentFrom(request[r].base)
  BY <1>1 DEF TasksInv, GoesOnFrom, ToldOf, FoundThere
<1>4. target[r] \notin Live(At(version)) /\ target[r] \in Ids
  BY <1>1, <1>2, <1>3 DEF Live
<1>5. Unsettled(answer[r].body, version)
  BY <1>2, <1>3, <1>4, GoneMeansUnsettled
<1>6. QED
  BY <1>1, <1>3, <1>5, AbsenceGoesOn

LEMMA GetGoesOn ==
    ASSUME TasksInv, Grows, NEW r \in Requests, Get(r)
    PROVE  \A s \in Requests : GoesOnFrom(s)'
<1>1. pc[r] = "get" /\ UNCHANGED <<past, answer>> /\ version' = version
  BY PastStays DEF Get, feed
<1>2. CASE Reply(r)
  BY <1>1, <1>2, ReplyGoesOn
<1>3. ASSUME NEW p \in Patches, NEW point \in {"update", "archive"}, Prepare(r, p, point),
             point = "archive" => request[r].op = "DELETE",
             WritesWhatWasKnown(r)', HandsOver(r)'
      PROVE  \A s \in Requests : GoesOnFrom(s)'
  <2>1. Addressed /\ Dated
    BY TypesAre DEF TasksInv
  <2>2. /\ Alone(r) /\ pc'[r] = point /\ UNCHANGED <<request, asked_after, target>>
    BY <1>1, <1>3, <2>1 DEF Prepare, Goto, Alone, Addressed, Dated, sent
  <2>3. ToldOf(r) /\ FoundThere(r)
    BY DEF TasksInv, GoesOnFrom
  <2>4. ToldOf(r)'
    BY <1>1, <2>2, <2>3 DEF ToldOf
  <2>5. FoundThere(r)'
    <3>1. \A v : At(v)' = At(v)
      BY <1>1 DEF At
    <3>2. QED
      BY <1>1, <2>2, <2>3, <3>1 DEF FoundThere, Shows
  <2>6. GoesOnFrom(r)'
    BY <1>3, <2>2, <2>4, <2>5 DEF GoesOnFrom, FoundNothing, ArchivesForDelete
  <2>7. QED
    BY <2>2, <2>6, AloneGoesOn
<1>4. PICK i \in Ids : i = target[r]
  BY <1>1, TypesAre DEF TasksInv, Addressed, TargetsAreObjects
<1>5. World[i] \in Objects /\ World = At(version) /\ version \in Nat
  BY TypesAre, PastIs DEF TasksInv
<1>6. CASE /\ World[i].status = "live" /\ ~Refused(r, i, World[i]) /\ request[r].op = "PUT"
           /\ Prepare(r, ForUpdate(r, i, World[i]), "update")
  <2>1. ForUpdate(r, i, World[i]) \in Patches
    BY <1>5, ForUpdateTypes DEF TasksInv
  <2>2. /\ pc'[r] = "update" /\ patch'[r] = ForUpdate(r, i, World[i])
        /\ request' = request /\ target' = target
    BY <1>6, TypesAre DEF TasksInv, Prepare, Goto, Addressed, sent
  <2>3. WritesWhatWasKnown(r)'
    <3> SUFFICES ASSUME request[r].base # Absent,
                        NEW f \in Fields \ {request[r].field}, patch'[r].values[f] # Absent
                 PROVE  ChangedBy(request[r], i, f)'
      BY <1>4, <2>2 DEF WritesWhatWasKnown
    <3>1. patch'[r].values[f] =
            IF Sends(r, f) # World[i].values[f] THEN Sends(r, f) ELSE Absent
      BY <2>2 DEF ForUpdate
    <3>2. Sends(r, f) = BaseOf(request[r]).values[f]
      BY DEF Sends
    <3>3. World[i].values[f] # BaseOf(request[r]).values[f]
      BY <3>1, <3>2
    <3>4. Sequence(request[r]) >= World[i].modified
      <4>1. request[r].base \in Bases /\ BaseOf(request[r]) \in Objects
        BY RequestIs DEF TasksInv
      <4>2. request[r].bump \in Nat
        <5>1. request[r] \in RequestsFrom(Bases \cup {Absent})
          BY RequestIs DEF TasksInv
        <5>2. request[r].bump \in Bumps \cup {0}
          BY <5>1 DEF RequestsFrom
        <5>3. \A bump \in Bumps : bump \in Nat
          BY TasksBoundsAssumption
        <5>4. QED
          BY <5>2, <5>3
      <4>3. Sequence(request[r]) \in Nat /\ World[i].modified \in Nat
        BY <1>5, <4>1, <4>2 DEF Sequence, Objects
      <4>4. ~(Sequence(request[r]) < World[i].modified)
        BY <1>6 DEF Refused, MadeFromOlder
      <4>5. QED
        BY <4>3, <4>4
    <3>5. version \in request[r].base.at .. version
      BY <1>5, RequestIs DEF TasksInv
    <3>6. ChangedBy(request[r], i, f)
      BY <1>5, <1>6, <3>3, <3>4, <3>5 DEF ChangedBy
    <3>7. QED
      BY <1>1, <2>2, <3>6 DEF ChangedBy, Sequence, BaseOf, At
  <2>4. HandsOver(r)'
    <3> SUFFICES ASSUME Moving(r, i)'
                 PROVE  \E a \in Seq(People), from \in People \cup {Unassigned} :
                          patch'[r].assignees = HandedOver(a, from, request[r].key)
      BY <1>4, <2>2 DEF HandsOver
    <3> DEFINE b == ServedByAt(answer[r].body, i, request[r].reader)
    <3>1. Moving(r, i)
      BY <1>1, <2>2 DEF Moving, Shows, At
    <3>2. patch'[r].assignees = HandedOver(World[i].assignees, b, request[r].key)
      BY <2>2, <3>1 DEF ForUpdate
    <3>3. World[i].assignees \in Seq(People)
      BY <1>5 DEF Objects
    <3>4. b \in People \cup {Unassigned}
      <4>1. answer[r].body \in 0 .. version
        BY <1>1 DEF TasksInv, GoesOnFrom, ToldOf
      <4>2. At(answer[r].body)[i] \in Objects
        BY <4>1, TypesAre, PastIs DEF TasksInv
      <4>3. At(answer[r].body)[i].assignees \in Seq(People)
        BY <4>2 DEF Objects
      <4>4. \A reader : \A a \in Seq(People) : ServedBy(a, reader) \in People \cup {Unassigned}
        BY DEF ServedBy, FiledUnder, Assigned
      <4>5. QED
        BY <4>3, <4>4 DEF ServedByAt
    <3>5. QED
      BY <3>2, <3>3, <3>4
  <2>5. QED
    BY <1>3, <1>6, <2>1, <2>3, <2>4
<1>7. CASE request[r].op = "DELETE" /\ Prepare(r, ForDelete(r, World[i]), "update")
  <2>1. ForDelete(r, World[i]) \in Patches
    BY <1>5, ForUpdateTypes DEF TasksInv
  <2>2. request' = request
    BY <1>7 DEF Prepare, sent
  <2>3. WritesWhatWasKnown(r)' /\ HandsOver(r)'
    BY <1>7, <2>2 DEF WritesWhatWasKnown, HandsOver, Moving
  <2>4. QED
    BY <1>3, <1>7, <2>1, <2>3
<1>8. CASE request[r].op = "DELETE" /\ Prepare(r, NoPatch, "archive")
  <2>1. request' = request
    BY <1>8 DEF Prepare, sent
  <2>2. WritesWhatWasKnown(r)' /\ HandsOver(r)'
    BY <1>8, <2>1 DEF WritesWhatWasKnown, HandsOver, Moving
  <2>3. QED
    BY <1>3, <1>8, <2>2, NothingIsTyped
<1>9. QED
  BY <1>2, <1>4, <1>6, <1>7, <1>8 DEF Get

\* The initial states have no history and no request under way.
LEMMA InitialInv == Init => TasksInv
<1> SUFFICES ASSUME Init PROVE TasksInv
  OBVIOUS
<1>1. Typed
  BY InitialTypes
<1>2. OneChangeAtATime
  <2>1. Len(past) = 1
    BY DEF Init, Scenario
  <2>2. version = 0
    BY <2>1 DEF version
  <2>3. QED
    BY <2>2 DEF OneChangeAtATime
<1>3. \A r \in Requests : pc[r] \in {"idle", "done"}
  BY DEF Init, Scenario
<1>4. \A r \in Requests : GoesOnFrom(r)
  BY <1>3 DEF GoesOnFrom, ToldOf, FoundThere, FoundNothing, ArchivesForDelete,
              WritesWhatWasKnown, HandsOver
<1>5. QED
  BY <1>1, <1>2, <1>4 DEF TasksInv

LEMMA EndsGoesOn ==
    ASSUME TasksInv, Grows, NEW r \in Requests, Ends(r)
    PROVE  \A s \in Requests : GoesOnFrom(s)'
<1>1. answer' = answer
  BY DEF Ends, feed
<1>2. CASE Reply(r)
  BY <1>1, <1>2, ReplyGoesOn
<1>3. CASE Goto(r, "invalidate") /\ UNCHANGED <<sent, locals, faults>>
  <2>1. Alone(r) /\ pc'[r] = "invalidate"
    BY <1>1, <1>3, TypesAre DEF TasksInv, Goto, Alone, Addressed, sent, locals
  <2>2. QED
    BY <2>1, RestingGoesOn, AloneGoesOn
<1>4. QED
  BY <1>2, <1>3 DEF Ends

\* Every step of anybody keeps the invariant.
THEOREM TasksStep == TasksInv /\ [Next]_vars => TasksInv'
<1> SUFFICES ASSUME TasksInv, [Next]_vars PROVE TasksInv'
  OBVIOUS
<1>1. Typed /\ OneChangeAtATime /\ \A s \in Requests : GoesOnFrom(s)
  BY DEF TasksInv
<1>2. Grows /\ Typed' /\ OneChangeAtATime'
  BY <1>1, TypeStep, ChangesAreSingle
<1>3. ASSUME UNCHANGED <<answer, request, asked_after, pc, patch, target>>
      PROVE  \A s \in Requests : GoesOnFrom(s)'
  BY <1>1, <1>2, <1>3, OthersGoOn
<1>4. CASE UNCHANGED vars
  BY <1>2, <1>3, <1>4 DEF vars, feed, sent, locals, TasksInv
<1>5. CASE \E i \in Ids : Edit(i)
  <2>1. UNCHANGED <<answer, request, asked_after, pc, patch, target>>
    BY <1>5 DEF Edit, feed, sent, locals
  <2>2. QED
    BY <1>2, <1>3, <2>1 DEF TasksInv
<1>6. CASE Refresh
  <2>1. UNCHANGED <<answer, request, asked_after, pc, patch, target>>
    BY <1>6 DEF Refresh, C!Replace, sent, locals
  <2>2. QED
    BY <1>2, <1>3, <2>1 DEF TasksInv
<1>7. ASSUME NEW r \in Requests, Send(r)
      PROVE  \A s \in Requests : GoesOnFrom(s)'
  <2>1. Alone(r) /\ pc'[r] = "locate"
    BY <1>1, <1>7, TypesAre DEF Send, Goto, Alone, Addressed, Dated, feed, locals
  <2>2. QED
    BY <1>2, <2>1, RestingGoesOn, AloneGoesOn
<1>8. ASSUME NEW r \in Requests, Handle(r)
      PROVE  \A s \in Requests : GoesOnFrom(s)'
  <2>1. CASE Locate(r)
    BY <1>2, <2>1, LocateGoesOn
  <2>2. CASE Get(r)
    BY <1>2, <2>2, GetGoesOn
  <2>3. CASE GetGone(r)
    BY <1>2, <2>3, GetGoneGoesOn
  <2>4. CASE GetFails(r)
    BY <1>2, <2>4, ReplyGoesOn DEF GetFails, feed
  <2>5. CASE WriteFails(r)
    BY <1>2, <2>5, ReplyGoesOn DEF WriteFails, feed
  <2>6. CASE Invalidate(r)
    BY <1>2, <2>6, ReplyGoesOn DEF Invalidate, feed
  <2>7. CASE Create(r)
    BY <1>2, <2>7, EndsGoesOn DEF Create
  <2>8. CASE Update(r)
    BY <1>2, <2>8, EndsGoesOn DEF Update
  <2>9. CASE Archive(r)
    BY <1>2, <2>9, EndsGoesOn DEF Archive
  <2>10. QED
    BY <1>8, <2>1, <2>2, <2>3, <2>4, <2>5, <2>6, <2>7, <2>8, <2>9 DEF Handle
<1>9. QED
  BY <1>2, <1>4, <1>5, <1>6, <1>7, <1>8 DEF Next, TasksInv

\* What requests go on from holds of every reachable state.
THEOREM TasksInvariant == Spec => []TasksInv
BY InitialInv, TasksStep, PTL DEF Spec

-----------------------------------------------------------------------------
(* The properties *)

\* The comment of `collection_view`, whoever reads and however often the task was edited,
\* moved and handed over: it is in exactly one of the calendars the reader can see.
THEOREM EachTaskIsShownOnce == Spec => []EachTaskShownOnce
<1>1. TypeOK => EachTaskShownOnce
  <2> SUFFICES ASSUME TypeOK, NEW reader \in Readers, NEW i \in Live(World)
               PROVE  Cardinality({key \in Keys : Shows(version, i, key, reader)}) = 1
    BY DEF EachTaskShownOnce
  <2> DEFINE space == Space(World)
             home == ServedBy(space[i], reader)
  <2>1. World \in [Ids -> Objects] /\ At(version) = World
    BY PastIs
  <2>2. i \in DOMAIN space /\ space[i] = World[i].assignees
    BY DEF Space
  <2>3. space[i] \in Seq(People)
    BY <2>1, <2>2 DEF Live, Objects
  <2>4. home \in Keys
    BY <2>3 DEF ServedBy, FiledUnder, Readers, Assigned, Keys
  <2> HIDE DEF space, home
  <2>5. ASSUME NEW key \in Keys PROVE Shows(version, i, key, reader) <=> key = home
    BY <2>1, <2>2, <2>3, ShownWhereServed DEF Shows, Keys, space, home
  <2>6. {key \in Keys : Shows(version, i, key, reader)} = {home}
    BY <2>4, <2>5
  <2>7. QED
    BY <2>6, FS_Singleton
<1>2. QED
  BY <1>1, TasksTypeCorrect, PTL

\* The comment of `made_from_older`: whatever a PUT overwrites that its client did not
\* edit was written by the second its SEQUENCE tells, by somebody the client knew of.
THEOREM EditsOfOthersAreKept == Spec => EditsOfOthersSurvive
<1> DEFINE Kept ==
        \A r \in Requests :
            LET q == request[r]
            IN Update(r) /\ q.op = "PUT" /\ q.base # Absent =>
                \A f \in Fields \ {q.field} :
                    World'[target[r]].values[f] = World[target[r]].values[f]
                    \/ \E v \in q.base.at .. version :
                        /\ At(v)[target[r]].status = "live"
                        /\ At(v)[target[r]].values[f] # BaseOf(q).values[f]
                        /\ At(v)[target[r]].modified <= Sequence(q)
<1>1. ASSUME TasksInv, NEW r \in Requests, Update(r), request[r].op = "PUT",
             request[r].base # Absent, NEW f \in Fields \ {request[r].field},
             World'[target[r]].values[f] # World[target[r]].values[f]
      PROVE  ChangedBy(request[r], target[r], f)
  <2>1. PICK s \in Nat :
            /\ target[r] \in Ids /\ pc[r] = "update"
            /\ Patched(World[target[r]], patch[r], s) \in Objects
            /\ Holds(target[r], Patched(World[target[r]], patch[r], s))
    BY <1>1, UpdateWrites DEF TasksInv
  <2>2. World'[target[r]] = Patched(World[target[r]], patch[r], s)
    <3>1. TypeOK
      BY <1>1, TypesAre DEF TasksInv
    <3>2. World \in [Ids -> Objects]
      BY <3>1, PastIs
    <3>3. World' = [World EXCEPT ![target[r]] = Patched(World[target[r]], patch[r], s)]
      BY <2>1, <3>1, HoldsIs
    <3>4. QED
      BY <2>1, <3>2, <3>3
  <2>3. World[target[r]] \in Objects
    BY <1>1, <2>1, TypesAre, PastIs DEF TasksInv
  <2>4. World'[target[r]].values[f] = Given(patch[r].values[f], World[target[r]].values[f])
    BY <2>2, <2>3 DEF Patched, Objects
  <2>5. patch[r].values[f] # Absent
    BY <1>1, <2>4 DEF Given
  <2>6. WritesWhatWasKnown(r)
    BY <1>1 DEF TasksInv, GoesOnFrom
  <2>7. QED
    BY <1>1, <2>1, <2>5, <2>6 DEF WritesWhatWasKnown
<1>2. TasksInv => Kept
  BY <1>1 DEF ChangedBy
<1>3. TasksInv => [Kept]_vars
  BY <1>2
<1>4. QED
  BY <1>3, TasksInvariant, PTL DEF EditsOfOthersSurvive

\* A task is made only where, at some moment since the snapshot the PUT was answered from,
\* there was not exactly one: a PUT that could have found the task does not make another.
THEOREM CreatesSeeEarlierTasks == Spec => CreateSeesEarlierTasks
<1> DEFINE Seen ==
        \A r \in Requests :
            Create(r) =>
                \E v \in answer[r].body .. version : Cardinality(Live(At(v))) # 1
<1>1. TasksInv => Seen
  BY DEF TasksInv, GoesOnFrom, FoundNothing, Unsettled, Create
<1>2. TasksInv => [Seen]_vars
  BY <1>1
<1>3. QED
  BY <1>2, TasksInvariant, PTL DEF CreateSeesEarlierTasks

\* The DELETE of a move, answered from a snapshot that shows the PUT, leaves the task it
\* handed over alone.
THEOREM DeletesSeeTheMove == Spec => DeleteSeesTheMove
<1> DEFINE Seen == \A r \in Requests : asked_after[r] <= answer[r].body => LeavesMovedTasks(r)
<1>1. ASSUME TasksInv, NEW r \in Requests, asked_after[r] <= answer[r].body,
             Archive(r) \/ (Update(r) /\ request[r].op = "DELETE")
      PROVE  \E v \in asked_after[r] .. version :
                Shows(v, target[r], request[r].key, request[r].reader)
  <2>1. pc[r] \in {"update", "archive"} /\ ToldOf(r) /\ FoundThere(r) /\ ArchivesForDelete(r)
    BY <1>1 DEF TasksInv, GoesOnFrom, Archive, Update
  <2>2. request[r].op = "DELETE"
    BY <1>1, <2>1 DEF ArchivesForDelete, Archive
  <2>3. asked_after[r] \in 0 .. version /\ version \in Nat
    BY <1>1, TypesAre DEF TasksInv, Dated
  <2>4. answer[r].body \in asked_after[r] .. version
    BY <1>1, <2>1, <2>3 DEF ToldOf
  <2>5. QED
    BY <2>1, <2>2, <2>4 DEF FoundThere
<1>2. TasksInv => Seen
  BY <1>1 DEF LeavesMovedTasks
<1>3. TasksInv => [Seen]_vars
  BY <1>2
<1>4. QED
  BY <1>3, TasksInvariant, PTL DEF DeleteSeesTheMove

\* The comment of `handed_over`: a move ends in the calendar it was sent to, for the one
\* who sent it, also when others changed the assignees while it was under way.
THEOREM MovesAreShown == Spec => MovedIsShownThere
<1> DEFINE Shown ==
        \A r \in Requests :
            LET i == target[r]
            IN /\ Update(r) /\ Moving(r, i) /\ request[r].key \in People
               /\ World[i].status = "live"
               => i \in View(Space(World'), request[r].key, request[r].reader)
<1>1. ASSUME TasksInv, NEW r \in Requests, Update(r), Moving(r, target[r]),
             request[r].key \in People, World[target[r]].status = "live"
      PROVE  target[r] \in View(Space(World'), request[r].key, request[r].reader)
  <2>1. PICK s \in Nat :
            /\ target[r] \in Ids /\ pc[r] = "update"
            /\ Patched(World[target[r]], patch[r], s) \in Objects
            /\ Holds(target[r], Patched(World[target[r]], patch[r], s))
    BY <1>1, UpdateWrites DEF TasksInv
  <2>2. World \in [Ids -> Objects] /\ TypeOK
    BY <1>1, TypesAre, PastIs DEF TasksInv
  <2>3. World'[target[r]] = Patched(World[target[r]], patch[r], s)
    BY <2>1, <2>2, HoldsIs
  <2>4. PICK a \in Seq(People), from \in People \cup {Unassigned} :
            patch[r].assignees = HandedOver(a, from, request[r].key)
    BY <1>1, <2>1 DEF TasksInv, GoesOnFrom, HandsOver
  <2>5. patch[r].assignees \in Seq(People) /\ patch[r].assignees[1] = request[r].key
        /\ patch[r].assignees # <<>>
    BY <1>1, <2>4, HandedOverIsFirst
  <2>6. /\ World'[target[r]].assignees = patch[r].assignees
        /\ World'[target[r]].status = "live"
    <3>1. World[target[r]] \in Objects
      BY <2>1, <2>2
    <3>2. Given(patch[r].assignees, World[target[r]].assignees) = patch[r].assignees
      BY <2>5, AbsentAssumption DEF Given
    <3>3. QED
      BY <1>1, <2>3, <3>1, <3>2 DEF Patched, Objects
  <2>7. request[r].reader \in {Nobody, request[r].key}
    <3>1. request[r] \in SentFrom(request[r].base)
      BY <1>1, <2>1 DEF TasksInv, GoesOnFrom, ToldOf
    <3>2. request[r].reader \in ClientsOf(request[r].key)
      BY <3>1 DEF SentFrom
    <3>3. QED
      BY <1>1, <3>2, CalendarsAssumption DEF ClientsOf, Home
  <2> DEFINE space == Space(World')
  <2>8. target[r] \in DOMAIN space /\ space[target[r]] = patch[r].assignees
    BY <2>1, <2>6 DEF Space, Live
  <2> HIDE DEF space
  <2>9. ServedBy(patch[r].assignees, request[r].reader) = request[r].key
    BY <2>5, <2>7, CalendarsAssumption DEF ServedBy, FiledUnder, Assigned
  <2>10. request[r].reader \in Readers
    BY <1>1, <2>7 DEF Readers
  <2>11. target[r] \in View(space, request[r].key, request[r].reader)
    BY <1>1, <2>5, <2>8, <2>9, <2>10, ShownWhereServed
  <2>12. QED
    BY <2>11 DEF space
<1>2. TasksInv => Shown
  BY <1>1
<1>3. TasksInv => [Shown]_vars
  BY <1>2
<1>4. QED
  BY <1>3, TasksInvariant, PTL DEF MovedIsShownThere
=============================================================================
