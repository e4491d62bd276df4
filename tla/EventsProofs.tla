---------------------------- MODULE EventsProofs ----------------------------
(***************************************************************************)
(* Proofs about Events for any clients, occurrences, objects and bounds.   *)
(***************************************************************************)
EXTENDS Events, FiniteSetTheorems, WellFoundedInduction, TLAPS

-----------------------------------------------------------------------------
(* The inductive invariant *)

\* An object that a resource was once served for, whatever became of it.
Known(i) == objects[i].uid \/ objects[i].status = "archived"

\* Occurrences are linked to what has a name of its own, and only they are linked.
WellLinked(i) ==
    /\ objects[i].uid => objects[i].series = None /\ objects[i].occurrence = None
    /\ objects[i].series # None => Known(objects[i].series) /\ objects[i].occurrence # None
    /\ objects[i].status = "none" => ~objects[i].uid
    /\ objects[i].recurring => objects[i].uid
Linkage == \A i \in Ids : WellLinked(i)

\* A resource without a rule excludes and replaces nothing.
Tidy(ics) == ~ics.rule => ics.exdates = {} /\ ics.replaced = {}
TidyBody(body) == ~body.rule => body.exdates = {} /\ body.replaced = NotReplaced

ServesKnown(snapshot) ==
    /\ \A one \in snapshot.event : Known(one.id) /\ Tidy(one.ics)
    /\ \A one \in snapshot.deadline : Known(one.id)

\* What a request that is under way is about.
Addressed(c) ==
    /\ pc[c] \notin {"idle", "locate", "store", "new"} => held[c].id \in Ids /\ Known(held[c].id)
    /\ pc[c] \in {"list", "new", "apply"} => request[c].of = "event"
    /\ pc[c] # "idle" /\ request[c].op = "PUT" => \A one \in copy[c] : one.of = request[c].of
    /\ pc[c] \in {"new", "apply"} => TidyBody(request[c].body)
    /\ pc[c] = "new" => plan[c] = ForCreate(request[c].body)
    /\ \A one \in copy[c] : one.of = "event" => Tidy(one.ics)
    /\ \A snapshot \in held[c].listing : ServesKnown(snapshot)

Parts(id) == {i \in Ids : Alive(objects[i]) /\ objects[i].series = id}

\* The series is still what the request read, but that search may have found it.
SameEvent(object, was) ==
    /\ Alive(object)
    /\ object.value = was.value /\ object.dated = was.dated /\ object.rule = was.rule
    /\ object.exdates = was.exdates /\ object.recurring = was.recurring

Reads(c) == \A was \in held[c].master : was.rule /\ SameEvent(objects[held[c].id], was)

Carries(object, body) ==
    object.value = body.value /\ object.rule = body.rule /\ object.exdates = body.exdates

\* The master is as the body says, or will be.
MasterAgrees(c) ==
    LET master == objects[held[c].id]
    IN  /\ Alive(master)
        /\ IF MasterWritten(c)
             THEN Carries(master, request[c].body)
             ELSE \A patch \in plan[c].master : Carries(Patched(master, patch), request[c].body)

\* Each write of the plan makes an occurrence what the body says of it.
WritesAgree(c) ==
    LET body == request[c].body
    IN  /\ \A write \in plan[c].update :
            /\ write[1] \in Parts(held[c].id)
            /\ write[2] = body.replaced[objects[write[1]].occurrence]
        /\ \A write \in plan[c].create : write[2] = body.replaced[write[1]]

\* What the body has is there, or to be written; and it stays.
SentIsThere(c) ==
    LET body == request[c].body
    IN  \A d \in Sends(body) :
            \/ <<d, body.replaced[d]>> \in plan[c].create
            \/ \E i \in Parts(held[c].id) \ plan[c].archive :
                /\ objects[i].occurrence = d
                /\ \/ objects[i].value = body.replaced[d]
                   \/ <<i, body.replaced[d]>> \in plan[c].update

MayStay(c, i) ==
    /\ objects[held[c].id].recurring
    /\ objects[i].occurrence \notin request[c].body.exdates

\* What is there is what the body has, or goes.
OnlySentIsThere(c) ==
    LET body == request[c].body
    IN  (\A was \in held[c].master : was.rule) =>
            \A i \in Parts(held[c].id) :
                \/ i \in plan[c].archive
                \/ objects[i].value = body.replaced[objects[i].occurrence]
                \/ <<i, body.replaced[objects[i].occurrence]>> \in plan[c].update
                \/ MayStay(c, i)

\* A meeting that goes is excluded.
ArchivesExcluded(c) ==
    \A i \in plan[c].archive :
        objects[held[c].id].recurring => objects[i].occurrence \in request[c].body.exdates

\* Under If-Match the plan touches what the client changed.
Protects(c) ==
    request[c].condition = "If-Match" =>
        \A i \in plan[c].archive \cup {write[1] : write \in plan[c].update} :
            Alive(objects[i]) => ChangesOccurrence(c, objects[i].occurrence)

Applies(c) ==
    /\ MasterAgrees(c) /\ WritesAgree(c) /\ SentIsThere(c) /\ OnlySentIsThere(c)
    /\ ArchivesExcluded(c) /\ Protects(c) /\ plan[c].archive \subseteq Parts(held[c].id)

\* Whatever a DELETE would leave behind it archives first, but for the record.
Deletes(c) ==
    /\ plan[c].archive \subseteq Parts(held[c].id)
    /\ (\E was \in held[c].master : was.rule) =>
            \A i \in Parts(held[c].id) :
                \/ i \in plan[c].archive
                \/ objects[held[c].id].recurring /\ objects[i].occurrence \in TookPlace

Undisturbed(c) ==
    ~disturbed[c] =>
        /\ pc[c] = "list" => Reads(c)
        /\ pc[c] = "apply" => Applies(c)
        /\ pc[c] = "delete" => Deletes(c)

EventsInv ==
    /\ TypeOK /\ Linkage
    /\ \A snapshot \in cache : ServesKnown(snapshot)
    /\ \A c \in Clients : Addressed(c) /\ Undisturbed(c)
-----------------------------------------------------------------------------
(* The clock, the next id, and what a write leaves *)

\* A set of numbers has a least one: induction, in the form the provers can use.
LEMMA LeastOne ==
    ASSUME NEW S \in SUBSET Nat, S # {}
    PROVE  \E n \in S : \A k \in S : n <= k
<1> DEFINE R == OpToRel(<, Nat)
<1>1. IsWellFoundedOn(R, Nat)
  BY NatLessThanWellFounded
<1>2. \A x, y \in S : <<y, x>> \in R <=> y < x
  BY DEF OpToRel
<1> HIDE DEF R
<1>3. PICK n \in S : \A k \in S : ~(<<k, n>> \in R)
  BY <1>1, WFMin, Zenon
<1>4. \A k \in S : ~(k < n)
  BY <1>2, <1>3, Zenon
<1>5. QED
  BY <1>4

LEMMA NextIdIsNew ==
    ASSUME RoomLeft
    PROVE  NextId \in Ids /\ objects[NextId].status = "none"
<1> DEFINE Free == {i \in Ids : objects[i].status = "none"}
<1>1. Free \in SUBSET Nat /\ Free # {}
  BY EventsAssumption DEF RoomLeft
<1>2. PICK n \in Free : \A k \in Free : n <= k
  BY <1>1, LeastOne
<1>3. n \in Ids /\ objects[n].status = "none" /\ \A j \in Ids : objects[j].status = "none" => n <= j
  BY <1>2
<1>4. QED
  BY <1>3 DEF NextId

LEMMA NowType ==
    ASSUME objects \in [Ids -> Objects]
    PROVE  Now \in 0 .. MaxSecond
<1> DEFINE Seconds == {objects[i].modified : i \in Ids}
           Left == {MaxSecond - s : s \in Seconds}
<1>1. Seconds \subseteq 0 .. MaxSecond /\ Seconds # {} /\ MaxSecond \in Nat
  BY EventsAssumption DEF Objects
<1>2. Left \in SUBSET Nat /\ Left # {}
  BY <1>1
<1> HIDE DEF Left
<1>3. PICK n \in Left : \A k \in Left : n <= k
  BY <1>2, LeastOne
<1>4. PICK s \in Seconds : n = MaxSecond - s
  BY <1>3 DEF Left
<1>5. \A t \in Seconds : t <= s
  <2>1. TAKE t \in Seconds
  <2>2. MaxSecond - t \in Left
    BY DEF Left
  <2>3. MaxSecond - s <= MaxSecond - t
    BY <1>3, <1>4, <2>2
  <2>4. t \in Int /\ s \in Int /\ MaxSecond \in Int
    BY <1>1
  <2>5. QED
    BY <2>3, <2>4
<1>6. \E t \in Seconds : \A i \in Ids : objects[i].modified <= t
  BY <1>5
<1>7. Latest \in Seconds
  BY <1>6 DEF Latest
<1>8. QED
  BY <1>1, <1>7 DEF Now

LEMMA AValueType == AValue \in Values
  BY EventsAssumption DEF AValue

LEMMA NoObjectType == NoObject \in Objects /\ Archived \in Objects
<1>1. 0 \in 0 .. MaxSecond
  BY EventsAssumption
<1>2. NoObject \in Objects
  BY <1>1, AValueType DEF NoObject, Objects, Optional
<1>3. QED
  BY <1>2 DEF Archived, Objects

\* What is written is there, but for its second; an archived object is as good as none.
LEMMA HoldsIt ==
    ASSUME objects \in [Ids -> Objects], NEW i \in Ids, NEW object \in Objects, Holds(i, object)
    PROVE  /\ objects' \in [Ids -> Objects]
           /\ \A j \in Ids \ {i} : objects'[j] = objects[j]
           /\ object.status # "archived" =>
                \E s \in 0 .. MaxSecond : objects'[i] = [object EXCEPT !.modified = s]
           /\ object.status = "archived" =>
                \E s \in 0 .. MaxSecond : objects'[i] = [Archived EXCEPT !.modified = s]
<1>1. Now \in 0 .. MaxSecond
  BY NowType
<1>2. [object EXCEPT !.modified = Now] \in Objects /\ [Archived EXCEPT !.modified = Now] \in Objects
  BY <1>1, NoObjectType DEF Objects
<1>3. QED
  BY <1>1, <1>2 DEF Holds

\* A write over an object keeps its links or archives it.
LEMMA WritesOver ==
    ASSUME objects \in [Ids -> Objects], Linkage,
           NEW i \in Ids, NEW object \in Objects, Holds(i, object),
           \/ object.status = "archived"
           \/ /\ object.status = objects[i].status /\ object.uid = objects[i].uid
              /\ object.series = objects[i].series /\ object.occurrence = objects[i].occurrence
              /\ object.recurring = objects[i].recurring
    PROVE  Linkage' /\ \A k \in Ids : Known(k) => Known(k)'
<1>1. /\ objects' \in [Ids -> Objects] /\ \A j \in Ids \ {i} : objects'[j] = objects[j]
      /\ object.status # "archived" =>
            \E s \in 0 .. MaxSecond : objects'[i] = [object EXCEPT !.modified = s]
      /\ object.status = "archived" =>
            \E s \in 0 .. MaxSecond : objects'[i] = [Archived EXCEPT !.modified = s]
  BY HoldsIt
<1>2. \/ /\ objects'[i].status = "archived" /\ ~objects'[i].uid /\ ~objects'[i].recurring
         /\ objects'[i].series = None /\ objects'[i].occurrence = None
      \/ /\ objects'[i].status = objects[i].status /\ objects'[i].uid = objects[i].uid
         /\ objects'[i].series = objects[i].series
         /\ objects'[i].recurring = objects[i].recurring
         /\ objects'[i].occurrence = objects[i].occurrence
  <2>1. CASE object.status = "archived"
    BY <1>1, <2>1 DEF Archived, NoObject
  <2>2. CASE object.status # "archived"
    <3>1. PICK s \in 0 .. MaxSecond : objects'[i] = [object EXCEPT !.modified = s]
      BY <1>1, <2>2
    <3>2. QED
      BY <2>2, <3>1 DEF Objects
  <2>3. QED
    BY <2>1, <2>2
<1>3. \A k \in Ids : Known(k) => Known(k)'
  BY <1>1, <1>2 DEF Known
<1>4. \A k \in Ids : objects[k].series # None => objects[k].series \in Ids
  BY DEF Objects, Optional
<1>5. ASSUME NEW k \in Ids
      PROVE  WellLinked(k)'
  <2>1. CASE k = i
    BY <1>2, <1>3, <1>4, <2>1 DEF Linkage, WellLinked, Known
  <2>2. CASE k # i
    BY <1>1, <1>3, <1>4, <2>2 DEF Linkage, WellLinked, Known
  <2>3. QED
    BY <2>1, <2>2
<1>6. Linkage'
  BY <1>5 DEF Linkage
<1>7. QED
  BY <1>3, <1>6

\* A new object has a name, or is linked to one that does.
LEMMA WritesNew ==
    ASSUME objects \in [Ids -> Objects], Linkage,
           NEW i \in Ids, NEW object \in Objects, Holds(i, object),
           objects[i].status = "none", object.status # "archived", object.status # "none",
           \/ object.uid /\ object.series = None /\ object.occurrence = None
           \/ /\ object.series \in Ids /\ Known(object.series)
              /\ object.occurrence # None /\ ~object.uid /\ ~object.recurring
    PROVE  Linkage' /\ \A k \in Ids : Known(k) => Known(k)'
<1>1. /\ objects' \in [Ids -> Objects] /\ \A j \in Ids \ {i} : objects'[j] = objects[j]
      /\ \E s \in 0 .. MaxSecond : objects'[i] = [object EXCEPT !.modified = s]
  BY HoldsIt
<1>2. /\ objects'[i].status = object.status /\ objects'[i].uid = object.uid
      /\ objects'[i].series = object.series /\ objects'[i].occurrence = object.occurrence
      /\ objects'[i].recurring = object.recurring
  BY <1>1 DEF Objects
<1>3. ~Known(i)
  BY DEF Linkage, WellLinked, Known
<1>4. \A k \in Ids : Known(k) => Known(k)'
  BY <1>1, <1>3 DEF Known
<1>5. \A k \in Ids : objects[k].series # None => objects[k].series \in Ids
  BY DEF Objects, Optional
<1>6. ASSUME NEW k \in Ids
      PROVE  WellLinked(k)'
  <2>1. CASE k = i
    BY <1>2, <1>4, <2>1 DEF Linkage, WellLinked, Known
  <2>2. CASE k # i
    BY <1>1, <1>4, <1>5, <2>2 DEF Linkage, WellLinked, Known
  <2>3. QED
    BY <2>1, <2>2
<1>7. Linkage'
  BY <1>6 DEF Linkage
<1>8. QED
  BY <1>4, <1>7

-----------------------------------------------------------------------------
(* What a step means to a client that it is not a step of *)

\* Nothing is written; search may find something.
OnlyFound ==
    /\ objects' \in [Ids -> Objects]
    /\ \A i \in Ids :
        \/ objects'[i] = objects[i]
        \/ objects[i].status = "new" /\ objects'[i] = [objects[i] EXCEPT !.status = "live"]

LEMMA FoundIsTheSame ==
    ASSUME objects \in [Ids -> Objects], OnlyFound
    PROVE  /\ \A i \in Ids :
                /\ Alive(objects'[i]) = Alive(objects[i])
                /\ objects'[i].value = objects[i].value /\ objects'[i].dated = objects[i].dated
                /\ objects'[i].rule = objects[i].rule /\ objects'[i].exdates = objects[i].exdates
                /\ objects'[i].series = objects[i].series
                /\ objects'[i].occurrence = objects[i].occurrence
                /\ objects'[i].recurring = objects[i].recurring /\ objects'[i].uid = objects[i].uid
           /\ \A id : Parts(id)' = Parts(id)
<1>1. ASSUME NEW i \in Ids
      PROVE  /\ Alive(objects'[i]) = Alive(objects[i])
             /\ objects'[i].value = objects[i].value /\ objects'[i].dated = objects[i].dated
             /\ objects'[i].rule = objects[i].rule /\ objects'[i].exdates = objects[i].exdates
             /\ objects'[i].series = objects[i].series
             /\ objects'[i].occurrence = objects[i].occurrence
             /\ objects'[i].recurring = objects[i].recurring /\ objects'[i].uid = objects[i].uid
  BY DEF OnlyFound, Objects, Alive
<1>2. QED
  BY <1>1 DEF Parts

LEMMA PatchedFields ==
    ASSUME NEW object \in Objects, NEW patch
    PROVE  /\ Patched(object, patch).value = IF patch.value = None THEN object.value ELSE patch.value
           /\ Patched(object, patch).rule = IF patch.rule = None THEN object.rule ELSE patch.rule
           /\ patch.exdates = {} => Patched(object, patch).exdates = object.exdates
           /\ patch.exdates # {} => Patched(object, patch).exdates = UNION patch.exdates
           /\ Patched(object, patch).recurring = object.recurring
           /\ Patched(object, patch).status = object.status
           /\ Patched(object, patch).uid = object.uid
           /\ Patched(object, patch).series = object.series
           /\ Patched(object, patch).occurrence = object.occurrence
<1>1. UNION {object.exdates} = object.exdates
  OBVIOUS
<1>2. QED
  BY <1>1 DEF Patched, Objects

LEMMA PatchedAlike ==
    ASSUME NEW a \in Objects, NEW b \in Objects, NEW patch, NEW body,
           a.value = b.value, a.rule = b.rule, a.exdates = b.exdates,
           Carries(Patched(a, patch), body)
    PROVE  Carries(Patched(b, patch), body)
<1>1. Patched(b, patch).value = Patched(a, patch).value
  BY DEF Patched, Objects
<1>2. Patched(b, patch).rule = Patched(a, patch).rule
  BY DEF Patched, Objects
<1>3. Patched(b, patch).exdates = Patched(a, patch).exdates
  BY DEF Patched, Objects
<1>4. QED
  BY <1>1, <1>2, <1>3 DEF Carries

\* The client's own place and what it holds.
Rests(c) ==
    /\ pc'[c] = pc[c] /\ held'[c] = held[c] /\ plan'[c] = plan[c]
    /\ request'[c] = request[c] /\ copy'[c] = copy[c]

LEMMA FoundKeepsReads ==
    ASSUME objects \in [Ids -> Objects], OnlyFound, NEW c \in Clients, Rests(c),
           held[c].id \in Ids, Reads(c)
    PROVE  Reads(c)'
BY FoundIsTheSame DEF Rests, Reads, SameEvent, Alive

LEMMA FoundKeepsDeletes ==
    ASSUME objects \in [Ids -> Objects], OnlyFound, NEW c \in Clients, Rests(c),
           held[c].id \in Ids, Deletes(c)
    PROVE  Deletes(c)'
<1>1. Parts(held[c].id)' = Parts(held'[c].id) /\ Parts(held[c].id) \subseteq Ids
  BY FoundIsTheSame DEF Rests, Parts
<1>2. QED
  BY <1>1, FoundIsTheSame DEF Rests, Deletes

LEMMA FoundKeepsApplies ==
    ASSUME TypeOK, OnlyFound, NEW c \in Clients, Rests(c), held[c].id \in Ids, Applies(c)
    PROVE  Applies(c)'
<1> DEFINE id == held[c].id
           body == request[c].body
<1>1. /\ objects \in [Ids -> Objects] /\ objects' \in [Ids -> Objects]
      /\ plan[c] \in Plans
  BY DEF TypeOK, OnlyFound
<1>2. Parts(id)' = Parts(id) /\ Parts(id) \subseteq Ids
  BY <1>1, FoundIsTheSame DEF Parts, Rests
<1>3. MasterAgrees(c)'
  <2>1. Alive(objects'[id]) /\ (Carries(objects[id], body) => Carries(objects'[id], body))
    BY <1>1, FoundIsTheSame DEF Applies, MasterAgrees, Carries
  <2>2. ASSUME NEW patch, Carries(Patched(objects[id], patch), body)
        PROVE  Carries(Patched(objects'[id], patch), body)
    <3>1. objects[id] \in Objects /\ objects'[id] \in Objects
      BY <1>1
    <3>2. /\ objects'[id].value = objects[id].value /\ objects'[id].rule = objects[id].rule
          /\ objects'[id].exdates = objects[id].exdates
      BY <1>1, FoundIsTheSame
    <3>3. QED
      BY <2>2, <3>1, <3>2, PatchedAlike
  <2>3. QED
    BY <2>1, <2>2 DEF Applies, MasterAgrees, MasterWritten, Rests
<1>4. WritesAgree(c)'
  BY <1>1, <1>2, FoundIsTheSame DEF Applies, WritesAgree, Rests
<1>5. SentIsThere(c)'
  <2>1. \A i \in Parts(id) : /\ objects'[i].occurrence = objects[i].occurrence
                            /\ objects'[i].value = objects[i].value
    BY <1>1, <1>2, FoundIsTheSame
  <2>2. ASSUME NEW d \in Sends(body)
        PROVE  \/ <<d, body.replaced[d]>> \in plan[c].create
               \/ \E i \in Parts(id)' \ plan[c].archive :
                    /\ objects'[i].occurrence = d
                    /\ \/ objects'[i].value = body.replaced[d]
                       \/ <<i, body.replaced[d]>> \in plan[c].update
    BY <1>2, <2>1 DEF Applies, SentIsThere
  <2>3. QED
    BY <2>2 DEF SentIsThere, Rests
<1>6. OnlySentIsThere(c)'
  BY <1>1, <1>2, FoundIsTheSame DEF Applies, OnlySentIsThere, MayStay, Rests
<1>7. ArchivesExcluded(c)'
  BY <1>1, <1>2, FoundIsTheSame DEF Applies, ArchivesExcluded, Rests
<1>8. Protects(c)'
  <2>1. plan[c].archive \cup {write[1] : write \in plan[c].update} \subseteq Ids
    BY <1>1 DEF Plans
  <2>2. \A i \in Ids : /\ Alive(objects'[i]) = Alive(objects[i])
                       /\ objects'[i].occurrence = objects[i].occurrence
    BY <1>1, FoundIsTheSame
  <2>3. \A d : ChangesOccurrence(c, d) => ChangesOccurrence(c, d)'
    BY DEF ChangesOccurrence, Rests
  <2>4. QED
    BY <2>1, <2>2, <2>3 DEF Applies, Protects, Rests
<1>9. plan'[c].archive \subseteq Parts(held[c].id)'
  BY <1>2 DEF Applies, Rests
<1>10. QED
  BY <1>3, <1>4, <1>5, <1>6, <1>7, <1>8, <1>9 DEF Applies, Rests

\* What others do leaves a request as it was, or disturbs it.
LEMMA Bystander ==
    ASSUME TypeOK, NEW c \in Clients, Rests(c), Addressed(c), Undisturbed(c),
           \A k \in Ids : Known(k) => Known(k)',
           Reading(c) /\ ~disturbed'[c] => ~disturbed[c] /\ OnlyFound
    PROVE  Addressed(c)' /\ Undisturbed(c)'
<1>1. /\ objects \in [Ids -> Objects]
      /\ held[c].listing \subseteq Listings
  BY DEF TypeOK
<1>2. \A snapshot \in Listings : ServesKnown(snapshot) => ServesKnown(snapshot)'
  BY DEF ServesKnown, Listings
<1>3. Addressed(c)'
  BY <1>1, <1>2 DEF Addressed, Rests
<1>4. ASSUME ~disturbed'[c], pc[c] \in {"list", "apply", "delete"}
      PROVE  /\ pc[c] = "list" => Reads(c)'
             /\ pc[c] = "apply" => Applies(c)'
             /\ pc[c] = "delete" => Deletes(c)'
  <2>1. Reading(c) /\ ~disturbed[c] /\ OnlyFound
    BY <1>4 DEF Reading
  <2>2. held[c].id \in Ids
    BY <1>4 DEF Addressed
  <2>3. QED
    BY <1>1, <2>1, <2>2, FoundKeepsReads, FoundKeepsApplies, FoundKeepsDeletes DEF Undisturbed
<1>5. QED
  BY <1>3, <1>4 DEF Undisturbed, Rests

-----------------------------------------------------------------------------
(* Initial states *)

LEMMA RestingTypes ==
    /\ NotReplaced \in [Occurrences -> Optional(Values)] /\ NoBody \in Bodies
    /\ NotSent \in Requests /\ NoPlan \in Plans
    /\ NothingHeld \in [id : Optional(Ids), listing : SUBSET Listings, master : SUBSET Objects]
    /\ TidyBody(NoBody)
<1>1. NotReplaced \in [Occurrences -> Optional(Values)]
  BY DEF NotReplaced, Optional
<1>2. NoBody \in Bodies
  BY <1>1, AValueType DEF NoBody, Bodies
<1>3. NotSent \in Requests
  BY <1>2 DEF NotSent, Requests, Operations, Resources
<1>4. NoPlan \in Plans
  BY DEF NoPlan, Plans
<1>5. NothingHeld \in [id : Optional(Ids), listing : SUBSET Listings, master : SUBSET Objects]
  BY DEF NothingHeld, Optional
<1>6. TidyBody(NoBody)
  BY DEF TidyBody, NoBody
<1>7. QED
  BY <1>1, <1>2, <1>3, <1>4, <1>5, <1>6

LEMMA TwoIds == First \in Ids /\ Second \in Ids /\ First # Second
<1>1. PICK n \in Ids : \A k \in Ids : n <= k
  <2>1. Ids \in SUBSET Nat /\ Ids # {}
    BY EventsAssumption
  <2>2. QED
    BY <2>1, LeastOne
<1>2. First \in Ids
  BY <1>1 DEF First
<1>3. PICK m \in Ids \ {First} : \A k \in Ids \ {First} : m <= k
  <2>1. PICK i \in Ids, j \in Ids : i # j
    BY EventsAssumption
  <2>2. i \in Ids \ {First} \/ j \in Ids \ {First}
    BY <2>1
  <2>3. Ids \ {First} \in SUBSET Nat /\ Ids \ {First} # {}
    BY <2>2, EventsAssumption
  <2>4. QED
    BY <2>3, LeastOne
<1>4. Second \in Ids \ {First}
  BY <1>3 DEF Second
<1>5. QED
  BY <1>2, <1>4

LEMMA InitialObjects == Init => objects \in [Ids -> Objects] /\ Linkage
<1> SUFFICES ASSUME Init PROVE objects \in [Ids -> Objects] /\ Linkage
  OBVIOUS
<1> DEFINE Blank == [i \in Ids |-> NoObject]
<1>1. /\ First \in Ids /\ Second \in Ids /\ First # Second /\ AValue \in Values
      /\ NoObject \in Objects /\ None \notin Ids /\ None \notin Occurrences
  BY TwoIds, AValueType, NoObjectType, EventsAssumption
<1>2. Event \in Objects /\ Event.uid /\ Event.series = None /\ Event.occurrence = None
      /\ Event.status = "live"
  BY <1>1 DEF Event, NoObject, Objects
<1>3. CASE objects = Blank
  BY <1>1, <1>3 DEF Linkage, WellLinked, Known, NoObject
<1>4. CASE \E deadline \in {None, AValue} :
              objects = [Blank EXCEPT ![First] = [Event EXCEPT !.deadline = deadline]]
  <2>1. PICK deadline \in {None, AValue} :
              objects = [Blank EXCEPT ![First] = [Event EXCEPT !.deadline = deadline]]
    BY <1>4
  <2>2. [Event EXCEPT !.deadline = deadline] \in Objects
    BY <1>1, <1>2 DEF Objects, Optional
  <2>3. /\ objects[First].uid /\ objects[First].series = None /\ objects[First].occurrence = None
        /\ objects[First].status = "live" /\ \A i \in Ids \ {First} : objects[i] = NoObject
    BY <1>1, <1>2, <2>1 DEF Objects
  <2>4. QED
    BY <1>1, <2>1, <2>2, <2>3 DEF Linkage, WellLinked, Known, NoObject
<1>5. ASSUME NEW recurring \in BOOLEAN
      PROVE  /\ [Event EXCEPT !.rule = TRUE, !.recurring = recurring] \in Objects
             /\ [Event EXCEPT !.rule = TRUE, !.recurring = recurring].uid
             /\ [Event EXCEPT !.rule = TRUE, !.recurring = recurring].series = None
             /\ [Event EXCEPT !.rule = TRUE, !.recurring = recurring].occurrence = None
             /\ [Event EXCEPT !.rule = TRUE, !.recurring = recurring].status = "live"
  BY <1>2 DEF Objects
<1>6. CASE \E recurring \in BOOLEAN :
              objects = [Blank EXCEPT ![First] = [Event EXCEPT !.rule = TRUE, !.recurring = recurring]]
  <2>1. PICK recurring \in BOOLEAN :
              objects = [Blank EXCEPT ![First] = [Event EXCEPT !.rule = TRUE, !.recurring = recurring]]
    BY <1>6
  <2>2. /\ objects[First].uid /\ objects[First].series = None /\ objects[First].occurrence = None
        /\ objects[First].status = "live" /\ \A i \in Ids \ {First} : objects[i] = NoObject
    BY <1>1, <1>5, <2>1
  <2>3. QED
    BY <1>1, <1>5, <2>1, <2>2 DEF Linkage, WellLinked, Known, NoObject
<1>7. CASE \E recurring \in BOOLEAN : \E d \in Occurrences :
              objects = [Blank EXCEPT ![First] = [Event EXCEPT !.rule = TRUE, !.recurring = recurring],
                                      ![Second] = Occurrence(d)]
  <2>1. PICK recurring \in BOOLEAN, d \in Occurrences :
              objects = [Blank EXCEPT ![First] = [Event EXCEPT !.rule = TRUE, !.recurring = recurring],
                                      ![Second] = Occurrence(d)]
    BY <1>7
  <2>2. /\ Occurrence(d) \in Objects /\ ~Occurrence(d).uid /\ Occurrence(d).series = First
        /\ Occurrence(d).occurrence = d /\ Occurrence(d).status = "live" /\ ~Occurrence(d).recurring
    BY <1>1 DEF Occurrence, NoObject, Objects, Optional
  <2>3. /\ objects[First].uid /\ objects[First].series = None /\ objects[First].occurrence = None
        /\ objects[First].status = "live" /\ objects[Second] = Occurrence(d)
        /\ \A i \in Ids \ {First, Second} : objects[i] = NoObject
    BY <1>1, <1>5, <2>1
  <2>4. QED
    BY <1>1, <1>5, <2>1, <2>2, <2>3 DEF Linkage, WellLinked, Known, NoObject
<1>8. QED
  BY <1>3, <1>4, <1>6, <1>7 DEF Init

LEMMA InitialInvariant == Init => EventsInv
<1> SUFFICES ASSUME Init PROVE EventsInv
  OBVIOUS
<1>1. TypeOK
  <2>1. /\ cache = {} /\ copy = [c \in Clients |-> {}] /\ request = [c \in Clients |-> NotSent]
        /\ pc = [c \in Clients |-> "idle"] /\ held = [c \in Clients |-> NothingHeld]
        /\ plan = [c \in Clients |-> NoPlan] /\ disturbed = [c \in Clients |-> FALSE]
        /\ turns = MaxTurns
    BY DEF Init
  <2>2. objects \in [Ids -> Objects]
    BY InitialObjects
  <2>3. turns \in 0 .. MaxTurns
    BY <2>1, EventsAssumption
  <2>4. copy \in [Clients -> SUBSET Copies] /\ pc \in [Clients -> Points]
        /\ disturbed \in [Clients -> BOOLEAN] /\ cache \subseteq Listings
    BY <2>1 DEF Points
  <2>5. /\ request \in [Clients -> Requests] /\ plan \in [Clients -> Plans]
        /\ held \in [Clients -> [id : Optional(Ids), listing : SUBSET Listings,
                                   master : SUBSET Objects]]
    BY <2>1, RestingTypes
  <2>6. QED
    BY <2>2, <2>3, <2>4, <2>5 DEF TypeOK
<1>2. \A c \in Clients : Addressed(c) /\ Undisturbed(c)
  BY DEF Init, Addressed, Undisturbed, NothingHeld
<1>3. QED
  BY <1>1, <1>2, InitialObjects DEF Init, EventsInv

-----------------------------------------------------------------------------
(* People, the generator, search *)

\* The parts of the invariant, put together after a step.
LEMMA Together ==
    ASSUME EventsInv, TypeOK', Linkage', \A k \in Ids : Known(k) => Known(k)',
           \A snapshot \in cache' : snapshot \in cache \/ ServesKnown(snapshot)',
           \A c \in Clients :
                \/ Addressed(c)' /\ Undisturbed(c)'
                \/ /\ Rests(c)
                   /\ Reading(c) /\ ~disturbed'[c] => ~disturbed[c] /\ OnlyFound
    PROVE  EventsInv'
<1>1. \A snapshot \in Listings : ServesKnown(snapshot) => ServesKnown(snapshot)'
  BY DEF ServesKnown, Listings
<1>2. \A snapshot \in cache' : ServesKnown(snapshot)'
  BY <1>1 DEF EventsInv, TypeOK
<1>3. ASSUME NEW c \in Clients PROVE Addressed(c)' /\ Undisturbed(c)'
  BY <1>3, Bystander DEF EventsInv
<1>4. QED
  BY <1>2, <1>3 DEF EventsInv

LEMMA NothingWritten ==
    ASSUME TypeOK, objects' = objects
    PROVE  OnlyFound /\ (Linkage => Linkage') /\ \A k \in Ids : Known(k) => Known(k)'
BY DEF TypeOK, OnlyFound, Linkage, WellLinked, Known

LEMMA EditKeeps ==
    ASSUME EventsInv, NEW i \in Ids, Edit(i)
    PROVE  EventsInv'
<1>1. objects \in [Ids -> Objects] /\ Linkage /\ turns \in 0 .. MaxTurns /\ MaxTurns \in Nat
  BY EventsAssumption DEF EventsInv, TypeOK
<1>2. PICK object \in Edited(objects[i]) : Holds(i, object)
  BY DEF Edit
<1>3. /\ object \in Objects
      /\ \/ object.status = "archived"
         \/ /\ object.status = objects[i].status /\ object.uid = objects[i].uid
            /\ object.series = objects[i].series /\ object.occurrence = objects[i].occurrence
            /\ object.recurring = objects[i].recurring
  <2>1. objects[i] \in Objects /\ object \in Edited(objects[i])
    BY <1>1, <1>2
  <2>2. CASE \E v \in Values : object = [objects[i] EXCEPT !.value = v]
    BY <2>1, <2>2 DEF Objects
  <2>3. CASE object = [objects[i] EXCEPT !.status = "archived"]
    BY <2>1, <2>3 DEF Objects
  <2>4. CASE object = [objects[i] EXCEPT !.rule = ~@]
    BY <2>1, <2>4 DEF Objects
  <2>5. CASE object = [objects[i] EXCEPT !.dated = FALSE]
    BY <2>1, <2>5 DEF Objects
  <2>6. QED
    BY <2>1, <2>2, <2>3, <2>4, <2>5 DEF Edited
<1>4. objects' \in [Ids -> Objects]
  BY <1>1, <1>2, <1>3, HoldsIt
<1>5. Linkage' /\ \A k \in Ids : Known(k) => Known(k)'
  BY <1>1, <1>2, <1>3, WritesOver
<1>6. TypeOK'
  <2>1. turns' \in 0 .. MaxTurns
    BY <1>1 DEF Edit, Turn
  <2>2. disturbed' \in [Clients -> BOOLEAN]
    BY DEF Edit, DisturbsAll, Reading, EventsInv, TypeOK
  <2>3. QED
    BY <1>4, <2>1, <2>2 DEF Edit, server, clients, EventsInv, TypeOK
<1>7. \A c \in Clients : Rests(c) /\ (Reading(c) => disturbed'[c])
  BY DEF Edit, server, clients, Rests, DisturbsAll
<1>8. cache' = cache
  BY DEF Edit, server
<1>9. QED
  BY <1>5, <1>6, <1>7, <1>8, Together

LEMMA MakeMeetingKeeps ==
    ASSUME EventsInv, NEW m \in Ids, NEW d \in Occurrences, MakeMeeting(m, d)
    PROVE  EventsInv'
<1>1. objects \in [Ids -> Objects] /\ Linkage /\ turns \in 0 .. MaxTurns /\ MaxTurns \in Nat
  BY EventsAssumption DEF EventsInv, TypeOK
<1> DEFINE meeting == [Occurrence(d) EXCEPT !.status = "new", !.series = m]
<1>2. NextId \in Ids /\ objects[NextId].status = "none"
  BY NextIdIsNew DEF MakeMeeting
<1>3. /\ meeting \in Objects /\ meeting.status = "new" /\ meeting.series = m /\ meeting.occurrence # None
      /\ ~meeting.uid /\ ~meeting.recurring
  BY NoObjectType, EventsAssumption DEF Occurrence, NoObject, Objects, Optional
<1>4. Known(m)
  BY <1>1 DEF MakeMeeting, Linkage, WellLinked, Known
<1>5. Holds(NextId, meeting)
  BY DEF MakeMeeting
<1> HIDE DEF meeting
<1>6. objects' \in [Ids -> Objects]
  BY <1>1, <1>2, <1>3, <1>5, HoldsIt
<1>7. Linkage' /\ \A k \in Ids : Known(k) => Known(k)'
  BY <1>1, <1>2, <1>3, <1>4, <1>5, WritesNew
<1>8. TypeOK'
  <2>1. turns' \in 0 .. MaxTurns
    BY <1>1 DEF MakeMeeting, Turn
  <2>2. disturbed' \in [Clients -> BOOLEAN]
    BY DEF MakeMeeting, DisturbsAll, Reading, EventsInv, TypeOK
  <2>3. QED
    BY <1>6, <2>1, <2>2 DEF MakeMeeting, server, clients, EventsInv, TypeOK
<1>9. \A c \in Clients : Rests(c) /\ (Reading(c) => disturbed'[c])
  BY DEF MakeMeeting, server, clients, Rests, DisturbsAll
<1>10. cache' = cache
  BY DEF MakeMeeting, server
<1>11. QED
  BY <1>7, <1>8, <1>9, <1>10, Together

LEMMA IndexKeeps ==
    ASSUME EventsInv, NEW i \in Ids, Index(i)
    PROVE  EventsInv'
<1>1. objects \in [Ids -> Objects] /\ Linkage
  BY DEF EventsInv, TypeOK
<1>2. OnlyFound
  BY <1>1 DEF Index, OnlyFound, Objects
<1>3. \A k \in Ids : /\ objects'[k].uid = objects[k].uid
                     /\ objects'[k].series = objects[k].series
                     /\ objects'[k].occurrence = objects[k].occurrence
                     /\ objects'[k].recurring = objects[k].recurring
                     /\ objects[k].status = "archived" <=> objects'[k].status = "archived"
                     /\ objects[k].status = "none" <=> objects'[k].status = "none"
  BY <1>1, <1>2 DEF OnlyFound, Objects
<1>4. \A k \in Ids : Known(k) => Known(k)'
  BY <1>3 DEF Known
<1>5. Linkage'
  <2>1. \A k \in Ids : objects[k].series # None => objects[k].series \in Ids
    BY <1>1 DEF Objects, Optional
  <2>2. \A k \in Ids : WellLinked(k)'
    BY <1>1, <1>3, <1>4, <2>1 DEF Linkage, WellLinked
  <2>3. QED
    BY <2>2 DEF Linkage
<1>6. TypeOK'
  BY <1>2 DEF Index, OnlyFound, server, clients, EventsInv, TypeOK
<1>7. \A c \in Clients : Rests(c) /\ disturbed'[c] = disturbed[c]
  BY DEF Index, server, clients, Rests
<1>8. cache' = cache
  BY DEF Index, server
<1>9. QED
  BY <1>2, <1>4, <1>5, <1>6, <1>7, <1>8, Together

-----------------------------------------------------------------------------
(* What is listed, sent and answered *)

LEMMA RenderingTypes ==
    ASSUME objects \in [Ids -> Objects], NEW master \in Objects, NEW R \in SUBSET Ids
    PROVE  /\ Rendered(master, [i \in R |-> objects[i]]) \in Renderings
           /\ Tidy(Rendered(master, [i \in R |-> objects[i]]))
<1> DEFINE occurrences == [i \in R |-> objects[i]]
           replaced == {[id |-> i, at |-> occurrences[i].occurrence,
                         value |-> occurrences[i].value, modified |-> occurrences[i].modified] :
                            i \in {j \in DOMAIN occurrences : occurrences[j].occurrence # None}}
<1>1. replaced \subseteq [id : Ids, at : Occurrences, value : Values, modified : 0 .. MaxSecond]
  <2>1. ASSUME NEW i \in R, occurrences[i].occurrence # None
        PROVE  /\ i \in Ids /\ occurrences[i].occurrence \in Occurrences
               /\ occurrences[i].value \in Values /\ occurrences[i].modified \in 0 .. MaxSecond
    <3>1. objects[i] \in Objects /\ occurrences[i] = objects[i]
      OBVIOUS
    <3>2. QED
      BY <2>1, <3>1 DEF Objects, Optional
  <2>2. DOMAIN occurrences = R
    OBVIOUS
  <2> HIDE DEF occurrences
  <2>3. QED
    BY <2>1, <2>2
<1> HIDE DEF replaced
<1>2. /\ master.value \in Values /\ master.modified \in 0 .. MaxSecond /\ master.rule \in BOOLEAN
      /\ master.exdates \subseteq Occurrences
  BY DEF Objects
<1>3. Rendered(master, occurrences) =
        [value |-> master.value, modified |-> master.modified, rule |-> master.rule,
         exdates |-> IF master.rule THEN master.exdates ELSE {},
         replaced |-> IF master.rule THEN replaced ELSE {}]
  BY DEF Rendered, replaced
<1>4. QED
  BY <1>1, <1>2, <1>3 DEF Renderings, Tidy

LEMMA SnapshotTypes ==
    ASSUME objects \in [Ids -> Objects], Linkage, NEW snapshot \in Snapshots(objects)
    PROVE  snapshot \in Listings /\ ServesKnown(snapshot)
<1>1. PICK event \in IF Dated(objects) = {} THEN {{}}
                     ELSE {{[id |-> i, ics |-> Resource(objects, i)]} : i \in Dated(objects)},
           deadline \in IF HasEntry(objects) = {} THEN {{}}
                        ELSE {{[id |-> i, ics |-> Entry(objects[i])]} : i \in HasEntry(objects)} :
           snapshot = [event |-> event, deadline |-> deadline]
  BY DEF Snapshots
<1>2. event = {} \/ \E i \in Dated(objects) : event = {[id |-> i, ics |-> Resource(objects, i)]}
  BY <1>1
<1>3. deadline = {} \/ \E i \in HasEntry(objects) : deadline = {[id |-> i, ics |-> Entry(objects[i])]}
  BY <1>1
<1>4. ASSUME NEW i \in Dated(objects)
      PROVE  i \in Ids /\ Known(i) /\ Resource(objects, i) \in Renderings /\ Tidy(Resource(objects, i))
  <2>1. i \in Ids /\ objects[i].uid /\ ReplacementsOf(objects, i) \in SUBSET Ids
    BY DEF Dated, Served, Listed, ReplacementsOf, Linked
  <2>2. QED
    BY <2>1, RenderingTypes DEF Known, Resource
<1>5. ASSUME NEW i \in HasEntry(objects)
      PROVE  i \in Ids /\ Known(i) /\ Entry(objects[i]) \in Entries
  <2>1. i \in Ids /\ objects[i].uid /\ objects[i].deadline # None
    BY DEF HasEntry, Served, Listed
  <2>2. QED
    BY <2>1 DEF Known, Entry, Entries, Objects, Optional
<1>6. event \subseteq [id : Ids, ics : Renderings] /\ \A one \in event : Known(one.id) /\ Tidy(one.ics)
  BY <1>2, <1>4
<1>7. deadline \subseteq [id : Ids, ics : Entries] /\ \A one \in deadline : Known(one.id)
  BY <1>3, <1>5
<1>8. QED
  BY <1>1, <1>6, <1>7 DEF Listings, ServesKnown

\* A body is made from a copy of the event, and is as tidy.
LEMMA SentBodiesAreBodies ==
    ASSUME TypeOK, NEW c \in Clients, \A one \in copy[c] : one.of = "event" /\ Tidy(one.ics),
           NEW body \in SentBodies(c)
    PROVE  body \in Bodies /\ TidyBody(body)
<1>1. CASE copy[c] = {}
  <2>1. body \in NewBodies
    BY <1>1 DEF SentBodies
  <2>2. \A d \in Occurrences, v \in Values :
            [NotReplaced EXCEPT ![d] = v] \in [Occurrences -> Optional(Values)]
    BY RestingTypes DEF Optional
  <2> DEFINE Single == [value : Values, rule : {FALSE}, exdates : {{}}, replaced : {NotReplaced}]
             Given == {NotReplaced} \cup
                        {[NotReplaced EXCEPT ![d] = v] : d \in Occurrences, v \in Values}
             Series == [value : Values, rule : {TRUE}, exdates : {{}}, replaced : Given]
  <2>3. ASSUME body \in Single PROVE body \in Bodies /\ TidyBody(body)
    BY <2>3, RestingTypes DEF Bodies, TidyBody
  <2>4. Given \subseteq [Occurrences -> Optional(Values)]
    BY <2>2, RestingTypes
  <2>5. NewBodies = Series \cup Single
    BY DEF NewBodies
  <2> HIDE DEF Given
  <2>6. ASSUME body \in Series PROVE body \in Bodies /\ TidyBody(body)
    <3>1. body \in Bodies
      BY <2>4, <2>6 DEF Bodies
    <3>2. body.rule \in {TRUE}
      BY <2>6
    <3>3. QED
      BY <3>1, <3>2 DEF TidyBody
  <2> HIDE DEF Single, Series
  <2>7. QED
    BY <2>1, <2>3, <2>5, <2>6
<1>2. CASE copy[c] # {}
  <2>1. PICK one \in copy[c] : \E b \in BodiesOf(one.ics) : body \in Changed(b)
    BY <1>2 DEF SentBodies
  <2>2. PICK b \in BodiesOf(one.ics) : body \in Changed(b)
    BY <2>1
  <2>3. one.ics \in Renderings /\ Tidy(one.ics)
    BY DEF TypeOK, Copies
  <2>4. b \in Bodies /\ TidyBody(b)
    <3>1. PICK replaced \in [Occurrences -> Optional(Values)] :
              /\ b = [value |-> one.ics.value, rule |-> one.ics.rule, exdates |-> one.ics.exdates,
                      replaced |-> replaced]
              /\ \A d \in Occurrences : {r.value : r \in {o \in one.ics.replaced : o.at = d}} = {}
                                            => replaced[d] = None
      BY <2>2 DEF BodiesOf
    <3>2. one.ics.replaced = {} => replaced = NotReplaced
      <4>1. HAVE one.ics.replaced = {}
      <4>2. \A d \in Occurrences : replaced[d] = None
        BY <3>1, <4>1
      <4>3. QED
        BY <4>2 DEF NotReplaced
    <3>3. QED
      BY <2>3, <3>1, <3>2 DEF Renderings, Bodies, Tidy, TidyBody
  <2>5. CASE \E v \in Values : body = [b EXCEPT !.value = v]
    BY <2>4, <2>5 DEF Bodies, TidyBody
  <2>6. CASE b.rule /\ \E d \in Occurrences \ b.exdates, v \in Optional(Values) :
                            body = [b EXCEPT !.replaced[d] = v]
    <3>1. PICK d \in Occurrences, v \in Optional(Values) : body = [b EXCEPT !.replaced[d] = v]
      BY <2>6
    <3>2. [b.replaced EXCEPT ![d] = v] \in [Occurrences -> Optional(Values)]
      BY <2>4 DEF Bodies
    <3>3. QED
      BY <2>4, <2>6, <3>1, <3>2 DEF Bodies, TidyBody
  <2>7. CASE b.rule /\ \E d \in Occurrences :
                            body = [b EXCEPT !.replaced[d] = None, !.exdates = @ \cup {d}]
    <3>1. PICK d \in Occurrences : body = [b EXCEPT !.replaced[d] = None, !.exdates = @ \cup {d}]
      BY <2>7
    <3>2. [b.replaced EXCEPT ![d] = None] \in [Occurrences -> Optional(Values)]
      BY <2>4 DEF Bodies, Optional
    <3>3. QED
      BY <2>4, <2>7, <3>1, <3>2 DEF Bodies, TidyBody
  <2>8. CASE body = [b EXCEPT !.rule = FALSE, !.exdates = {}, !.replaced = NotReplaced]
    BY <2>4, <2>8, RestingTypes DEF Bodies, TidyBody
  <2>9. CASE body = [b EXCEPT !.rule = TRUE]
    BY <2>4, <2>9 DEF Bodies, TidyBody
  <2>10. CASE b.rule
    <3> DEFINE A == {[b EXCEPT !.value = v] : v \in Values}
               B == {[b EXCEPT !.replaced[d] = v] : d \in Occurrences \ b.exdates, v \in Optional(Values)}
               C == {[b EXCEPT !.replaced[d] = None, !.exdates = @ \cup {d}] : d \in Occurrences}
               D == {[b EXCEPT !.rule = FALSE, !.exdates = {}, !.replaced = NotReplaced]}
    <3>1. Changed(b) = A \cup (B \cup C \cup D)
      BY <2>10 DEF Changed
    <3>2. body \in A \/ body \in B \/ body \in C \/ body \in D
      <4> HIDE DEF A, B, C, D
      <4>1. QED
        BY <2>2, <3>1
    <3>3. body \in A => body \in Bodies /\ TidyBody(body)
      BY <2>5
    <3>4. body \in B => body \in Bodies /\ TidyBody(body)
      <4>1. SUFFICES ASSUME body \in B PROVE body \in Bodies /\ TidyBody(body)
        OBVIOUS
      <4>2. \E d \in Occurrences \ b.exdates, v \in Optional(Values) : body = [b EXCEPT !.replaced[d] = v]
        BY <4>1
      <4>3. QED
        BY <2>6, <2>10, <4>2
    <3>5. body \in C => body \in Bodies /\ TidyBody(body)
      BY <2>7, <2>10, Zenon
    <3>6. body \in D => body \in Bodies /\ TidyBody(body)
      BY <2>8
    <3> HIDE DEF A, B, C, D
    <3>7. QED
      BY <3>2, <3>3, <3>4, <3>5, <3>6
  <2>11. CASE ~b.rule
    <3>1. Changed(b) = {[b EXCEPT !.value = v] : v \in Values} \cup {[b EXCEPT !.rule = TRUE]}
      BY <2>11 DEF Changed
    <3>2. QED
      BY <2>2, <2>5, <2>9, <3>1
  <2>12. QED
    BY <2>10, <2>11
<1>3. QED
  BY <1>1, <1>2

\* A response: the client is idle again, and has forgotten what it sent.
LEMMA Replied ==
    ASSUME TypeOK, NEW c \in Clients, Reply(c), copy' \in [Clients -> SUBSET Copies],
           \A one \in copy'[c] : one.of = "event" => Tidy(one.ics)
    PROVE  /\ pc' \in [Clients -> Points] /\ request' \in [Clients -> Requests]
           /\ held' \in [Clients -> [id : Optional(Ids), listing : SUBSET Listings,
                                     master : SUBSET Objects]]
           /\ plan' \in [Clients -> Plans]
           /\ Addressed(c)' /\ Undisturbed(c)'
           /\ \A other \in Clients \ {c} :
                /\ pc'[other] = pc[other] /\ request'[other] = request[other]
                /\ held'[other] = held[other] /\ plan'[other] = plan[other]
<1>1. /\ pc' \in [Clients -> Points] /\ pc'[c] = "idle"
      /\ request' \in [Clients -> Requests] /\ request'[c] = NotSent
      /\ held' \in [Clients -> [id : Optional(Ids), listing : SUBSET Listings, master : SUBSET Objects]]
      /\ held'[c] = NothingHeld
      /\ plan' \in [Clients -> Plans]
  <2>1. pc' \in [Clients -> Points] /\ pc'[c] = "idle"
    BY DEF Reply, Goto, TypeOK, Points
  <2>2. request' \in [Clients -> Requests] /\ request'[c] = NotSent
    BY RestingTypes DEF Reply, TypeOK
  <2>3. /\ held' \in [Clients -> [id : Optional(Ids), listing : SUBSET Listings,
                                  master : SUBSET Objects]]
        /\ held'[c] = NothingHeld
    BY RestingTypes DEF Reply, TypeOK
  <2>4. plan' \in [Clients -> Plans]
    BY RestingTypes DEF Reply, TypeOK
  <2>5. QED
    BY <2>1, <2>2, <2>3, <2>4
<1>2. Addressed(c)'
  BY <1>1 DEF Addressed, NothingHeld
<1>3. Undisturbed(c)'
  BY <1>1 DEF Undisturbed
<1>4. ASSUME NEW other \in Clients \ {c}
      PROVE  /\ pc'[other] = pc[other] /\ request'[other] = request[other]
             /\ held'[other] = held[other] /\ plan'[other] = plan[other]
  BY DEF Reply, Goto, TypeOK
<1>5. QED
  BY <1>1, <1>2, <1>3, <1>4

\* A request that ends without writing.
LEMMA EndsKeeps ==
    ASSUME EventsInv, NEW c \in Clients, Ends(c), objects' = objects,
           copy' \in [Clients -> SUBSET Copies],
           \A other \in Clients \ {c} : copy'[other] = copy[other],
           \A one \in copy'[c] : one.of = "event" => Tidy(one.ics),
           cache' \subseteq Listings,
           \A snapshot \in cache' : snapshot \in cache \/ ServesKnown(snapshot)',
           turns' \in 0 .. MaxTurns
    PROVE  EventsInv'
<1>1. TypeOK /\ Reply(c)
  BY DEF EventsInv, Ends
<1>2. disturbed' \in [Clients -> BOOLEAN] /\ \A other \in Clients \ {c} : disturbed'[other] = disturbed[other]
  BY <1>1 DEF Ends, TypeOK
<1>3. TypeOK'
  BY <1>1, <1>2, Replied DEF TypeOK
<1>4. OnlyFound /\ Linkage' /\ \A k \in Ids : Known(k) => Known(k)'
  BY <1>1, NothingWritten DEF EventsInv
<1>5. Addressed(c)' /\ Undisturbed(c)'
  BY <1>1, Replied
<1>6. \A other \in Clients \ {c} : Rests(other)
  BY <1>1, Replied DEF Rests
<1>7. QED
  BY <1>2, <1>3, <1>4, <1>5, <1>6, Together

\* A request that goes on without writing: nobody else notices.
LEMMA GoesOnKeeps ==
    ASSUME EventsInv, NEW c \in Clients, objects' = objects, TypeOK',
           \A other \in Clients \ {c} : Rests(other) /\ disturbed'[other] = disturbed[other],
           \A snapshot \in cache' : snapshot \in cache \/ ServesKnown(snapshot)',
           Addressed(c)', Undisturbed(c)'
    PROVE  EventsInv'
<1>1. OnlyFound /\ Linkage' /\ \A k \in Ids : Known(k) => Known(k)'
  BY NothingWritten DEF EventsInv
<1>2. QED
  BY <1>1, Together

LEMMA SendKeeps ==
    ASSUME EventsInv, NEW c \in Clients, Send(c)
    PROVE  EventsInv'
<1>1. PICK q \in Sent(c) :
          /\ q.op = "PUT" \/ q.condition = "If-Match" => \A one \in copy[c] : one.of = q.of
          /\ request' = [request EXCEPT ![c] = q]
  BY DEF Send
<1>2. q \in Requests
  BY <1>1, RestingTypes DEF Sent, Requests
<1>3. /\ TypeOK /\ turns' \in 0 .. MaxTurns
  BY EventsAssumption DEF Send, Turn, EventsInv, TypeOK
<1>4. TypeOK'
  BY <1>1, <1>2, <1>3 DEF Send, Goto, TypeOK, Points
<1>5. /\ pc'[c] = "locate" /\ request'[c] = q /\ copy'[c] = copy[c] /\ held'[c] = held[c]
      /\ cache' = cache /\ objects' = objects
  BY <1>1, <1>3 DEF Send, Goto, TypeOK
<1>6. \A snapshot \in held[c].listing : ServesKnown(snapshot)'
  BY <1>5 DEF EventsInv, Addressed, ServesKnown, Known
<1>7. Addressed(c)' /\ Undisturbed(c)'
  BY <1>1, <1>5, <1>6 DEF EventsInv, Addressed, Undisturbed
<1>8. \A other \in Clients \ {c} : Rests(other) /\ disturbed'[other] = disturbed[other]
  BY <1>1, <1>3 DEF Send, Goto, Rests, TypeOK
<1>9. QED
  BY <1>4, <1>5, <1>7, <1>8, GoesOnKeeps

LEMMA ListKeeps ==
    ASSUME EventsInv, NEW c \in Clients, List(c)
    PROVE  EventsInv'
<1>1. PICK snapshot \in Snapshots(objects) : held' = [held EXCEPT ![c].listing = {snapshot}]
  BY DEF List
<1>2. TypeOK /\ Linkage /\ Addressed(c)
  BY DEF EventsInv
<1>3. snapshot \in Listings /\ ServesKnown(snapshot)
  BY <1>2, SnapshotTypes DEF TypeOK
<1>4. /\ held' \in [Clients -> [id : Optional(Ids), listing : SUBSET Listings, master : SUBSET Objects]]
      /\ held'[c].listing = {snapshot} /\ \A other \in Clients \ {c} : held'[other] = held[other]
  BY <1>1, <1>2, <1>3 DEF TypeOK
<1>5. /\ pc' \in [Clients -> Points] /\ pc'[c] = "store"
      /\ \A other \in Clients \ {c} : pc'[other] = pc[other]
  BY <1>2 DEF List, Goto, TypeOK, Points
<1>6. TypeOK'
  BY <1>2, <1>4, <1>5 DEF List, Invalidates, clients, TypeOK
<1>7. ServesKnown(snapshot)'
  BY <1>3 DEF List, ServesKnown, Known
<1>8. Addressed(c)' /\ Undisturbed(c)'
  BY <1>2, <1>4, <1>5, <1>7 DEF List, clients, Addressed, Undisturbed
<1>9. \A other \in Clients \ {c} : Rests(other) /\ disturbed'[other] = disturbed[other]
  BY <1>4, <1>5 DEF List, clients, Rests
<1>10. QED
  BY <1>6, <1>8, <1>9, GoesOnKeeps DEF List, Invalidates

\* What a PUT says is chosen when it matters.
LEMMA SaysBody ==
    ASSUME TypeOK, NEW c \in Clients, NEW body \in Bodies,
           request' = [request EXCEPT ![c].body = body]
    PROVE  /\ request' \in [Clients -> Requests] /\ request'[c].body = body
           /\ request'[c].op = request[c].op /\ request'[c].of = request[c].of
           /\ request'[c].condition = request[c].condition
           /\ \A other \in Clients \ {c} : request'[other] = request[other]
<1>1. request[c] \in Requests /\ request \in [Clients -> Requests]
  BY DEF TypeOK
<1>2. request' = [request EXCEPT ![c] = [request[c] EXCEPT !.body = body]]
  BY <1>1
<1>3. /\ [request[c] EXCEPT !.body = body] \in Requests
      /\ [request[c] EXCEPT !.body = body].body = body
      /\ [request[c] EXCEPT !.body = body].op = request[c].op
      /\ [request[c] EXCEPT !.body = body].of = request[c].of
      /\ [request[c] EXCEPT !.body = body].condition = request[c].condition
  BY <1>1 DEF Requests
<1>4. QED
  BY <1>1, <1>2, <1>3

LEMMA AbsenceKeeps ==
    ASSUME EventsInv, NEW c \in Clients, Absence(c), pc[c] # "idle",
           UNCHANGED <<objects, copy>>, cache' \subseteq Listings, turns' \in 0 .. MaxTurns,
           \A snapshot \in cache' : snapshot \in cache \/ ServesKnown(snapshot)'
    PROVE  EventsInv'
<1>1. TypeOK /\ Linkage /\ Addressed(c)
  BY DEF EventsInv
<1>2. CASE Ends(c)
  BY <1>1, <1>2, EndsKeeps DEF TypeOK, Addressed
<1>3. CASE ~Ends(c)
  <2>1. /\ request[c].op = "PUT" /\ request[c].of = "event" /\ Goto(c, "new") /\ UNCHANGED disturbed
        /\ held' = [held EXCEPT ![c] = NothingHeld]
        /\ \E body \in SentBodies(c) :
                /\ request' = [request EXCEPT ![c].body = body]
                /\ plan' = [plan EXCEPT ![c] = ForCreate(body)]
    BY <1>3 DEF Absence
  <2>2. PICK body \in SentBodies(c) :
            /\ request' = [request EXCEPT ![c].body = body]
            /\ plan' = [plan EXCEPT ![c] = ForCreate(body)]
    BY <2>1
  <2>3. \A one \in copy[c] : one.of = "event" /\ Tidy(one.ics)
    BY <1>1, <2>1 DEF Addressed
  <2>4. body \in Bodies /\ TidyBody(body)
    BY <1>1, <2>3, SentBodiesAreBodies
  <2>5. ForCreate(body) \in Plans
    <3>1. {<<d, body.replaced[d]>> : d \in {e \in Occurrences : body.replaced[e] # None}}
              \subseteq Occurrences \X Values
      BY <2>4 DEF Bodies, Optional
    <3>2. QED
      BY <3>1, RestingTypes DEF ForCreate, NoPlan, Plans
  <2>6. /\ request' \in [Clients -> Requests] /\ request'[c].body = body
        /\ request'[c].op = "PUT" /\ request'[c].of = "event"
        /\ \A other \in Clients \ {c} : request'[other] = request[other]
    BY <1>1, <2>1, <2>2, <2>4, SaysBody
  <2>7. /\ held' \in [Clients -> [id : Optional(Ids), listing : SUBSET Listings,
                                  master : SUBSET Objects]]
        /\ held'[c] = NothingHeld /\ \A other \in Clients \ {c} : held'[other] = held[other]
    BY <1>1, <2>1, RestingTypes DEF TypeOK
  <2>8. /\ pc' \in [Clients -> Points] /\ pc'[c] = "new"
        /\ \A other \in Clients \ {c} : pc'[other] = pc[other]
    BY <1>1, <2>1 DEF Goto, TypeOK, Points
  <2>9. /\ plan' \in [Clients -> Plans] /\ plan'[c] = ForCreate(body)
        /\ \A other \in Clients \ {c} : plan'[other] = plan[other]
    BY <1>1, <2>2, <2>5 DEF TypeOK
  <2>10. TypeOK'
    BY <1>1, <2>1, <2>6, <2>7, <2>8, <2>9 DEF TypeOK
  <2>11. Addressed(c)' /\ Undisturbed(c)'
    BY <2>3, <2>4, <2>6, <2>7, <2>8, <2>9 DEF Addressed, Undisturbed, NothingHeld
  <2>12. \A other \in Clients \ {c} : Rests(other) /\ disturbed'[other] = disturbed[other]
    BY <2>1, <2>6, <2>7, <2>8, <2>9 DEF Rests
  <2>13. QED
    BY <2>10, <2>11, <2>12, GoesOnKeeps
<1>4. QED
  BY <1>2, <1>3

LEMMA AnsweredKeeps ==
    ASSUME EventsInv, NEW c \in Clients, pc[c] # "idle", NEW snapshot \in Listings,
           ServesKnown(snapshot), Answered(c, snapshot),
           UNCHANGED <<objects, turns>>, cache' \subseteq Listings,
           \A other \in cache' : other \in cache \/ ServesKnown(other)'
    PROVE  EventsInv'
<1> DEFINE q == request[c]
           found == snapshot[q.of]
<1>1. TypeOK /\ Linkage /\ Addressed(c) /\ turns' \in 0 .. MaxTurns
  BY DEF EventsInv, TypeOK
<1>2. /\ q.of \in {"event", "deadline"}
      /\ q.of = "event" => found = snapshot.event /\ found \subseteq [id : Ids, ics : Renderings]
                           /\ \A one \in found : Known(one.id) /\ Tidy(one.ics)
      /\ q.of = "deadline" => found = snapshot.deadline /\ found \subseteq [id : Ids, ics : Entries]
                           /\ \A one \in found : Known(one.id)
  BY <1>1 DEF TypeOK, Requests, Resources, Listings, ServesKnown
<1> HIDE DEF found
<1>3. CASE /\ copy' = [copy EXCEPT ![c] = {[of |-> q.of, ics |-> one.ics] : one \in found}]
           /\ Ends(c)
  <2> DEFINE served == {[of |-> q.of, ics |-> one.ics] : one \in found}
  <2>1. served \subseteq Copies /\ \A one \in served : one.of = "event" => Tidy(one.ics)
    <3>1. ASSUME NEW one \in found
          PROVE  /\ [of |-> q.of, ics |-> one.ics] \in Copies
                 /\ q.of = "event" => Tidy(one.ics)
      BY <1>2 DEF Copies
    <3>2. QED
      BY <3>1
  <2> HIDE DEF served
  <2>2. /\ copy' \in [Clients -> SUBSET Copies] /\ copy'[c] = served
        /\ \A other \in Clients \ {c} : copy'[other] = copy[other]
    BY <1>1, <1>3, <2>1 DEF TypeOK, served
  <2>3. QED
    BY <1>1, <1>3, <2>1, <2>2, EndsKeeps
<1>4. CASE Absence(c) /\ UNCHANGED copy
  BY <1>1, <1>4, AbsenceKeeps
<1>5. ASSUME NEW one \in found, held' = [held EXCEPT ![c] = [NothingHeld EXCEPT !.id = one.id]],
             Goto(c, "get"), UNCHANGED <<plan, request, copy, disturbed>>
      PROVE  EventsInv'
  <2>1. one.id \in Ids /\ Known(one.id) /\ Known(one.id)'
    <3>1. one.id \in Ids /\ Known(one.id)
      BY <1>2
    <3>2. QED
      BY <3>1 DEF Known
  <2>2. [NothingHeld EXCEPT !.id = one.id] = [id |-> one.id, listing |-> {}, master |-> {}]
    BY DEF NothingHeld
  <2>3. /\ held' \in [Clients -> [id : Optional(Ids), listing : SUBSET Listings,
                                  master : SUBSET Objects]]
        /\ held'[c] = [id |-> one.id, listing |-> {}, master |-> {}]
        /\ \A other \in Clients \ {c} : held'[other] = held[other]
    BY <1>1, <1>5, <2>1, <2>2 DEF TypeOK, Optional
  <2>4. /\ pc' \in [Clients -> Points] /\ pc'[c] = "get"
        /\ \A other \in Clients \ {c} : pc'[other] = pc[other]
    BY <1>1, <1>5 DEF Goto, TypeOK, Points
  <2>5. TypeOK'
    BY <1>1, <1>5, <2>3, <2>4 DEF TypeOK
  <2>6. Addressed(c)' /\ Undisturbed(c)'
    BY <1>1, <1>5, <2>1, <2>3, <2>4 DEF Addressed, Undisturbed
  <2>7. \A other \in Clients \ {c} : Rests(other) /\ disturbed'[other] = disturbed[other]
    BY <1>5, <2>3, <2>4 DEF Rests
  <2>8. QED
    BY <2>5, <2>6, <2>7, GoesOnKeeps
<1>6. QED
  BY <1>3, <1>4, <1>5 DEF Answered, found

LEMMA LocateKeeps ==
    ASSUME EventsInv, NEW c \in Clients, Locate(c)
    PROVE  EventsInv'
BY AnsweredKeeps DEF Locate, EventsInv, TypeOK

LEMMA StoreKeeps ==
    ASSUME EventsInv, NEW c \in Clients, Store(c)
    PROVE  EventsInv'
<1>1. PICK snapshot \in held[c].listing : Answered(c, snapshot)
  BY DEF Store
<1>2. held[c].listing \subseteq Listings /\ \A one \in held[c].listing : ServesKnown(one)
  BY DEF EventsInv, TypeOK, Addressed
<1>3. \A one \in held[c].listing : ServesKnown(one)'
  BY <1>2 DEF Store, ServesKnown, Known
<1>4. QED
  BY <1>1, <1>2, <1>3, AnsweredKeeps DEF Store

LEMMA FailuresKeep ==
    ASSUME EventsInv, NEW c \in Clients, ReadFails(c) \/ WriteFails(c) \/ Invalidate(c)
    PROVE  EventsInv'
<1>1. TypeOK /\ Addressed(c) /\ turns \in 0 .. MaxTurns /\ MaxTurns \in Nat
  BY EventsAssumption DEF EventsInv, TypeOK
<1>2. Ends(c) /\ objects' = objects /\ copy' = copy /\ turns' \in 0 .. MaxTurns
  BY <1>1 DEF ReadFails, WriteFails, Invalidate, Turn
<1>3. cache' = cache \/ cache' = {}
  BY DEF ReadFails, WriteFails, Invalidate, Invalidates
<1>4. QED
  BY <1>1, <1>2, <1>3, EndsKeeps DEF TypeOK, Addressed

LEMMA GetGoneKeeps ==
    ASSUME EventsInv, NEW c \in Clients, GetGone(c)
    PROVE  EventsInv'
BY AbsenceKeeps DEF GetGone, Invalidates, EventsInv, TypeOK

LEMMA GetSeriesKeeps ==
    ASSUME EventsInv, NEW c \in Clients, GetSeries(c)
    PROVE  EventsInv'
<1> DEFINE current == objects[held[c].id]
<1>1. TypeOK /\ Linkage /\ Addressed(c) /\ held[c].id \in Ids /\ Known(held[c].id)
  BY DEF GetSeries, EventsInv, Addressed
<1>2. current \in Objects /\ Alive(current) /\ current.rule
  BY <1>1 DEF GetSeries, TypeOK
<1>3. held' = [held EXCEPT ![c].master = {current}]
  BY DEF GetSeries
<1> HIDE DEF current
<1>4. /\ held' \in [Clients -> [id : Optional(Ids), listing : SUBSET Listings, master : SUBSET Objects]]
      /\ held'[c].id = held[c].id /\ held'[c].listing = held[c].listing
      /\ held'[c].master = {current}
      /\ \A other \in Clients \ {c} : held'[other] = held[other]
  BY <1>1, <1>2, <1>3 DEF TypeOK
<1>5. /\ pc' \in [Clients -> Points] /\ pc'[c] = "list"
      /\ \A other \in Clients \ {c} : pc'[other] = pc[other]
  BY <1>1 DEF GetSeries, Goto, TypeOK, Points
<1>6. TypeOK'
  BY <1>1, <1>4, <1>5 DEF GetSeries, clients, TypeOK
<1>7. objects' = objects /\ request' = request /\ copy' = copy /\ plan' = plan /\ cache' = cache
      /\ disturbed' = disturbed /\ request[c].of = "event" /\ pc[c] = "get"
  BY DEF GetSeries, clients
<1>8. \A snapshot \in held[c].listing : ServesKnown(snapshot)'
  BY <1>1, <1>7 DEF Addressed, ServesKnown, Known
<1>9. Addressed(c)'
  BY <1>1, <1>4, <1>5, <1>7, <1>8 DEF Addressed, Known
<1>10. Undisturbed(c)'
  BY <1>2, <1>4, <1>5, <1>7 DEF Undisturbed, Reads, SameEvent, current
<1>11. \A other \in Clients \ {c} : Rests(other) /\ disturbed'[other] = disturbed[other]
  BY <1>4, <1>5, <1>7 DEF Rests
<1>12. QED
  BY <1>6, <1>7, <1>9, <1>10, <1>11, GoesOnKeeps

LEMMA GetDeadlineKeeps ==
    ASSUME EventsInv, NEW c \in Clients, GetDeadline(c)
    PROVE  EventsInv'
<1>1. TypeOK /\ Linkage /\ Addressed(c) /\ pc[c] = "get"
  BY DEF GetDeadline, EventsInv
<1>2. objects' = objects /\ cache' = cache /\ copy' = copy /\ turns' = turns
  BY DEF GetDeadline
<1>3. CASE Ends(c)
  BY <1>1, <1>2, <1>3, EndsKeeps DEF TypeOK, Addressed
<1>4. CASE Goto(c, "deadline") /\ UNCHANGED <<request, held, plan, disturbed>>
  <2>1. /\ pc' \in [Clients -> Points] /\ pc'[c] = "deadline"
        /\ \A other \in Clients \ {c} : pc'[other] = pc[other]
    BY <1>1, <1>4 DEF Goto, TypeOK, Points
  <2>2. TypeOK'
    BY <1>1, <1>2, <1>4, <2>1 DEF TypeOK
  <2>3. \A snapshot \in held[c].listing : ServesKnown(snapshot)'
    BY <1>1, <1>2 DEF Addressed, ServesKnown, Known
  <2>4. Addressed(c)' /\ Undisturbed(c)'
    BY <1>1, <1>2, <1>4, <2>1, <2>3 DEF Addressed, Undisturbed, Known
  <2>5. \A other \in Clients \ {c} : Rests(other) /\ disturbed'[other] = disturbed[other]
    BY <1>2, <1>4, <2>1 DEF Rests
  <2>6. QED
    BY <1>2, <2>2, <2>4, <2>5, GoesOnKeeps
<1>5. QED
  BY <1>3, <1>4 DEF GetDeadline

-----------------------------------------------------------------------------
(* What a plan is made of *)

\* The master's patch makes it what the body says.
LEMMA PatchCarries ==
    ASSUME NEW object \in Objects, NEW was \in Objects, SameEvent(object, was),
           NEW body \in Bodies
    PROVE  /\ MasterPatch(was, body) = {} => Carries(object, body)
           /\ \A patch \in MasterPatch(was, body) : Carries(Patched(object, patch), body)
<1> DEFINE value == IF was.value = body.value THEN None ELSE body.value
           dated == IF was.dated = TRUE THEN None ELSE TRUE
           rule == IF was.rule = body.rule THEN None ELSE body.rule
           exdates == IF was.exdates = body.exdates THEN {} ELSE {body.exdates}
           patch == [value |-> value, dated |-> dated, rule |-> rule, exdates |-> exdates]
<1>1. /\ was.value \in Values /\ was.dated \in BOOLEAN /\ was.rule \in BOOLEAN
      /\ was.exdates \in SUBSET Occurrences
      /\ body.value \in Values /\ body.rule \in BOOLEAN /\ body.exdates \in SUBSET Occurrences
      /\ None \notin Values /\ None \notin BOOLEAN
  BY EventsAssumption DEF Objects, Bodies
<1>2. /\ value = None => was.value = body.value
      /\ value # None => value = body.value
  BY <1>1
<1>3. /\ rule = None => was.rule = body.rule
      /\ rule # None => rule = body.rule
  BY <1>1
<1>4. /\ exdates = {} => was.exdates = body.exdates
      /\ exdates # {} => exdates = {body.exdates}
  BY <1>1
<1>5. MasterPatch(was, body) = IF patch = [value |-> None, dated |-> None, rule |-> None, exdates |-> {}]
                                 THEN {} ELSE {patch}
  BY DEF MasterPatch
<1> HIDE DEF value, dated, rule, exdates
<1>6. patch = [value |-> None, dated |-> None, rule |-> None, exdates |-> {}]
        => Carries(object, body)
  <2>1. SUFFICES ASSUME patch = [value |-> None, dated |-> None, rule |-> None, exdates |-> {}]
                 PROVE  Carries(object, body)
    OBVIOUS
  <2>2. value = None /\ rule = None /\ exdates = {}
    BY <2>1
  <2>3. QED
    BY <1>2, <1>3, <1>4, <2>2 DEF Carries, SameEvent
<1>7. Carries(Patched(object, patch), body)
  <2>1. Patched(object, patch).value = body.value
    BY <1>2 DEF Patched, SameEvent, Objects
  <2>2. Patched(object, patch).rule = body.rule
    BY <1>3 DEF Patched, SameEvent, Objects
  <2>3. Patched(object, patch).exdates = body.exdates
    <3>1. Patched(object, patch).exdates = UNION (IF exdates = {} THEN {object.exdates} ELSE exdates)
      BY DEF Patched, Objects
    <3>2. UNION {object.exdates} = object.exdates /\ UNION {body.exdates} = body.exdates
      OBVIOUS
    <3>3. QED
      BY <1>4, <3>1, <3>2 DEF SameEvent
  <2>4. QED
    BY <2>1, <2>2, <2>3 DEF Carries
<1> HIDE DEF patch
<1>8. QED
  BY <1>5, <1>6, <1>7

\* An occurrence of the body is matched by one that is there, if any is.
Meets(match, body, R) ==
    \A d \in Sends(body) :
        /\ match[d] \in R \cup {None}
        /\ match[d] # None => match[d] \in R /\ objects[match[d]].occurrence = d
        /\ \A i \in R : objects[i].occurrence = d => match[d] # None

LEMMA MatchesThere ==
    ASSUME NEW R \in SUBSET Ids, NEW body, NEW match \in Matches(body, R)
    PROVE  Meets(match, body, R)
<1>1. SUFFICES ASSUME NEW d \in Sends(body)
               PROVE  /\ match[d] \in R \cup {None}
                      /\ match[d] # None => match[d] \in R /\ objects[match[d]].occurrence = d
                      /\ \A i \in R : objects[i].occurrence = d => match[d] # None
  BY DEF Meets
<1> DEFINE there == {i \in R : objects[i].occurrence = d}
<1>2. match[d] \in R \cup {None} /\ IF there = {} THEN match[d] = None ELSE match[d] \in there
  BY DEF Matches
<1>3. None \notin R
  BY EventsAssumption
<1>4. QED
  BY <1>2, <1>3

LEMMA PlanTypes ==
    ASSUME NEW current \in Objects, NEW R \in SUBSET Ids, NEW body \in Bodies,
           NEW match \in Matches(body, R)
    PROVE  PlanUpdate(current, R, body, match) \in Plans /\ PlanDelete(current, R) \in Plans
<1> DEFINE planned == PlanUpdate(current, R, body, match)
<1>0. Meets(match, body, R)
  BY MatchesThere
<1>1. Sends(body) \subseteq Occurrences /\ \A d \in Sends(body) : body.replaced[d] \in Values
  BY DEF Sends, Bodies, Optional
<1>2. MasterPatch(current, body) \subseteq Patches
  <2> DEFINE value == IF current.value = body.value THEN None ELSE body.value
             dated == IF current.dated = TRUE THEN None ELSE TRUE
             rule == IF current.rule = body.rule THEN None ELSE body.rule
             exdates == IF current.exdates = body.exdates THEN {} ELSE {body.exdates}
             patch == [value |-> value, dated |-> dated, rule |-> rule, exdates |-> exdates]
  <2>1. value \in Optional(Values) /\ dated \in Optional(BOOLEAN) /\ rule \in Optional(BOOLEAN)
    BY DEF Bodies, Optional
  <2>2. exdates \in SUBSET SUBSET Occurrences
    BY DEF Bodies
  <2>3. MasterPatch(current, body) = IF patch = [value |-> None, dated |-> None, rule |-> None, exdates |-> {}]
                                       THEN {} ELSE {patch}
    BY DEF MasterPatch
  <2> HIDE DEF value, dated, rule, exdates
  <2>4. patch \in Patches
    BY <2>1, <2>2 DEF Patches
  <2> HIDE DEF patch
  <2>5. QED
    BY <2>3, <2>4
<1>3. {<<match[d], body.replaced[d]>> : d \in
            {e \in Sends(body) : match[e] # None /\ objects[match[e]].value # body.replaced[e]}}
        \subseteq Ids \X Values
  <2>1. ASSUME NEW d \in Sends(body), match[d] # None
        PROVE  <<match[d], body.replaced[d]>> \in Ids \X Values
    <3>1. match[d] \in R
      BY <1>0, <2>1 DEF Meets
    <3>2. QED
      BY <1>1, <3>1
  <2>2. QED
    BY <2>1
<1>4. {<<d, body.replaced[d]>> : d \in {e \in Sends(body) : match[e] = None}}
        \subseteq Occurrences \X Values
  BY <1>1
<1>5. planned \in Plans
  BY <1>2, <1>3, <1>4 DEF PlanUpdate, Plans
<1>6. PlanDelete(current, R) \in Plans
  <2>1. {i \in R : ~current.recurring \/ objects[i].occurrence \notin TookPlace} \subseteq Ids
    OBVIOUS
  <2>2. QED
    BY <2>1 DEF PlanDelete, NoPlan, Plans
<1>7. QED
  BY <1>5, <1>6

\* What the ETag covers of a series: its replaced occurrences.
ServedOf(R) ==
    {[id |-> i, at |-> objects[i].occurrence, value |-> objects[i].value,
      modified |-> objects[i].modified] : i \in R}

\* A body has an occurrence otherwise than a copy, or less often.
Differs(one, body, d) ==
    LET served == {o \in one.ics.replaced : o.at = d}
    IN  Cardinality(served) > 1 \/ {o.value : o \in served} # {body.replaced[d]} \ {None}

\* Under If-Match a plan writes only what differs from what the client was served: it
\* changes the value of an occurrence, leaves out one that was served, or one of two.
LEMMA PlannedIsChanged ==
    ASSUME NEW c \in Clients, NEW R \in SUBSET Ids, NEW current,
           NEW body \in Bodies, NEW match \in Matches(body, R),
           \A one \in copy[c] : one.ics.replaced = ServedOf(R),
           \A k \in R : objects[k].occurrence \in Occurrences,
           NEW i \in Ids,
           i \in PlanUpdate(current, R, body, match).archive
             \cup {write[1] : write \in PlanUpdate(current, R, body, match).update}
    PROVE  \A one \in copy[c] : Differs(one, body, objects[i].occurrence)
<1> DEFINE d == objects[i].occurrence
<1>0. Meets(match, body, R)
  BY MatchesThere
<1>1. PlanUpdate(current, R, body, match).archive
        = {k \in R \ {match[e] : e \in Sends(body)} : LeftOut(current, body, k)}
  BY DEF PlanUpdate
<1>2. PlanUpdate(current, R, body, match).update
        = {<<match[e], body.replaced[e]>> : e \in
            {e \in Sends(body) : match[e] # None /\ objects[match[e]].value # body.replaced[e]}}
  BY DEF PlanUpdate
<1>3. SUFFICES ASSUME NEW one \in copy[c],
                      NEW served, served = {o \in one.ics.replaced : o.at = d}
               PROVE  \/ Cardinality(served) > 1
                      \/ {o.value : o \in served} # {body.replaced[d]} \ {None}
  BY DEF Differs
<1>4. \A k \in R : objects[k].occurrence = d =>
            \E o \in served : o.id = k /\ o.value = objects[k].value
  <2>1. TAKE k \in R
  <2>2. HAVE objects[k].occurrence = d
  <2> DEFINE r == [id |-> k, at |-> objects[k].occurrence, value |-> objects[k].value,
                   modified |-> objects[k].modified]
  <2>3. r \in ServedOf(R) /\ r.at = d /\ r.id = k /\ r.value = objects[k].value
    BY <2>2 DEF ServedOf
  <2>4. QED
    BY <1>3, <2>3
<1>5. CASE \E e \in Sends(body) : /\ i = match[e] /\ match[e] # None
                                  /\ objects[match[e]].value # body.replaced[e]
  <2>1. PICK e \in Sends(body) : /\ i = match[e] /\ match[e] # None
                                 /\ objects[match[e]].value # body.replaced[e]
    BY <1>5
  <2>2. i \in R /\ d = e /\ objects[i].value # body.replaced[d]
    BY <1>0, <2>1 DEF Meets
  <2>3. PICK o \in served : o.value = objects[i].value
    BY <1>4, <2>2
  <2>4. QED
    BY <2>2, <2>3
<1>6. CASE i \in R \ {match[e] : e \in Sends(body)}
  <2>1. PICK o \in served : o.id = i
    BY <1>4, <1>6
  <2>2. CASE body.replaced[d] = None
    BY <2>1, <2>2
  <2>3. CASE body.replaced[d] # None
    <3>1. d \in Sends(body)
      BY <1>6, <2>3 DEF Sends
    <3>2. /\ match[d] \in R /\ objects[match[d]].occurrence = d /\ match[d] # i
      <4>1. match[d] # None
        BY <1>0, <1>6, <3>1 DEF Meets
      <4>2. match[d] \in R /\ objects[match[d]].occurrence = d
        BY <1>0, <3>1, <4>1 DEF Meets
      <4>3. match[d] # i
        BY <1>6, <3>1
      <4>4. QED
        BY <4>2, <4>3
    <3>3. PICK p \in served : p.id = match[d]
      BY <1>4, <3>2
    <3>4. o # p
      BY <2>1, <3>2, <3>3
    <3>5. IsFiniteSet(served)
      <4>1. IsFiniteSet(R)
        BY FS_Subset, EventsAssumption
      <4>2. IsFiniteSet(ServedOf(R))
        <5> DEFINE f == [k \in R |-> [id |-> k, at |-> objects[k].occurrence,
                                     value |-> objects[k].value, modified |-> objects[k].modified]]
        <5>1. f \in Surjection(R, ServedOf(R))
          <6>1. f \in [R -> ServedOf(R)]
            BY DEF ServedOf
          <6>2. \A r \in ServedOf(R) : \E k \in R : f[k] = r
            BY DEF ServedOf
          <6> HIDE DEF f
          <6>3. QED
            BY <6>1, <6>2 DEF Surjection
        <5>2. QED
          BY <4>1, <5>1, FS_Surjection
      <4>3. served \subseteq ServedOf(R)
        BY <1>3
      <4>4. QED
        BY <4>2, <4>3, FS_Subset
    <3>6. Cardinality({o, p}) = 2 /\ IsFiniteSet({o, p})
      <4>1. Cardinality({o}) = 1 /\ IsFiniteSet({o})
        BY FS_Singleton
      <4>2. {o, p} = {o} \cup {p} /\ p \notin {o}
        BY <3>4
      <4>3. IsFiniteSet({o} \cup {p}) /\ (Cardinality({o} \cup {p}) = Cardinality({o}) + 1)
        BY <4>1, <4>2, FS_AddElement
      <4>4. Cardinality({o} \cup {p}) = 1 + 1
        BY <4>1, <4>3, Zenon
      <4>5. 1 + 1 = 2
        OBVIOUS
      <4>6. QED
        BY <4>2, <4>3, <4>4, <4>5, Zenon
    <3>7. Cardinality({o, p}) <= Cardinality(served)
      BY <3>5, <2>1, <3>3, FS_Subset
    <3>8. Cardinality(served) \in Nat
      BY <3>5, FS_CardinalityType
    <3>9. QED
      BY <3>6, <3>7, <3>8
  <2>4. QED
    BY <2>2, <2>3
<1>7. CASE i \in PlanUpdate(current, R, body, match).archive
  BY <1>1, <1>6, <1>7
<1>8. CASE i \in {write[1] : write \in PlanUpdate(current, R, body, match).update}
  <2>1. PICK write \in PlanUpdate(current, R, body, match).update : i = write[1]
    BY <1>8
  <2>2. PICK e \in Sends(body) : /\ match[e] # None /\ objects[match[e]].value # body.replaced[e]
                                 /\ write = <<match[e], body.replaced[e]>>
    BY <1>2, <2>1
  <2>3. i = match[e]
    BY <2>1, <2>2
  <2>4. QED
    BY <1>5, <2>2, <2>3
<1>9. QED
  BY <1>7, <1>8

\* The state in which a plan has just been made.
Planned(c, current, body, planned) ==
    /\ objects' = objects /\ copy' = copy
    /\ held'[c].id = held[c].id /\ held'[c].master = {current}
    /\ request'[c].body = body /\ request'[c].condition = request[c].condition
    /\ plan'[c] = planned

LEMMA PlannedApplies ==
    ASSUME TypeOK, Linkage, NEW c \in Clients, held[c].id \in Ids, NEW current \in Objects,
           SameEvent(objects[held[c].id], current),
           NEW R \in SUBSET Ids,
           (R = Parts(held[c].id) /\ current.rule) \/ (R = {} /\ ~current.rule),
           NEW body \in Bodies, NEW match \in Matches(body, R),
           ~Refused(c, current, IF current.dated
                                  THEN {Rendered(current, [i \in R |-> objects[i]])} ELSE {}),
           Planned(c, current, body, PlanUpdate(current, R, body, match))
    PROVE  Applies(c)'
<1> DEFINE id == held[c].id
           planned == PlanUpdate(current, R, body, match)
<1>1. /\ planned.master = MasterPatch(current, body)
      /\ planned.update = {<<match[e], body.replaced[e]>> : e \in
            {e \in Sends(body) : match[e] # None /\ objects[match[e]].value # body.replaced[e]}}
      /\ planned.create = {<<e, body.replaced[e]>> : e \in {e \in Sends(body) : match[e] = None}}
      /\ planned.archive = {k \in R \ {match[e] : e \in Sends(body)} : LeftOut(current, body, k)}
  BY DEF PlanUpdate
<1>0. Meets(match, body, R)
  BY MatchesThere
<1>2. \A e \in Sends(body) :
          /\ match[e] \in R \cup {None}
          /\ match[e] # None => match[e] \in R /\ objects[match[e]].occurrence = e
  BY <1>0 DEF Meets
<1>3. /\ objects' = objects /\ copy' = copy
      /\ held'[c].id = id /\ held'[c].master = {current}
      /\ request'[c].body = body /\ request'[c].condition = request[c].condition
      /\ plan'[c] = planned
  BY DEF Planned
<1>4. objects \in [Ids -> Objects] /\ R \subseteq Parts(id) /\ Parts(id) \subseteq Ids
  BY DEF TypeOK, Parts
<1>5. Parts(id)' = Parts(id)
  BY <1>3 DEF Parts
<1>6. \A k \in Parts(id) : objects[k].occurrence \in Occurrences
  BY <1>4, EventsAssumption DEF Parts, Linkage, WellLinked, Objects, Optional
<1> HIDE DEF planned
<1>7. MasterAgrees(c)'
  <2>1. /\ planned.master = {} => Carries(objects[id], body)
        /\ \A patch \in planned.master : Carries(Patched(objects[id], patch), body)
    BY <1>1, <1>4, PatchCarries
  <2>2. QED
    BY <1>3, <2>1 DEF MasterAgrees, MasterWritten, SameEvent
<1>8. WritesAgree(c)'
  <2>1. ASSUME NEW write \in planned.update
        PROVE  write[1] \in Parts(id) /\ write[2] = body.replaced[objects[write[1]].occurrence]
    <3>1. PICK e \in Sends(body) : match[e] # None /\ write = <<match[e], body.replaced[e]>>
      BY <1>1
    <3>2. QED
      BY <1>2, <1>4, <3>1
  <2>2. ASSUME NEW write \in planned.create
        PROVE  write[2] = body.replaced[write[1]]
    BY <1>1
  <2>3. QED
    BY <1>3, <1>5, <2>1, <2>2 DEF WritesAgree
<1>9. SentIsThere(c)'
  <2>1. ASSUME NEW d \in Sends(body)
        PROVE  \/ <<d, body.replaced[d]>> \in planned.create
               \/ \E i \in Parts(id) \ planned.archive :
                    /\ objects[i].occurrence = d
                    /\ \/ objects[i].value = body.replaced[d]
                       \/ <<i, body.replaced[d]>> \in planned.update
    <3>1. CASE match[d] = None
      BY <1>1, <3>1
    <3>2. CASE match[d] # None
      <4>1. match[d] \in Parts(id) /\ objects[match[d]].occurrence = d
        BY <1>2, <1>4, <3>2
      <4>2. match[d] \notin planned.archive
        BY <1>1
      <4>3. objects[match[d]].value # body.replaced[d] => <<match[d], body.replaced[d]>> \in planned.update
        BY <1>1, <3>2
      <4>4. QED
        BY <4>1, <4>2, <4>3
    <3>3. QED
      BY <3>1, <3>2
  <2>2. QED
    BY <1>3, <1>5, <2>1 DEF SentIsThere
<1>10. OnlySentIsThere(c)'
  <2>1. ASSUME current.rule, NEW i \in Parts(id)
        PROVE  \/ i \in planned.archive
               \/ objects[i].value = body.replaced[objects[i].occurrence]
               \/ <<i, body.replaced[objects[i].occurrence]>> \in planned.update
               \/ objects[id].recurring /\ objects[i].occurrence \notin body.exdates
    <3>1. CASE \E e \in Sends(body) : i = match[e]
      <4>1. PICK e \in Sends(body) : i = match[e]
        BY <3>1
      <4>2. match[e] # None
        BY <1>4, <4>1, EventsAssumption
      <4>3. objects[i].occurrence = e
        BY <1>2, <4>1, <4>2
      <4>4. objects[match[e]].value # body.replaced[e] => <<match[e], body.replaced[e]>> \in planned.update
        BY <1>1, <4>2
      <4>5. QED
        BY <4>1, <4>3, <4>4
    <3>2. CASE i \notin {match[e] : e \in Sends(body)}
      <4>1. LeftOut(current, body, i) => i \in planned.archive
        BY <1>1, <2>1, <3>2
      <4>2. QED
        BY <4>1 DEF LeftOut, SameEvent
    <3>3. QED
      BY <3>1, <3>2
  <2>2. QED
    BY <1>3, <1>5, <2>1 DEF OnlySentIsThere, MayStay
<1>11. planned.archive \subseteq R
  BY <1>1
<1>12. ArchivesExcluded(c)'
  <2>1. \A i \in planned.archive : objects[id].recurring => objects[i].occurrence \in body.exdates
    BY <1>1 DEF LeftOut, SameEvent
  <2>2. QED
    BY <1>3, <2>1 DEF ArchivesExcluded
<1>13. Protects(c)'
  <2>1. SUFFICES ASSUME request[c].condition = "If-Match",
                        NEW i \in planned.archive \cup {write[1] : write \in planned.update}
                 PROVE  ChangesOccurrence(c, objects[i].occurrence)'
    BY <1>3 DEF Protects
  <2>2. i \in R
    <3>1. CASE i \in planned.archive
      BY <1>11, <3>1
    <3>2. CASE i \in {write[1] : write \in planned.update}
      <4>1. PICK write \in planned.update : i = write[1]
        BY <3>2
      <4>2. PICK e \in Sends(body) : match[e] # None /\ write = <<match[e], body.replaced[e]>>
        BY <1>1, <4>1
      <4>3. QED
        BY <1>2, <4>1, <4>2
    <3>3. QED
      BY <3>1, <3>2
  <2>3. current.rule /\ R = Parts(id)
    BY <2>2
  <2> DEFINE etag == IF current.dated
                       THEN {Rendered(current, [k \in R |-> objects[k]])} ELSE {}
  <2>4. {one.ics : one \in copy[c]} = etag
    BY <2>1 DEF Refused
  <2>5. Rendered(current, [k \in R |-> objects[k]]).replaced = ServedOf(R)
    <3> DEFINE occurrences == [k \in R |-> objects[k]]
    <3>1. {j \in DOMAIN occurrences : occurrences[j].occurrence # None} = R
      BY <1>4, <1>6, EventsAssumption
    <3>2. Rendered(current, occurrences).replaced =
            {[id |-> k, at |-> occurrences[k].occurrence,
              value |-> occurrences[k].value, modified |-> occurrences[k].modified] :
                k \in {j \in DOMAIN occurrences : occurrences[j].occurrence # None}}
      BY <2>3 DEF Rendered
    <3>3. \A k \in R : occurrences[k] = objects[k]
      OBVIOUS
    <3> HIDE DEF occurrences
    <3>4. Rendered(current, occurrences).replaced =
            {[id |-> k, at |-> occurrences[k].occurrence,
              value |-> occurrences[k].value, modified |-> occurrences[k].modified] : k \in R}
      BY <3>1, <3>2
    <3>5. QED
      BY <3>3, <3>4 DEF ServedOf, occurrences
  <2>6. \A one \in copy[c] : one.ics.replaced = ServedOf(R)
    <3>1. TAKE one \in copy[c]
    <3>2. one.ics \in etag
      BY <2>4
    <3>3. one.ics = Rendered(current, [k \in R |-> objects[k]])
      BY <3>2
    <3>4. QED
      BY <2>5, <3>3
  <2>7. \A k \in R : objects[k].occurrence \in Occurrences
    BY <1>4, <1>6
  <2>8. \A one \in copy[c] : Differs(one, body, objects[i].occurrence)
    <3>1. i \in PlanUpdate(current, R, body, match).archive
               \cup {write[1] : write \in PlanUpdate(current, R, body, match).update}
      BY DEF planned
    <3> HIDE DEF etag
    <3>2. QED
      BY <2>2, <2>6, <2>7, <3>1, PlannedIsChanged
  <2>9. ASSUME NEW d,
               \A one \in copy[c] : Differs(one, body, d)
        PROVE  ChangesOccurrence(c, d)'
    <3>1. copy'[c] = copy[c] /\ request'[c].body.replaced[d] = body.replaced[d]
      BY <1>3
    <3>2. QED
      BY <2>9, <3>1 DEF ChangesOccurrence, Differs
  <2>10. QED
    BY <1>3, <2>8, <2>9
<1>14. plan'[c].archive \subseteq Parts(held[c].id)'
  BY <1>3, <1>4, <1>5, <1>11
<1>15. QED
  BY <1>7, <1>8, <1>9, <1>10, <1>12, <1>13, <1>14 DEF Applies

LEMMA HoldsMaster ==
    ASSUME TypeOK, NEW c \in Clients, NEW current \in Objects,
           held' = [held EXCEPT ![c].master = {current}]
    PROVE  /\ held' \in [Clients -> [id : Optional(Ids), listing : SUBSET Listings,
                                     master : SUBSET Objects]]
           /\ held'[c].id = held[c].id /\ held'[c].listing = held[c].listing
           /\ held'[c].master = {current}
           /\ \A other \in Clients \ {c} : held'[other] = held[other]
BY DEF TypeOK

\* The event has been read: the request is refused, or its plan is right for what was read.
LEMMA DecideKeeps ==
    ASSUME EventsInv, NEW c \in Clients, pc[c] \in {"get", "list"}, request[c].of = "event",
           NEW current \in Objects, NEW R \in SUBSET Ids,
           Decide(c, current, R), NotesDisturbance(c), UNCHANGED <<objects, cache, copy, turns>>,
           ~disturbed[c] /\ ~Overlooks(c) =>
                /\ SameEvent(objects[held[c].id], current)
                /\ (R = Parts(held[c].id) /\ current.rule) \/ (R = {} /\ ~current.rule)
    PROVE  EventsInv'
<1> DEFINE id == held[c].id
           etag == IF current.dated
                     THEN {Rendered(current, [i \in R |-> objects[i]])} ELSE {}
<1>1. TypeOK /\ Linkage /\ Addressed(c) /\ id \in Ids /\ Known(id)
  BY DEF EventsInv, Addressed
<1>2. objects' = objects /\ cache' = cache /\ copy' = copy /\ turns' = turns
  OBVIOUS
<1>3. /\ disturbed' \in [Clients -> BOOLEAN]
      /\ disturbed'[c] <=> pc'[c] # "idle" /\ (disturbed[c] \/ Overlooks(c))
      /\ \A other \in Clients \ {c} : disturbed'[other] = disturbed[other]
  BY <1>1 DEF NotesDisturbance, TypeOK, Overlooks
<1>4. CASE Ends(c)
  BY <1>1, <1>2, <1>4, EndsKeeps DEF TypeOK, Addressed
<1>5. CASE /\ plan' = [plan EXCEPT ![c] = PlanDelete(current, R)]
           /\ held' = [held EXCEPT ![c].master = {current}]
           /\ Goto(c, "delete")
           /\ UNCHANGED request
  <2>1. /\ pc' \in [Clients -> Points] /\ pc'[c] = "delete"
        /\ \A other \in Clients \ {c} : pc'[other] = pc[other]
    BY <1>1, <1>5 DEF Goto, TypeOK, Points
  <2>2. PlanDelete(current, R) \in Plans
    <3>1. {i \in R : ~current.recurring \/ objects[i].occurrence \notin TookPlace} \subseteq Ids
      OBVIOUS
    <3>2. QED
      BY <3>1 DEF PlanDelete, NoPlan, Plans
  <2>3. /\ plan' \in [Clients -> Plans] /\ plan'[c] = PlanDelete(current, R)
        /\ \A other \in Clients \ {c} : plan'[other] = plan[other]
    BY <1>1, <1>5, <2>2 DEF TypeOK
  <2>4. /\ held' \in [Clients -> [id : Optional(Ids), listing : SUBSET Listings,
                                  master : SUBSET Objects]]
        /\ held'[c].id = id /\ held'[c].listing = held[c].listing /\ held'[c].master = {current}
        /\ \A other \in Clients \ {c} : held'[other] = held[other]
    BY <1>1, <1>5, HoldsMaster
  <2>5. TypeOK'
    BY <1>1, <1>2, <1>3, <1>5, <2>1, <2>3, <2>4 DEF TypeOK
  <2>6. \A snapshot \in held[c].listing : ServesKnown(snapshot)'
    BY <1>1, <1>2 DEF Addressed, ServesKnown, Known
  <2>7. Addressed(c)'
    BY <1>1, <1>2, <1>5, <2>1, <2>4, <2>6 DEF Addressed, Known
  <2>8. ASSUME ~disturbed'[c] PROVE Deletes(c)'
    <3>1. /\ SameEvent(objects[id], current)
          /\ (R = Parts(id) /\ current.rule) \/ (R = {} /\ ~current.rule)
      BY <1>3, <2>1, <2>8
    <3>2. PlanDelete(current, R).archive
            = {i \in R : ~current.recurring \/ objects[i].occurrence \notin TookPlace}
      BY DEF PlanDelete, NoPlan
    <3>3. current.rule => \A i \in Parts(id) :
              \/ i \in PlanDelete(current, R).archive
              \/ objects[id].recurring /\ objects[i].occurrence \in TookPlace
      BY <3>1, <3>2 DEF SameEvent
    <3>4. Parts(id)' = Parts(id)
      BY <1>2, <2>4 DEF Parts
    <3>5. PlanDelete(current, R).archive \subseteq Parts(id)
      BY <3>1, <3>2
    <3>6. QED
      BY <1>2, <2>3, <2>4, <3>3, <3>4, <3>5 DEF Deletes
  <2>9. Undisturbed(c)'
    BY <2>1, <2>8 DEF Undisturbed
  <2>10. \A other \in Clients \ {c} : Rests(other) /\ disturbed'[other] = disturbed[other]
    BY <1>2, <1>3, <1>5, <2>1, <2>3, <2>4 DEF Rests
  <2>11. QED
    BY <1>2, <2>5, <2>7, <2>9, <2>10, GoesOnKeeps
<1>6. ASSUME NEW body \in SentBodies(c), NEW match \in Matches(body, R),
             request[c].op = "PUT", ~Refused(c, current, etag),
             plan' = [plan EXCEPT ![c] = PlanUpdate(current, R, body, match)],
             request' = [request EXCEPT ![c].body = body],
             held' = [held EXCEPT ![c].master = {current}],
             Goto(c, "apply")
      PROVE  EventsInv'
  <2>1. body \in Bodies /\ TidyBody(body)
    <3>1. \A one \in copy[c] : one.of = "event" /\ Tidy(one.ics)
      BY <1>1, <1>6 DEF Addressed
    <3>2. QED
      BY <1>1, <3>1, SentBodiesAreBodies
  <2>2. /\ pc' \in [Clients -> Points] /\ pc'[c] = "apply"
        /\ \A other \in Clients \ {c} : pc'[other] = pc[other]
    BY <1>1, <1>6 DEF Goto, TypeOK, Points
  <2>3. PlanUpdate(current, R, body, match) \in Plans
    BY <2>1, PlanTypes
  <2>4. /\ plan' \in [Clients -> Plans] /\ plan'[c] = PlanUpdate(current, R, body, match)
        /\ \A other \in Clients \ {c} : plan'[other] = plan[other]
    BY <1>1, <1>6, <2>3 DEF TypeOK
  <2>5. /\ held' \in [Clients -> [id : Optional(Ids), listing : SUBSET Listings,
                                  master : SUBSET Objects]]
        /\ held'[c].id = id /\ held'[c].listing = held[c].listing /\ held'[c].master = {current}
        /\ \A other \in Clients \ {c} : held'[other] = held[other]
    BY <1>1, <1>6, HoldsMaster
  <2>6. /\ request' \in [Clients -> Requests] /\ request'[c].body = body
        /\ request'[c].op = "PUT" /\ request'[c].of = "event"
        /\ request'[c].condition = request[c].condition
        /\ \A other \in Clients \ {c} : request'[other] = request[other]
    BY <1>1, <1>6, <2>1, SaysBody
  <2>7. TypeOK'
    BY <1>1, <1>2, <1>3, <2>2, <2>4, <2>5, <2>6 DEF TypeOK
  <2>8. \A snapshot \in held[c].listing : ServesKnown(snapshot)'
    BY <1>1, <1>2 DEF Addressed, ServesKnown, Known
  <2>9. Addressed(c)'
    BY <1>1, <1>2, <1>6, <2>1, <2>2, <2>5, <2>6, <2>8 DEF Addressed, Known
  <2>10. ASSUME ~disturbed'[c] PROVE Applies(c)'
    <3>1. /\ SameEvent(objects[id], current)
          /\ (R = Parts(id) /\ current.rule) \/ (R = {} /\ ~current.rule)
      BY <1>3, <2>2, <2>10
    <3>2. Planned(c, current, body, PlanUpdate(current, R, body, match))
      BY <1>2, <2>4, <2>5, <2>6 DEF Planned
    <3>3. QED
      BY <1>1, <1>6, <2>1, <3>1, <3>2, PlannedApplies
  <2>11. Undisturbed(c)'
    BY <2>2, <2>10 DEF Undisturbed
  <2>12. \A other \in Clients \ {c} : Rests(other) /\ disturbed'[other] = disturbed[other]
    BY <1>2, <1>3, <2>2, <2>4, <2>5, <2>6 DEF Rests
  <2>13. QED
    BY <1>2, <2>7, <2>9, <2>11, <2>12, GoesOnKeeps
<1> HIDE DEF etag
<1>7. QED
  BY <1>4, <1>5, <1>6 DEF Decide, etag

LEMMA GetEventKeeps ==
    ASSUME EventsInv, NEW c \in Clients, GetEvent(c)
    PROVE  EventsInv'
<1> DEFINE current == objects[held[c].id]
<1>1. TypeOK /\ Addressed(c) /\ pc[c] = "get" /\ held[c].id \in Ids
  BY DEF GetEvent, EventsInv, Addressed
<1>2. current \in Objects /\ Alive(current) /\ ~current.rule
  BY <1>1 DEF GetEvent, TypeOK
<1>3. SameEvent(objects[held[c].id], current)
  BY <1>2 DEF SameEvent
<1>4. Decide(c, current, {}) /\ NotesDisturbance(c) /\ UNCHANGED <<objects, cache, copy, turns>>
      /\ request[c].of = "event"
  BY DEF GetEvent
<1> HIDE DEF current
<1>5. QED
  BY <1>1, <1>2, <1>3, <1>4, DecideKeeps

LEMMA ListReplacementsKeeps ==
    ASSUME EventsInv, NEW c \in Clients, ListReplacements(c)
    PROVE  EventsInv'
<1> DEFINE id == held[c].id
           R == Linked(objects, id)
<1>1. TypeOK /\ Addressed(c) /\ Undisturbed(c) /\ pc[c] = "list" /\ id \in Ids /\ request[c].of = "event"
  BY DEF ListReplacements, EventsInv, Addressed
<1>2. PICK current \in held[c].master : Decide(c, current, R)
  BY DEF ListReplacements
<1>3. current \in Objects /\ R \in SUBSET Ids
  BY <1>1 DEF TypeOK, Linked, Listed
<1>4. ASSUME ~disturbed[c], ~Overlooks(c)
      PROVE  /\ SameEvent(objects[held[c].id], current)
             /\ (R = Parts(held[c].id) /\ current.rule) \/ (R = {} /\ ~current.rule)
  <2>1. R = Parts(id)
    BY <1>4 DEF Overlooks, Parts, Linked, Listed, Alive
  <2>2. QED
    BY <1>1, <1>2, <1>4, <2>1 DEF Undisturbed, Reads
<1>5. NotesDisturbance(c) /\ UNCHANGED <<objects, cache, copy, turns>>
  BY DEF ListReplacements
<1> HIDE DEF R
<1>6. QED
  BY <1>1, <1>2, <1>3, <1>4, <1>5, DecideKeeps

-----------------------------------------------------------------------------
(* What is written *)

\* A request that has written ends, or it goes on; whoever else reads is disturbed.
LEMMA WrittenKeeps ==
    ASSUME EventsInv, NEW c \in Clients, TypeOK', Linkage', \A k \in Ids : Known(k) => Known(k)',
           \A snapshot \in cache' : snapshot \in cache \/ ServesKnown(snapshot)',
           \A other \in Clients \ {c} : Rests(other) /\ (Reading(other) => disturbed'[other]),
           Addressed(c)', Undisturbed(c)'
    PROVE  EventsInv'
BY Together

LEMMA RepliesKeep ==
    ASSUME EventsInv, NEW c \in Clients, Reply(c), copy' = copy,
           cache' = cache \/ cache' = {}, turns' \in 0 .. MaxTurns,
           objects' \in [Ids -> Objects], Linkage', \A k \in Ids : Known(k) => Known(k)',
           disturbed' = [other \in Clients |-> other # c /\ (disturbed[other] \/ Reading(other))]
    PROVE  EventsInv'
<1>1. TypeOK /\ Addressed(c)
  BY DEF EventsInv
<1>2. /\ copy' \in [Clients -> SUBSET Copies]
      /\ \A one \in copy'[c] : one.of = "event" => Tidy(one.ics)
  BY <1>1 DEF TypeOK, Addressed
<1>3. /\ disturbed' \in [Clients -> BOOLEAN]
      /\ \A other \in Clients \ {c} : Reading(other) => disturbed'[other]
  BY <1>1 DEF TypeOK, Reading
<1>4. TypeOK'
  BY <1>1, <1>2, <1>3, Replied DEF TypeOK
<1>5. Addressed(c)' /\ Undisturbed(c)'
  BY <1>1, <1>2, Replied
<1>6. \A other \in Clients \ {c} : Rests(other)
  BY <1>1, <1>2, Replied DEF Rests
<1>7. QED
  BY <1>3, <1>4, <1>5, <1>6, WrittenKeeps

\* A write of a plan has been done, and the rest of it is still to come.
Proceeds(c, rest) ==
    /\ pc'[c] = pc[c] /\ plan'[c] = rest
    /\ held'[c] = held[c] /\ request'[c] = request[c] /\ copy'[c] = copy[c]

LEMMA ContinuesKeeps ==
    ASSUME EventsInv, NEW c \in Clients, pc[c] \in {"apply", "delete"}, NEW rest \in Plans,
           Continues(c, rest),
           objects' \in [Ids -> Objects], Linkage', \A k \in Ids : Known(k) => Known(k)',
           Proceeds(c, rest) /\ ~disturbed[c] =>
                (pc[c] = "apply" => Applies(c)') /\ (pc[c] = "delete" => Deletes(c)')
    PROVE  EventsInv'
<1>1. TypeOK /\ Addressed(c) /\ copy' = copy /\ turns \in 0 .. MaxTurns /\ MaxTurns \in Nat
  BY EventsAssumption DEF EventsInv, Continues, TypeOK
<1>2. CASE /\ plan' = [plan EXCEPT ![c] = rest]
           /\ UNCHANGED <<cache, pc, request, held, turns>>
           /\ DisturbsOthers(c)
  <2>1. /\ plan' \in [Clients -> Plans] /\ plan'[c] = rest
        /\ \A other \in Clients \ {c} : plan'[other] = plan[other]
    BY <1>1, <1>2 DEF TypeOK
  <2>2. /\ disturbed' \in [Clients -> BOOLEAN] /\ disturbed'[c] = disturbed[c]
        /\ \A other \in Clients \ {c} : Reading(other) => disturbed'[other]
    BY <1>1, <1>2 DEF DisturbsOthers, TypeOK, Reading
  <2>3. TypeOK'
    BY <1>1, <1>2, <2>1, <2>2 DEF TypeOK
  <2>4. \A snapshot \in held[c].listing : ServesKnown(snapshot)'
    <3>1. \A snapshot \in Listings : ServesKnown(snapshot) => ServesKnown(snapshot)'
      BY DEF ServesKnown, Listings
    <3>2. QED
      BY <1>1, <3>1 DEF Addressed, TypeOK
  <2>5. Addressed(c)'
    BY <1>1, <1>2, <2>4 DEF Addressed
  <2>6. Proceeds(c, rest)
    BY <1>1, <1>2, <2>1 DEF Proceeds
  <2>7. Undisturbed(c)'
    BY <1>2, <2>2, <2>6 DEF Undisturbed
  <2>8. \A other \in Clients \ {c} : Rests(other)
    BY <1>1, <1>2, <2>1 DEF Rests
  <2>9. QED
    BY <1>2, <2>2, <2>3, <2>5, <2>7, <2>8, WrittenKeeps
<1>3. CASE /\ Turn /\ Invalidates /\ Reply(c)
           /\ disturbed' = [other \in Clients |-> other # c /\ (disturbed[other] \/ Reading(other))]
  <2>1. turns' \in 0 .. MaxTurns /\ cache' = {}
    BY <1>1, <1>3 DEF Turn, Invalidates
  <2>2. QED
    BY <1>1, <1>3, <2>1, RepliesKeep
<1>4. QED
  BY <1>2, <1>3 DEF Continues

\* What has a name is no part of itself.
LEMMA NotItsOwnPart ==
    ASSUME TypeOK, Linkage, NEW id \in Ids, Known(id)
    PROVE  id \notin Parts(id) /\ objects[id].status # "none"
<1>1. objects[id].uid => objects[id].series = None
  BY DEF Linkage, WellLinked
<1>2. objects[id].status = "none" => ~objects[id].uid
  BY DEF Linkage, WellLinked
<1>3. QED
  BY <1>1, <1>2, EventsAssumption DEF Known, Parts, Alive

LEMMA PatchedType ==
    ASSUME NEW object \in Objects, NEW patch \in Patches
    PROVE  Patched(object, patch) \in Objects
<1> DEFINE value == IF patch.value = None THEN object.value ELSE patch.value
           rule == IF patch.rule = None THEN object.rule ELSE patch.rule
           exdates == UNION (IF patch.exdates = {} THEN {object.exdates} ELSE patch.exdates)
<1>1. value \in Values /\ rule \in BOOLEAN
  BY DEF Objects, Patches, Optional
<1>2. exdates \in SUBSET Occurrences
  BY DEF Objects, Patches
<1>3. Patched(object, patch) = [object EXCEPT !.value = value, !.dated = TRUE, !.rule = rule,
                                              !.exdates = exdates]
  BY DEF Patched, Objects
<1> HIDE DEF value, rule, exdates
<1>4. QED
  BY <1>1, <1>2, <1>3 DEF Objects

LEMMA ApplyMasterKeeps ==
    ASSUME EventsInv, NEW c \in Clients, ApplyMaster(c)
    PROVE  EventsInv'
<1> DEFINE id == held[c].id
           rest == [plan[c] EXCEPT !.master = {}]
<1>1. TypeOK /\ Linkage /\ Addressed(c) /\ Undisturbed(c) /\ pc[c] = "apply" /\ id \in Ids /\ Known(id)
  BY DEF ApplyMaster, EventsInv, Addressed
<1>2. plan[c] \in Plans /\ objects \in [Ids -> Objects] /\ objects[id] \in Objects
  BY <1>1 DEF TypeOK
<1>3. PICK patch \in plan[c].master : Holds(id, Patched(objects[id], patch))
  BY DEF ApplyMaster
<1> DEFINE written == Patched(objects[id], patch)
<1>4. written \in Objects
  BY <1>2, PatchedType DEF Plans
<1>5. /\ written.recurring = objects[id].recurring /\ written.status = objects[id].status
      /\ written.uid = objects[id].uid /\ written.series = objects[id].series
      /\ written.occurrence = objects[id].occurrence
  BY <1>2, PatchedFields
<1> HIDE DEF written
<1>6. Holds(id, written)
  BY <1>3 DEF written
<1>7. Linkage' /\ \A k \in Ids : Known(k) => Known(k)'
  BY <1>1, <1>2, <1>4, <1>5, <1>6, WritesOver
<1>8. /\ objects' \in [Ids -> Objects] /\ \A j \in Ids \ {id} : objects'[j] = objects[j]
      /\ written.status # "archived" =>
            \E s \in 0 .. MaxSecond : objects'[id] = [written EXCEPT !.modified = s]
  BY <1>1, <1>2, <1>4, <1>6, HoldsIt
<1>9. /\ rest \in Plans /\ rest.master = {} /\ rest.update = plan[c].update
      /\ rest.create = plan[c].create /\ rest.archive = plan[c].archive
  BY <1>2 DEF Plans
<1>10. Continues(c, rest)
  BY DEF ApplyMaster
<1> HIDE DEF rest
<1>11. ASSUME Proceeds(c, rest), ~disturbed[c]
       PROVE  Applies(c)'
  <2>1. Applies(c)
    BY <1>1, <1>11 DEF Undisturbed
  <2>2. /\ held'[c] = held[c] /\ plan'[c] = rest /\ request'[c] = request[c] /\ copy'[c] = copy[c]
    BY <1>11 DEF Proceeds
  <2>3. Alive(objects[id]) /\ Carries(written, request[c].body)
    BY <1>3, <2>1 DEF Applies, MasterAgrees, MasterWritten, written
  <2>4. /\ Alive(objects'[id]) /\ Carries(objects'[id], request[c].body)
        /\ objects'[id].recurring = objects[id].recurring
        /\ objects'[id].series = objects[id].series
    <3>1. PICK s \in 0 .. MaxSecond : objects'[id] = [written EXCEPT !.modified = s]
      BY <1>5, <1>8, <2>3 DEF Alive
    <3>2. QED
      BY <1>4, <1>5, <2>3, <3>1 DEF Alive, Carries, Objects
  <2>5. id \notin Parts(id)
    BY <1>1, NotItsOwnPart
  <2>6. Parts(id)' = Parts(id)
    <3>1. held'[c].id = id
      BY <2>2
    <3>2. \A k \in Ids : /\ Alive(objects'[k]) <=> Alive(objects[k])
                         /\ objects'[k].series = objects[k].series
      BY <1>8, <2>3, <2>4
    <3>3. QED
      BY <3>1, <3>2 DEF Parts
  <2>7. \A k \in Parts(id) : k \in Ids /\ objects'[k] = objects[k]
    BY <1>8, <2>5 DEF Parts
  <2>8. plan[c].archive \subseteq Parts(id) /\ \A write \in plan[c].update : write[1] \in Parts(id)
    BY <2>1 DEF Applies, WritesAgree
  <2>9. MasterAgrees(c)'
    BY <1>9, <2>2, <2>4 DEF MasterAgrees, MasterWritten
  <2>10. WritesAgree(c)'
    BY <1>9, <2>1, <2>2, <2>6, <2>7, <2>8 DEF Applies, WritesAgree
  <2>11. SentIsThere(c)'
    <3>1. ASSUME NEW d \in Sends(request[c].body)
          PROVE  \/ <<d, request[c].body.replaced[d]>> \in plan[c].create
                 \/ \E i \in Parts(id) \ plan[c].archive :
                      /\ objects'[i].occurrence = d
                      /\ \/ objects'[i].value = request[c].body.replaced[d]
                         \/ <<i, request[c].body.replaced[d]>> \in plan[c].update
      BY <2>1, <2>7 DEF Applies, SentIsThere
    <3>2. SUFFICES ASSUME NEW d \in Sends(request[c].body)
                   PROVE  \/ <<d, request[c].body.replaced[d]>> \in rest.create
                          \/ \E i \in Parts(id) \ rest.archive :
                               /\ objects'[i].occurrence = d
                               /\ \/ objects'[i].value = request[c].body.replaced[d]
                                  \/ <<i, request[c].body.replaced[d]>> \in rest.update
      BY <2>2, <2>6 DEF SentIsThere
    <3>3. QED
      BY <1>9, <3>1
  <2>12. OnlySentIsThere(c)'
    <3>1. ASSUME \A was \in held[c].master : was.rule, NEW i \in Parts(id)
          PROVE  \/ i \in plan[c].archive
                 \/ objects[i].value = request[c].body.replaced[objects[i].occurrence]
                 \/ <<i, request[c].body.replaced[objects[i].occurrence]>> \in plan[c].update
                 \/ objects[id].recurring /\ objects[i].occurrence \notin request[c].body.exdates
      BY <2>1, <3>1 DEF Applies, OnlySentIsThere, MayStay
    <3>2. QED
      BY <1>9, <2>2, <2>4, <2>6, <2>7, <3>1 DEF OnlySentIsThere, MayStay
  <2>13. ArchivesExcluded(c)'
    BY <1>9, <2>1, <2>2, <2>4, <2>7, <2>8 DEF Applies, ArchivesExcluded
  <2>14. Protects(c)'
    <3>1. \A d : ChangesOccurrence(c, d) => ChangesOccurrence(c, d)'
      BY <2>2 DEF ChangesOccurrence
    <3>2. \A i \in plan[c].archive \cup {write[1] : write \in plan[c].update} : objects'[i] = objects[i]
      BY <2>7, <2>8
    <3>3. QED
      BY <1>9, <2>1, <2>2, <3>1, <3>2 DEF Applies, Protects
  <2>15. plan'[c].archive \subseteq Parts(held[c].id)'
    BY <1>9, <2>2, <2>6, <2>8
  <2>16. QED
    BY <2>9, <2>10, <2>11, <2>12, <2>13, <2>14, <2>15 DEF Applies
<1>12. QED
  BY <1>1, <1>7, <1>8, <1>9, <1>10, <1>11, ContinuesKeeps

LEMMA ApplyUpdateKeeps ==
    ASSUME EventsInv, NEW c \in Clients, ApplyUpdate(c)
    PROVE  EventsInv'
<1> DEFINE id == held[c].id
           body == request[c].body
<1>1. TypeOK /\ Linkage /\ Addressed(c) /\ Undisturbed(c) /\ pc[c] = "apply" /\ id \in Ids /\ Known(id)
  BY DEF ApplyUpdate, EventsInv, Addressed
<1>2. plan[c] \in Plans /\ objects \in [Ids -> Objects]
  BY <1>1 DEF TypeOK
<1>3. PICK write \in plan[c].update :
          /\ Holds(write[1], [objects[write[1]] EXCEPT !.value = write[2]])
          /\ Continues(c, [plan[c] EXCEPT !.update = @ \ {write}])
  BY DEF ApplyUpdate
<1> DEFINE n == write[1]
           written == [objects[n] EXCEPT !.value = write[2]]
           rest == [plan[c] EXCEPT !.update = @ \ {write}]
<1>4. n \in Ids /\ write[2] \in Values /\ write = <<n, write[2]>> /\ objects[n] \in Objects
  BY <1>2 DEF Plans
<1>5. /\ written \in Objects /\ written.value = write[2]
      /\ written.recurring = objects[n].recurring /\ written.status = objects[n].status
      /\ written.uid = objects[n].uid /\ written.series = objects[n].series
      /\ written.occurrence = objects[n].occurrence
  BY <1>4 DEF Objects
<1> HIDE DEF written, n
<1>6. Holds(n, written)
  BY <1>3 DEF written, n
<1>7. Linkage' /\ \A k \in Ids : Known(k) => Known(k)'
  BY <1>1, <1>2, <1>4, <1>5, <1>6, WritesOver
<1>8. /\ objects' \in [Ids -> Objects] /\ \A j \in Ids \ {n} : objects'[j] = objects[j]
      /\ written.status # "archived" =>
            \E s \in 0 .. MaxSecond : objects'[n] = [written EXCEPT !.modified = s]
  BY <1>2, <1>4, <1>5, <1>6, HoldsIt
<1>9. /\ rest \in Plans /\ rest.master = plan[c].master /\ rest.update = plan[c].update \ {write}
      /\ rest.create = plan[c].create /\ rest.archive = plan[c].archive
  BY <1>2 DEF Plans
<1>10. Continues(c, rest)
  BY <1>3
<1> HIDE DEF rest
<1>11. ASSUME Proceeds(c, rest), ~disturbed[c]
       PROVE  Applies(c)'
  <2>1. Applies(c) /\ plan[c].master = {}
    BY <1>1, <1>11 DEF Undisturbed, ApplyUpdate, MasterWritten
  <2>2. /\ held'[c] = held[c] /\ plan'[c] = rest /\ request'[c] = request[c] /\ copy'[c] = copy[c]
    BY <1>11 DEF Proceeds
  <2>3. n \in Parts(id) /\ write[2] = body.replaced[objects[n].occurrence]
    BY <2>1 DEF Applies, WritesAgree, n
  <2>4. /\ Alive(objects'[n]) /\ objects'[n].value = write[2]
        /\ objects'[n].series = objects[n].series /\ objects'[n].occurrence = objects[n].occurrence
    <3>1. Alive(objects[n]) /\ written.status # "archived"
      BY <1>5, <2>3 DEF Parts, Alive
    <3>2. PICK s \in 0 .. MaxSecond : objects'[n] = [written EXCEPT !.modified = s]
      BY <1>8, <3>1
    <3>3. QED
      BY <1>5, <3>1, <3>2 DEF Alive, Objects
  <2>5. id # n /\ objects'[id] = objects[id]
    BY <1>1, <1>8, <2>3, NotItsOwnPart
  <2>6. Parts(id)' = Parts(id)
    <3>1. held'[c].id = id
      BY <2>2
    <3>2. \A k \in Ids : k # n => /\ Alive(objects'[k]) <=> Alive(objects[k])
                                  /\ objects'[k].series = objects[k].series
      BY <1>8
    <3>3. Alive(objects[n])
      BY <2>3 DEF Parts
    <3>4. QED
      BY <3>1, <3>2, <3>3, <2>4 DEF Parts
  <2>7. /\ \A k \in Parts(id) : k \in Ids /\ objects'[k].occurrence = objects[k].occurrence
        /\ \A k \in Parts(id) \ {n} : objects'[k] = objects[k]
    BY <1>8, <2>4 DEF Parts
  <2>8. plan[c].archive \subseteq Parts(id) /\ \A w \in plan[c].update : w[1] \in Parts(id)
    BY <2>1 DEF Applies, WritesAgree
  <2>9. MasterAgrees(c)'
    BY <1>9, <2>1, <2>2, <2>5 DEF Applies, MasterAgrees, MasterWritten
  <2>10. WritesAgree(c)'
    <3>1. ASSUME NEW w \in rest.update
          PROVE  w[1] \in Parts(id) /\ w[2] = body.replaced[objects'[w[1]].occurrence]
      <4>1. w \in plan[c].update
        BY <1>9
      <4>2. w[1] \in Parts(id) /\ w[2] = body.replaced[objects[w[1]].occurrence]
        BY <2>1, <4>1 DEF Applies, WritesAgree
      <4>3. QED
        BY <2>7, <4>2
    <3>2. \A w \in rest.create : w[2] = body.replaced[w[1]]
      BY <1>9, <2>1 DEF Applies, WritesAgree
    <3>3. QED
      BY <2>2, <2>6, <3>1, <3>2 DEF WritesAgree
  <2>11. SentIsThere(c)'
    <3>1. SUFFICES ASSUME NEW d \in Sends(body)
                   PROVE  \/ <<d, body.replaced[d]>> \in rest.create
                          \/ \E i \in Parts(id) \ rest.archive :
                               /\ objects'[i].occurrence = d
                               /\ \/ objects'[i].value = body.replaced[d]
                                  \/ <<i, body.replaced[d]>> \in rest.update
      BY <2>2, <2>6 DEF SentIsThere
    <3>2. CASE <<d, body.replaced[d]>> \in plan[c].create
      BY <1>9, <3>2
    <3>3. ASSUME NEW i \in Parts(id) \ plan[c].archive, objects[i].occurrence = d,
                 objects[i].value = body.replaced[d] \/ <<i, body.replaced[d]>> \in plan[c].update
          PROVE  /\ objects'[i].occurrence = d
                 /\ objects'[i].value = body.replaced[d] \/ <<i, body.replaced[d]>> \in rest.update
      <4>1. CASE i = n
        BY <2>3, <2>4, <3>3, <4>1
      <4>2. CASE i # n
        <5>1. <<i, body.replaced[d]>> # write
          BY <1>4, <4>2
        <5>2. objects'[i] = objects[i]
          BY <2>7, <4>2
        <5>3. QED
          BY <1>9, <3>3, <5>1, <5>2
      <4>3. QED
        BY <4>1, <4>2
    <3>4. QED
      BY <1>9, <2>1, <3>2, <3>3 DEF Applies, SentIsThere
  <2>12. OnlySentIsThere(c)'
    <3>1. ASSUME \A was \in held[c].master : was.rule, NEW i \in Parts(id)
          PROVE  \/ i \in rest.archive
                 \/ objects'[i].value = body.replaced[objects'[i].occurrence]
                 \/ <<i, body.replaced[objects'[i].occurrence]>> \in rest.update
                 \/ objects'[id].recurring /\ objects'[i].occurrence \notin body.exdates
      <4>1. \/ i \in plan[c].archive
            \/ objects[i].value = body.replaced[objects[i].occurrence]
            \/ <<i, body.replaced[objects[i].occurrence]>> \in plan[c].update
            \/ objects[id].recurring /\ objects[i].occurrence \notin body.exdates
        BY <2>1, <3>1 DEF Applies, OnlySentIsThere, MayStay
      <4>2. CASE i = n
        BY <2>3, <2>4, <4>2
      <4>3. CASE i # n
        <5>1. <<i, body.replaced[objects[i].occurrence]>> # write
          BY <1>4, <4>3
        <5>2. objects'[i] = objects[i]
          BY <2>7, <4>3
        <5>3. QED
          BY <1>9, <2>5, <4>1, <5>1, <5>2
      <4>4. QED
        BY <4>2, <4>3
    <3>2. QED
      BY <2>2, <2>6, <3>1 DEF OnlySentIsThere, MayStay
  <2>13. ArchivesExcluded(c)'
    <3>1. \A i \in plan[c].archive : objects'[i].occurrence = objects[i].occurrence
      BY <2>7, <2>8
    <3>2. \A i \in plan[c].archive :
              objects[id].recurring => objects[i].occurrence \in body.exdates
      BY <2>1 DEF Applies, ArchivesExcluded
    <3>3. QED
      BY <1>9, <2>2, <2>5, <3>1, <3>2 DEF ArchivesExcluded
  <2>14. Protects(c)'
    <3>1. \A d : ChangesOccurrence(c, d) => ChangesOccurrence(c, d)'
      BY <2>2 DEF ChangesOccurrence
    <3>2. \A i \in rest.archive \cup {w[1] : w \in rest.update} :
            /\ i \in plan[c].archive \cup {w[1] : w \in plan[c].update}
            /\ Alive(objects[i]) /\ objects'[i].occurrence = objects[i].occurrence
      <4>1. TAKE i \in rest.archive \cup {w[1] : w \in rest.update}
      <4>2. i \in plan[c].archive \cup {w[1] : w \in plan[c].update}
        BY <1>9
      <4>3. i \in Parts(id)
        BY <2>8, <4>2
      <4>4. QED
        BY <2>7, <4>2, <4>3 DEF Parts
    <3>3. QED
      BY <2>1, <2>2, <3>1, <3>2 DEF Applies, Protects
  <2>15. plan'[c].archive \subseteq Parts(held[c].id)'
    BY <1>9, <2>2, <2>6, <2>8
  <2>16. QED
    BY <2>9, <2>10, <2>11, <2>12, <2>13, <2>14, <2>15 DEF Applies
<1>12. QED
  BY <1>1, <1>7, <1>8, <1>9, <1>10, <1>11, ContinuesKeeps

LEMMA ApplyCreateKeeps ==
    ASSUME EventsInv, NEW c \in Clients, ApplyCreate(c)
    PROVE  EventsInv'
<1> DEFINE id == held[c].id
           body == request[c].body
           n == NextId
<1>1. TypeOK /\ Linkage /\ Addressed(c) /\ Undisturbed(c) /\ pc[c] = "apply" /\ id \in Ids /\ Known(id)
  BY DEF ApplyCreate, EventsInv, Addressed
<1>2. plan[c] \in Plans /\ objects \in [Ids -> Objects]
  BY <1>1 DEF TypeOK
<1>3. PICK write \in plan[c].create :
          /\ Holds(n, [Occurrence(write[1]) EXCEPT !.status = "new", !.series = id, !.value = write[2]])
          /\ Continues(c, [plan[c] EXCEPT !.create = @ \ {write}])
  BY DEF ApplyCreate
<1>4. n \in Ids /\ objects[n].status = "none"
  BY NextIdIsNew DEF ApplyCreate
<1> DEFINE written == [Occurrence(write[1]) EXCEPT !.status = "new", !.series = id, !.value = write[2]]
           rest == [plan[c] EXCEPT !.create = @ \ {write}]
<1>5. write[1] \in Occurrences /\ write[2] \in Values /\ write = <<write[1], write[2]>>
  BY <1>2 DEF Plans
<1>6. /\ written \in Objects /\ written.status = "new" /\ written.series = id
      /\ written.occurrence = write[1] /\ written.value = write[2]
      /\ ~written.uid /\ ~written.recurring /\ written.occurrence # None
  BY <1>1, <1>5, NoObjectType, EventsAssumption DEF Occurrence, NoObject, Objects, Optional
<1> HIDE DEF written, n
<1>7. Holds(n, written)
  BY <1>3 DEF written
<1>8. Linkage' /\ \A k \in Ids : Known(k) => Known(k)'
  BY <1>1, <1>2, <1>4, <1>6, <1>7, WritesNew
<1>9. /\ objects' \in [Ids -> Objects] /\ \A j \in Ids \ {n} : objects'[j] = objects[j]
      /\ \E s \in 0 .. MaxSecond : objects'[n] = [written EXCEPT !.modified = s]
  BY <1>2, <1>4, <1>6, <1>7, HoldsIt
<1>10. /\ Alive(objects'[n]) /\ objects'[n].series = id /\ objects'[n].occurrence = write[1]
       /\ objects'[n].value = write[2]
  <2>1. PICK s \in 0 .. MaxSecond : objects'[n] = [written EXCEPT !.modified = s]
    BY <1>9
  <2>2. QED
    BY <1>6, <2>1 DEF Alive, Objects
<1>11. /\ rest \in Plans /\ rest.master = plan[c].master /\ rest.update = plan[c].update
       /\ rest.create = plan[c].create \ {write} /\ rest.archive = plan[c].archive
  BY <1>2 DEF Plans
<1>12. Continues(c, rest)
  BY <1>3
<1> HIDE DEF rest
<1>13. ASSUME Proceeds(c, rest), ~disturbed[c]
       PROVE  Applies(c)'
  <2>1. Applies(c) /\ plan[c].master = {} /\ plan[c].update = {}
    BY <1>1, <1>13 DEF Undisturbed, ApplyCreate, MasterWritten
  <2>2. /\ held'[c] = held[c] /\ plan'[c] = rest /\ request'[c] = request[c] /\ copy'[c] = copy[c]
    BY <1>13 DEF Proceeds
  <2>3. n \notin Parts(id) /\ n # id /\ Parts(id) \subseteq Ids
    BY <1>1, <1>4, NotItsOwnPart DEF Parts, Alive
  <2>4. objects'[id] = objects[id]
    BY <1>1, <1>9, <2>3
  <2>5. Parts(id)' = Parts(id) \cup {n}
    <3>1. held'[c].id = id
      BY <2>2
    <3>2. QED
      BY <1>4, <1>9, <1>10, <2>3, <3>1 DEF Parts
  <2>6. \A k \in Parts(id) : objects'[k] = objects[k]
    BY <1>9, <2>3
  <2>7. plan[c].archive \subseteq Parts(id)
    BY <2>1 DEF Applies
  <2>8. write[2] = body.replaced[write[1]]
    BY <2>1 DEF Applies, WritesAgree
  <2>9. MasterAgrees(c)'
    BY <1>11, <2>1, <2>2, <2>4 DEF Applies, MasterAgrees, MasterWritten
  <2>10. WritesAgree(c)'
    <3>1. \A w \in rest.create : w[2] = body.replaced[w[1]]
      BY <1>11, <2>1 DEF Applies, WritesAgree
    <3>2. QED
      BY <1>11, <2>1, <2>2, <3>1 DEF WritesAgree
  <2>11. SentIsThere(c)'
    <3>1. SUFFICES ASSUME NEW d \in Sends(body), <<d, body.replaced[d]>> \notin rest.create
                   PROVE  \E i \in Parts(id) \cup {n} :
                               /\ i \notin rest.archive /\ objects'[i].occurrence = d
                               /\ \/ objects'[i].value = body.replaced[d]
                                  \/ <<i, body.replaced[d]>> \in rest.update
      <4>1. Sends(request'[c].body) = Sends(body)
        BY <2>2
      <4>2. QED
        BY <2>2, <2>5, <4>1, SMTT(40) DEF SentIsThere
    <3>2. CASE <<d, body.replaced[d]>> = write
      <4>1. d = write[1] /\ body.replaced[d] = write[2]
        BY <2>8, <3>2
      <4>2. n \in Parts(id) \cup {n} /\ n \notin rest.archive
        BY <1>11, <2>3, <2>7
      <4>3. QED
        BY <1>10, <4>1, <4>2
    <3>3. CASE <<d, body.replaced[d]>> # write /\ <<d, body.replaced[d]>> \in plan[c].create
      BY <1>11, <3>1, <3>3
    <3>4. CASE \E i \in Parts(id) \ plan[c].archive :
                  objects[i].occurrence = d /\ objects[i].value = body.replaced[d]
      <4>1. PICK i \in Parts(id) \ plan[c].archive :
                  objects[i].occurrence = d /\ objects[i].value = body.replaced[d]
        BY <3>4
      <4>2. objects'[i] = objects[i] /\ i \notin rest.archive
        BY <1>11, <2>6, <4>1
      <4>3. QED
        BY <4>1, <4>2
    <3>5. QED
      BY <2>1, <3>2, <3>3, <3>4 DEF Applies, SentIsThere
  <2>12. OnlySentIsThere(c)'
    <3>1. ASSUME \A was \in held[c].master : was.rule, NEW i \in Parts(id) \cup {n}
          PROVE  \/ i \in rest.archive
                 \/ objects'[i].value = body.replaced[objects'[i].occurrence]
                 \/ <<i, body.replaced[objects'[i].occurrence]>> \in rest.update
                 \/ objects'[id].recurring /\ objects'[i].occurrence \notin body.exdates
      <4>1. CASE i = n
        BY <1>10, <2>8, <4>1
      <4>2. CASE i \in Parts(id)
        <5>1. \/ i \in plan[c].archive
              \/ objects[i].value = body.replaced[objects[i].occurrence]
              \/ <<i, body.replaced[objects[i].occurrence]>> \in plan[c].update
              \/ objects[id].recurring /\ objects[i].occurrence \notin body.exdates
          BY <2>1, <3>1, <4>2 DEF Applies, OnlySentIsThere, MayStay
        <5>2. objects'[i] = objects[i]
          BY <2>6, <4>2
        <5>3. QED
          BY <1>11, <2>4, <5>1, <5>2
      <4>3. QED
        BY <4>1, <4>2
    <3>2. QED
      BY <2>2, <2>5, <3>1 DEF OnlySentIsThere, MayStay
  <2>13. ArchivesExcluded(c)'
    <3>1. \A i \in plan[c].archive : objects'[i] = objects[i]
      BY <2>6, <2>7
    <3>2. \A i \in plan[c].archive :
              objects[id].recurring => objects[i].occurrence \in body.exdates
      BY <2>1 DEF Applies, ArchivesExcluded
    <3>3. QED
      BY <1>11, <2>2, <2>4, <3>1, <3>2 DEF ArchivesExcluded
  <2>14. Protects(c)'
    <3>1. \A d : ChangesOccurrence(c, d) => ChangesOccurrence(c, d)'
      BY <2>2 DEF ChangesOccurrence
    <3>2. rest.archive \cup {w[1] : w \in rest.update} = plan[c].archive
      BY <1>11, <2>1
    <3>3. \A i \in plan[c].archive : objects'[i] = objects[i] /\ Alive(objects[i])
      BY <2>6, <2>7 DEF Parts
    <3>4. \A i \in plan[c].archive :
              request[c].condition = "If-Match" => ChangesOccurrence(c, objects[i].occurrence)
      BY <2>1, <3>3 DEF Applies, Protects
    <3>5. QED
      BY <2>2, <3>1, <3>2, <3>3, <3>4 DEF Protects
  <2>15. plan'[c].archive \subseteq Parts(held[c].id)'
    BY <1>11, <2>2, <2>5, <2>7
  <2>16. QED
    BY <2>9, <2>10, <2>11, <2>12, <2>13, <2>14, <2>15 DEF Applies
<1>14. QED
  BY <1>1, <1>8, <1>9, <1>11, <1>12, <1>13, ContinuesKeeps

LEMMA ApplyArchiveKeeps ==
    ASSUME EventsInv, NEW c \in Clients, ApplyArchive(c)
    PROVE  EventsInv'
<1> DEFINE id == held[c].id
           body == request[c].body
<1>1. TypeOK /\ Linkage /\ Addressed(c) /\ Undisturbed(c) /\ pc[c] = "apply" /\ id \in Ids /\ Known(id)
  BY DEF ApplyArchive, EventsInv, Addressed
<1>2. plan[c] \in Plans /\ objects \in [Ids -> Objects]
  BY <1>1 DEF TypeOK
<1>3. PICK n \in plan[c].archive :
          /\ Holds(n, [objects[n] EXCEPT !.status = "archived"])
          /\ Continues(c, [plan[c] EXCEPT !.archive = @ \ {n}])
  BY DEF ApplyArchive
<1> DEFINE written == [objects[n] EXCEPT !.status = "archived"]
           rest == [plan[c] EXCEPT !.archive = @ \ {n}]
<1>4. n \in Ids /\ written \in Objects /\ written.status = "archived"
  BY <1>2 DEF Plans, Objects
<1> HIDE DEF written
<1>5. Holds(n, written)
  BY <1>3 DEF written
<1>6. Linkage' /\ \A k \in Ids : Known(k) => Known(k)'
  BY <1>1, <1>2, <1>4, <1>5, WritesOver
<1>7. /\ objects' \in [Ids -> Objects] /\ \A j \in Ids \ {n} : objects'[j] = objects[j]
      /\ \E s \in 0 .. MaxSecond : objects'[n] = [Archived EXCEPT !.modified = s]
  BY <1>2, <1>4, <1>5, HoldsIt
<1>8. ~Alive(objects'[n])
  BY <1>7 DEF Archived, NoObject, Alive
<1>9. /\ rest \in Plans /\ rest.master = plan[c].master /\ rest.update = plan[c].update
      /\ rest.create = plan[c].create /\ rest.archive = plan[c].archive \ {n}
  BY <1>2 DEF Plans
<1>10. Continues(c, rest)
  BY <1>3
<1> HIDE DEF rest
<1>11. ASSUME Proceeds(c, rest), ~disturbed[c]
       PROVE  Applies(c)'
  <2>1. Applies(c) /\ plan[c].master = {} /\ plan[c].update = {} /\ plan[c].create = {}
    BY <1>1, <1>11 DEF Undisturbed, ApplyArchive, MasterWritten
  <2>2. /\ held'[c] = held[c] /\ plan'[c] = rest /\ request'[c] = request[c] /\ copy'[c] = copy[c]
    BY <1>11 DEF Proceeds
  <2>3. plan[c].archive \subseteq Parts(id) /\ Parts(id) \subseteq Ids
    BY <2>1 DEF Applies, Parts
  <2>4. n # id /\ objects'[id] = objects[id]
    BY <1>1, <1>3, <1>7, <2>3, NotItsOwnPart
  <2>5. Parts(id)' = Parts(id) \ {n}
    <3>1. held'[c].id = id
      BY <2>2
    <3>2. QED
      BY <1>7, <1>8, <3>1 DEF Parts
  <2>6. \A k \in Parts(id) \ {n} : objects'[k] = objects[k]
    BY <1>7, <2>3
  <2>7. MasterAgrees(c)'
    BY <1>9, <2>1, <2>2, <2>4 DEF Applies, MasterAgrees, MasterWritten
  <2>8. WritesAgree(c)'
    BY <1>9, <2>1, <2>2 DEF WritesAgree
  <2>9. SentIsThere(c)'
    <3>1. SUFFICES ASSUME NEW d \in Sends(body)
                   PROVE  \E i \in (Parts(id) \ {n}) \ rest.archive :
                               objects'[i].occurrence = d /\ objects'[i].value = body.replaced[d]
      BY <2>2, <2>5 DEF SentIsThere
    <3>2. PICK i \in Parts(id) \ plan[c].archive :
                  objects[i].occurrence = d /\ objects[i].value = body.replaced[d]
      BY <2>1 DEF Applies, SentIsThere
    <3>3. i # n /\ objects'[i] = objects[i] /\ i \notin rest.archive
      BY <1>3, <1>9, <2>6, <3>2
    <3>4. QED
      BY <3>2, <3>3
  <2>10. OnlySentIsThere(c)'
    <3>1. ASSUME \A was \in held[c].master : was.rule, NEW i \in Parts(id) \ {n}
          PROVE  \/ i \in rest.archive
                 \/ objects'[i].value = body.replaced[objects'[i].occurrence]
                 \/ objects'[id].recurring /\ objects'[i].occurrence \notin body.exdates
      <4>1. \/ i \in plan[c].archive
            \/ objects[i].value = body.replaced[objects[i].occurrence]
            \/ objects[id].recurring /\ objects[i].occurrence \notin body.exdates
        BY <2>1, <3>1 DEF Applies, OnlySentIsThere, MayStay
      <4>2. objects'[i] = objects[i]
        BY <2>6
      <4>3. QED
        BY <1>9, <2>4, <4>1, <4>2
    <3>2. QED
      BY <2>2, <2>5, <3>1 DEF OnlySentIsThere, MayStay
  <2>11. ArchivesExcluded(c)'
    <3>1. \A i \in rest.archive : objects'[i] = objects[i]
      BY <1>9, <2>3, <2>6
    <3>2. \A i \in plan[c].archive :
              objects[id].recurring => objects[i].occurrence \in body.exdates
      BY <2>1 DEF Applies, ArchivesExcluded
    <3>3. QED
      BY <1>9, <2>2, <2>4, <3>1, <3>2 DEF ArchivesExcluded
  <2>12. Protects(c)'
    <3>1. \A d : ChangesOccurrence(c, d) => ChangesOccurrence(c, d)'
      BY <2>2 DEF ChangesOccurrence
    <3>2. rest.archive \cup {w[1] : w \in rest.update} = plan[c].archive \ {n}
      BY <1>9, <2>1
    <3>3. \A i \in plan[c].archive \ {n} : objects'[i] = objects[i] /\ Alive(objects[i])
      BY <2>3, <2>6 DEF Parts
    <3>4. \A i \in plan[c].archive \ {n} :
              request[c].condition = "If-Match" => ChangesOccurrence(c, objects[i].occurrence)
      BY <2>1, <3>3 DEF Applies, Protects
    <3>5. QED
      BY <2>2, <3>1, <3>2, <3>3, <3>4 DEF Protects
  <2>13. plan'[c].archive \subseteq Parts(held[c].id)'
    BY <1>9, <2>2, <2>3, <2>5
  <2>14. QED
    BY <2>7, <2>8, <2>9, <2>10, <2>11, <2>12, <2>13 DEF Applies
<1>12. QED
  BY <1>1, <1>6, <1>7, <1>9, <1>10, <1>11, ContinuesKeeps

LEMMA CreateEventKeeps ==
    ASSUME EventsInv, NEW c \in Clients, CreateEvent(c)
    PROVE  EventsInv'
<1> DEFINE body == request[c].body
<1>1. TypeOK /\ Linkage /\ Addressed(c) /\ pc[c] = "new" /\ cache' = cache /\ copy' = copy
  BY DEF CreateEvent, EventsInv
<1>2. body \in Bodies /\ TidyBody(body) /\ plan[c] = ForCreate(body) /\ request[c].of = "event"
  BY <1>1 DEF Addressed, TypeOK, Requests
<1>3. PICK n : n = NextId
  OBVIOUS
<1>4. n \in Ids /\ objects[n].status = "none" /\ objects \in [Ids -> Objects]
  BY <1>1, <1>3, NextIdIsNew DEF CreateEvent, TypeOK
<1> DEFINE Made(recurring) == [Event EXCEPT !.status = "new", !.recurring = recurring,
                                    !.value = body.value, !.rule = body.rule,
                                    !.exdates = body.exdates]
<1>5. PICK recurring \in BOOLEAN :
           /\ Holds(n, Made(recurring))
           /\ \/ /\ held' = [held EXCEPT ![c] = [NothingHeld EXCEPT !.id = n,
                                                            !.master = {Made(recurring)}]]
                 /\ Goto(c, "apply")
                 /\ DisturbsOthers(c)
                 /\ UNCHANGED <<request, plan, turns>>
              \/ /\ Turn /\ Reply(c)
                 /\ disturbed' = [other \in Clients |->
                                    other # c /\ (disturbed[other] \/ Reading(other))]
  BY <1>3 DEF CreateEvent
<1>6. PICK object : object = Made(recurring)
  OBVIOUS
<1>7. /\ object \in Objects /\ object.status = "new" /\ object.uid
      /\ object.series = None /\ object.occurrence = None
      /\ Carries(object, body)
  BY <1>2, <1>6, NoObjectType DEF Event, NoObject, Objects, Bodies, Carries
<1> HIDE DEF Made
<1>8. Linkage' /\ \A k \in Ids : Known(k) => Known(k)'
  BY <1>1, <1>4, <1>5, <1>7, <1>6, WritesNew
<1>9. /\ objects' \in [Ids -> Objects] /\ \A j \in Ids \ {n} : objects'[j] = objects[j]
      /\ \E s \in 0 .. MaxSecond : objects'[n] = [object EXCEPT !.modified = s]
  <2>1. Holds(n, object) /\ object.status # "archived"
    BY <1>5, <1>7, <1>6
  <2>2. QED
    BY <1>4, <1>7, <2>1, HoldsIt
<1>10. Alive(objects'[n]) /\ Carries(objects'[n], body) /\ objects'[n].series = None /\ Known(n)'
  <2>1. PICK s \in 0 .. MaxSecond : objects'[n] = [object EXCEPT !.modified = s]
    BY <1>9
  <2>2. QED
    BY <1>7, <2>1 DEF Alive, Carries, Objects, Known
<1>11. CASE /\ held' = [held EXCEPT ![c] = [NothingHeld EXCEPT !.id = n, !.master = {object}]]
            /\ Goto(c, "apply")
            /\ DisturbsOthers(c)
            /\ UNCHANGED <<request, plan, turns>>
  <2> DEFINE read == [NothingHeld EXCEPT !.id = n, !.master = {object}]
  <2>1. /\ read \in [id : Optional(Ids), listing : SUBSET Listings, master : SUBSET Objects]
        /\ read.id = n /\ read.listing = {} /\ read.master = {object}
    <3>1. n \in Optional(Ids) /\ {object} \in SUBSET Objects /\ NothingHeld.listing = {}
      BY <1>4, <1>7 DEF Optional, NothingHeld
    <3>2. QED
      BY <3>1, RestingTypes
  <2>2. /\ held' \in [Clients -> [id : Optional(Ids), listing : SUBSET Listings,
                                  master : SUBSET Objects]]
        /\ held'[c].id = n /\ held'[c].listing = {} /\ held'[c].master = {object}
        /\ \A other \in Clients \ {c} : held'[other] = held[other]
    BY <1>1, <1>11, <2>1 DEF TypeOK
  <2>3. /\ pc' \in [Clients -> Points] /\ pc'[c] = "apply"
        /\ \A other \in Clients \ {c} : pc'[other] = pc[other]
    BY <1>1, <1>11 DEF Goto, TypeOK, Points
  <2>4. /\ disturbed' \in [Clients -> BOOLEAN]
        /\ \A other \in Clients \ {c} : Reading(other) => disturbed'[other]
    BY <1>1, <1>11 DEF DisturbsOthers, TypeOK, Reading
  <2>5. TypeOK'
    BY <1>1, <1>9, <1>11, <2>2, <2>3, <2>4 DEF TypeOK
  <2>6. Addressed(c)'
    BY <1>1, <1>2, <1>4, <1>10, <1>11, <2>2, <2>3 DEF Addressed
  <2>7. Applies(c)'
    <3>1. /\ plan'[c].master = {} /\ plan'[c].update = {} /\ plan'[c].archive = {}
          /\ plan'[c].create = {<<d, body.replaced[d]>> : d \in Sends(body)}
      BY <1>2, <1>11 DEF ForCreate, NoPlan, Sends
    <3>2. held'[c].id = n /\ request'[c] = request[c]
      BY <1>11, <2>2
    <3>3. Parts(held[c].id)' = {}
      <4>1. \A k \in Ids \ {n} : objects'[k].series # n
        <5>1. TAKE k \in Ids \ {n}
        <5>2. objects[k].series # None => Known(objects[k].series)
          BY <1>1 DEF Linkage, WellLinked
        <5>3. ~Known(n) /\ n # None
          BY <1>1, <1>4, EventsAssumption DEF Linkage, WellLinked, Known
        <5>4. QED
          BY <1>9, <5>2, <5>3
      <4>2. objects'[n].series # n
        BY <1>4, <1>10, EventsAssumption
      <4>3. QED
        BY <3>2, <4>1, <4>2 DEF Parts
    <3>4. MasterAgrees(c)'
      BY <1>10, <3>1, <3>2 DEF MasterAgrees, MasterWritten
    <3>5. WritesAgree(c)'
      <4>1. \A write \in plan'[c].create : write[2] = body.replaced[write[1]]
        BY <3>1
      <4>2. QED
        BY <3>1, <3>2, <4>1 DEF WritesAgree
    <3>6. SentIsThere(c)'
      <4>1. \A d \in Sends(body) : <<d, body.replaced[d]>> \in plan'[c].create
        BY <3>1
      <4>2. QED
        BY <3>2, <4>1 DEF SentIsThere
    <3>7. OnlySentIsThere(c)' /\ ArchivesExcluded(c)' /\ Protects(c)'
      BY <3>1, <3>3 DEF OnlySentIsThere, ArchivesExcluded, Protects
    <3>8. plan'[c].archive \subseteq Parts(held[c].id)'
      BY <3>1
    <3>9. QED
      BY <3>4, <3>5, <3>6, <3>7, <3>8 DEF Applies
  <2>8. Undisturbed(c)'
    BY <2>3, <2>7 DEF Undisturbed
  <2>9. \A other \in Clients \ {c} : Rests(other)
    BY <1>1, <1>11, <2>2, <2>3 DEF Rests
  <2>10. QED
    BY <1>1, <1>8, <2>4, <2>5, <2>6, <2>8, <2>9, WrittenKeeps
<1>12. CASE /\ Turn /\ Reply(c)
            /\ disturbed' = [other \in Clients |->
                               other # c /\ (disturbed[other] \/ Reading(other))]
  <2>1. turns' \in 0 .. MaxTurns
    BY <1>1, <1>12, EventsAssumption DEF Turn, TypeOK
  <2>2. QED
    BY <1>1, <1>8, <1>9, <1>12, <2>1, RepliesKeep
<1>13. QED
  BY <1>5, <1>6, <1>11, <1>12

LEMMA DeleteReplacementKeeps ==
    ASSUME EventsInv, NEW c \in Clients, DeleteReplacement(c)
    PROVE  EventsInv'
<1> DEFINE id == held[c].id
<1>1. TypeOK /\ Linkage /\ Addressed(c) /\ Undisturbed(c) /\ pc[c] = "delete" /\ id \in Ids /\ Known(id)
  BY DEF DeleteReplacement, EventsInv, Addressed
<1>2. plan[c] \in Plans /\ objects \in [Ids -> Objects]
  BY <1>1 DEF TypeOK
<1>3. PICK n \in plan[c].archive :
          /\ Holds(n, [objects[n] EXCEPT !.status = "archived"])
          /\ Continues(c, [plan[c] EXCEPT !.archive = @ \ {n}])
  BY DEF DeleteReplacement
<1> DEFINE written == [objects[n] EXCEPT !.status = "archived"]
           rest == [plan[c] EXCEPT !.archive = @ \ {n}]
<1>4. n \in Ids /\ written \in Objects /\ written.status = "archived"
  BY <1>2 DEF Plans, Objects
<1> HIDE DEF written
<1>5. Holds(n, written)
  BY <1>3 DEF written
<1>6. Linkage' /\ \A k \in Ids : Known(k) => Known(k)'
  BY <1>1, <1>2, <1>4, <1>5, WritesOver
<1>7. /\ objects' \in [Ids -> Objects] /\ \A j \in Ids \ {n} : objects'[j] = objects[j]
      /\ \E s \in 0 .. MaxSecond : objects'[n] = [Archived EXCEPT !.modified = s]
  BY <1>2, <1>4, <1>5, HoldsIt
<1>8. ~Alive(objects'[n])
  BY <1>7 DEF Archived, NoObject, Alive
<1>9. rest \in Plans /\ rest.archive = plan[c].archive \ {n}
  BY <1>2 DEF Plans
<1>10. Continues(c, rest)
  BY <1>3
<1> HIDE DEF rest
<1>11. ASSUME Proceeds(c, rest), ~disturbed[c]
       PROVE  Deletes(c)'
  <2>1. Deletes(c)
    BY <1>1, <1>11 DEF Undisturbed
  <2>2. held'[c] = held[c] /\ plan'[c] = rest
    BY <1>11 DEF Proceeds
  <2>3. plan[c].archive \subseteq Parts(id) /\ Parts(id) \subseteq Ids
    BY <2>1 DEF Deletes, Parts
  <2>4. objects'[id] = objects[id]
    BY <1>1, <1>3, <1>7, <2>3, NotItsOwnPart
  <2>5. Parts(id)' = Parts(id) \ {n}
    <3>1. held'[c].id = id
      BY <2>2
    <3>2. QED
      BY <1>7, <1>8, <3>1 DEF Parts
  <2>6. \A k \in Parts(id) \ {n} : objects'[k] = objects[k]
    BY <1>7, <2>3
  <2>7. (\E was \in held[c].master : was.rule) =>
            \A i \in Parts(id) \ {n} :
                \/ i \in rest.archive
                \/ objects'[id].recurring /\ objects'[i].occurrence \in TookPlace
    BY <1>9, <2>1, <2>4, <2>6 DEF Deletes
  <2>8. rest.archive \subseteq Parts(id) \ {n}
    BY <1>9, <2>3
  <2>9. QED
    BY <2>2, <2>5, <2>7, <2>8 DEF Deletes
<1>12. QED
  BY <1>1, <1>6, <1>7, <1>9, <1>10, <1>11, ContinuesKeeps

\* The last write of a request, after which only the snapshot is forgotten.
LEMMA LastWriteKeeps ==
    ASSUME EventsInv, NEW c \in Clients, pc[c] \in {"delete", "deadline"},
           objects' \in [Ids -> Objects], Linkage', \A k \in Ids : Known(k) => Known(k)',
           cache' = cache, copy' = copy,
           Goto(c, "invalidate"), DisturbsOthers(c), UNCHANGED <<request, held, plan, turns>>
    PROVE  EventsInv'
<1>1. TypeOK /\ Addressed(c)
  BY DEF EventsInv
<1>2. /\ pc' \in [Clients -> Points] /\ pc'[c] = "invalidate"
      /\ \A other \in Clients \ {c} : pc'[other] = pc[other]
  BY <1>1 DEF Goto, TypeOK, Points
<1>3. /\ disturbed' \in [Clients -> BOOLEAN]
      /\ \A other \in Clients \ {c} : Reading(other) => disturbed'[other]
  BY <1>1 DEF DisturbsOthers, TypeOK, Reading
<1>4. TypeOK'
  BY <1>1, <1>2, <1>3 DEF TypeOK
<1>5. \A snapshot \in held[c].listing : ServesKnown(snapshot)'
  <2>1. \A snapshot \in Listings : ServesKnown(snapshot) => ServesKnown(snapshot)'
    BY DEF ServesKnown, Listings
  <2>2. QED
    BY <1>1, <2>1 DEF Addressed, TypeOK
<1>6. Addressed(c)' /\ Undisturbed(c)'
  BY <1>1, <1>2, <1>5 DEF Addressed, Undisturbed
<1>7. \A other \in Clients \ {c} : Rests(other)
  BY <1>2 DEF Rests
<1>8. QED
  BY <1>3, <1>4, <1>6, <1>7, WrittenKeeps

LEMMA DeleteEventKeeps ==
    ASSUME EventsInv, NEW c \in Clients, DeleteEvent(c)
    PROVE  EventsInv'
<1> DEFINE id == held[c].id
           written == [objects[id] EXCEPT !.status = "archived"]
<1>1. TypeOK /\ Linkage /\ pc[c] = "delete" /\ id \in Ids /\ copy' = copy
  BY DEF DeleteEvent, DeletesSeries, EventsInv, Addressed
<1>2. objects \in [Ids -> Objects] /\ written \in Objects /\ written.status = "archived"
  <2>1. objects \in [Ids -> Objects] /\ objects[id] \in Objects
    BY <1>1 DEF TypeOK
  <2>2. QED
    BY <2>1 DEF Objects
<1>3. Holds(id, written)
  BY DEF DeleteEvent
<1> HIDE DEF written
<1>4. Linkage' /\ (\A k \in Ids : Known(k) => Known(k)') /\ objects' \in [Ids -> Objects]
  BY <1>1, <1>2, <1>3, WritesOver, HoldsIt
<1>5. CASE /\ Goto(c, "invalidate")
           /\ DisturbsOthers(c)
           /\ UNCHANGED <<cache, request, held, plan, turns>>
  BY <1>1, <1>4, <1>5, LastWriteKeeps
<1>6. CASE /\ Turn /\ Invalidates /\ Reply(c)
           /\ disturbed' = [other \in Clients |-> other # c /\ (disturbed[other] \/ Reading(other))]
  <2>1. turns' \in 0 .. MaxTurns /\ cache' = {}
    BY <1>1, <1>6, EventsAssumption DEF Turn, Invalidates, TypeOK
  <2>2. QED
    BY <1>1, <1>4, <1>6, <2>1, RepliesKeep
<1>7. QED
  BY <1>5, <1>6 DEF DeleteEvent

LEMMA WriteDeadlineKeeps ==
    ASSUME EventsInv, NEW c \in Clients, WriteDeadline(c)
    PROVE  EventsInv'
<1> DEFINE id == held[c].id
<1>1. TypeOK /\ Linkage /\ pc[c] = "deadline" /\ id \in Ids /\ copy' = copy /\ cache' = cache
  BY DEF WriteDeadline, EventsInv, Addressed
<1>2. PICK deadline \in Optional(Values) : Holds(id, [objects[id] EXCEPT !.deadline = deadline])
  BY DEF WriteDeadline, Optional
<1> DEFINE written == [objects[id] EXCEPT !.deadline = deadline]
<1>3. /\ objects \in [Ids -> Objects] /\ written \in Objects
      /\ written.status = objects[id].status /\ written.uid = objects[id].uid
      /\ written.series = objects[id].series /\ written.occurrence = objects[id].occurrence
      /\ written.recurring = objects[id].recurring
  <2>1. objects \in [Ids -> Objects] /\ objects[id] \in Objects
    BY <1>1 DEF TypeOK
  <2>2. QED
    BY <1>2, <2>1 DEF Objects
<1> HIDE DEF written
<1>4. Holds(id, written)
  BY <1>2 DEF written
<1>5. Linkage' /\ (\A k \in Ids : Known(k) => Known(k)') /\ objects' \in [Ids -> Objects]
  BY <1>1, <1>3, <1>4, WritesOver, HoldsIt
<1>6. CASE /\ Goto(c, "invalidate")
           /\ DisturbsOthers(c)
           /\ UNCHANGED <<request, held, plan, turns>>
  BY <1>1, <1>5, <1>6, LastWriteKeeps
<1>7. CASE /\ Turn /\ Reply(c)
           /\ disturbed' = [other \in Clients |-> other # c /\ (disturbed[other] \/ Reading(other))]
  <2>1. turns' \in 0 .. MaxTurns
    BY <1>1, <1>7, EventsAssumption DEF Turn, TypeOK
  <2>2. QED
    BY <1>1, <1>5, <1>7, <2>1, RepliesKeep
<1>8. QED
  BY <1>6, <1>7 DEF WriteDeadline

-----------------------------------------------------------------------------
(* The invariant *)

LEMMA EventsStep == EventsInv /\ [Next]_vars => EventsInv'
<1> SUFFICES ASSUME EventsInv, [Next]_vars PROVE EventsInv'
  OBVIOUS
<1>1. CASE UNCHANGED vars
  <2>1. TypeOK' /\ Linkage' /\ \A k \in Ids : Known(k) => Known(k)'
    <3>1. TypeOK'
      BY <1>1 DEF vars, server, clients, EventsInv, TypeOK
    <3>2. objects' = objects
      BY <1>1 DEF vars
    <3>3. QED
      BY <3>1, <3>2, NothingWritten DEF EventsInv
  <2>2. OnlyFound /\ cache' = cache
    BY <1>1, NothingWritten DEF vars, server, EventsInv
  <2>3. \A c \in Clients : Rests(c) /\ disturbed'[c] = disturbed[c]
    BY <1>1 DEF vars, server, clients, Rests
  <2>4. QED
    BY <2>1, <2>2, <2>3, Together
<1>2. ASSUME NEW i \in Ids, Edit(i) \/ Index(i) PROVE EventsInv'
  BY <1>2, EditKeeps, IndexKeeps
<1>3. ASSUME NEW m \in Ids, NEW d \in Occurrences, MakeMeeting(m, d) PROVE EventsInv'
  BY <1>3, MakeMeetingKeeps
<1>4. ASSUME NEW c \in Clients, Send(c) PROVE EventsInv'
  BY <1>4, SendKeeps
<1>5. ASSUME NEW c \in Clients, Handle(c) PROVE EventsInv'
  <2>1. CASE Locate(c) \/ List(c) \/ Store(c)
    BY <2>1, LocateKeeps, ListKeeps, StoreKeeps
  <2>2. CASE ReadFails(c) \/ WriteFails(c) \/ Invalidate(c)
    BY <2>2, FailuresKeep
  <2>3. CASE GetGone(c) \/ GetEvent(c) \/ GetSeries(c) \/ ListReplacements(c) \/ GetDeadline(c)
    BY <2>3, GetGoneKeeps, GetEventKeeps, GetSeriesKeeps, ListReplacementsKeeps, GetDeadlineKeeps
  <2>4. CASE ApplyMaster(c) \/ ApplyUpdate(c) \/ ApplyCreate(c) \/ ApplyArchive(c)
    BY <2>4, ApplyMasterKeeps, ApplyUpdateKeeps, ApplyCreateKeeps, ApplyArchiveKeeps
  <2>5. CASE CreateEvent(c) \/ DeleteReplacement(c) \/ DeleteEvent(c) \/ WriteDeadline(c)
    BY <2>5, CreateEventKeeps, DeleteReplacementKeeps, DeleteEventKeeps, WriteDeadlineKeeps
  <2>6. QED
    BY <1>5, <2>1, <2>2, <2>3, <2>4, <2>5 DEF Handle
<1>6. QED
  BY <1>1, <1>2, <1>3, <1>4, <1>5 DEF Next

\* Whatever clients, people, the generator and search do, a request that nobody
\* disturbed has a plan that, carried out to its end, leaves what its body says.
THEOREM EventsInvariant == Spec => []EventsInv
BY InitialInvariant, EventsStep, PTL DEF Spec

\* Every variable of Events keeps its type.
THEOREM EventsTypeCorrect == Spec => []TypeOK
<1>1. EventsInv => TypeOK
  BY DEF EventsInv
<1>2. QED
  BY <1>1, EventsInvariant, PTL

-----------------------------------------------------------------------------
(* What it gives *)

LEMMA OneName ==
    ASSUME EventsInv, NEW i \in Listed(objects)
    PROVE  LET holders == {m \in Dated(objects) : objects[m].rule /\ i \in ReplacementsOf(objects, m)}
               alone == ~ReplacesAnOccurrence(objects, i)
           IN /\ \/ alone <=> holders = {}
                 \/ \E m \in Listed(objects) : m = objects[i].series /\ ~objects[m].dated
              /\ Cardinality(holders) <= 1
<1> DEFINE holders == {m \in Dated(objects) : objects[m].rule /\ i \in ReplacementsOf(objects, m)}
           alone == ~ReplacesAnOccurrence(objects, i)
           series == objects[i].series
<1>1. i \in Ids /\ Linkage /\ TypeOK /\ Listed(objects) \subseteq Ids
  BY DEF Listed, EventsInv
<1>2. \A m \in holders : /\ m = series /\ m \in Listed(objects) /\ objects[m].rule
                         /\ objects[i].occurrence # None
  BY DEF ReplacementsOf, Linked, Dated, Served
<1>3. holders # {} => ~alone
  BY <1>2 DEF ReplacesAnOccurrence
<1>4. ASSUME ~alone, ~\E m \in Listed(objects) : m = series /\ ~objects[m].dated
      PROVE  series \in holders
  <2>1. /\ series \in Listed(objects) /\ objects[series].rule /\ objects[i].occurrence # None
        /\ objects[series].dated
    <3>1. PICK m \in Listed(objects) : m = series /\ objects[m].rule
      BY <1>4 DEF ReplacesAnOccurrence
    <3>2. objects[m].dated
      BY <1>4, <3>1
    <3>3. QED
      BY <1>4, <3>1, <3>2 DEF ReplacesAnOccurrence
  <2>2. Known(series) /\ objects[series].status = "live"
    BY <1>1, <2>1, EventsAssumption DEF Linkage, WellLinked, Listed
  <2>3. objects[series].uid /\ objects[series].occurrence = None
    BY <1>1, <2>1, <2>2 DEF Known, Linkage, WellLinked
  <2>4. series \in Dated(objects)
    BY <2>1, <2>3 DEF Dated, Served, ReplacesAnOccurrence
  <2>5. i \in ReplacementsOf(objects, series)
    BY <2>1 DEF ReplacementsOf, Linked
  <2>6. QED
    BY <2>1, <2>4, <2>5
<1>5. holders = {} \/ holders = {series}
  BY <1>2
<1> HIDE DEF holders, alone
<1>6. Cardinality(holders) <= 1
  <2>1. CASE holders = {}
    <3>1. Cardinality({}) = 0
      BY FS_EmptySet
    <3>2. QED
      BY <2>1, <3>1
  <2>2. CASE holders = {series}
    <3>1. Cardinality({series}) = 1
      BY FS_Singleton
    <3>2. QED
      BY <2>2, <3>1
  <2>3. QED
    BY <1>5, <2>1, <2>2
<1>7. (alone <=> holders = {}) \/ \E m \in Listed(objects) : m = series /\ ~objects[m].dated
  BY <1>3, <1>4
<1>8. QED
  BY <1>6, <1>7 DEF holders, alone

\* Nothing that is listed disappears from the calendar or is in it twice, but for what
\* belongs to a series that lost its start.
THEOREM NothingDisappears == Spec => []EveryEventIsServed
<1>1. EventsInv => EveryEventIsServed
  BY OneName DEF EveryEventIsServed
<1>2. QED
  BY <1>1, EventsInvariant, PTL

LEMMA FoundWorld ==
    ASSUME TypeOK
    PROVE  \A i \in Ids :
                /\ Found(objects)[i].status = "live" <=> Alive(objects[i])
                /\ Found(objects)[i].value = objects[i].value
                /\ Found(objects)[i].rule = objects[i].rule
                /\ Found(objects)[i].exdates = objects[i].exdates
                /\ Found(objects)[i].series = objects[i].series
                /\ Found(objects)[i].occurrence = objects[i].occurrence
                /\ Found(objects)[i].recurring = objects[i].recurring
<1>1. TAKE i \in Ids
<1>2. objects[i] \in Objects
  BY DEF TypeOK
<1>3. Found(objects)[i] = IF objects[i].status = "new"
                            THEN [objects[i] EXCEPT !.status = "live"] ELSE objects[i]
  BY DEF Found
<1>4. QED
  BY <1>2, <1>3 DEF Objects, Alive

\* What a request that is done leaves to be served.
LEMMA DoneIsServed ==
    ASSUME EventsInv, NEW c \in Clients, Done(c), ~disturbed[c],
           \A was \in held[c].master :
                was.rule \/ ReplacementsOf(Found(objects), held[c].id) = {}
    PROVE  LET body == request[c].body
               id == held[c].id
               world == Found(objects)
               shown == Resource(world, id)
               At(d) == {one.value : one \in {o \in shown.replaced : o.at = d}}
           IN /\ [value |-> shown.value, rule |-> shown.rule, exdates |-> shown.exdates]
                    = [value |-> body.value, rule |-> body.rule, exdates |-> body.exdates]
              /\ \A d \in Occurrences :
                    LET sent == {body.replaced[d]} \ {None}
                        MayRemain == world[id].recurring /\ d \notin body.exdates
                    IN  sent \subseteq At(d) /\ (MayRemain \/ At(d) = sent)
<1> DEFINE body == request[c].body
           id == held[c].id
           world == Found(objects)
           shown == Resource(world, id)
           At(d) == {one.value : one \in {o \in shown.replaced : o.at = d}}
<1>1. /\ TypeOK /\ Linkage /\ Applies(c) /\ id \in Ids /\ Known(id)
      /\ TidyBody(body) /\ body \in Bodies
  BY DEF Done, EventsInv, Addressed, Undisturbed, TypeOK, Requests
<1>2. plan[c].master = {} /\ plan[c].update = {} /\ plan[c].create = {} /\ plan[c].archive = {}
  BY DEF Done, NoPlan
<1>3. /\ world[id].value = body.value /\ world[id].rule = body.rule /\ world[id].exdates = body.exdates
      /\ world[id].recurring = objects[id].recurring
  BY <1>1, <1>2, FoundWorld DEF Applies, MasterAgrees, MasterWritten, Carries
<1>4. ReplacementsOf(world, id) = Parts(id)
  <2>1. \A i \in Parts(id) : objects[i].occurrence # None
    BY <1>1, EventsAssumption DEF Parts, Linkage, WellLinked
  <2>2. QED
    BY <1>1, <2>1, FoundWorld DEF ReplacementsOf, Linked, Listed, Parts
<1>5. \A i \in Parts(id) : /\ i \in Ids /\ objects[i].occurrence \in Occurrences
                          /\ objects[i].value \in Values
                          /\ world[i].occurrence = objects[i].occurrence
                          /\ world[i].value = objects[i].value
  <2>1. TAKE i \in Parts(id)
  <2>2. i \in Ids /\ objects[i] \in Objects /\ objects[i].series = id
    BY <1>1 DEF Parts, TypeOK
  <2>3. objects[i].occurrence # None
    BY <1>1, <2>2, EventsAssumption DEF Linkage, WellLinked
  <2>4. objects[i].occurrence \in Occurrences /\ objects[i].value \in Values
    BY <2>2, <2>3 DEF Objects, Optional
  <2>5. QED
    BY <1>1, <2>2, <2>4, FoundWorld
<1> DEFINE occurrences == [i \in Parts(id) |-> world[i]]
           replaced == {[id |-> i, at |-> occurrences[i].occurrence,
                         value |-> occurrences[i].value, modified |-> occurrences[i].modified] :
                            i \in {j \in DOMAIN occurrences : occurrences[j].occurrence # None}}
<1>6. /\ shown.value = world[id].value /\ shown.rule = world[id].rule
      /\ shown.exdates = IF world[id].rule THEN world[id].exdates ELSE {}
      /\ shown.replaced = IF world[id].rule THEN replaced ELSE {}
  BY <1>4 DEF Resource, Rendered
<1>7. [value |-> shown.value, rule |-> shown.rule, exdates |-> shown.exdates]
        = [value |-> body.value, rule |-> body.rule, exdates |-> body.exdates]
  BY <1>1, <1>3, <1>6 DEF TidyBody
<1>8. \A i \in Parts(id) : \E o \in replaced :
            o.at = objects[i].occurrence /\ o.value = objects[i].value
  <2>1. TAKE i \in Parts(id)
  <2> DEFINE r == [id |-> i, at |-> occurrences[i].occurrence,
                   value |-> occurrences[i].value, modified |-> occurrences[i].modified]
  <2>2. occurrences[i] = world[i] /\ i \in DOMAIN occurrences
    OBVIOUS
  <2>3. r.at = objects[i].occurrence /\ r.value = objects[i].value
    BY <1>5, <2>2
  <2>4. r \in replaced
    BY <1>5, <2>2, EventsAssumption
  <2> HIDE DEF r, replaced
  <2>5. QED
    BY <2>3, <2>4
<1>9. \A o \in replaced : \E i \in Parts(id) :
            o.at = objects[i].occurrence /\ o.value = objects[i].value
  <2>1. TAKE o \in replaced
  <2>2. PICK i \in DOMAIN occurrences : o = [id |-> i, at |-> occurrences[i].occurrence,
                   value |-> occurrences[i].value, modified |-> occurrences[i].modified]
    OBVIOUS
  <2>3. i \in Parts(id) /\ occurrences[i] = world[i]
    OBVIOUS
  <2>4. QED
    BY <1>5, <2>2, <2>3
<1> HIDE DEF replaced, shown, world, occurrences
<1>10. ASSUME NEW d \in Occurrences, NEW sent, sent = {body.replaced[d]} \ {None}
       PROVE  /\ sent \subseteq At(d)
              /\ (world[id].recurring /\ d \notin body.exdates) \/ At(d) = sent
  <2>1. CASE ~body.rule
    <3>1. body.replaced[d] = None
      BY <1>1, <2>1 DEF TidyBody, NotReplaced
    <3>2. shown.replaced = {}
      BY <1>3, <1>6, <2>1
    <3>3. At(d) = {} /\ sent = {}
      BY <1>10, <3>1, <3>2
    <3>4. QED
      BY <3>3
  <2>2. CASE body.rule
    <3>1. shown.replaced = replaced
      BY <1>3, <1>6, <2>2
    <3>2. sent \subseteq At(d)
      <4>1. SUFFICES ASSUME body.replaced[d] # None PROVE body.replaced[d] \in At(d)
        BY <1>10
      <4>2. d \in Sends(body)
        BY <4>1 DEF Sends
      <4>3. PICK i \in Parts(id) : objects[i].occurrence = d /\ objects[i].value = body.replaced[d]
        BY <1>1, <1>2, <4>2 DEF Applies, SentIsThere
      <4>4. PICK o \in replaced : o.at = d /\ o.value = body.replaced[d]
        BY <1>8, <4>3
      <4>5. QED
        BY <3>1, <4>4
    <3>3. ASSUME ~(world[id].recurring /\ d \notin body.exdates) PROVE At(d) \subseteq sent
      <4>1. SUFFICES ASSUME NEW o \in replaced, o.at = d PROVE o.value \in sent
        BY <3>1
      <4>2. PICK i \in Parts(id) : d = objects[i].occurrence /\ o.value = objects[i].value
        BY <1>9, <4>1
      <4>3. \A was \in held[c].master : was.rule
        BY <1>4, <4>2 DEF world
      <4>4. objects[i].value = body.replaced[d]
        BY <1>1, <1>2, <1>3, <3>3, <4>2, <4>3 DEF Applies, OnlySentIsThere, MayStay
      <4>5. objects[i].value # None
        BY <1>5, EventsAssumption
      <4>6. QED
        BY <1>10, <4>2, <4>4, <4>5
    <3>4. QED
      BY <3>2, <3>3
  <2>3. QED
    BY <2>1, <2>2
<1>11. QED
  BY <1>7, <1>10 DEF shown, world

\* A PUT that is answered with success has made the series what it says.
THEOREM SavedIsAsSent == Spec => []SavedSeriesIsAsSent
<1>1. EventsInv => SavedSeriesIsAsSent
  BY DoneIsServed DEF SavedSeriesIsAsSent
<1>2. QED
  BY <1>1, EventsInvariant, PTL

\* What a request writes to an occurrence that was there is one of its plan's writes.
LEMMA WritesAreOfThePlan ==
    ASSUME EventsInv, Next, NEW c \in Clients, NEW i \in Ids, WritesOccurrence(c, i)
    PROVE  \/ /\ i \in {write[1] : write \in plan[c].update}
              /\ objects'[i].status = objects[i].status
           \/ i \in plan[c].archive /\ plan[c].master = {}
<1> DEFINE id == held[c].id
<1>1. /\ TypeOK /\ Linkage /\ Addressed(c) /\ pc[c] = "apply" /\ id \in Ids /\ Known(id)
      /\ plan'[c] # plan[c] /\ objects[i].series = id /\ objects'[i] # objects[i]
      /\ Alive(objects[i]) /\ objects \in [Ids -> Objects] /\ plan[c] \in Plans
  BY DEF WritesOccurrence, EventsInv, Addressed, TypeOK
<1>2. i # id
  BY <1>1, NotItsOwnPart DEF Parts
<1>3. Handle(c)
  <2>1. ASSUME NEW other \in Clients, Send(other) \/ Handle(other), other # c PROVE FALSE
    <3>1. plan'[c] = plan[c]
      BY <1>1, <2>1 DEF Handle, Send, Locate, List, Store, ReadFails, GetGone, GetEvent, GetSeries,
            ListReplacements, GetDeadline, ApplyMaster, ApplyUpdate, ApplyCreate, ApplyArchive,
            CreateEvent, DeleteReplacement, DeleteEvent, WriteDeadline, WriteFails, Invalidate,
            Continues, Answered, Absence, Decide, Ends, Reply, TypeOK
    <3>2. QED
      BY <1>1, <3>1
  <2>2. ~Send(c)
    BY <1>1 DEF Send
  <2>3. ~\E k \in Ids : Edit(k) \/ Index(k)
    BY <1>1 DEF Edit, Index, server
  <2>4. ~\E m \in Ids, d \in Occurrences : MakeMeeting(m, d)
    BY <1>1 DEF MakeMeeting, server
  <2>5. QED
    BY <2>1, <2>2, <2>3, <2>4 DEF Next
<1>4. ApplyMaster(c) \/ ApplyUpdate(c) \/ ApplyCreate(c) \/ ApplyArchive(c)
  BY <1>1, <1>3 DEF Handle, Locate, List, Store, ReadFails, GetGone, GetEvent, GetSeries,
        ListReplacements, GetDeadline, CreateEvent, DeleteReplacement, DeleteEvent, DeletesSeries,
        WriteDeadline, WriteFails, Invalidate
<1>5. CASE ApplyMaster(c)
  <2>1. PICK patch \in plan[c].master : Holds(id, Patched(objects[id], patch))
    BY <1>5 DEF ApplyMaster
  <2>2. objects'[i] = objects[i]
    BY <1>1, <1>2, <2>1 DEF Holds
  <2>3. QED
    BY <1>1, <2>2
<1>6. CASE ApplyUpdate(c)
  <2>1. PICK write \in plan[c].update : Holds(write[1], [objects[write[1]] EXCEPT !.value = write[2]])
    BY <1>6 DEF ApplyUpdate
  <2>2. write[1] \in Ids /\ write[2] \in Values
    BY <1>1 DEF Plans
  <2>3. i = write[1]
    BY <1>1, <2>1, <2>2 DEF Holds
  <2>4. objects'[i].status = objects[i].status
    <3>1. objects[i] \in Objects
      BY <1>1
    <3>2. [objects[i] EXCEPT !.value = write[2]].status # "archived"
      BY <1>1, <3>1 DEF Objects, Alive
    <3>3. objects'[i] = [[objects[i] EXCEPT !.value = write[2]] EXCEPT !.modified = Now]
      BY <1>1, <2>1, <2>3, <3>2 DEF Holds
    <3>4. QED
      BY <3>1, <3>3 DEF Objects
  <2>5. QED
    BY <2>3, <2>4
<1>7. CASE ApplyCreate(c)
  <2>1. NextId \in Ids /\ objects[NextId].status = "none"
    BY <1>7, NextIdIsNew DEF ApplyCreate
  <2>2. \E object : Holds(NextId, object)
    BY <1>7 DEF ApplyCreate
  <2>3. i # NextId
    BY <1>1, <2>1 DEF Alive
  <2>4. objects'[i] = objects[i]
    BY <1>1, <2>2, <2>3 DEF Holds
  <2>5. QED
    BY <1>1, <2>4
<1>8. CASE ApplyArchive(c)
  <2>1. PICK n \in plan[c].archive : Holds(n, [objects[n] EXCEPT !.status = "archived"])
    BY <1>8 DEF ApplyArchive
  <2>2. i = n
    BY <1>1, <2>1 DEF Holds
  <2>3. QED
    BY <1>8, <2>2 DEF ApplyArchive, MasterWritten
<1>9. QED
  BY <1>4, <1>5, <1>6, <1>7, <1>8

\* Under If-Match a PUT writes the occurrences its client changed, whoever wrote what
\* between the client's read and its request.
THEOREM OnlyChangedIsWritten == Spec => IfMatchProtectsOccurrences
<1>1. ASSUME EventsInv, Next, NEW c \in Clients, NEW i \in Ids,
             WritesOccurrence(c, i), request[c].condition = "If-Match", ~disturbed[c]
      PROVE  ChangesOccurrence(c, objects[i].occurrence)
  <2>1. i \in plan[c].archive \cup {write[1] : write \in plan[c].update}
    BY <1>1, WritesAreOfThePlan
  <2>2. Protects(c) /\ Alive(objects[i])
    BY <1>1 DEF WritesOccurrence, EventsInv, Undisturbed, Applies
  <2>3. QED
    BY <1>1, <2>1, <2>2 DEF Protects
<1>2. ASSUME EventsInv, UNCHANGED vars, NEW c \in Clients, NEW i \in Ids
      PROVE  ~WritesOccurrence(c, i)
  BY <1>2 DEF WritesOccurrence, vars
<1>3. EventsInv /\ [Next]_vars =>
        [\A c \in Clients, i \in Ids :
            WritesOccurrence(c, i) /\ request[c].condition = "If-Match" /\ ~disturbed[c]
                => ChangesOccurrence(c, objects[i].occurrence)]_vars
  BY <1>1, <1>2
<1>4. QED
  BY <1>3, EventsInvariant, PTL DEF Spec, IfMatchProtectsOccurrences

\* A meeting a client deletes is excluded before it goes: upkeep does not make it again.
THEOREM ExcludedBeforeItGoes == Spec => DeletedMeetingStaysOut
<1>1. ASSUME EventsInv, Next, NEW c \in Clients, NEW i \in Ids,
             WritesOccurrence(c, i), ~disturbed[c],
             objects'[i].status = "archived", objects[held[c].id].recurring
      PROVE  objects[i].occurrence \in objects[held[c].id].exdates
  <2>1. Alive(objects[i]) /\ Applies(c)
    BY <1>1 DEF WritesOccurrence, EventsInv, Undisturbed
  <2>2. i \in plan[c].archive /\ plan[c].master = {}
    BY <1>1, <2>1, WritesAreOfThePlan DEF Alive
  <2>3. objects[held[c].id].exdates = request[c].body.exdates
    BY <2>1, <2>2 DEF Applies, MasterAgrees, MasterWritten, Carries
  <2>4. QED
    BY <1>1, <2>1, <2>2, <2>3 DEF Applies, ArchivesExcluded
<1>2. ASSUME EventsInv, UNCHANGED vars, NEW c \in Clients, NEW i \in Ids
      PROVE  ~WritesOccurrence(c, i)
  BY <1>2 DEF WritesOccurrence, vars
<1>3. EventsInv /\ [Next]_vars =>
        [\A c \in Clients, i \in Ids :
            /\ WritesOccurrence(c, i) /\ ~disturbed[c]
            /\ objects'[i].status = "archived" /\ objects[held[c].id].recurring
            => objects[i].occurrence \in objects[held[c].id].exdates]_vars
  BY <1>1, <1>2
<1>4. QED
  BY <1>3, EventsInvariant, PTL DEF Spec, DeletedMeetingStaysOut

\* A DELETE archives the series last, so that nothing is left behind it but the record.
THEOREM SeriesGoesLast == Spec => DeletedSeriesIsGone
<1>1. ASSUME EventsInv, NEW c \in Clients, DeletesSeries(c), ~disturbed[c],
             \E was \in held[c].master : was.rule,
             NEW i \in Ids, Alive(objects[i]), objects[i].series = held[c].id
      PROVE  objects[held[c].id].recurring /\ objects[i].occurrence \in TookPlace
  <2>1. Deletes(c) /\ plan[c].archive = {}
    BY <1>1 DEF DeletesSeries, EventsInv, Undisturbed
  <2>2. i \in Parts(held[c].id)
    BY <1>1 DEF Parts
  <2>3. QED
    BY <1>1, <2>1, <2>2 DEF Deletes
<1>2. EventsInv /\ [Next]_vars =>
        [\A c \in Clients :
            /\ DeletesSeries(c) /\ ~disturbed[c] /\ objects'[held[c].id] # objects[held[c].id]
            /\ \E was \in held[c].master : was.rule
            => \A i \in Ids : Alive(objects[i]) /\ objects[i].series = held[c].id =>
                    objects[held[c].id].recurring /\ objects[i].occurrence \in TookPlace]_vars
  BY <1>1
<1>3. QED
  BY <1>2, EventsInvariant, PTL DEF Spec, DeletedSeriesIsGone
=============================================================================
