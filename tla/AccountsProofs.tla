--------------------------- MODULE AccountsProofs ---------------------------
(***************************************************************************)
(* Proofs about Accounts for any people, pages, devices and budgets: that  *)
(* a person is kept under one id, from the reads of a listing to what a    *)
(* request writes, and that conditions of a save hold when it is done.     *)
(***************************************************************************)
EXTENDS Accounts, CalendarsProofs

-----------------------------------------------------------------------------
(* Directory, for any pages, links and members *)

\* A set of places in a sequence has a last one, so that the page a member is given
\* really is one that links them.
LEMMA LastOfIsThere ==
    ASSUME NEW N \in Nat, NEW places \in SUBSET (1 .. N), places # {}
    PROVE  LastOf(places) \in places /\ \A n \in places : n <= LastOf(places)
<1> DEFINE after == {N - n : n \in places}
<1>1. after \in SUBSET Nat /\ after # {}
  <2>1. \A n \in places : N - n \in Nat
    OBVIOUS
  <2>2. \E n \in places : N - n \in after
    OBVIOUS
  <2>3. QED
    BY <2>1, <2>2
<1> DEFINE R == OpToRel(<, Nat)
<1>2. IsWellFoundedOn(R, Nat)
  BY NatLessThanWellFounded
<1>3. \A x, y \in after : <<y, x>> \in R <=> y < x
  BY <1>1 DEF OpToRel
<1> HIDE DEF R
<1>4. \E x \in after : \A y \in after : ~(<<y, x>> \in R)
  BY <1>1, <1>2, WFMin, Zenon
<1>5. PICK x \in after : \A y \in after : ~(y < x)
  BY <1>3, <1>4
<1>6. PICK last \in places : x = N - last
  BY <1>5
<1>7. \A n \in places : n <= last
  <2> TAKE n \in places
  <2>1. ~(N - n < N - last)
    BY <1>5, <1>6
  <2>2. QED
    BY <2>1
<1>8. QED
  BY <1>7 DEF LastOf

\* What a member is given: a page that is listed and links them.
LEMMA PageOfMember ==
    ASSUME NEW pages \in Seq(Pages), NEW member \in Linked(pages)
    PROVE  \E n \in Linking(pages, member) : ProfilesByParticipant(pages)[member] = pages[n].id
<1>1. Linking(pages, member) # {}
  BY DEF Linked
<1>2. Linking(pages, member) \in SUBSET (1 .. Len(pages)) /\ Len(pages) \in Nat
  BY DEF Linking, Listed
<1>3. LastOf(Linking(pages, member)) \in Linking(pages, member)
  BY <1>1, <1>2, LastOfIsThere
<1>4. QED
  BY <1>3 DEF ProfilesByParticipant

\* The table of the people gives pages to memberships.
LEMMA TableType ==
    ASSUME NEW pages \in Seq(Pages)
    PROVE  /\ ProfilesByParticipant(pages) \in [Linked(pages) -> Profiles]
           /\ Linked(pages) \in SUBSET Members
<1>1. \A member \in Linked(pages) : ProfilesByParticipant(pages)[member] \in Profiles
  <2> TAKE member \in Linked(pages)
  <2>1. PICK n \in Linking(pages, member) : ProfilesByParticipant(pages)[member] = pages[n].id
    BY PageOfMember
  <2>2. n \in 1 .. Len(pages)
    BY DEF Linking, Listed
  <2>3. pages[n] \in Pages
    BY <2>2
  <2>4. QED
    BY <2>1, <2>3 DEF Pages
<1>2. QED
  BY <1>1 DEF ProfilesByParticipant, Linked

\* One person, one id: after normalize_assignees no assignee is a membership that has a
\* page, whatever the task had.
THEOREM NormalizedIsOwn ==
    ASSUME NEW linked \in SUBSET Members, NEW ids \in [linked -> Profiles],
           NEW assignees \in Seq(Profiles \cup Members)
    PROVE  /\ Normalized(ids, assignees) \in Seq(Profiles \cup Members)
           /\ \A n \in DOMAIN Normalized(ids, assignees) : Normalized(ids, assignees)[n] \notin linked
<1>1. \A id \in Profiles \cup Members :
        OwnId(ids, id) \in (Profiles \cup Members) \ linked
  BY DirectoryAssumption DEF OwnId
<1>2. \A n \in DOMAIN assignees : assignees[n] \in Profiles \cup Members
  OBVIOUS
<1>3. Normalized(ids, assignees) \in [1 .. Len(assignees) -> Profiles \cup Members]
  BY <1>1, <1>2 DEF Normalized
<1>4. \A n \in DOMAIN assignees : Normalized(ids, assignees)[n] \notin linked
  BY <1>1, <1>2 DEF Normalized
<1>5. DOMAIN Normalized(ids, assignees) = DOMAIN assignees
  BY DEF Normalized
<1>6. Len(assignees) \in Nat
  OBVIOUS
<1>7. QED
  BY <1>3, <1>4, <1>5, <1>6

\* Whoever may sign in has an account listed by the command, for any pages and links.
THEOREM AccountsAreListed ==
    ASSUME NEW pages \in Seq(Pages), NEW active
    PROVE  AccountHolders(pages, active) \subseteq HoldersListed(pages, active)
<1> SUFFICES ASSUME NEW member \in active \cap Linked(pages)
             PROVE  ProfilesByParticipant(pages)[member] \in HoldersListed(pages, active)
  BY DEF AccountHolders
<1>1. PICK n \in Linking(pages, member) : ProfilesByParticipant(pages)[member] = pages[n].id
  BY PageOfMember
<1>2. n \in Listed(pages) /\ pages[n].links \cap active # {}
  BY DEF Linking
<1>3. QED
  BY <1>1, <1>2 DEF HoldersListed

\* The two agree, as the comment of holders says, where no active member is linked by two
\* pages.  Where one is, the command lists an account for each of them, and only the last
\* one can sign in.
THEOREM HoldersAgree ==
    ASSUME NEW pages \in Seq(Pages), NEW active \in SUBSET Members,
           \A member \in active : \A n, k \in Linking(pages, member) : n = k
    PROVE  HoldersListed(pages, active) = AccountHolders(pages, active)
<1>1. HoldersListed(pages, active) \subseteq AccountHolders(pages, active)
  <2> SUFFICES ASSUME NEW n \in Listed(pages), pages[n].links \cap active # {}
               PROVE  pages[n].id \in AccountHolders(pages, active)
    BY DEF HoldersListed
  <2>1. PICK member \in active : member \in pages[n].links
    OBVIOUS
  <2>2. n \in Linking(pages, member) /\ member \in Linked(pages)
    BY <2>1 DEF Linking, Linked
  <2>3. PICK k \in Linking(pages, member) : ProfilesByParticipant(pages)[member] = pages[k].id
    BY <2>2, PageOfMember
  <2>4. ProfilesByParticipant(pages)[member] = pages[n].id
    BY <2>1, <2>2, <2>3
  <2>5. QED
    BY <2>2, <2>4 DEF AccountHolders
<1>2. QED
  BY <1>1, AccountsAreListed

-----------------------------------------------------------------------------
(* The invariant *)

\* The inductive invariant, in parts.  What was normalized through a table has no
\* membership that the table gives a page: in a batch, a snapshot and a request.
Own(with, assignees) == \A k \in DOMAIN assignees : assignees[k] \notin DOMAIN with
Keyed(batch) ==
    /\ batch.names \cap DOMAIN batch.table = {}
    /\ batch.mixed \/ Own(batch.table, batch.assignees)

\* Until its tasks are normalized, the table a listing has put in use is still the one in
\* use, or the other lister replaced it and the batch tells.
ListsAreKeyed ==
    /\ Keyed(snapshot)
    /\ Keyed(NotListing.batch)
    /\ \A l \in Listers :
        IF listing[l].at = "replaced"
        THEN /\ listing[l].batch.names \cap DOMAIN listing[l].batch.table = {}
             /\ listing[l].batch.mixed \/ table = listing[l].batch.table
        ELSE Keyed(listing[l].batch)

\* The calendars of a request are ones of the snapshot it was located in.
RequestKeyed(r) ==
    /\ r.at \in {"located", "fetched", "read", "written"} /\ ~r.mixed =>
        r.takes \notin DOMAIN r.located /\ r.brings \notin DOMAIN r.located
    /\ r.at = "read" => Own(r.used, r.assignees)
    /\ r.at = "written" /\ ~r.mixed /\ r.located = r.used => TakenOffFor(r)

RequestsAreKeyed == \A d \in Devices : RequestKeyed(request[d])

\* What a save may overwrite: what its device saw, what was saved since its check, and
\* under If-None-Match anything, where the check could not read.
MayReplace(p, seen, save) ==
    \/ save = 0
    \/ p.condition = "none"
    \/ p.condition = "If-Match" /\ save = seen
    \/ save > p.checked
    \/ p.condition = "If-None-Match" /\ p.blind

\* A PUT is under way only while its request is served; whatever is kept in its storage by
\* now, it may replace.
PutsPassed ==
    \A d \in Devices : put[d].under_way =>
        /\ request[d].at = "serving"
        /\ put[d].checked <= saves
        /\ MayReplace(put[d], copy[d][request[d].reader], document[request[d].reader])

-----------------------------------------------------------------------------
(* Types *)

LEMMA TableIs ==
    ASSUME NEW t \in Tables
    PROVE  \E linked \in SUBSET Members : t \in [linked -> Profiles]
BY DEF Tables

LEMMA OwnIdIs ==
    ASSUME NEW t \in Tables
    PROVE  /\ DOMAIN t \in SUBSET Members
           /\ \A id \in People : OwnId(t, id) \in People \ DOMAIN t
<1>1. PICK linked \in SUBSET Members : t \in [linked -> Profiles]
  BY TableIs
<1>2. DOMAIN t = linked /\ \A member \in linked : t[member] \in Profiles
  BY <1>1
<1>3. QED
  BY <1>2, PeopleAssumption, DirectoryAssumption DEF OwnId

LEMMA NormalizedIs ==
    ASSUME NEW t \in Tables, NEW assignees \in Seq(People)
    PROVE  Normalized(t, assignees) \in Seq(People) /\ Own(t, Normalized(t, assignees))
<1>1. PICK linked \in SUBSET Members : t \in [linked -> Profiles]
  BY TableIs
<1>2. DOMAIN t = linked
  BY <1>1
<1>3. QED
  BY <1>1, <1>2, NormalizedIsOwn, PeopleAssumption DEF Own

LEMMA TableOfPages ==
    ASSUME NEW pages \in Seq(Pages)
    PROVE  ProfilesByParticipant(pages) \in Tables /\ DOMAIN ProfilesByParticipant(pages) = Linked(pages)
BY TableType DEF Tables

\* What the three reads of a listing make together.
LEMMA BatchIs ==
    ASSUME NEW pages \in Seq(Pages), NEW active \in SUBSET Members, NEW assignees \in Seq(People)
    PROVE  /\ Batch(pages, active, assignees) \in Snapshots
           /\ Batch(pages, active, assignees).table = ProfilesByParticipant(pages)
           /\ Batch(pages, active, assignees).names \cap Linked(pages) = {}
<1> DEFINE t == ProfilesByParticipant(pages)
           batch == Batch(pages, active, assignees)
<1>1. t \in Tables /\ DOMAIN t = Linked(pages) /\ t \in [Linked(pages) -> Profiles]
  BY TableOfPages, TableType
<1>2. \A k \in Listed(pages) : pages[k].id \in Profiles
  <2> TAKE k \in Listed(pages)
  <2>1. pages[k] \in Pages
    BY DEF Listed
  <2>2. QED
    BY <2>1 DEF Pages
<1>3. Names(pages, active) \in SUBSET People /\ Names(pages, active) \cap Linked(pages) = {}
  <2>1. Linked(pages) \in SUBSET Members
    BY TableType
  <2>2. QED
    BY <1>2, <2>1, PeopleAssumption, DirectoryAssumption DEF Names
<1>4. AccountHolders(pages, active) \in SUBSET Profiles
  BY <1>1 DEF AccountHolders
<1>5. batch = [there |-> TRUE, assignees |-> assignees, names |-> Names(pages, active),
               holders |-> AccountHolders(pages, active), table |-> t, mixed |-> FALSE]
  BY DEF Batch
<1> HIDE DEF t, batch
<1>6. batch \in Snapshots
  BY <1>1, <1>3, <1>4, <1>5 DEF Snapshots
<1>7. QED
  BY <1>3, <1>5, <1>6 DEF t, batch

-----------------------------------------------------------------------------
(* Type correctness *)

LEMMA NothingYet ==
    /\ NoTable \in Tables /\ NoSnapshot \in Snapshots /\ NotListing \in Listings
    /\ NoRequest \in Requests /\ DOMAIN NoTable = {}
<1>1. NoTable \in [{} -> Profiles] /\ DOMAIN NoTable = {}
  BY DEF NoTable
<1>2. NoTable \in Tables
  BY <1>1 DEF Tables
<1>3. <<>> \in Seq(People) /\ <<>> \in Seq(Pages)
  OBVIOUS
<1>4. NoSnapshot \in Snapshots
  BY <1>2, <1>3 DEF NoSnapshot, Snapshots
<1>5. NotListing \in Listings
  BY <1>3, <1>4 DEF NotListing, Listings
<1>6. NoRequest \in Requests
  BY <1>2, <1>3 DEF NoRequest, Requests, SignIns
<1>7. QED
  BY <1>1, <1>2, <1>4, <1>5, <1>6

LEMMA TypeInit == Init => TypeOK
<1> SUFFICES ASSUME Init PROVE TypeOK
  OBVIOUS
<1>1. space \in Spaces
  BY AccountsBoundsAssumption DEF Init
<1>2. /\ listing \in [Listers -> Listings] /\ table \in Tables
      /\ snapshot \in Snapshots /\ request \in [Devices -> Requests]
  BY NothingYet DEF Init
<1>3. /\ edits \in 0 .. MaxEdits /\ failures \in 0 .. MaxFailures
      /\ passes \in 0 .. MaxPasses /\ turns \in 0 .. MaxTurns
  BY AccountsBoundsAssumption DEF Init, Scenario
<1>4. saves \in Saves /\ errors \in 0 .. MaxErrors
  BY DocumentsAssumption DEF Init, Scenario, Saves
<1>5. DocumentsTypeOK
  <2>1. 0 \in Saves
    BY DocumentsAssumption DEF Saves
  <2>2. NoPut \in Puts
    BY <2>1 DEF NoPut, Puts, Conditions
  <2>3. QED
    BY <1>4, <2>1, <2>2 DEF Init, DocumentsInit, DocumentsTypeOK
<1>6. QED
  BY <1>1, <1>2, <1>3, <1>5 DEF TypeOK

\* What people make of the space is a space.
LEMMA EditedSpace == TypeOK /\ EditSpace => space' \in Spaces
<1> SUFFICES ASSUME TypeOK, EditSpace PROVE space' \in Spaces
  OBVIOUS
<1>1. space = [pages |-> space.pages, active |-> space.active, assignees |-> space.assignees, known |-> space.known]
      /\ space.pages \in Seq(Pages) /\ space.active \in SUBSET Members
      /\ space.assignees \in Seq(People) /\ space.known \in BOOLEAN
  BY DEF TypeOK, Spaces
<1>2. ASSUME NEW k \in DOMAIN space.pages, space' = [space EXCEPT !.pages[k].archived = ~@]
      PROVE  space' \in Spaces
  <2>1. space.pages[k] \in Pages
    BY <1>1
  <2>2. [space.pages[k] EXCEPT !.archived = ~@] \in Pages
    BY <2>1 DEF Pages
  <2>3. [space.pages EXCEPT ![k] = [space.pages[k] EXCEPT !.archived = ~@]] \in Seq(Pages)
    BY <1>1, <2>2
  <2>4. QED
    BY <1>1, <1>2, <2>3 DEF Spaces
<1>3. ASSUME NEW k \in DOMAIN space.pages, NEW links \in SUBSET Members,
             space' = [space EXCEPT !.pages[k].links = links]
      PROVE  space' \in Spaces
  <2>1. space.pages[k] \in Pages
    BY <1>1
  <2>2. [space.pages[k] EXCEPT !.links = links] \in Pages
    BY <2>1 DEF Pages
  <2>3. [space.pages EXCEPT ![k] = [space.pages[k] EXCEPT !.links = links]] \in Seq(Pages)
    BY <1>1, <2>2
  <2>4. QED
    BY <1>1, <1>3, <2>3 DEF Spaces
<1>4. ASSUME NEW member \in Members,
             space' = [space EXCEPT !.active = IF member \in @ THEN @ \ {member} ELSE @ \cup {member}]
      PROVE  space' \in Spaces
  BY <1>1, <1>4 DEF Spaces
<1>5. ASSUME space' = [space EXCEPT !.known = ~@] PROVE space' \in Spaces
  BY <1>1, <1>5 DEF Spaces
<1>6. ASSUME NEW assignees \in Addressings, space' = [space EXCEPT !.assignees = assignees]
      PROVE  space' \in Spaces
  BY <1>1, <1>6, AddressingsAssumption DEF Spaces
<1>7. QED
  BY <1>2, <1>3, <1>4, <1>5, <1>6 DEF EditSpace

\* A listing, step by step.
LEMMA ReachesIs ==
    ASSUME TypeOK, NEW l \in Listers, NEW reading \in Listings, Reaches(l, reading)
    PROVE  listing' \in [Listers -> Listings]
BY DEF TypeOK, Reaches

LEMMA GivesUpIs ==
    ASSUME TypeOK, NEW l \in Listers, GivesUp(l)
    PROVE  listing' \in [Listers -> Listings]
<1>1. \A failed \in BOOLEAN : [NotListing EXCEPT !.failed = failed] \in Listings
  BY NothingYet DEF Listings
<1>2. PICK failed \in BOOLEAN : Reaches(l, [NotListing EXCEPT !.failed = failed])
  BY DEF GivesUp
<1>3. QED
  BY <1>1, <1>2, ReachesIs

\* A table put in use tells the batch of the other lister, and no more.
LEMMA ReplacesIs ==
    ASSUME TypeOK, NEW l \in Listers, NEW reading \in Listings, Replaces(l, reading)
    PROVE  listing' \in [Listers -> Listings] /\ table' \in Tables
<1>1. \A k \in Listers : listing[k] \in Listings
  BY DEF TypeOK
<1>2. table' \in Tables
  BY <1>1, TableOfPages DEF Replaces, Listings
<1>3. \A k \in Listers : Overtaken(listing[k]) \in Listings
  <2> TAKE k \in Listers
  <2>1. listing[k].batch \in Snapshots /\ (listing[k].at = "replaced") \in BOOLEAN
    BY <1>1 DEF Listings
  <2>2. [listing[k].batch EXCEPT !.mixed = @ \/ listing[k].at = "replaced"] \in Snapshots
    BY <2>1 DEF Snapshots
  <2>3. Overtaken(listing[k]) = [listing[k] EXCEPT !.batch = [listing[k].batch EXCEPT !.mixed = @ \/ listing[k].at = "replaced"]]
    BY DEF Overtaken
  <2>4. QED
    BY <1>1, <2>2, <2>3 DEF Listings
<1>4. QED
  BY <1>2, <1>3 DEF Replaces

LEMMA ListingType ==
    ASSUME TypeOK, NEW l \in Listers, Listing(l)
    PROVE  listing' \in [Listers -> Listings] /\ table' \in Tables /\ snapshot' \in Snapshots
<1>1. /\ listing \in [Listers -> Listings] /\ listing[l] \in Listings
      /\ table \in Tables /\ snapshot \in Snapshots
      /\ space.pages \in Seq(Pages) /\ space.active \in SUBSET Members
      /\ space.assignees \in Seq(People) /\ space.known \in BOOLEAN
  BY DEF TypeOK, Spaces
<1>2. CASE ListTasks(l)
  <2>1. PICK carried \in BOOLEAN :
          Reaches(l, [listing[l] EXCEPT !.at = "schema", !.assignees = space.assignees, !.carried = carried])
    BY <1>1, <1>2 DEF ListTasks
  <2>2. [listing[l] EXCEPT !.at = "schema", !.assignees = space.assignees, !.carried = carried] \in Listings
    BY <1>1 DEF Listings
  <2>3. QED
    BY <1>1, <1>2, <2>1, <2>2, ReachesIs DEF ListTasks
<1>3. CASE VerifySchema(l)
  <2>1. [listing[l] EXCEPT !.at = "people", !.carried = FALSE] \in Listings
    BY <1>1 DEF Listings
  <2>2. QED
    BY <1>1, <1>3, <2>1, ReachesIs, GivesUpIs DEF VerifySchema
<1>4. CASE ReadPages(l)
  <2>1. [listing[l] EXCEPT !.at = "members", !.pages = space.pages] \in Listings
    BY <1>1 DEF Listings
  <2>2. QED
    BY <1>1, <1>4, <2>1, ReachesIs DEF ReadPages
<1>5. CASE ReadMembers(l)
  <2>1. listing[l].pages \in Seq(Pages) /\ listing[l].assignees \in Seq(People) /\ listing[l].failed \in BOOLEAN
    BY <1>1 DEF Listings
  <2> DEFINE batch == Batch(listing[l].pages, space.active, listing[l].assignees)
             reading == [NotListing EXCEPT !.at = "replaced", !.failed = listing[l].failed, !.batch = batch]
  <2>2. batch \in Snapshots
    BY <1>1, <2>1, BatchIs
  <2>3. reading \in Listings
    BY <2>1, <2>2, NothingYet DEF Listings
  <2>4. Replaces(l, reading)
    BY <1>5 DEF ReadMembers
  <2> HIDE DEF reading
  <2>5. QED
    BY <1>1, <1>5, <2>3, <2>4, ReplacesIs DEF ReadMembers
<1>6. CASE NormalizeTasks(l)
  <2> DEFINE batch == [listing[l].batch EXCEPT !.assignees = Normalized(table, @)]
             reading == [listing[l] EXCEPT !.at = "batch", !.batch = batch]
  <2>1. listing[l].batch \in Snapshots /\ listing[l].batch.assignees \in Seq(People)
    BY <1>1 DEF Listings, Snapshots
  <2>2. batch \in Snapshots
    BY <1>1, <2>1, NormalizedIs DEF Snapshots
  <2>3. reading \in Listings
    BY <1>1, <2>2 DEF Listings
  <2>4. Reaches(l, IF l = "feed" THEN reading ELSE NotListing)
    BY <1>6 DEF NormalizeTasks
  <2> HIDE DEF reading
  <2>5. QED
    BY <1>1, <1>6, <2>3, <2>4, NothingYet, ReachesIs DEF NormalizeTasks
<1>7. CASE l = "feed" /\ Publish
  <2>1. snapshot' \in Snapshots
    BY <1>1, <1>7 DEF Publish, Listings
  <2>2. QED
    BY <1>1, <1>7, <2>1, NothingYet, ReachesIs DEF Publish
<1>8. CASE ListingFails(l)
  BY <1>1, <1>8, GivesUpIs DEF ListingFails
<1>9. QED
  BY <1>2, <1>3, <1>4, <1>5, <1>6, <1>7, <1>8 DEF Listing

\* What a request is changed to.
LEMMA GoesIs ==
    ASSUME TypeOK, NEW d \in Devices, NEW r \in Requests, Goes(d, r)
    PROVE  request' \in [Devices -> Requests]
BY DEF TypeOK, Goes

LEMMA EndsIs ==
    ASSUME TypeOK, NEW d \in Devices, Ends(d)
    PROVE  request' \in [Devices -> Requests]
<1>1. [NoRequest EXCEPT !.at = "over"] \in Requests
  BY NothingYet DEF Requests
<1>2. QED
  BY <1>1, GoesIs DEF Ends

\* The list a task is left with.
LEMMA LeftIs ==
    ASSUME NEW r \in Requests
    PROVE  /\ Left(r) \in Seq(People)
           /\ \A id \in Assigned(Left(r)) : id = r.brings \/ id \in Assigned(r.assignees) \ {r.takes}
<1>1. r.assignees \in Seq(People)
  BY DEF Requests
<1>2. CASE r.brings = Unassigned
  <2>1. Left(r) = Without(r.assignees, {r.takes})
    BY <1>2 DEF Left, TakenOff
  <2>2. QED
    BY <1>1, <2>1, WithoutIsWithout
<1>3. CASE r.brings # Unassigned
  <2> DEFINE rest0 == Without(r.assignees, {r.takes, r.brings})
  <2>1. r.brings \in People
    BY <1>3 DEF Requests
  <2>2. Left(r) = <<r.brings>> \o rest0
    BY <1>3, <2>1 DEF Left, HandedOver
  <2>3. rest0 \in Seq(People) /\ Assigned(rest0) \subseteq Assigned(r.assignees) \ {r.takes, r.brings}
    BY <1>1, WithoutIsWithout
  <2> HIDE DEF rest0
  <2>4. Left(r) \in Seq(People)
    BY <2>1, <2>2, <2>3
  <2>5. \A k \in DOMAIN Left(r) : Left(r)[k] = r.brings \/ Left(r)[k] \in Assigned(rest0)
    <3> TAKE k \in DOMAIN Left(r)
    <3>1. <<r.brings>> \in Seq(People) /\ Len(<<r.brings>>) = 1 /\ <<r.brings>>[1] = r.brings
      BY <2>1
    <3>2. Len(rest0) \in Nat /\ DOMAIN rest0 = 1 .. Len(rest0) /\ k \in 1 .. (1 + Len(rest0))
      BY <2>2, <2>3, <3>1
    <3>3. CASE k = 1
      BY <2>2, <2>3, <3>1, <3>2, <3>3
    <3>4. CASE k # 1
      <4>1. Left(r)[k] = rest0[k - 1] /\ k - 1 \in DOMAIN rest0
        BY <2>2, <2>3, <3>1, <3>2, <3>4
      <4>2. QED
        BY <4>1 DEF Assigned
    <3>5. QED
      BY <3>3, <3>4
  <2>6. \A id \in Assigned(Left(r)) : id = r.brings \/ id \in Assigned(rest0)
    BY <2>5 DEF Assigned
  <2>7. QED
    BY <2>3, <2>4, <2>6
<1>4. QED
  BY <1>2, <1>3

\* A request, step by step.
LEMMA RequestType ==
    ASSUME TypeOK, NEW d \in Devices, Arrive(d) \/ Serve(d)
    PROVE  request' \in [Devices -> Requests] /\ space' \in Spaces
<1>1. /\ request \in [Devices -> Requests] /\ request[d] \in Requests /\ space \in Spaces
      /\ table \in Tables /\ snapshot \in Snapshots
  BY DEF TypeOK
<1>2. CASE Arrive(d)
  <2>1. space' = space
    BY <1>2 DEF Arrive, others
  <2>2. PICK reader \in SignIns : IF MaySignIn(reader)
                                  THEN Goes(d, [NoRequest EXCEPT !.at = "serving", !.reader = reader])
                                  ELSE Ends(d)
    BY <1>2 DEF Arrive
  <2>3. [NoRequest EXCEPT !.at = "serving", !.reader = reader] \in Requests
    BY NothingYet DEF Requests
  <2>4. QED
    BY <1>1, <2>1, <2>2, <2>3, GoesIs, EndsIs
<1>3. CASE Locate(d)
  <2>1. space' = space
    BY <1>3 DEF Locate, others
  <2> DEFINE by == ServedBy(snapshot.assignees, request[d].reader)
             Found(takes, brings) == [request[d] EXCEPT !.at = "located", !.takes = takes, !.brings = brings,
                                                        !.located = snapshot.table, !.mixed = snapshot.mixed]
  <2>2. PICK key \in People \cup {Unassigned} :
          \/ Ends(d)
          \/ key # Unassigned /\ Goes(d, Found(key, Unassigned))
          \/ by # Unassigned /\ Goes(d, Found(by, key))
    BY <1>3 DEF Locate
  <2>3. by # Unassigned => by \in People
    <3>1. snapshot.assignees \in Seq(People)
      BY <1>1 DEF Snapshots
    <3>2. QED
      BY <3>1 DEF ServedBy, FiledUnder, Assigned
  <2>4. snapshot.table \in Tables /\ snapshot.mixed \in BOOLEAN
    BY <1>1 DEF Snapshots
  <2>5. \A takes \in People : Found(takes, Unassigned) \in Requests /\ Found(takes, key) \in Requests
    BY <1>1, <2>4 DEF Requests
  <2> HIDE DEF Found, by
  <2>6. QED
    BY <1>1, <2>1, <2>2, <2>3, <2>5, GoesIs, EndsIs
<1>4. CASE ReadTask(d)
  <2>1. space' = space
    BY <1>4 DEF ReadTask, others
  <2>2. [request[d] EXCEPT !.at = "fetched", !.assignees = space.assignees] \in Requests
    BY <1>1 DEF Requests, Spaces
  <2>3. QED
    BY <1>1, <1>4, <2>1, <2>2, GoesIs DEF ReadTask
<1>9. CASE NormalizeTask(d)
  <2>1. space' = space
    BY <1>9 DEF NormalizeTask, others
  <2>2. Normalized(table, request[d].assignees) \in Seq(People)
    BY <1>1, NormalizedIs DEF Requests
  <2>3. [request[d] EXCEPT !.at = "read", !.used = table, !.assignees = Normalized(table, @)] \in Requests
    BY <1>1, <2>2 DEF Requests
  <2>4. QED
    BY <1>1, <1>9, <2>1, <2>3, GoesIs DEF NormalizeTask
<1>5. CASE WriteTask(d)
  <2>1. Left(request[d]) \in Seq(People)
    BY <1>1, LeftIs
  <2>2. [space EXCEPT !.assignees = Left(request[d])] \in Spaces
    BY <1>1, <2>1 DEF Spaces
  <2>3. [request[d] EXCEPT !.at = "written", !.assignees = Left(request[d])] \in Requests
    BY <1>1, <2>1 DEF Requests
  <2>4. QED
    BY <1>5, <2>2, <2>3, GoesIs DEF WriteTask
<1>6. CASE RequestFails(d)
  BY <1>1, <1>6, EndsIs DEF RequestFails, others
<1>7. CASE ServeDocument(d)
  <2>1. space' = space
    BY <1>7 DEF ServeDocument, others
  <2>2. Ends(d) \/ request' = request
    BY <1>7 DEF ServeDocument
  <2>3. QED
    BY <1>1, <2>1, <2>2, EndsIs
<1>8. QED
  BY <1>2, <1>3, <1>4, <1>5, <1>6, <1>7, <1>9 DEF Serve

\* A document, step by step.
LEMMA DocumentType ==
    ASSUME TypeOK, NEW d \in Devices, ServeDocument(d)
    PROVE  DocumentsTypeOK'
<1> DEFINE s == request[d].reader
<1>1. s \in Storages
  BY PeopleAssumption DEF TypeOK, Requests
<1>2. /\ document \in [Storages -> Saves] /\ document[s] \in Saves
      /\ copy \in [Devices -> [Storages -> Saves]]
      /\ put \in [Devices -> Puts]
      /\ saves \in Saves /\ errors \in 0 .. MaxErrors /\ 0 \in Saves
  BY <1>1, DocumentsAssumption DEF TypeOK, DocumentsTypeOK, Saves
<1>3. errors > 0 => errors - 1 \in 0 .. MaxErrors
  BY <1>2, DocumentsAssumption
<1> HIDE DEF s
<1>4. CASE GetDocument(d, s)
  <2>1. PICK blind \in BOOLEAN : Reads(blind) /\ copy' = [copy EXCEPT ![d][s] = Content(s, blind)]
    BY <1>4 DEF GetDocument
  <2>2. errors' \in 0 .. MaxErrors /\ Content(s, blind) \in Saves
    BY <1>2, <1>3, <2>1 DEF Reads, Content
  <2>3. QED
    BY <1>1, <1>2, <1>4, <2>1, <2>2 DEF GetDocument, DocumentsTypeOK
<1>5. CASE DeleteDocument(d, s)
  BY <1>1, <1>2, <1>5 DEF DeleteDocument, DocumentsTypeOK
<1>6. ASSUME NEW condition \in Conditions, CheckPut(d, s, condition)
      PROVE  DocumentsTypeOK'
  <2>1. PICK blind \in BOOLEAN :
          /\ Reads(blind)
          /\ put' = [put EXCEPT ![d] = [under_way |-> TRUE, condition |-> condition,
                                        checked |-> saves, blind |-> blind]]
    BY <1>6 DEF CheckPut
  <2>2. errors' \in 0 .. MaxErrors
    BY <1>2, <1>3, <2>1 DEF Reads
  <2>3. [under_way |-> TRUE, condition |-> condition, checked |-> saves, blind |-> blind] \in Puts
    BY <1>2 DEF Puts
  <2>4. QED
    BY <1>2, <1>6, <2>1, <2>2, <2>3 DEF CheckPut, DocumentsTypeOK
<1>7. ASSUME NEW condition \in Conditions, RefusePut(d, s, condition)
      PROVE  DocumentsTypeOK'
  <2>1. errors' \in 0 .. MaxErrors
    BY <1>2, <1>3, <1>7 DEF RefusePut, Reads
  <2>2. QED
    BY <1>2, <1>7, <2>1 DEF RefusePut, DocumentsTypeOK
<1>8. NoPut \in Puts
  BY <1>2 DEF NoPut, Puts, Conditions
<1>9. CASE Save(d, s)
  <2>1. saves' \in Saves
    BY <1>2, <1>9, DocumentsAssumption DEF Save, Saves
  <2>2. QED
    BY <1>1, <1>2, <1>8, <1>9, <2>1 DEF Save, DocumentsTypeOK
<1>10. CASE SaveFails(d)
  BY <1>2, <1>3, <1>8, <1>10 DEF SaveFails, DocumentsTypeOK
<1>11. QED
  BY <1>4, <1>5, <1>6, <1>7, <1>9, <1>10 DEF ServeDocument, s

\* What a listing leaves alone.
LEMMA ListingLeaves ==
    ASSUME NEW l \in Listers, Listing(l)
    PROVE  UNCHANGED rest
BY DEF Listing, ListTasks, VerifySchema, ReadPages, ReadMembers, NormalizeTasks, Publish, ListingFails, rest

LEMMA TypeStep == TypeOK /\ [Next]_vars => TypeOK'
<1> SUFFICES ASSUME TypeOK, [Next]_vars PROVE TypeOK'
  OBVIOUS
<1>1. /\ edits \in 0 .. MaxEdits /\ failures \in 0 .. MaxFailures
      /\ passes \in 0 .. MaxPasses /\ turns \in 0 .. MaxTurns
  BY DEF TypeOK
<1>2. CASE EditSpace
  <2>1. space' \in Spaces
    BY <1>2, EditedSpace
  <2>2. edits' \in 0 .. MaxEdits
    BY <1>1, <1>2, AccountsBoundsAssumption DEF EditSpace
  <2>3. UNCHANGED <<listing, table, snapshot, request, failures, passes, turns, document, copy, put, saves, errors>>
    BY <1>2 DEF EditSpace, served, documents
  <2>4. DocumentsTypeOK'
    BY <2>3 DEF TypeOK, DocumentsTypeOK
  <2>5. QED
    BY <2>1, <2>2, <2>3, <2>4 DEF TypeOK
<1>3. ASSUME NEW l \in Listers, Listing(l)
      PROVE  TypeOK'
  <2>1. listing' \in [Listers -> Listings] /\ table' \in Tables /\ snapshot' \in Snapshots
    BY <1>3, ListingType
  <2>2. UNCHANGED <<space, request, edits, turns, document, copy, put, saves, errors>>
    BY <1>3, ListingLeaves DEF rest, documents
  <2>3. failures' \in 0 .. MaxFailures /\ passes' \in 0 .. MaxPasses
    <3>1. CASE ListTasks(l)
      <4>1. failures' = failures /\ (passes' = passes \/ (passes > 0 /\ passes' = passes - 1))
        BY <3>1 DEF ListTasks
      <4>2. QED
        BY <1>1, <4>1, AccountsBoundsAssumption
    <3>2. CASE ListingFails(l)
      <4>1. failures > 0 /\ failures' = failures - 1 /\ passes' = passes
        BY <3>2 DEF ListingFails
      <4>2. QED
        BY <1>1, <4>1, AccountsBoundsAssumption
    <3>3. CASE ~ListTasks(l) /\ ~ListingFails(l)
      <4>1. failures' = failures /\ passes' = passes
        BY <1>3, <3>3 DEF Listing, VerifySchema, ReadPages, ReadMembers, NormalizeTasks, Publish
      <4>2. QED
        BY <1>1, <4>1
    <3>4. QED
      BY <3>1, <3>2, <3>3
  <2>4. DocumentsTypeOK'
    BY <2>2 DEF TypeOK, DocumentsTypeOK
  <2>5. QED
    BY <1>1, <2>1, <2>2, <2>3, <2>4 DEF TypeOK
<1>4. ASSUME NEW d \in Devices, Arrive(d) \/ Serve(d)
      PROVE  TypeOK'
  <2>1. request' \in [Devices -> Requests] /\ space' \in Spaces
    BY <1>4, RequestType
  <2>2. UNCHANGED <<listing, table, snapshot, edits, passes>>
    BY <1>4 DEF Arrive, Serve, Locate, ReadTask, NormalizeTask, WriteTask, RequestFails, ServeDocument, others, served
  <2>3. failures' \in 0 .. MaxFailures /\ turns' \in 0 .. MaxTurns
    <3>1. CASE Arrive(d)
      <4>1. turns > 0 /\ turns' = turns - 1 /\ failures' = failures
        BY <3>1 DEF Arrive
      <4>2. QED
        BY <1>1, <4>1, AccountsBoundsAssumption
    <3>2. CASE RequestFails(d)
      <4>1. failures > 0 /\ failures' = failures - 1 /\ turns' = turns
        BY <3>2 DEF RequestFails
      <4>2. QED
        BY <1>1, <4>1, AccountsBoundsAssumption
    <3>3. CASE ~Arrive(d) /\ ~RequestFails(d)
      <4>1. UNCHANGED <<failures, turns>>
        BY <1>4, <3>3 DEF Serve, Locate, ReadTask, NormalizeTask, WriteTask, ServeDocument
      <4>2. QED
        BY <1>1, <4>1
    <3>4. QED
      BY <3>1, <3>2, <3>3
  <2>4. DocumentsTypeOK'
    <3>1. CASE ServeDocument(d)
      BY <3>1, DocumentType
    <3>2. CASE ~ServeDocument(d)
      <4>1. UNCHANGED <<document, copy, put, saves, errors>>
        BY <1>4, <3>2 DEF Arrive, Serve, Locate, ReadTask, NormalizeTask, WriteTask, RequestFails, documents
      <4>2. QED
        BY <4>1 DEF TypeOK, DocumentsTypeOK
    <3>3. QED
      BY <3>1, <3>2
  <2>5. QED
    BY <2>1, <2>2, <2>3, <2>4 DEF TypeOK
<1>5. CASE UNCHANGED vars
  BY <1>5 DEF vars, documents, TypeOK, DocumentsTypeOK
<1>6. QED
  BY <1>2, <1>3, <1>4, <1>5 DEF Next

\* Every variable keeps its type, whatever the people, the edits and the requests.
THEOREM TypeCorrect == Spec => []TypeOK
<1>1. Init => TypeOK
  BY TypeInit
<1>2. TypeOK /\ [Next]_vars => TypeOK'
  BY TypeStep
<1>3. QED
  BY <1>1, <1>2, PTL DEF Spec

-----------------------------------------------------------------------------
(* One id for each person *)

LEMMA NothingKeyed == Keyed(NotListing.batch) /\ Keyed(NoSnapshot)
BY NothingYet DEF Keyed, Own, NotListing, NoSnapshot, NoTable

LEMMA ListsInit == Init => ListsAreKeyed
<1> SUFFICES ASSUME Init PROVE ListsAreKeyed
  OBVIOUS
<1>1. \A l \in Listers : listing[l] = NotListing /\ listing[l].at = "idle"
  BY DEF Init, NotListing
<1>2. QED
  BY <1>1, NothingKeyed DEF Init, ListsAreKeyed

\* A listing that comes to be at a point other than `replaced' needs a keyed batch.
LEMMA ReachesKeyed ==
    ASSUME TypeOK, ListsAreKeyed, UNCHANGED table, Keyed(snapshot'),
           NEW l \in Listers, NEW reading, Reaches(l, reading),
           reading.at # "replaced", Keyed(reading.batch)
    PROVE  ListsAreKeyed'
<1>1. \A k \in Listers : listing'[k] = IF k = l THEN reading ELSE listing[k]
  BY DEF TypeOK, Reaches
<1>2. QED
  BY <1>1, NothingKeyed DEF ListsAreKeyed

LEMMA GivesUpKeyed ==
    ASSUME TypeOK, ListsAreKeyed, UNCHANGED <<table, snapshot>>, NEW l \in Listers, GivesUp(l)
    PROVE  ListsAreKeyed'
<1>1. \A failed : /\ [NotListing EXCEPT !.failed = failed].at # "replaced"
                  /\ [NotListing EXCEPT !.failed = failed].batch = NotListing.batch
  BY DEF NotListing
<1>2. PICK failed \in BOOLEAN : Reaches(l, [NotListing EXCEPT !.failed = failed])
  BY DEF GivesUp
<1>3. Keyed(snapshot')
  BY DEF ListsAreKeyed
<1>4. QED
  BY <1>1, <1>2, <1>3, NothingKeyed, ReachesKeyed

LEMMA ListsStep == TypeOK /\ ListsAreKeyed /\ [Next]_vars => ListsAreKeyed'
<1> SUFFICES ASSUME TypeOK, ListsAreKeyed, [Next]_vars PROVE ListsAreKeyed'
  OBVIOUS
<1>1. CASE UNCHANGED <<listing, table, snapshot>>
  BY <1>1 DEF ListsAreKeyed
<1>2. \A l \in Listers : listing[l] \in Listings /\ listing[l].batch \in Snapshots
  BY DEF TypeOK, Listings
<1>3. \A l \in Listers : listing[l].at # "replaced" => Keyed(listing[l].batch)
  BY DEF ListsAreKeyed
<1>4. ASSUME NEW l \in Listers, ListTasks(l) PROVE ListsAreKeyed'
  <2>1. PICK carried \in BOOLEAN :
          Reaches(l, [listing[l] EXCEPT !.at = "schema", !.assignees = space.assignees, !.carried = carried])
    BY <1>4 DEF ListTasks, TypeOK, Spaces
  <2> DEFINE reading == [listing[l] EXCEPT !.at = "schema", !.assignees = space.assignees, !.carried = carried]
  <2>2. reading.at # "replaced" /\ reading.batch = listing[l].batch /\ listing[l].at = "idle"
    BY <1>2, <1>4 DEF ListTasks, Listings
  <2>3. Keyed(snapshot') /\ UNCHANGED table
    BY <1>4 DEF ListTasks, ListsAreKeyed
  <2> HIDE DEF reading
  <2>4. QED
    BY <1>3, <2>1, <2>2, <2>3, ReachesKeyed DEF reading
<1>5. ASSUME NEW l \in Listers, VerifySchema(l) PROVE ListsAreKeyed'
  <2> DEFINE reading == [listing[l] EXCEPT !.at = "people", !.carried = FALSE]
  <2>1. Reaches(l, reading) \/ GivesUp(l)
    BY <1>5 DEF VerifySchema
  <2>2. reading.at # "replaced" /\ reading.batch = listing[l].batch /\ listing[l].at = "schema"
    BY <1>2, <1>5 DEF VerifySchema, Listings
  <2>3. Keyed(snapshot') /\ UNCHANGED <<table, snapshot>>
    BY <1>5 DEF VerifySchema, ListsAreKeyed
  <2> HIDE DEF reading
  <2>4. QED
    BY <1>3, <2>1, <2>2, <2>3, ReachesKeyed, GivesUpKeyed
<1>6. ASSUME NEW l \in Listers, ReadPages(l) PROVE ListsAreKeyed'
  <2> DEFINE reading == [listing[l] EXCEPT !.at = "members", !.pages = space.pages]
  <2>1. Reaches(l, reading)
    BY <1>6 DEF ReadPages
  <2>2. reading.at # "replaced" /\ reading.batch = listing[l].batch /\ listing[l].at = "people"
    BY <1>2, <1>6 DEF ReadPages, Listings
  <2>3. Keyed(snapshot') /\ UNCHANGED table
    BY <1>6 DEF ReadPages, ListsAreKeyed
  <2> HIDE DEF reading
  <2>4. QED
    BY <1>3, <2>1, <2>2, <2>3, ReachesKeyed
<1>7. ASSUME NEW l \in Listers, ReadMembers(l) PROVE ListsAreKeyed'
  <2> DEFINE batch == Batch(listing[l].pages, space.active, listing[l].assignees)
             reading == [NotListing EXCEPT !.at = "replaced", !.failed = listing[l].failed, !.batch = batch]
  <2>1. listing[l].pages \in Seq(Pages) /\ listing[l].assignees \in Seq(People) /\ space.active \in SUBSET Members
    BY <1>2 DEF TypeOK, Listings, Spaces
  <2>2. /\ batch.table = table' /\ DOMAIN batch.table = Linked(listing[l].pages)
        /\ batch.names \cap DOMAIN batch.table = {}
    BY <1>7, <2>1, BatchIs, TableOfPages DEF ReadMembers, Replaces
  <2>3. reading.at = "replaced" /\ reading.batch = batch
    BY DEF NotListing
  <2>4. \A k \in Listers : listing'[k] = IF k = l THEN reading ELSE Overtaken(listing[k])
    BY <1>7 DEF ReadMembers, Replaces
  <2>5. snapshot' = snapshot
    BY <1>7 DEF ReadMembers
  <2> HIDE DEF reading, batch
  <2>6. ASSUME NEW k \in Listers
        PROVE  /\ Overtaken(listing[k]).at = listing[k].at
               /\ Overtaken(listing[k]).batch.names = listing[k].batch.names
               /\ Overtaken(listing[k]).batch.table = listing[k].batch.table
               /\ Overtaken(listing[k]).batch.assignees = listing[k].batch.assignees
               /\ listing[k].at = "replaced" => Overtaken(listing[k]).batch.mixed
               /\ listing[k].batch.mixed => Overtaken(listing[k]).batch.mixed
    BY <1>2, <2>6 DEF Overtaken, Listings, Snapshots
  <2>7. ASSUME NEW k \in Listers
        PROVE  IF listing'[k].at = "replaced"
               THEN /\ listing'[k].batch.names \cap DOMAIN listing'[k].batch.table = {}
                    /\ listing'[k].batch.mixed \/ table' = listing'[k].batch.table
               ELSE Keyed(listing'[k].batch)
    <3>1. CASE k = l
      BY <2>2, <2>3, <2>4, <3>1
    <3>2. CASE k # l /\ listing[k].at = "replaced"
      BY <2>4, <2>6, <3>2 DEF ListsAreKeyed
    <3>3. CASE k # l /\ listing[k].at # "replaced"
      <4>1. Keyed(listing[k].batch)
        BY <1>3, <3>3
      <4>2. Keyed(Overtaken(listing[k]).batch)
        BY <2>6, <4>1 DEF Keyed, Own
      <4>3. QED
        BY <2>4, <2>6, <3>3, <4>2
    <3>4. QED
      BY <3>1, <3>2, <3>3
  <2>8. QED
    BY <2>5, <2>7, NothingKeyed DEF ListsAreKeyed
<1>8. ASSUME NEW l \in Listers, NormalizeTasks(l) PROVE ListsAreKeyed'
  <2> DEFINE was == listing[l].batch
             batch == [was EXCEPT !.assignees = Normalized(table, @)]
             reading == [listing[l] EXCEPT !.at = "batch", !.batch = batch]
  <2>1. Reaches(l, IF l = "feed" THEN reading ELSE NotListing)
    BY <1>8 DEF NormalizeTasks
  <2>2. was \in Snapshots /\ was.assignees \in Seq(People)
    BY <1>2 DEF Snapshots
  <2>3. /\ batch.names = was.names /\ batch.table = was.table /\ batch.mixed = was.mixed
        /\ batch.assignees = Normalized(table, was.assignees)
    BY <2>2 DEF Snapshots
  <2>4. was.names \cap DOMAIN was.table = {} /\ (was.mixed \/ table = was.table)
    BY <1>8 DEF NormalizeTasks, ListsAreKeyed
  <2>5. Own(table, Normalized(table, was.assignees))
    BY <2>2, NormalizedIs DEF TypeOK
  <2>6. reading.at # "replaced" /\ reading.batch = batch
    BY <1>2 DEF Listings
  <2>7. Keyed(snapshot') /\ UNCHANGED table
    BY <1>8 DEF NormalizeTasks, ListsAreKeyed
  <2>8. NotListing.at # "replaced"
    BY DEF NotListing
  <2> HIDE DEF reading, batch, was
  <2>9. Keyed(batch)
    BY <2>3, <2>4, <2>5 DEF Keyed
  <2>10. QED
    BY <2>1, <2>6, <2>7, <2>8, <2>9, NothingKeyed, ReachesKeyed
<1>9. CASE Publish
  <2>1. listing["feed"].at # "replaced" /\ snapshot' = listing["feed"].batch /\ Reaches("feed", NotListing)
    BY <1>9 DEF Publish
  <2>2. "feed" \in Listers
    BY DEF Listers
  <2>3. NotListing.at # "replaced" /\ UNCHANGED table
    BY <1>9 DEF NotListing, Publish
  <2>4. Keyed(snapshot')
    BY <1>3, <2>1, <2>2
  <2>5. QED
    BY <2>1, <2>2, <2>3, <2>4, NothingKeyed, ReachesKeyed
<1>10. ASSUME NEW l \in Listers, ListingFails(l) PROVE ListsAreKeyed'
  BY <1>10, GivesUpKeyed DEF ListingFails
<1>11. ASSUME NEW d \in Devices, Arrive(d) \/ Serve(d) PROVE ListsAreKeyed'
  BY <1>1, <1>11 DEF Arrive, Serve, Locate, ReadTask, NormalizeTask, WriteTask, RequestFails, ServeDocument,
                     others, served
<1>12. CASE EditSpace \/ UNCHANGED vars
  BY <1>1, <1>12 DEF EditSpace, served, vars
<1>13. QED
  BY <1>4, <1>5, <1>6, <1>7, <1>8, <1>9, <1>10, <1>11, <1>12 DEF Next, Listing

\* The calendars of a keyed snapshot are not kept under a membership that has a page.
LEMMA CalendarsAreOwn ==
    ASSUME TypeOK, ListsAreKeyed, ~snapshot.mixed, NEW key, Calendar(key)
    PROVE  key \notin DOMAIN snapshot.table
<1>1. snapshot.assignees \in Seq(People) /\ snapshot.table \in Tables
  BY DEF TypeOK, Snapshots
<1>2. DOMAIN snapshot.table \in SUBSET Members /\ Unassigned \notin DOMAIN snapshot.table
  BY <1>1, OwnIdIs, PeopleAssumption, CalendarsAssumption
<1>3. FiledUnder(snapshot.assignees) \notin DOMAIN snapshot.table
  <2>1. CASE snapshot.assignees = <<>>
    BY <1>2, <2>1 DEF FiledUnder
  <2>2. CASE snapshot.assignees # <<>>
    <3>1. 1 \in DOMAIN snapshot.assignees
      BY <1>1, <2>2
    <3>2. QED
      BY <2>2, <3>1 DEF FiledUnder, ListsAreKeyed, Keyed, Own
  <2>3. QED
    BY <2>1, <2>2
<1>4. key \in snapshot.names \/ key = Unassigned \/ key = FiledUnder(snapshot.assignees)
  BY DEF Calendar, Collections
<1>5. QED
  BY <1>2, <1>3, <1>4 DEF ListsAreKeyed, Keyed

\* However people edit the space between the reads of the feed's listing and the
\* scheduler's, and however its tasks address them, nobody has a second calendar under the
\* membership behind their page, unless the one listing put its table in use between the
\* two steps of the other that put its own in use and normalize the tasks.
THEOREM OneCalendar == Spec => []OneCalendarEach
<1>1. Init => TypeOK /\ ListsAreKeyed
  BY TypeInit, ListsInit
<1>2. TypeOK /\ ListsAreKeyed /\ [Next]_vars => (TypeOK /\ ListsAreKeyed)'
  BY TypeStep, ListsStep
<1>3. TypeOK /\ ListsAreKeyed => OneCalendarEach
  BY CalendarsAreOwn DEF OneCalendarEach
<1>4. QED
  BY <1>1, <1>2, <1>3, PTL DEF Spec

-----------------------------------------------------------------------------
(* Taken off for good *)

\* Whoever serves a task in a keyed snapshot is one of its calendars' people, or nobody.
LEMMA ServerIsOwn ==
    ASSUME TypeOK, ListsAreKeyed, ~snapshot.mixed, NEW reader
    PROVE  ServedBy(snapshot.assignees, reader) \notin DOMAIN snapshot.table
<1>1. snapshot.assignees \in Seq(People) /\ snapshot.table \in Tables
  BY DEF TypeOK, Snapshots
<1>2. Unassigned \notin DOMAIN snapshot.table
  BY <1>1, OwnIdIs, PeopleAssumption, CalendarsAssumption
<1>3. Own(snapshot.table, snapshot.assignees)
  BY DEF ListsAreKeyed, Keyed
<1>4. snapshot.assignees # <<>> => 1 \in DOMAIN snapshot.assignees
  BY <1>1
<1>5. QED
  BY <1>2, <1>3, <1>4 DEF ServedBy, FiledUnder, Assigned, Own

LEMMA RequestsInit == Init => RequestsAreKeyed
BY DEF Init, RequestsAreKeyed, RequestKeyed, NoRequest

LEMMA RequestsStep == TypeOK /\ ListsAreKeyed /\ RequestsAreKeyed /\ [Next]_vars => RequestsAreKeyed'
<1> SUFFICES ASSUME TypeOK, ListsAreKeyed, RequestsAreKeyed, [Next]_vars PROVE RequestsAreKeyed'
  OBVIOUS
<1>1. ASSUME NEW d \in Devices, NEW r, RequestKeyed(r), Goes(d, r)
      PROVE  RequestsAreKeyed'
  <2>1. \A e \in Devices : request'[e] = IF e = d THEN r ELSE request[e]
    BY <1>1 DEF Goes, TypeOK
  <2>2. \A e \in Devices : RequestKeyed(request'[e])
    BY <1>1, <2>1 DEF RequestsAreKeyed
  <2>3. QED
    BY <2>2 DEF RequestsAreKeyed
<1>2. ASSUME NEW d \in Devices, Ends(d) PROVE RequestsAreKeyed'
  BY <1>1, <1>2 DEF Ends, RequestKeyed, NoRequest
<1>3. CASE UNCHANGED request
  BY <1>3 DEF RequestsAreKeyed
<1>4. ASSUME NEW d \in Devices, Arrive(d) PROVE RequestsAreKeyed'
  <2>1. \A reader : RequestKeyed([NoRequest EXCEPT !.at = "serving", !.reader = reader])
    BY DEF RequestKeyed, NoRequest
  <2>2. PICK reader \in SignIns : IF MaySignIn(reader)
                                  THEN Goes(d, [NoRequest EXCEPT !.at = "serving", !.reader = reader])
                                  ELSE Ends(d)
    BY <1>4 DEF Arrive
  <2>3. QED
    BY <1>1, <1>2, <2>1, <2>2
<1>5. ASSUME NEW d \in Devices, Locate(d) PROVE RequestsAreKeyed'
  <2> DEFINE by == ServedBy(snapshot.assignees, request[d].reader)
             Found(takes, brings) == [request[d] EXCEPT !.at = "located", !.takes = takes, !.brings = brings,
                                                        !.located = snapshot.table, !.mixed = snapshot.mixed]
  <2>1. PICK key \in People \cup {Unassigned} :
          \/ Ends(d)
          \/ Calendar(key) /\ Goes(d, Found(key, Unassigned))
          \/ Calendar(key) /\ Goes(d, Found(by, key))
    BY <1>5 DEF Locate
  <2>2. ~snapshot.mixed => by \notin DOMAIN snapshot.table
    BY ServerIsOwn
  <2>3. Unassigned \notin DOMAIN snapshot.table
    BY OwnIdIs, PeopleAssumption, CalendarsAssumption DEF TypeOK, Snapshots
  <2>4. ~snapshot.mixed /\ Calendar(key) => key \notin DOMAIN snapshot.table
    BY CalendarsAreOwn
  <2>5. request[d] \in Requests
    BY DEF TypeOK
  <2> HIDE DEF by
  <2>6. \A takes, brings :
            snapshot.mixed \/ (takes \notin DOMAIN snapshot.table /\ brings \notin DOMAIN snapshot.table) =>
                RequestKeyed(Found(takes, brings))
    BY <2>5 DEF RequestKeyed, Requests
  <2> HIDE DEF Found
  <2>7. QED
    BY <1>1, <1>2, <2>1, <2>2, <2>3, <2>4, <2>6
<1>6. ASSUME NEW d \in Devices, ReadTask(d) PROVE RequestsAreKeyed'
  <2> DEFINE r == [request[d] EXCEPT !.at = "fetched", !.assignees = space.assignees]
  <2>1. request[d] \in Requests /\ request[d].at = "located" /\ RequestKeyed(request[d]) /\ Goes(d, r)
    BY <1>6 DEF TypeOK, ReadTask, RequestsAreKeyed
  <2>2. r.at = "fetched" /\ r.takes = request[d].takes /\ r.brings = request[d].brings
        /\ r.located = request[d].located /\ r.mixed = request[d].mixed
    BY <2>1 DEF Requests
  <2> HIDE DEF r
  <2>3. RequestKeyed(r)
    BY <2>1, <2>2 DEF RequestKeyed
  <2>4. QED
    BY <1>1, <2>1, <2>3
<1>11. ASSUME NEW d \in Devices, NormalizeTask(d) PROVE RequestsAreKeyed'
  <2> DEFINE r == [request[d] EXCEPT !.at = "read", !.used = table, !.assignees = Normalized(table, @)]
  <2>1. request[d] \in Requests /\ request[d].at = "fetched" /\ RequestKeyed(request[d]) /\ Goes(d, r)
    BY <1>11 DEF TypeOK, NormalizeTask, RequestsAreKeyed
  <2>2. Own(table, Normalized(table, request[d].assignees))
    BY <2>1, NormalizedIs DEF TypeOK, Requests
  <2>3. r.at = "read" /\ r.used = table /\ r.assignees = Normalized(table, request[d].assignees)
        /\ r.takes = request[d].takes /\ r.brings = request[d].brings
        /\ r.located = request[d].located /\ r.mixed = request[d].mixed
    BY <2>1 DEF Requests
  <2> HIDE DEF r
  <2>4. RequestKeyed(r)
    BY <2>1, <2>2, <2>3 DEF RequestKeyed
  <2>5. QED
    BY <1>1, <2>1, <2>4
<1>7. ASSUME NEW d \in Devices, WriteTask(d) PROVE RequestsAreKeyed'
  <2> DEFINE was == request[d]
             r == [was EXCEPT !.at = "written", !.assignees = Left(was)]
  <2>1. was \in Requests /\ was.at = "read" /\ RequestKeyed(was) /\ Goes(d, r)
    BY <1>7 DEF TypeOK, WriteTask, RequestsAreKeyed
  <2>2. r.at = "written" /\ r.used = was.used /\ r.assignees = Left(was)
        /\ r.takes = was.takes /\ r.brings = was.brings
        /\ r.located = was.located /\ r.mixed = was.mixed
    BY <2>1 DEF Requests
  <2>3. \A id \in Assigned(Left(was)) : id = was.brings \/ id \in Assigned(was.assignees) \ {was.takes}
    BY <2>1, LeftIs
  <2>4. \A id \in Assigned(was.assignees) : id \notin DOMAIN was.used
    BY <2>1 DEF RequestKeyed, Own, Assigned
  <2>5. was.mixed \/ (was.takes \notin DOMAIN was.located /\ was.brings \notin DOMAIN was.located)
    BY <2>1 DEF RequestKeyed
  <2> HIDE DEF r, was
  <2>6. ASSUME ~r.mixed, r.located = r.used PROVE TakenOffFor(r)
    <3>1. OwnId(r.used, r.takes) = r.takes
      BY <2>2, <2>5, <2>6 DEF OwnId
    <3>2. \A id \in Assigned(was.assignees) \ {was.takes} : OwnId(r.used, id) # r.takes
      BY <2>2, <2>4 DEF OwnId
    <3>3. QED
      BY <2>2, <2>3, <3>1, <3>2 DEF TakenOffFor
  <2>7. RequestKeyed(r)
    BY <2>2, <2>5, <2>6 DEF RequestKeyed
  <2>8. QED
    BY <1>1, <2>1, <2>7
<1>8. ASSUME NEW d \in Devices, RequestFails(d) \/ ServeDocument(d) PROVE RequestsAreKeyed'
  <2>1. Ends(d) \/ UNCHANGED request
    BY <1>8 DEF RequestFails, ServeDocument
  <2>2. QED
    BY <1>2, <1>3, <2>1
<1>9. CASE EditSpace \/ (\E l \in Listers : Listing(l)) \/ UNCHANGED vars
  BY <1>3, <1>9, ListingLeaves DEF EditSpace, rest, vars
<1>10. QED
  BY <1>4, <1>5, <1>6, <1>7, <1>8, <1>9, <1>11 DEF Next, Serve

\* A task taken out of a person's calendar addresses them no more, by neither id, where the
\* tasks of the snapshot and the task that was read were normalized by that snapshot's own
\* table, however the two listings, the requests and the edits came in between.
THEOREM TakenOffStaysOff == Spec => []TakenOffForGood
<1> DEFINE IInv == TypeOK /\ ListsAreKeyed /\ RequestsAreKeyed
<1>1. Init => IInv
  BY TypeInit, ListsInit, RequestsInit
<1>2. IInv /\ [Next]_vars => IInv'
  BY TypeStep, ListsStep, RequestsStep
<1>3. IInv => TakenOffForGood
  BY DEF RequestsAreKeyed, RequestKeyed, TakenOffForGood
<1>4. QED
  BY <1>1, <1>2, <1>3, PTL DEF Spec

-----------------------------------------------------------------------------
(* Conditions of a save *)

LEMMA PutsInit == Init => PutsPassed
BY DEF Init, DocumentsInit, PutsPassed, NoPut

\* What another device does leaves a device's PUT and copy alone.
LEMMA OthersPuts ==
    ASSUME TypeOK, NEW d \in Devices, ServeDocument(d), NEW e \in Devices, e # d
    PROVE  put'[e] = put[e] /\ copy'[e] = copy[e] /\ request'[e] = request[e]
<1> DEFINE s == request[d].reader
<1>1. /\ copy \in [Devices -> [Storages -> Saves]]
      /\ put \in [Devices -> Puts]
      /\ request \in [Devices -> Requests]
  BY DEF TypeOK, DocumentsTypeOK
<1> HIDE DEF s
<1>2. request'[e] = request[e]
  BY <1>1 DEF ServeDocument, Ends, Goes
<1>3. \/ GetDocument(d, s) \/ DeleteDocument(d, s) \/ Save(d, s) \/ SaveFails(d)
      \/ \E condition \in Conditions : CheckPut(d, s, condition) \/ RefusePut(d, s, condition)
  BY DEF ServeDocument, s
<1>4. put' = put \/ \E p : put' = [put EXCEPT ![d] = p]
  BY <1>3 DEF GetDocument, DeleteDocument, Save, SaveFails, CheckPut, RefusePut
<1>5. copy' = copy \/ \E save : copy' = [copy EXCEPT ![d][s] = save]
  BY <1>3 DEF GetDocument, DeleteDocument, Save, SaveFails, CheckPut, RefusePut
<1>6. put'[e] = put[e]
  BY <1>1, <1>4
<1>7. copy'[e] = copy[e]
  BY <1>1, <1>5
<1>8. QED
  BY <1>2, <1>6, <1>7

\* What is done to a document leaves in it what it had, or nothing, or a new save.
LEMMA DocumentChanges ==
    ASSUME TypeOK, NEW d \in Devices, ServeDocument(d), NEW s \in Storages
    PROVE  /\ saves \in Nat /\ saves' \in Nat /\ saves <= saves'
           /\ document[s] \in Nat
           /\ document'[s] = document[s] \/ document'[s] = 0 \/ (document'[s] = saves' /\ saves < saves')
<1>1. /\ document \in [Storages -> Saves] /\ saves \in Nat /\ document[s] \in Nat
  BY DocumentsAssumption DEF TypeOK, DocumentsTypeOK, Saves
<1> DEFINE t == request[d].reader
<1>2. CASE Save(d, t)
  <2>1. saves' = saves + 1 /\ document' = [document EXCEPT ![t] = saves']
    BY <1>2 DEF Save
  <2>2. QED
    BY <1>1, <2>1
<1>3. CASE DeleteDocument(d, t)
  <2>1. saves' = saves /\ document' = [document EXCEPT ![t] = 0]
    BY <1>3 DEF DeleteDocument
  <2>2. QED
    BY <1>1, <2>1
<1>4. CASE ~Save(d, t) /\ ~DeleteDocument(d, t)
  <2>1. saves' = saves /\ document' = document
    BY <1>4 DEF ServeDocument, GetDocument, SaveFails, CheckPut, RefusePut
  <2>2. QED
    BY <1>1, <2>1
<1>5. QED
  BY <1>2, <1>3, <1>4

LEMMA PutsStep == TypeOK /\ PutsPassed /\ [Next]_vars => PutsPassed'
<1> SUFFICES ASSUME TypeOK, PutsPassed, [Next]_vars, NEW e \in Devices, put'[e].under_way
             PROVE  /\ request'[e].at = "serving"
                    /\ put'[e].checked <= saves'
                    /\ MayReplace(put'[e], copy'[e][request'[e].reader], document'[request'[e].reader])
  BY DEF PutsPassed
<1>1. /\ copy \in [Devices -> [Storages -> Saves]]
      /\ put \in [Devices -> Puts] /\ put[e] \in Puts
      /\ request \in [Devices -> Requests] /\ request[e].reader \in Storages
  BY PeopleAssumption DEF TypeOK, DocumentsTypeOK, Requests
<1>2. ASSUME UNCHANGED <<saves, document>>, put'[e] = put[e], copy'[e] = copy[e], request'[e] = request[e]
      PROVE  /\ request'[e].at = "serving"
             /\ put'[e].checked <= saves'
             /\ MayReplace(put'[e], copy'[e][request'[e].reader], document'[request'[e].reader])
  BY <1>2 DEF PutsPassed
<1>3. ASSUME NEW d \in Devices, ServeDocument(d)
      PROVE  /\ request'[e].at = "serving"
             /\ put'[e].checked <= saves'
             /\ MayReplace(put'[e], copy'[e][request'[e].reader], document'[request'[e].reader])
  <2>1. CASE e # d
    <3> DEFINE s == request[e].reader
    <3>1. put'[e] = put[e] /\ copy'[e] = copy[e] /\ request'[e] = request[e]
      BY <1>3, <2>1, OthersPuts
    <3>2. request[e].at = "serving" /\ put[e].checked <= saves /\ MayReplace(put[e], copy[e][s], document[s])
      BY <3>1 DEF PutsPassed
    <3>3. /\ saves \in Nat /\ saves' \in Nat /\ saves <= saves'
          /\ document'[s] = document[s] \/ document'[s] = 0 \/ (document'[s] = saves' /\ saves < saves')
      BY <1>1, <1>3, DocumentChanges
    <3>4. put[e].checked \in Nat
      BY <1>1, DocumentsAssumption DEF Puts, Saves
    <3>5. put[e].checked <= saves'
      BY <3>2, <3>3, <3>4
    <3>6. MayReplace(put[e], copy[e][s], document'[s])
      <4>1. CASE document'[s] = saves' /\ saves < saves'
        BY <3>2, <3>3, <3>4, <4>1 DEF MayReplace
      <4>2. CASE document'[s] = document[s] \/ document'[s] = 0
        BY <3>2, <4>2 DEF MayReplace
      <4>3. QED
        BY <3>3, <4>1, <4>2
    <3>7. QED
      BY <3>1, <3>2, <3>5, <3>6
  <2>2. CASE e = d
    <3> DEFINE s == request[e].reader
    <3>1. request[e].at = "serving"
      BY <1>3, <2>2 DEF ServeDocument
    <3>2. CASE ~put[e].under_way /\ (GetDocument(e, s) \/ DeleteDocument(e, s))
      BY <3>2 DEF GetDocument, DeleteDocument
    <3>3. ASSUME NEW condition \in Conditions, CheckPut(e, s, condition), UNCHANGED request
          PROVE  /\ request'[e].at = "serving"
                 /\ put'[e].checked <= saves'
                 /\ MayReplace(put'[e], copy'[e][request'[e].reader], document'[request'[e].reader])
      <4>1. PICK blind \in BOOLEAN :
              /\ Passes(condition, Content(s, blind), copy[e][s])
              /\ put' = [put EXCEPT ![e] = [under_way |-> TRUE, condition |-> condition,
                                            checked |-> saves, blind |-> blind]]
        BY <3>3 DEF CheckPut
      <4>2. put'[e].condition = condition /\ put'[e].checked = saves /\ put'[e].blind = blind
        BY <1>1, <4>1
      <4>3. copy' = copy /\ request' = request /\ document' = document /\ saves' = saves /\ saves \in Nat
        BY <3>3, DocumentsAssumption DEF CheckPut, TypeOK, DocumentsTypeOK, Saves
      <4>4. MayReplace(put'[e], copy[e][s], document[s])
        <5>1. CASE condition = "none"
          BY <4>2, <5>1 DEF MayReplace
        <5>2. CASE condition = "If-Match"
          BY <4>1, <4>2, <5>2 DEF MayReplace, Passes, Content
        <5>3. CASE condition = "If-None-Match"
          BY <4>1, <4>2, <5>3 DEF MayReplace, Passes, Content
        <5>4. QED
          BY <5>1, <5>2, <5>3 DEF Conditions
      <4>5. QED
        BY <3>1, <4>2, <4>3, <4>4
    <3>4. ASSUME NEW condition \in Conditions, RefusePut(e, s, condition), ~put[e].under_way
          PROVE  FALSE
      BY <3>4 DEF RefusePut
    <3>5. CASE Save(e, s) \/ SaveFails(e)
      <4>1. put'[e] = NoPut
        BY <1>1, <3>5 DEF Save, SaveFails
      <4>2. QED
        BY <4>1 DEF NoPut
    <3>6. QED
      BY <1>3, <2>2, <3>2, <3>3, <3>4, <3>5 DEF ServeDocument
  <2>3. QED
    BY <2>1, <2>2
<1>4. ASSUME NEW d \in Devices,
             Arrive(d) \/ Locate(d) \/ ReadTask(d) \/ NormalizeTask(d) \/ WriteTask(d) \/ RequestFails(d)
      PROVE  /\ request'[e].at = "serving"
             /\ put'[e].checked <= saves'
             /\ MayReplace(put'[e], copy'[e][request'[e].reader], document'[request'[e].reader])
  <2>1. put' = put /\ copy' = copy /\ document' = document /\ saves' = saves
    BY <1>4 DEF Arrive, Locate, ReadTask, NormalizeTask, WriteTask, RequestFails, documents
  <2>2. CASE e # d
    <3>1. request'[e] = request[e]
      BY <1>1, <1>4, <2>2 DEF Arrive, Locate, ReadTask, NormalizeTask, WriteTask, RequestFails, Ends, Goes
    <3>2. QED
      BY <1>2, <2>1, <3>1
  <2>3. CASE e = d
    <3>1. request[d].at = "serving"
      BY <2>1, <2>3 DEF PutsPassed
    <3>2. ~put[e].under_way
      <4>1. Locate(d)
        BY <1>4, <3>1 DEF Arrive, ReadTask, NormalizeTask, WriteTask, RequestFails
      <4>2. QED
        BY <2>3, <4>1 DEF Locate
    <3>3. QED
      BY <2>1, <3>2
  <2>4. QED
    BY <2>2, <2>3
<1>5. CASE EditSpace \/ (\E l \in Listers : Listing(l)) \/ UNCHANGED vars
  BY <1>2, <1>5, ListingLeaves DEF EditSpace, rest, vars, documents
<1>6. QED
  BY <1>3, <1>4, <1>5 DEF Next, Serve

\* A conditional save overwrites no save that its device has not seen, except for one that
\* was made between its check and its write, and except under If-None-Match where the read
\* of its check failed.
THEOREM SavesAreConditional == Spec => EarlierSaveIsKept
<1> DEFINE Kept(d) ==
        LET s == request[d].reader
            seen == IF put[d].condition = "If-Match" THEN {0, copy[d][s]} ELSE {0}
        IN put[d].condition # "none" /\ document'[s] # document[s] /\ put'[d] # put[d] =>
            \/ document[s] \in seen
            \/ document[s] > put[d].checked
            \/ put[d].condition = "If-None-Match" /\ put[d].blind
<1>1. Init => TypeOK /\ PutsPassed
  BY TypeInit, PutsInit
<1>2. TypeOK /\ PutsPassed /\ [Next]_vars => (TypeOK /\ PutsPassed)'
  BY TypeStep, PutsStep
<1>3. TypeOK /\ PutsPassed /\ [Next]_vars => [\A d \in Devices : Kept(d)]_vars
  <2> SUFFICES ASSUME TypeOK, PutsPassed, Next, NEW d \in Devices PROVE Kept(d)
    OBVIOUS
  <2> DEFINE s == request[d].reader
  <2> SUFFICES ASSUME put[d].condition # "none", document'[s] # document[s], put'[d] # put[d]
               PROVE  \/ document[s] \in IF put[d].condition = "If-Match" THEN {0, copy[d][s]} ELSE {0}
                      \/ document[s] > put[d].checked
                      \/ put[d].condition = "If-None-Match" /\ put[d].blind
    OBVIOUS
  <2>1. PICK e \in Devices : ServeDocument(e)
    <3>1. ASSUME NEW l \in Listers, Listing(l) PROVE FALSE
      BY <3>1, ListingLeaves DEF rest, documents
    <3>2. QED
      BY <3>1 DEF Next, EditSpace, Arrive, Serve, Locate, ReadTask, NormalizeTask, WriteTask, RequestFails, documents
  <2>2. e = d
    BY <2>1, OthersPuts
  <2>3. put[d].under_way
    <3>1. ASSUME NEW condition \in Conditions, CheckPut(d, s, condition) \/ RefusePut(d, s, condition)
          PROVE  FALSE
      BY <3>1 DEF CheckPut, RefusePut
    <3>2. ~GetDocument(d, s) /\ ~DeleteDocument(d, s)
      BY DEF GetDocument, DeleteDocument
    <3>3. Save(d, s) \/ SaveFails(d)
      BY <2>1, <2>2, <3>1, <3>2 DEF ServeDocument
    <3>4. QED
      BY <3>3 DEF Save, SaveFails
  <2>4. MayReplace(put[d], copy[d][s], document[s])
    BY <2>3 DEF PutsPassed
  <2>5. QED
    BY <2>4 DEF MayReplace
<1>4. QED
  BY <1>1, <1>2, <1>3, PTL DEF Spec, EarlierSaveIsKept
=============================================================================
