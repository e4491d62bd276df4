----------------------------- MODULE Calendars ------------------------------
(***************************************************************************)
(* Which calendar shows a task to whom: the partition of a snapshot        *)
(* (src/src/feed.rs), the view of one collection and the home set          *)
(* (src/src/caldav), and what a move or a deletion makes of the assignees. *)
(*                                                                         *)
(* A space is a function from the names of its tasks to their assignees,   *)
(* in Anytype's order.  A calendar is known by the person it belongs to.   *)
(***************************************************************************)
EXTENDS Integers, Sequences

CONSTANTS
    People,
    Unassigned, Flat,       \* the calendar of tasks nobody has, and the one of all tasks
    Nobody                  \* Reader::Shared: signed in as nobody in particular

ASSUME CalendarsAssumption ==
    /\ Unassigned \notin People /\ Flat \notin People /\ Nobody \notin People
    /\ Unassigned # Flat

Readers == People \cup {Nobody}
Assigned(assignees) == {assignees[n] : n \in DOMAIN assignees}

-----------------------------------------------------------------------------
(* What is served *)

\* partition: a task is filed under its first assignee.
FiledUnder(assignees) == IF assignees = <<>> THEN Unassigned ELSE assignees[1]
Collection(space, key) == {name \in DOMAIN space : FiledUnder(space[name]) = key}

\* A person has a calendar when they may sign in, or when a task needs one; there
\* are none at all when the space has no directory of people.
Collections(space, members, holders) ==
    IF members = {} THEN {}
    ELSE (members \cap holders) \cup {Unassigned} \cup {FiledUnder(space[name]) : name \in DOMAIN space}

\* The tasks with several assignees, the reader among them.
SharedWith(space, reader) ==
    {name \in DOMAIN space : Len(space[name]) > 1 /\ reader \in Assigned(space[name])}

\* Mutant of View: the shared task stays in its first assignee's calendar as well.
ViewTwice(space, key, reader) ==
    IF key = Flat THEN DOMAIN space
    ELSE Collection(space, key) \cup (IF key = reader THEN SharedWith(space, reader) ELSE {})

\* collection_view: such a task moves to the reader's own calendar.
View(space, key, reader) ==
    IF key = Flat THEN DOMAIN space
    ELSE IF key = reader THEN Collection(space, key) \cup SharedWith(space, reader)
    ELSE Collection(space, key) \ SharedWith(space, reader)

\* home_set: the flat calendar where there are no others, and for a person theirs.
Home(space, members, holders, reader) ==
    LET keys == Collections(space, members, holders)
    IN IF keys = {} THEN {Flat}
       ELSE {key \in keys : reader = Nobody \/ key = Unassigned \/ key = reader}

\* locate: whose calendar serves the task to this reader.
ServedBy(assignees, reader) ==
    IF Len(assignees) > 1 /\ reader \in Assigned(assignees) THEN reader ELSE FiledUnder(assignees)

-----------------------------------------------------------------------------
(* What a request makes of the assignees *)

\* SelectSeq, as a recursive function of the places looked at: the prover knows none other.
Without(assignees, leaving) ==
    LET Staying[n \in 0 .. Len(assignees)] ==
            IF n = 0 THEN <<>>
            ELSE IF assignees[n] \in leaving THEN Staying[n - 1]
            ELSE Append(Staying[n - 1], assignees[n])
    IN Staying[Len(assignees)]

\* Mutant of HandedOver: the new assignee comes last.
HandedOverLast(assignees, from, to) ==
    Without(assignees, {from, to}) \o (IF to \in People THEN <<to>> ELSE <<>>)

\* handed_over: the one whose calendar it was leaves, the new one comes first.
HandedOver(assignees, from, to) ==
    (IF to \in People THEN <<to>> ELSE <<>>) \o Without(assignees, {from, to})

\* A DELETE in a person's calendar.
TakenOff(assignees, person) == Without(assignees, {person})
=============================================================================
