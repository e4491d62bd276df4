----------------------------- MODULE Directory ------------------------------
(***************************************************************************)
(* The people of a space, as the task source reads them                    *)
(* (src/src/anytype_source.rs) and as the command that lists their         *)
(* accounts does (src/src/accounts.rs).                                    *)
(*                                                                         *)
(* A person has a membership of the space, and may have pages of their     *)
(* own: objects of type profile, whose links name memberships.  A task     *)
(* addresses a person by either id.  Pages are in the order search has.    *)
(***************************************************************************)
EXTENDS Integers, Sequences

CONSTANTS Profiles, Members

ASSUME DirectoryAssumption == Profiles \cap Members = {}

Pages == [id : Profiles, archived : BOOLEAN, links : SUBSET Members]

-----------------------------------------------------------------------------
(* read_directory *)

Listed(pages) == {n \in DOMAIN pages : ~pages[n].archived}
Linking(pages, member) == {n \in Listed(pages) : member \in pages[n].links}
Linked(pages) == {member \in Members : Linking(pages, member) # {}}

\* A later page takes the place of an earlier one in the map.
LastOf(places) == CHOOSE n \in places : \A m \in places : m <= n

ProfilesByParticipant(pages) ==
    [member \in Linked(pages) |-> pages[LastOf(Linking(pages, member))].id]

AccountHolders(pages, active) ==
    {ProfilesByParticipant(pages)[member] : member \in active \cap Linked(pages)}

\* Everyone the directory has a name for.
Names(pages, active) == {pages[n].id : n \in Listed(pages)} \cup (active \ Linked(pages))

-----------------------------------------------------------------------------
(* What is made of it *)

\* The id a person's calendar is kept under.
OwnId(table, id) == IF id \in DOMAIN table THEN table[id] ELSE id

\* normalize_assignees: one person, one id.
Normalized(table, assignees) == [n \in DOMAIN assignees |-> OwnId(table, assignees[n])]

\* accounts::holders: every page that links an active member.
HoldersListed(pages, active) == {pages[n].id : n \in {n \in Listed(pages) : pages[n].links \cap active # {}}}
=============================================================================
