----------------------------- MODULE Documents ------------------------------
(***************************************************************************)
(* The documents a calendar client keeps on the server                     *)
(* (src/src/caldav/settings.rs), in the table client_documents             *)
(* (src/src/state.rs): one document, in a storage for each reader.         *)
(*                                                                         *)
(* A save tells its body and its ETag.  A PUT checks its conditions and    *)
(* writes in two calls, each under the state file's lock, and another      *)
(* request may come in between.                                            *)
(***************************************************************************)
EXTENDS Integers

CONSTANTS
    Devices,
    Storages,               \* one per reader
    MaxSaves, MaxErrors     \* bounds on saves and on errors of the state file

ASSUME DocumentsAssumption == MaxSaves \in Nat /\ MaxErrors \in Nat

VARIABLES
    document,               \* per storage, the save it has; 0 when there is none
    copy,                   \* per device and storage, the save the device got last
    put,                    \* per device, a PUT between its check and its write
    saves, errors           \* the saves so far, the errors still to come

documents == <<document, copy, put, saves, errors>>

Saves == 0 .. MaxSaves
Conditions == {"none", "If-Match", "If-None-Match"}

\* checked, blind: history, how many saves there were at the check, and whether its read failed.
Puts == [under_way : BOOLEAN, condition : Conditions, checked : Saves, blind : BOOLEAN]
NoPut == [under_way |-> FALSE, condition |-> "none", checked |-> 0, blind |-> FALSE]

DocumentsTypeOK ==
    /\ document \in [Storages -> Saves]
    /\ copy \in [Devices -> [Storages -> Saves]]
    /\ put \in [Devices -> Puts]
    /\ saves \in Saves /\ errors \in 0 .. MaxErrors

\* The budgets are given where it is used.
DocumentsInit ==
    /\ document = [s \in Storages |-> 0]
    /\ copy = [d \in Devices |-> [s \in Storages |-> 0]]
    /\ put = [d \in Devices |-> NoPut]

-----------------------------------------------------------------------------
\* A read of the state file, and what it finds: an error counts as no document.
Reads(blind) ==
    \/ ~blind /\ UNCHANGED errors
    \/ blind /\ errors > 0 /\ errors' = errors - 1
Content(s, blind) == IF blind THEN 0 ELSE document[s]

\* A document that cannot be read is answered 404, as one that is not there.
GetDocument(d, s) ==
    /\ \E blind \in BOOLEAN :
        /\ Reads(blind)
        /\ copy' = [copy EXCEPT ![d][s] = Content(s, blind)]
    /\ UNCHANGED <<document, put, saves>>

\* Mutant of Passes: If-Match on a document that is not there is not refused.
PassesIfAbsent(condition, found, known) ==
    CASE condition = "none" -> TRUE
      [] condition = "If-Match" -> found \in {0, known}
      [] condition = "If-None-Match" -> found = 0

Passes(condition, found, known) ==
    CASE condition = "none" -> TRUE
      [] condition = "If-Match" -> found # 0 /\ found = known
      [] condition = "If-None-Match" -> found = 0

CheckPut(d, s, condition) ==
    /\ saves < MaxSaves
    /\ \E blind \in BOOLEAN :
        /\ Reads(blind)
        /\ Passes(condition, Content(s, blind), copy[d][s])
        /\ put' = [put EXCEPT ![d] = [under_way |-> TRUE, condition |-> condition,
                                      checked |-> saves, blind |-> blind]]
    /\ UNCHANGED <<document, copy, saves>>

RefusePut(d, s, condition) ==
    /\ \E blind \in BOOLEAN :
        Reads(blind) /\ ~Passes(condition, Content(s, blind), copy[d][s])
    /\ UNCHANGED <<document, copy, put, saves>>

\* The write overwrites whatever is there by now; its answer has the new ETag.
Save(d, s) ==
    /\ put[d].under_way /\ saves < MaxSaves
    /\ saves' = saves + 1
    /\ document' = [document EXCEPT ![s] = saves']
    /\ copy' = [copy EXCEPT ![d][s] = saves']
    /\ put' = [put EXCEPT ![d] = NoPut]
    /\ UNCHANGED errors

SaveFails(d) ==
    /\ put[d].under_way
    /\ errors > 0 /\ errors' = errors - 1
    /\ put' = [put EXCEPT ![d] = NoPut]
    /\ UNCHANGED <<document, copy, saves>>

\* A DELETE has no condition.
DeleteDocument(d, s) ==
    /\ document' = [document EXCEPT ![s] = 0]
    /\ UNCHANGED <<copy, put, saves, errors>>
=============================================================================
