---------------------------- MODULE CachedSource ----------------------------
(***************************************************************************)
(* What the feed promises its callers, with nothing said about how: a      *)
(* body that only ever moves forward along the versions of the source,     *)
(* and answers taken from it.  FeedService (Feed.tla) implements it, and   *)
(* the CalDAV facade may rely on nothing stronger.                         *)
(***************************************************************************)
EXTENDS Integers

CONSTANT Requests           \* the calls of get; each asks once

VARIABLES
    version,                \* how often Anytype's tasks have changed
    body,                   \* the version the held body shows, NoBody before the first
    answer                  \* what each request was told

cachedVars == <<version, body, answer>>

NoBody == -1
Versions == Nat \cup {NoBody}

\* The arms of `Outcome`; "none" is a request that has not been answered.
Kinds == {"none", "fresh", "stale", "unavailable"}
Answers == [kind : Kinds, body : Versions]
Unanswered == [kind |-> "none", body |-> NoBody]

CachedInit ==
    /\ version = 0
    /\ body = NoBody
    /\ answer = [r \in Requests |-> Unanswered]

\* The tasks change in Anytype, through this program or behind its back.
Change ==
    /\ version' = version + 1
    /\ UNCHANGED <<body, answer>>

\* The body is replaced by one that is no older and that the source did show.
Replace ==
    /\ body' \in (body .. version) \ {NoBody}
    /\ UNCHANGED <<version, answer>>

\* A request is told of the body; it is refused only while there is none.
Tell(r) ==
    /\ answer[r] = Unanswered
    /\ \E kind \in Kinds \ {"none"} :
        /\ (kind = "unavailable") <=> (body = NoBody)
        /\ answer' = [answer EXCEPT ![r] = [kind |-> kind, body |-> body]]
    /\ UNCHANGED <<version, body>>

CachedNext == Change \/ Replace \/ \E r \in Requests : Tell(r)

CachedSpec == CachedInit /\ [][CachedNext]_cachedVars
=============================================================================
