-------------------------------- MODULE Feed --------------------------------
(***************************************************************************)
(* The shared task cache, src/src/feed.rs: `FeedService`.                  *)
(*                                                                         *)
(* Every HTTP and CalDAV request that needs the tasks calls `get`.  A      *)
(* request is one member of Requests; its local state is the point of      *)
(* `get` it has reached.  A step ends at an await, at an atomic operation  *)
(* (the state mutex, the watch channel, try_lock) or where another thread  *)
(* of the runtime may run in between.  The task list is abstracted to the  *)
(* version of Anytype up to which it shows every change.                   *)
(***************************************************************************)
EXTENDS Integers, FiniteSets

CONSTANTS
    Requests,               \* calls of `get`
    NoOne,                  \* the refresh guard is free
    MaxVersion,             \* bound: how often the tasks in Anytype change
    SearchLags              \* whether a change is found by search only later

ASSUME NoOneAssumption == NoOne \notin Requests
ASSUME MaxVersionAssumption == MaxVersion \in Nat
ASSUME SearchLagsAssumption == SearchLags \in BOOLEAN

VARIABLES
    version,                \* Anytype's tasks, counted by their changes
    indexed,                \* the changes that Anytype's search finds
    uninvalidated,          \* writes that have reached Anytype but not `invalidate`
    snapshot,               \* State.snapshot: the version its body shows
    last_attempt,           \* State.last_attempt: none, within the interval, aged out
    last_ok,                \* State.last_ok
    refresh_guard,          \* the request that holds the async mutex
    generation,             \* the watch channel's value
    pc,                     \* where in `get` a request is
    generation_before,      \* its local of that name
    batch,                  \* the version its list_tasks read, NoBody before
    answer,                 \* the Outcome it returned
    invalidated,            \* history: the newest write `invalidate` was called for
    asked_after             \* history: the newest write that `invalidate` was called for
                            \* and that search found, when the request came

world == <<version, indexed, uninvalidated, invalidated>>
state == <<snapshot, last_attempt, last_ok>>
locals == <<generation_before, batch, answer, asked_after>>
vars == <<world, state, refresh_guard, generation, pc, locals>>

C == INSTANCE CachedSource WITH body <- snapshot

NoBody == C!NoBody
Versions == C!Versions

\* refreshing and waiting are the two awaits: only there can a request be dropped.
Refreshing == {"refreshing", "announce"}
Points == {"idle", "check", "generation", "lock", "waiting", "outcome", "done"}
            \cup Refreshing

TypeOK ==
    /\ version \in 0 .. MaxVersion
    /\ indexed \in 0 .. MaxVersion
    /\ uninvalidated \subseteq 1 .. MaxVersion
    /\ snapshot \in Versions
    /\ last_attempt \in {"none", "recent", "aged"}
    /\ last_ok \in BOOLEAN
    /\ refresh_guard \in Requests \cup {NoOne}
    /\ generation \in Nat
    /\ pc \in [Requests -> Points]
    /\ generation_before \in [Requests -> Nat]
    /\ batch \in [Requests -> Versions]
    /\ answer \in [Requests -> C!Answers]
    /\ invalidated \in 0 .. MaxVersion
    /\ asked_after \in [Requests -> 0 .. MaxVersion]

Init ==
    /\ version = 0
    /\ indexed = 0
    /\ uninvalidated = {}
    /\ snapshot = NoBody
    /\ last_attempt = "none"
    /\ last_ok = FALSE
    /\ refresh_guard = NoOne
    /\ generation = 0
    /\ pc = [r \in Requests |-> "idle"]
    /\ generation_before = [r \in Requests |-> 0]
    /\ batch = [r \in Requests |-> NoBody]
    /\ answer = [r \in Requests |-> C!Unanswered]
    /\ invalidated = 0
    /\ asked_after = [r \in Requests |-> 0]

Goto(r, point) == pc' = [pc EXCEPT ![r] = point]

-----------------------------------------------------------------------------
(* The source, and the writers of the CalDAV facade *)

\* A task changes in Anytype.  When a PUT or DELETE did it, `Invalidate` follows;
\* for an edit made in Anytype itself, or a write whose reply was lost, it does not.
Write ==
    /\ version < MaxVersion
    /\ version' = version + 1
    /\ indexed' = IF SearchLags THEN indexed ELSE version + 1
    /\ uninvalidated' = uninvalidated \cup {version + 1}
    /\ UNCHANGED <<state, refresh_guard, generation, pc, locals, invalidated>>

\* Search catches up with some of the changes, in no particular time.
Index ==
    /\ indexed < version
    /\ indexed' \in indexed + 1 .. version
    /\ UNCHANGED <<version, uninvalidated, invalidated, state, refresh_guard, generation, pc, locals>>

Invalidate(v) ==
    /\ v \in uninvalidated
    /\ uninvalidated' = uninvalidated \ {v}
    /\ invalidated' = IF v > invalidated THEN v ELSE invalidated
    /\ last_attempt' = "none"
    /\ UNCHANGED <<version, indexed, snapshot, last_ok, refresh_guard, generation, pc, locals>>

\* min_refresh_interval passes since the last attempt (at once when it is zero).
Age ==
    /\ last_attempt = "recent"
    /\ last_attempt' = "aged"
    /\ UNCHANGED <<world, snapshot, last_ok, refresh_guard, generation, pc, locals>>

-----------------------------------------------------------------------------
(* FeedService::get *)

current_outcome ==
    [kind |-> CASE snapshot = NoBody -> "unavailable"
                [] snapshot # NoBody /\ last_ok -> "fresh"
                [] OTHER -> "stale",
     body |-> snapshot]

CachedWithinInterval == last_attempt = "recent" /\ snapshot # NoBody

Ask(r) ==
    /\ pc[r] = "idle"
    /\ Goto(r, "check")
    /\ asked_after' = [asked_after EXCEPT ![r] =
                            IF invalidated < indexed THEN invalidated ELSE indexed]
    /\ UNCHANGED <<world, state, refresh_guard, generation, generation_before, batch, answer>>

CheckCache(r) ==
    /\ pc[r] = "check"
    /\ \/ /\ CachedWithinInterval
          /\ answer' = [answer EXCEPT ![r] = current_outcome]
          /\ Goto(r, "done")
       \/ /\ ~CachedWithinInterval
          /\ Goto(r, "generation")
          /\ UNCHANGED answer
    /\ UNCHANGED <<world, state, refresh_guard, generation, generation_before, batch, asked_after>>

ReadGeneration(r) ==
    /\ pc[r] = "generation"
    /\ generation_before' = [generation_before EXCEPT ![r] = generation]
    /\ Goto(r, "lock")
    /\ UNCHANGED <<world, state, refresh_guard, generation, batch, answer, asked_after>>

\* Mutant of TryLock: every request refreshes for itself.
TryLockAlways(r) ==
    /\ pc[r] = "lock"
    /\ refresh_guard' = r
    /\ Goto(r, "refreshing")
    /\ UNCHANGED <<world, state, generation, locals>>

TryLock(r) ==
    /\ pc[r] = "lock"
    /\ \/ /\ refresh_guard = NoOne
          /\ refresh_guard' = r
          /\ Goto(r, "refreshing")
       \/ /\ refresh_guard # NoOne
          /\ Goto(r, "waiting")
          /\ UNCHANGED refresh_guard
    /\ UNCHANGED <<world, state, generation, locals>>

\* The holder's list_tasks pages through Anytype's search.  The list shows every
\* change that search found when its first page was read; later pages may add more.
ListTasks(r) ==
    /\ pc[r] = "refreshing"
    /\ batch[r] = NoBody
    /\ batch' = [batch EXCEPT ![r] = indexed]
    /\ UNCHANGED <<world, state, refresh_guard, generation, pc, generation_before, answer, asked_after>>

\* Rendering succeeded: the snapshot is replaced under the state mutex.
Refreshed(r) ==
    /\ pc[r] = "refreshing"
    /\ batch[r] # NoBody
    /\ snapshot' = batch[r]
    /\ last_attempt' = "recent"
    /\ last_ok' = TRUE
    /\ Goto(r, "announce")
    /\ UNCHANGED <<world, refresh_guard, generation, locals>>

\* Mutant of RecordFailure: the held body is given up on a failure.
RecordFailureForgets(r) ==
    /\ pc[r] = "refreshing"
    /\ snapshot' = NoBody
    /\ last_attempt' = "recent"
    /\ last_ok' = FALSE
    /\ Goto(r, "announce")
    /\ UNCHANGED <<world, refresh_guard, generation, locals>>

\* Mutant of RecordFailure: the failure is not remembered.
RecordFailureSilently(r) ==
    /\ pc[r] = "refreshing"
    /\ last_attempt' = "recent"
    /\ Goto(r, "announce")
    /\ UNCHANGED <<world, snapshot, last_ok, refresh_guard, generation, locals>>

\* The source or the renderer failed, or request_timeout passed first.
RecordFailure(r) ==
    /\ pc[r] = "refreshing"
    /\ last_attempt' = "recent"
    /\ last_ok' = FALSE
    /\ Goto(r, "announce")
    /\ UNCHANGED <<world, snapshot, refresh_guard, generation, locals>>

\* Mutant of Announce: the generation counts down.
AnnounceBackwards(r) ==
    /\ pc[r] = "announce"
    /\ generation' = generation - 1
    /\ Goto(r, "outcome")
    /\ UNCHANGED <<world, state, refresh_guard, locals>>

Announce(r) ==
    /\ pc[r] = "announce"
    /\ generation' = generation + 1
    /\ Goto(r, "outcome")
    /\ UNCHANGED <<world, state, refresh_guard, locals>>

Wake(r) ==
    /\ pc[r] = "waiting"
    /\ generation > generation_before[r]
    /\ Goto(r, "outcome")
    /\ UNCHANGED <<world, state, refresh_guard, generation, locals>>

\* Mutant of WaitTimesOut: the wait has no deadline of its own.
WaitForever(r) == FALSE

\* request_timeout passes without the generation moving.
WaitTimesOut(r) ==
    /\ pc[r] = "waiting"
    /\ Goto(r, "outcome")
    /\ UNCHANGED <<world, state, refresh_guard, generation, locals>>

GuardWithout(r) == IF refresh_guard = r THEN NoOne ELSE refresh_guard

\* The outcome is read and returned; the holder's guard goes with its match arm.
Answer(r) ==
    /\ pc[r] = "outcome"
    /\ answer' = [answer EXCEPT ![r] = current_outcome]
    /\ refresh_guard' = GuardWithout(r)
    /\ generation_before' = [generation_before EXCEPT ![r] = 0]
    /\ Goto(r, "done")
    /\ UNCHANGED <<world, state, generation, batch, asked_after>>

\* Mutant of Disconnect: a dropped refresh keeps the guard.
DisconnectHoldingGuard(r) ==
    /\ pc[r] \in {"refreshing", "waiting"}
    /\ generation_before' = [generation_before EXCEPT ![r] = 0]
    /\ batch' = [batch EXCEPT ![r] = NoBody]
    /\ Goto(r, "done")
    /\ UNCHANGED <<world, state, refresh_guard, generation, answer, asked_after>>

\* The client goes away and the server drops the future, and its locals, at its await.
Disconnect(r) ==
    /\ pc[r] \in {"refreshing", "waiting"}
    /\ refresh_guard' = GuardWithout(r)
    /\ generation_before' = [generation_before EXCEPT ![r] = 0]
    /\ batch' = [batch EXCEPT ![r] = NoBody]
    /\ Goto(r, "done")
    /\ UNCHANGED <<world, state, generation, answer, asked_after>>

-----------------------------------------------------------------------------
\* What the runtime drives to its end: polled futures, and the two timeouts.
Run(r) ==
    \/ CheckCache(r) \/ ReadGeneration(r) \/ TryLock(r)
    \/ ListTasks(r) \/ Refreshed(r) \/ RecordFailure(r) \/ Announce(r)
    \/ Wake(r) \/ WaitTimesOut(r) \/ Answer(r)

Next ==
    \/ Write
    \/ Index
    \/ \E v \in uninvalidated : Invalidate(v)
    \/ Age
    \/ \E r \in Requests : Ask(r) \/ Run(r) \/ Disconnect(r)

Spec == Init /\ [][Next]_vars

Fairness == \A r \in Requests : WF_vars(Run(r))

FairSpec == Spec /\ Fairness
-----------------------------------------------------------------------------
(* Properties *)

\* FeedService is a CachedSource: the body served never moves back to an older
\* reading of Anytype although refreshes are cancelled, time out and overlap with
\* writes, and every answer is a body that was held.
ImplementsCachedSource == C!CachedSpec

\* The guard belongs to a request that is still inside its refresh.  A guard that
\* outlived its request would stop every later refresh.
GuardNeverLeaked ==
    refresh_guard # NoOne => pc[refresh_guard] \in Refreshing \cup {"outcome"}

\* A request that read Anytype itself and is told the result is fresh sees every write
\* that was invalidated, and that search found, before it came.  One that was only
\* invalidated it may miss: `invalidate` does not wait for the search.
OwnRefreshSeesFoundWrites ==
    \A r \in Requests :
        answer[r].kind = "fresh" /\ batch[r] # NoBody => answer[r].body >= asked_after[r]

\* Once a request was served, fresh or stale, no request is turned away: failed and
\* cancelled refreshes, and the answers their waiters read, keep the held body.
ServedOnceServedAlways ==
    [][\A q, r \in Requests :
        answer[q].kind \in {"fresh", "stale"} /\ answer[r]' # answer[r] =>
            answer[r]'.kind # "unavailable"]_vars

\* A request ends, also when the refresh it waits for was dropped by its own client.
EveryRequestEnds ==
    \A r \in Requests : pc[r] = "check" ~> pc[r] = "done"

\* The comment of `invalidate`: a client's follow-up request sees the write, not
\* the cached body from before it (asked of a search that never lags).
ReadYourWrites ==
    \A r \in Requests : answer[r].kind = "fresh" => answer[r].body >= asked_after[r]
=============================================================================
