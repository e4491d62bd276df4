----------------------------- MODULE FeedProofs -----------------------------
(***************************************************************************)
(* Proofs about Feed for any set of requests and any bound on the changes. *)
(*                                                                         *)
(* The invariant says who may touch the state: only the request whose      *)
(* guard is held is between `TryLock` and its answer with a list of tasks  *)
(* in hand, so that list is never older than the snapshot it replaces.     *)
(***************************************************************************)
EXTENDS Feed, TLAPS

\* The points a request passes before it can have read anything.
Before == {"idle", "check", "generation", "lock", "waiting"}

\* Only the holder refreshes, and only a request inside its refresh holds.
HolderRefreshes ==
    /\ \A r \in Requests : pc[r] \in Refreshing => refresh_guard = r
    /\ \A r \in Requests : pc[r] \in Before => batch[r] = NoBody
    /\ \A r \in Requests : pc[r] = "outcome" /\ batch[r] # NoBody => refresh_guard = r
    /\ GuardNeverLeaked

\* Nothing read is newer than what search shows, and the holder's list is not older
\* than the snapshot.
ReadsAreOrdered ==
    /\ indexed <= version
    /\ snapshot <= indexed
    /\ \A r \in Requests : batch[r] <= indexed
    /\ \A r \in Requests : pc[r] = "refreshing" /\ batch[r] # NoBody => snapshot <= batch[r]

\* What a request has read covers what was invalidated and found when it came.
ReadsAreRecent ==
    /\ \A r \in Requests : asked_after[r] <= indexed
    /\ \A r \in Requests : batch[r] # NoBody => asked_after[r] <= batch[r]
    /\ \A r \in Requests :
        pc[r] \in {"announce", "outcome"} /\ batch[r] # NoBody => ~last_ok \/ batch[r] <= snapshot
    /\ OwnRefreshSeesFoundWrites

Unsaid == \A r \in Requests : pc[r] # "done" => answer[r] = C!Unanswered

FeedInv == TypeOK /\ HolderRefreshes /\ ReadsAreOrdered /\ ReadsAreRecent /\ Unsaid

-----------------------------------------------------------------------------

\* The initial state satisfies the invariant.
THEOREM FeedInit == Init => FeedInv
<1> SUFFICES ASSUME Init PROVE FeedInv
  OBVIOUS
<1> USE MaxVersionAssumption, NoOneAssumption DEF Init, NoBody, C!NoBody, C!Unanswered
<1>1. TypeOK
  <2>1. C!Unanswered \in C!Answers
    BY DEF C!Answers, C!Kinds, C!Versions
  <2>2. answer \in [Requests -> C!Answers]
    BY <2>1
  <2>3. pc \in [Requests -> Points]
    BY DEF Points
  <2>4. snapshot \in Versions /\ batch \in [Requests -> Versions]
    BY DEF Versions, C!Versions
  <2>5. asked_after \in [Requests -> 0 .. MaxVersion] /\ generation_before \in [Requests -> Nat]
    OBVIOUS
  <2>6. last_ok \in BOOLEAN /\ uninvalidated \subseteq 1 .. MaxVersion
    OBVIOUS
  <2>7. QED
    BY <2>2, <2>3, <2>4, <2>5, <2>6 DEF TypeOK
<1>2. HolderRefreshes
  BY DEF HolderRefreshes, Before, Refreshing, GuardNeverLeaked
<1>3. ReadsAreOrdered /\ ReadsAreRecent
  BY DEF ReadsAreOrdered, ReadsAreRecent, OwnRefreshSeesFoundWrites
<1>4. Unsaid
  BY DEF Unsaid
<1>5. QED
  BY <1>1, <1>2, <1>3, <1>4 DEF FeedInv

\* Every step keeps the invariant; the parts are taken in the order in which they
\* lean on each other.
THEOREM FeedStep == FeedInv /\ [Next]_vars => FeedInv'
<1> SUFFICES ASSUME FeedInv, [Next]_vars PROVE FeedInv'
  OBVIOUS
<1> USE MaxVersionAssumption, NoOneAssumption, SearchLagsAssumption
    DEF FeedInv, TypeOK, Refreshing, Versions, NoBody, C!Versions, C!NoBody, C!Answers,
        C!Kinds, C!Unanswered, world, state, locals, Goto
<1>1. ASSUME Write PROVE FeedInv'
  <2>1. TypeOK'
    BY <1>1 DEF Write, Points
  <2>2. HolderRefreshes'
    BY <1>1 DEF Write, HolderRefreshes, Before, GuardNeverLeaked
  <2>3. ReadsAreOrdered'
    BY <1>1 DEF Write, HolderRefreshes, Before, ReadsAreOrdered
  <2>4. ReadsAreRecent'
    BY <1>1 DEF Write, HolderRefreshes, Before, ReadsAreOrdered, ReadsAreRecent,
               OwnRefreshSeesFoundWrites
  <2>5. Unsaid'
    BY <1>1 DEF Write, Unsaid
  <2>6. QED
    BY <2>1, <2>2, <2>3, <2>4, <2>5
<1>2. ASSUME NEW v \in uninvalidated, Invalidate(v) PROVE FeedInv'
  <2>1. TypeOK'
    BY <1>2 DEF Invalidate, Points
  <2>2. HolderRefreshes'
    BY <1>2 DEF Invalidate, HolderRefreshes, Before, GuardNeverLeaked
  <2>3. ReadsAreOrdered'
    BY <1>2 DEF Invalidate, HolderRefreshes, Before, ReadsAreOrdered
  <2>4. ReadsAreRecent'
    BY <1>2 DEF Invalidate, HolderRefreshes, Before, ReadsAreOrdered, ReadsAreRecent,
               OwnRefreshSeesFoundWrites
  <2>5. Unsaid'
    BY <1>2 DEF Invalidate, Unsaid
  <2>6. QED
    BY <2>1, <2>2, <2>3, <2>4, <2>5
<1>3. ASSUME Age PROVE FeedInv'
  <2>1. TypeOK'
    BY <1>3 DEF Age, Points
  <2>2. HolderRefreshes'
    BY <1>3 DEF Age, HolderRefreshes, Before, GuardNeverLeaked
  <2>3. ReadsAreOrdered'
    BY <1>3 DEF Age, HolderRefreshes, Before, ReadsAreOrdered
  <2>4. ReadsAreRecent'
    BY <1>3 DEF Age, HolderRefreshes, Before, ReadsAreOrdered, ReadsAreRecent,
               OwnRefreshSeesFoundWrites
  <2>5. Unsaid'
    BY <1>3 DEF Age, Unsaid
  <2>6. QED
    BY <2>1, <2>2, <2>3, <2>4, <2>5
<1>4. ASSUME NEW r \in Requests, Ask(r) PROVE FeedInv'
  <2>1. TypeOK'
    BY <1>4 DEF Ask, Points
  <2>2. HolderRefreshes'
    BY <1>4 DEF Ask, HolderRefreshes, Before, GuardNeverLeaked
  <2>3. ReadsAreOrdered'
    BY <1>4 DEF Ask, HolderRefreshes, Before, ReadsAreOrdered
  <2>4. ReadsAreRecent'
    BY <1>4 DEF Ask, HolderRefreshes, Before, ReadsAreOrdered, ReadsAreRecent,
               OwnRefreshSeesFoundWrites
  <2>5. Unsaid'
    BY <1>4 DEF Ask, Unsaid
  <2>6. QED
    BY <2>1, <2>2, <2>3, <2>4, <2>5
<1>5. ASSUME NEW r \in Requests, CheckCache(r) PROVE FeedInv'
  <2>1. TypeOK'
    BY <1>5 DEF CheckCache, current_outcome, CachedWithinInterval, Points
  <2>2. HolderRefreshes'
    BY <1>5 DEF CheckCache, HolderRefreshes, Before, GuardNeverLeaked
  <2>3. ReadsAreOrdered'
    BY <1>5 DEF CheckCache, HolderRefreshes, Before, ReadsAreOrdered
  <2>4. ReadsAreRecent'
    BY <1>5 DEF CheckCache, HolderRefreshes, Before, ReadsAreOrdered, ReadsAreRecent,
               OwnRefreshSeesFoundWrites
  <2>5. Unsaid'
    BY <1>5 DEF CheckCache, Unsaid
  <2>6. QED
    BY <2>1, <2>2, <2>3, <2>4, <2>5
<1>6. ASSUME NEW r \in Requests, ReadGeneration(r) PROVE FeedInv'
  <2>1. TypeOK'
    BY <1>6 DEF ReadGeneration, Points
  <2>2. HolderRefreshes'
    BY <1>6 DEF ReadGeneration, HolderRefreshes, Before, GuardNeverLeaked
  <2>3. ReadsAreOrdered'
    BY <1>6 DEF ReadGeneration, HolderRefreshes, Before, ReadsAreOrdered
  <2>4. ReadsAreRecent'
    BY <1>6 DEF ReadGeneration, HolderRefreshes, Before, ReadsAreOrdered, ReadsAreRecent,
               OwnRefreshSeesFoundWrites
  <2>5. Unsaid'
    BY <1>6 DEF ReadGeneration, Unsaid
  <2>6. QED
    BY <2>1, <2>2, <2>3, <2>4, <2>5
<1>7. ASSUME NEW r \in Requests, TryLock(r) PROVE FeedInv'
  <2>1. TypeOK'
    BY <1>7 DEF TryLock, Points
  <2>2. HolderRefreshes'
    BY <1>7 DEF TryLock, HolderRefreshes, Before, GuardNeverLeaked
  <2>3. ReadsAreOrdered'
    BY <1>7 DEF TryLock, HolderRefreshes, Before, ReadsAreOrdered
  <2>4. ReadsAreRecent'
    BY <1>7 DEF TryLock, HolderRefreshes, Before, ReadsAreOrdered, ReadsAreRecent,
               OwnRefreshSeesFoundWrites
  <2>5. Unsaid'
    BY <1>7 DEF TryLock, Unsaid
  <2>6. QED
    BY <2>1, <2>2, <2>3, <2>4, <2>5
<1>8. ASSUME NEW r \in Requests, ListTasks(r) PROVE FeedInv'
  <2>1. TypeOK'
    BY <1>8 DEF ListTasks, Points
  <2>2. HolderRefreshes'
    BY <1>8 DEF ListTasks, HolderRefreshes, Before, GuardNeverLeaked
  <2>3. ReadsAreOrdered'
    BY <1>8 DEF ListTasks, HolderRefreshes, Before, ReadsAreOrdered
  <2>4. ReadsAreRecent'
    BY <1>8 DEF ListTasks, HolderRefreshes, Before, ReadsAreOrdered, ReadsAreRecent,
               OwnRefreshSeesFoundWrites, Unsaid
  <2>5. Unsaid'
    BY <1>8 DEF ListTasks, Unsaid
  <2>6. QED
    BY <2>1, <2>2, <2>3, <2>4, <2>5
<1>9. ASSUME NEW r \in Requests, Refreshed(r) PROVE FeedInv'
  <2>1. TypeOK'
    BY <1>9 DEF Refreshed, Points
  <2>2. HolderRefreshes'
    BY <1>9 DEF Refreshed, HolderRefreshes, Before, GuardNeverLeaked
  <2>3. ReadsAreOrdered'
    BY <1>9 DEF Refreshed, HolderRefreshes, Before, ReadsAreOrdered
  <2>4. ReadsAreRecent'
    BY <1>9 DEF Refreshed, HolderRefreshes, Before, ReadsAreOrdered, ReadsAreRecent,
               OwnRefreshSeesFoundWrites
  <2>5. Unsaid'
    BY <1>9 DEF Refreshed, Unsaid
  <2>6. QED
    BY <2>1, <2>2, <2>3, <2>4, <2>5
<1>10. ASSUME NEW r \in Requests, RecordFailure(r) PROVE FeedInv'
  <2>1. TypeOK'
    BY <1>10 DEF RecordFailure, Points
  <2>2. HolderRefreshes'
    BY <1>10 DEF RecordFailure, HolderRefreshes, Before, GuardNeverLeaked
  <2>3. ReadsAreOrdered'
    BY <1>10 DEF RecordFailure, HolderRefreshes, Before, ReadsAreOrdered
  <2>4. ReadsAreRecent'
    BY <1>10 DEF RecordFailure, HolderRefreshes, Before, ReadsAreOrdered, ReadsAreRecent,
               OwnRefreshSeesFoundWrites
  <2>5. Unsaid'
    BY <1>10 DEF RecordFailure, Unsaid
  <2>6. QED
    BY <2>1, <2>2, <2>3, <2>4, <2>5
<1>11. ASSUME NEW r \in Requests, Announce(r) PROVE FeedInv'
  <2>1. TypeOK'
    BY <1>11 DEF Announce, Points
  <2>2. HolderRefreshes'
    BY <1>11 DEF Announce, HolderRefreshes, Before, GuardNeverLeaked
  <2>3. ReadsAreOrdered'
    BY <1>11 DEF Announce, HolderRefreshes, Before, ReadsAreOrdered
  <2>4. ReadsAreRecent'
    BY <1>11 DEF Announce, HolderRefreshes, Before, ReadsAreOrdered, ReadsAreRecent,
               OwnRefreshSeesFoundWrites
  <2>5. Unsaid'
    BY <1>11 DEF Announce, Unsaid
  <2>6. QED
    BY <2>1, <2>2, <2>3, <2>4, <2>5
<1>12. ASSUME NEW r \in Requests, Wake(r) PROVE FeedInv'
  <2>1. TypeOK'
    BY <1>12 DEF Wake, Points
  <2>2. HolderRefreshes'
    BY <1>12 DEF Wake, HolderRefreshes, Before, GuardNeverLeaked
  <2>3. ReadsAreOrdered'
    BY <1>12 DEF Wake, HolderRefreshes, Before, ReadsAreOrdered
  <2>4. ReadsAreRecent'
    BY <1>12 DEF Wake, HolderRefreshes, Before, ReadsAreOrdered, ReadsAreRecent,
               OwnRefreshSeesFoundWrites
  <2>5. Unsaid'
    BY <1>12 DEF Wake, Unsaid
  <2>6. QED
    BY <2>1, <2>2, <2>3, <2>4, <2>5
<1>13. ASSUME NEW r \in Requests, WaitTimesOut(r) PROVE FeedInv'
  <2>1. TypeOK'
    BY <1>13 DEF WaitTimesOut, Points
  <2>2. HolderRefreshes'
    BY <1>13 DEF WaitTimesOut, HolderRefreshes, Before, GuardNeverLeaked
  <2>3. ReadsAreOrdered'
    BY <1>13 DEF WaitTimesOut, HolderRefreshes, Before, ReadsAreOrdered
  <2>4. ReadsAreRecent'
    BY <1>13 DEF WaitTimesOut, HolderRefreshes, Before, ReadsAreOrdered, ReadsAreRecent,
               OwnRefreshSeesFoundWrites
  <2>5. Unsaid'
    BY <1>13 DEF WaitTimesOut, Unsaid
  <2>6. QED
    BY <2>1, <2>2, <2>3, <2>4, <2>5
<1>14. ASSUME NEW r \in Requests, Answer(r) PROVE FeedInv'
  <2>1. TypeOK'
    BY <1>14 DEF Answer, current_outcome, GuardWithout, Points
  <2>2. HolderRefreshes'
    BY <1>14 DEF Answer, current_outcome, GuardWithout, HolderRefreshes, Before, GuardNeverLeaked
  <2>3. ReadsAreOrdered'
    BY <1>14 DEF Answer, HolderRefreshes, Before, ReadsAreOrdered
  <2>4. ReadsAreRecent'
    BY <1>14 DEF Answer, current_outcome, GuardWithout, HolderRefreshes, Before, ReadsAreOrdered, ReadsAreRecent,
               OwnRefreshSeesFoundWrites
  <2>5. Unsaid'
    BY <1>14 DEF Answer, Unsaid
  <2>6. QED
    BY <2>1, <2>2, <2>3, <2>4, <2>5
<1>15. ASSUME NEW r \in Requests, Disconnect(r) PROVE FeedInv'
  <2>1. TypeOK'
    BY <1>15 DEF Disconnect, GuardWithout, Points
  <2>2. HolderRefreshes'
    BY <1>15 DEF Disconnect, GuardWithout, HolderRefreshes, Before, GuardNeverLeaked
  <2>3. ReadsAreOrdered'
    BY <1>15 DEF Disconnect, HolderRefreshes, Before, ReadsAreOrdered
  <2>4. ReadsAreRecent'
    BY <1>15 DEF Disconnect, GuardWithout, HolderRefreshes, Before, ReadsAreOrdered, ReadsAreRecent,
               OwnRefreshSeesFoundWrites
  <2>5. Unsaid'
    BY <1>15 DEF Disconnect, Unsaid
  <2>6. QED
    BY <2>1, <2>2, <2>3, <2>4, <2>5
<1>16. CASE UNCHANGED vars
  BY <1>16 DEF vars, HolderRefreshes, GuardNeverLeaked, ReadsAreOrdered, ReadsAreRecent,
             OwnRefreshSeesFoundWrites, Unsaid
<1>17. ASSUME Index PROVE FeedInv'
  <2>1. TypeOK'
    BY <1>17 DEF Index, Points
  <2>2. HolderRefreshes'
    BY <1>17 DEF Index, HolderRefreshes, Before, GuardNeverLeaked
  <2>3. ReadsAreOrdered'
    BY <1>17 DEF Index, HolderRefreshes, Before, ReadsAreOrdered
  <2>4. ReadsAreRecent'
    BY <1>17 DEF Index, HolderRefreshes, Before, ReadsAreOrdered, ReadsAreRecent,
               OwnRefreshSeesFoundWrites
  <2>5. Unsaid'
    BY <1>17 DEF Index, Unsaid
  <2>6. QED
    BY <2>1, <2>2, <2>3, <2>4, <2>5
<1>18. QED
  BY <1>1, <1>2, <1>3, <1>4, <1>5, <1>6, <1>7, <1>8,
     <1>9, <1>10, <1>11, <1>12, <1>13, <1>14, <1>15, <1>16, <1>17 DEF Next, Run

-----------------------------------------------------------------------------

\* The inductive invariant holds of every behaviour of the feed.
THEOREM FeedInvariant == Spec => []FeedInv
  BY FeedInit, FeedStep, PTL DEF Spec

\* Every variable keeps its type (the locals of `get` and the fields of its State).
THEOREM FeedTypeCorrect == Spec => []TypeOK
  BY FeedInvariant, PTL DEF FeedInv

\* The refresh guard is never left behind by a request that ended or was dropped.
THEOREM GuardIsNeverLeaked == Spec => []GuardNeverLeaked
  BY FeedInvariant, PTL DEF FeedInv, HolderRefreshes

\* A fresh answer from a request's own refresh covers the writes that were invalidated
\* and found by search before the request came.
THEOREM OwnRefreshIsCurrent == Spec => []OwnRefreshSeesFoundWrites
  BY FeedInvariant, PTL DEF FeedInv, ReadsAreRecent

-----------------------------------------------------------------------------

\* Every step of the feed is a step of the promise, or changes nothing it speaks of.
LEMMA FeedStepIsCachedStep ==
  FeedInv /\ [Next]_vars => [C!CachedNext]_(C!cachedVars)
<1> SUFFICES ASSUME FeedInv, [Next]_vars PROVE [C!CachedNext]_(C!cachedVars)
  OBVIOUS
<1> USE DEF C!cachedVars, world, state, locals, Goto
<1>1. ASSUME Write PROVE C!Change
  BY <1>1 DEF Write, C!Change
<1>2. ASSUME NEW r \in Requests, Refreshed(r) PROVE C!Replace
  BY <1>2 DEF Refreshed, C!Replace, FeedInv, TypeOK, ReadsAreOrdered, NoBody, Versions,
              C!NoBody, C!Versions
<1>3. ASSUME NEW r \in Requests, pc[r] # "done",
             answer' = [answer EXCEPT ![r] = current_outcome],
             UNCHANGED <<version, snapshot>>
      PROVE  C!Tell(r)
  <2>1. answer[r] = C!Unanswered
    BY <1>3 DEF FeedInv, Unsaid
  <2>2. current_outcome.kind \in C!Kinds \ {"none"}
    BY DEF current_outcome, C!Kinds
  <2>3. (current_outcome.kind = "unavailable") <=> (snapshot = C!NoBody)
    BY DEF current_outcome, NoBody
  <2>4. current_outcome = [kind |-> current_outcome.kind, body |-> snapshot]
    BY DEF current_outcome
  <2>5. QED
    BY <1>3, <2>1, <2>2, <2>3, <2>4 DEF C!Tell
<1>4. ASSUME NEW r \in Requests, CheckCache(r)
      PROVE  C!Tell(r) \/ UNCHANGED C!cachedVars
  BY <1>4, <1>3 DEF CheckCache
<1>5. ASSUME NEW r \in Requests, Answer(r) PROVE C!Tell(r)
  BY <1>5, <1>3 DEF Answer
<1>6. ASSUME NEW r \in Requests,
             \/ Ask(r) \/ ReadGeneration(r) \/ TryLock(r) \/ ListTasks(r)
             \/ RecordFailure(r) \/ Announce(r) \/ Wake(r) \/ WaitTimesOut(r) \/ Disconnect(r)
      PROVE  UNCHANGED C!cachedVars
  BY <1>6 DEF Ask, ReadGeneration, TryLock, ListTasks, RecordFailure, Announce, Wake,
              WaitTimesOut, Disconnect
<1>7. ASSUME Age \/ Index \/ (\E v \in uninvalidated : Invalidate(v)) \/ UNCHANGED vars
      PROVE  UNCHANGED C!cachedVars
  BY <1>7 DEF Age, Index, Invalidate, vars
<1>8. QED
  BY <1>1, <1>2, <1>4, <1>5, <1>6, <1>7 DEF Next, Run, C!CachedNext

\* FeedService implements the promise of CachedSource.
THEOREM FeedImplementsCachedSource == Spec => ImplementsCachedSource
<1>1. Init => C!CachedInit
  BY DEF Init, C!CachedInit, NoBody
<1>2. QED
  BY <1>1, FeedInvariant, FeedStepIsCachedStep, PTL DEF Spec, ImplementsCachedSource, C!CachedSpec

\* Who was given a body was given the one that is held, and it is only ever replaced.
ServedFromTheHeld ==
    \A q \in Requests : answer[q].kind \in {"fresh", "stale"} => snapshot # NoBody

\* Both facts follow from the abstract cache alone: a body is never given up, and
\* Tell refuses only while there is none.
THEOREM ServedFromTheHeldStep ==
    ASSUME FeedInv, ServedFromTheHeld, [C!CachedNext]_(C!cachedVars)
    PROVE  ServedFromTheHeld'
<1> USE DEF ServedFromTheHeld, NoBody
<1>1. CASE UNCHANGED C!cachedVars
  BY <1>1 DEF C!cachedVars
<1>2. CASE C!Change
  BY <1>2 DEF C!Change
<1>3. CASE C!Replace
  BY <1>3 DEF C!Replace
<1>4. ASSUME NEW r \in Requests, C!Tell(r) PROVE ServedFromTheHeld'
  <2>1. PICK kind \in C!Kinds \ {"none"} :
          /\ (kind = "unavailable") <=> (snapshot = C!NoBody)
          /\ answer' = [answer EXCEPT ![r] = [kind |-> kind, body |-> snapshot]]
          /\ snapshot' = snapshot
    BY <1>4 DEF C!Tell
  <2>2. ASSUME NEW q \in Requests, answer'[q].kind \in {"fresh", "stale"} PROVE snapshot' # NoBody
    <3>1. CASE q = r
      <4>1. answer'[q].kind = kind
        BY <3>1, <2>1 DEF FeedInv, TypeOK
      <4>2. QED
        BY <4>1, <2>1, <2>2
    <3>2. CASE q # r
      BY <3>2, <2>1, <2>2 DEF FeedInv, TypeOK
    <3>3. QED
      BY <3>1, <3>2
  <2>3. QED
    BY <2>2
<1>5. QED
  BY <1>1, <1>2, <1>3, <1>4 DEF C!CachedNext

\* Once any request was served, no request is turned away.
THEOREM NobodyIsTurnedAway == Spec => ServedOnceServedAlways
<1>1. ASSUME FeedInv, ServedFromTheHeld, [C!CachedNext]_(C!cachedVars),
             NEW q \in Requests, NEW r \in Requests,
             answer[q].kind \in {"fresh", "stale"}, answer[r]' # answer[r]
      PROVE  answer[r]'.kind # "unavailable"
  <2>1. PICK t \in Requests : C!Tell(t)
    BY <1>1 DEF C!CachedNext, C!cachedVars, C!Change, C!Replace
  <2>2. PICK kind \in C!Kinds \ {"none"} :
          /\ (kind = "unavailable") <=> (snapshot = C!NoBody)
          /\ answer' = [answer EXCEPT ![t] = [kind |-> kind, body |-> snapshot]]
    BY <2>1 DEF C!Tell
  <2>3. r = t /\ answer[r]' = [kind |-> kind, body |-> snapshot]
    BY <1>1, <2>2 DEF FeedInv, TypeOK
  <2>4. snapshot # C!NoBody
    BY <1>1 DEF ServedFromTheHeld, NoBody
  <2>5. QED
    BY <2>2, <2>3, <2>4
<1>2. FeedInv /\ ServedFromTheHeld /\ [C!CachedNext]_(C!cachedVars) =>
        [\A q, r \in Requests :
            answer[q].kind \in {"fresh", "stale"} /\ answer[r]' # answer[r] =>
                answer[r]'.kind # "unavailable"]_vars
  BY <1>1
<1>3. Init => ServedFromTheHeld
  BY DEF Init, ServedFromTheHeld, C!Unanswered
<1>4. FeedInv /\ ServedFromTheHeld /\ [C!CachedNext]_(C!cachedVars) => ServedFromTheHeld'
  BY ServedFromTheHeldStep
<1>5. QED
  BY <1>2, <1>3, <1>4, FeedInvariant, FeedStepIsCachedStep, PTL DEF Spec, ServedOnceServedAlways
=============================================================================
