----------------------------- MODULE Reminders ------------------------------
(***************************************************************************)
(* Web push reminders: the scheduler's pass (src/src/scheduler.rs), the    *)
(* claims and subscriptions it keeps in the state file (src/src/state.rs)  *)
(* and the sending (src/src/push.rs).                                      *)
(*                                                                         *)
(* A moment is an object and the instant its reminder is due, the key of a *)
(* claim.  The claims and subscriptions survive a crash; everything a pass *)
(* has read does not.  Time is a counter of polls.                         *)
(***************************************************************************)
EXTENDS Integers, FiniteSets

CONSTANTS
    Tasks, Events,          \* the objects of the space that can be reminded of
    People,                 \* the members tasks are assigned to
    Everyone,               \* who a subscription without an account belongs to
    NotSubscribed,          \* no row for that endpoint
    Endpoints,              \* the browsers' push endpoints
    NoMoment,
    Plans,                  \* the sets of instants `reminders_for` can yield for an object
    LateWindow,             \* push.late_window
    StartOffset,            \* an event's start minus its reminder's instant
    MaxTime,                \* bound on the clock
    MaxEdits, MaxFaults     \* bounds on what users change and on what fails

Objects == Tasks \cup Events
Times == 0 .. MaxTime
Moments == Objects \X Times

ASSUME ObjectsAssumption == Tasks \cap Events = {}
ASSUME PlansAssumption == Plans \subseteq SUBSET Times
ASSUME BoundsAssumption ==
    MaxTime \in Nat /\ LateWindow \in Nat /\ MaxEdits \in Nat /\ MaxFaults \in Nat
ASSUME OffsetAssumption == StartOffset \in [Events -> Int]
ASSUME NamesAssumption ==
    /\ NoMoment \notin Moments
    /\ Everyone \notin People
    /\ NotSubscribed \notin People \cup {Everyone}

VARIABLES
    now,                    \* the wall clock
    planned,                \* per object, the instants its data gives reminders for
    assignees,              \* per task, whom it is assigned to
    subscriptions,          \* the table: endpoint -> person (durable)
    handled,                \* the table handled_reminders: moment -> outcome (durable)
    pc, at,                 \* where the pass is, and its `now`
    todo,                   \* the due moments it has not evaluated yet
    assigned,               \* `assignees` of the tasks as the pass read them
    anyone,                 \* whether `audience` was above zero
    sending,                \* the moment whose notification is being sent
    targets, gone,          \* locals of `notify`
    edits, faults,          \* the budgets left
    pushes,                 \* history: notifications that reached a device
    owners, responsible     \* history: who ever held an endpoint, or a task

world == <<now, planned, assignees, edits, responsible>>
durable == <<subscriptions, handled, owners>>
pass == <<at, todo, assigned, anyone, sending, targets, gone>>
vars == <<world, durable, pc, pass, faults, pushes>>

Outcomes == {"none", "attempted", "expired"}
Owners == People \cup {Everyone, NotSubscribed}
Points == {"idle", "reading", "counting", "events", "evaluating", "claimed", "sending"}

TypeOK ==
    /\ now \in Times /\ at \in Times
    /\ planned \in [Objects -> Plans]
    /\ assignees \in [Tasks -> SUBSET People]
    /\ subscriptions \in [Endpoints -> Owners]
    /\ handled \in [Moments -> Outcomes]
    /\ pc \in Points
    /\ todo \subseteq Moments
    /\ assigned \in [Tasks -> SUBSET People]
    /\ anyone \in BOOLEAN
    /\ sending \in Moments \cup {NoMoment}
    /\ targets \subseteq Endpoints /\ gone \subseteq Endpoints
    /\ edits \in 0 .. MaxEdits /\ faults \in 0 .. MaxFaults
    /\ pushes \in [Moments -> [Endpoints -> Nat]]
    /\ owners \in [Endpoints -> SUBSET Owners]
    /\ responsible \in [Tasks -> SUBSET People]

Init ==
    /\ now = 0 /\ at = 0
    /\ planned \in [Objects -> Plans]
    /\ assignees \in [Tasks -> SUBSET People]
    /\ subscriptions = [e \in Endpoints |-> NotSubscribed]
    /\ handled = [m \in Moments |-> "none"]
    /\ pc = "idle"
    /\ todo = {} /\ assigned = [o \in Tasks |-> {}] /\ anyone = FALSE
    /\ sending = NoMoment /\ targets = {} /\ gone = {}
    /\ edits = MaxEdits /\ faults = MaxFaults
    /\ pushes = [m \in Moments |-> [e \in Endpoints |-> 0]]
    /\ owners = [e \in Endpoints |-> {}]
    /\ responsible = assignees

-----------------------------------------------------------------------------
(* The people: time passes, tasks are edited, devices subscribe *)

Tick ==
    /\ now < MaxTime
    /\ now' = now + 1
    /\ UNCHANGED <<planned, assignees, edits, responsible, durable, pc, pass, faults, pushes>>

\* Dates, leads or the done mark change: other instants come out of reminders_for.
Replan(o) ==
    /\ edits > 0 /\ edits' = edits - 1
    /\ \E plan \in Plans : planned' = [planned EXCEPT ![o] = plan]
    /\ UNCHANGED <<now, assignees, responsible, durable, pc, pass, faults, pushes>>

Reassign(o) ==
    /\ edits > 0 /\ edits' = edits - 1
    /\ \E to \in SUBSET People :
        /\ assignees' = [assignees EXCEPT ![o] = to]
        /\ responsible' = [responsible EXCEPT ![o] = @ \cup to]
    /\ UNCHANGED <<now, planned, durable, pc, pass, faults, pushes>>

\* upsert_subscription_of: a signed-in person's device, or one without an account.
Subscribe(e) ==
    /\ edits > 0 /\ edits' = edits - 1
    /\ \E person \in People \cup {Everyone} :
        /\ subscriptions' = [subscriptions EXCEPT ![e] = person]
        /\ owners' = [owners EXCEPT ![e] = @ \cup {person}]
    /\ UNCHANGED <<now, planned, assignees, responsible, handled, pc, pass, faults, pushes>>

-----------------------------------------------------------------------------
(* A pass: what it reads *)

Fault == faults > 0 /\ faults' = faults - 1
Subscribed == {e \in Endpoints : subscriptions[e] # NotSubscribed}

Forget ==
    /\ todo' = {} /\ assigned' = [o \in Tasks |-> {}] /\ anyone' = FALSE
    /\ sending' = NoMoment /\ targets' = {} /\ gone' = {}
    /\ UNCHANGED at

StartPass ==
    /\ pc = "idle"
    /\ at' = now
    /\ pc' = "reading"
    /\ UNCHANGED <<world, durable, todo, assigned, anyone, sending, targets, gone, faults, pushes>>

Due(m) == m[2] \in planned[m[1]] /\ m[2] <= at
Expired(m) == at - m[2] > LateWindow

\* The moments of the tasks in the batch; a trigger in the future is skipped.
ReadTasks ==
    /\ pc = "reading"
    /\ todo' = {m \in Tasks \X Times : Due(m)}
    /\ assigned' = assignees
    /\ pc' = "counting"
    /\ UNCHANGED <<world, durable, at, anyone, sending, targets, gone, faults, pushes>>

\* Mutant of ReadTasksFails: the scheduler's loop ends with the pass.
ReadTasksFailsForGood ==
    /\ pc = "reading"
    /\ Fault
    /\ Forget
    /\ pc' = "stopped"
    /\ UNCHANGED <<world, durable, pushes>>

\* The task read failed or timed out: the pass fails, the next one tries again.
ReadTasksFails ==
    /\ pc = "reading"
    /\ Fault
    /\ Forget
    /\ pc' = "idle"
    /\ UNCHANGED <<world, durable, pushes>>

\* Mutant of CountAudience: an empty audience is not noticed.
AssumeAudience ==
    /\ pc = "counting"
    /\ anyone' = TRUE
    /\ pc' = "events"
    /\ UNCHANGED <<world, durable, at, todo, assigned, sending, targets, gone, faults, pushes>>

\* audience: how many rows there are, whoever they belong to; zero on an error.
CountAudience ==
    /\ pc = "counting"
    /\ \/ anyone' = (Subscribed # {}) /\ UNCHANGED faults
       \/ anyone' = FALSE /\ Fault
    /\ pc' = "events"
    /\ UNCHANGED <<world, durable, at, todo, assigned, sending, targets, gone, pushes>>

\* event_entries expands an event from the start of the late window onwards.
InWindow(m) == m[2] + StartOffset[m[1]] >= at - LateWindow

\* A failed event read leaves the task reminders going.
ReadEvents ==
    /\ pc = "events"
    /\ \/ /\ todo' = todo \cup {m \in Events \X Times : Due(m) /\ InWindow(m)}
          /\ UNCHANGED faults
       \/ Fault /\ UNCHANGED todo
    /\ pc' = "evaluating"
    /\ UNCHANGED <<world, durable, at, assigned, anyone, sending, targets, gone, pushes>>

-----------------------------------------------------------------------------
(* A pass: one due moment after the other *)

Hold(m) ==
    /\ pc = "evaluating" /\ m \in todo
    /\ ~Expired(m) /\ ~anyone
    /\ todo' = todo \ {m}
    /\ UNCHANGED <<world, durable, pc, at, assigned, anyone, sending, targets, gone, faults, pushes>>

\* claim_reminder finds a row: INSERT OR IGNORE changes nothing.
SkipHandled(m) ==
    /\ pc = "evaluating" /\ m \in todo
    /\ Expired(m) \/ anyone
    /\ handled[m] # "none"
    /\ todo' = todo \ {m}
    /\ UNCHANGED <<world, durable, pc, at, assigned, anyone, sending, targets, gone, faults, pushes>>

\* Mutant of Expire: an expired moment is claimed, and sent all the same.
ExpireButSend(m) ==
    /\ pc = "evaluating" /\ m \in todo
    /\ Expired(m)
    /\ handled[m] = "none"
    /\ handled' = [handled EXCEPT ![m] = "expired"]
    /\ todo' = todo \ {m}
    /\ sending' = m
    /\ pc' = "claimed"
    /\ UNCHANGED <<world, subscriptions, owners, at, assigned, anyone, targets, gone, faults, pushes>>

Expire(m) ==
    /\ pc = "evaluating" /\ m \in todo
    /\ Expired(m)
    /\ handled[m] = "none"
    /\ handled' = [handled EXCEPT ![m] = "expired"]
    /\ todo' = todo \ {m}
    /\ UNCHANGED <<world, subscriptions, owners, pc, at, assigned, anyone, sending, targets, gone,
                   faults, pushes>>

\* Mutant of Claim: an earlier claim does not stop the send.
ClaimAgain(m) ==
    /\ pc = "evaluating" /\ m \in todo
    /\ ~Expired(m) /\ anyone
    /\ handled' = [handled EXCEPT ![m] = "attempted"]
    /\ todo' = todo \ {m}
    /\ sending' = m
    /\ pc' = "claimed"
    /\ UNCHANGED <<world, subscriptions, owners, at, assigned, anyone, targets, gone, faults, pushes>>

\* The claim is durable before anything is sent.
Claim(m) ==
    /\ pc = "evaluating" /\ m \in todo
    /\ ~Expired(m) /\ anyone
    /\ handled[m] = "none"
    /\ handled' = [handled EXCEPT ![m] = "attempted"]
    /\ todo' = todo \ {m}
    /\ sending' = m
    /\ pc' = "claimed"
    /\ UNCHANGED <<world, subscriptions, owners, at, assigned, anyone, targets, gone, faults, pushes>>

\* The state file cannot be written: the pass ends with an error.
ClaimFails(m) ==
    /\ pc = "evaluating" /\ m \in todo
    /\ Expired(m) \/ anyone
    /\ Fault
    /\ Forget
    /\ pc' = "idle"
    /\ UNCHANGED <<world, durable, pushes>>

EndPass ==
    /\ pc = "evaluating" /\ todo = {}
    /\ Forget
    /\ pc' = "idle"
    /\ UNCHANGED <<world, durable, faults, pushes>>

-----------------------------------------------------------------------------
(* PushService::notify *)

\* Mutant of Reaching: a task's reminder goes to every row.
ReachingAll(o) == Subscribed

\* subscriptions_reaching for a task, subscriptions for an event.
Reaching(o) ==
    IF o \in Events
    THEN Subscribed
    ELSE {e \in Subscribed : subscriptions[e] \in assigned[o] \cup {Everyone}}

\* The rows are read when the claim is spent; none when they cannot be read.
ReadTargets ==
    /\ pc = "claimed"
    /\ \/ targets' = Reaching(sending[1]) /\ UNCHANGED faults
       \/ targets' = {} /\ Fault
    /\ pc' = "sending"
    /\ UNCHANGED <<world, durable, at, todo, assigned, anyone, sending, gone, pushes>>

Push(e) ==
    /\ pc = "sending" /\ e \in targets
    /\ targets' = targets \ {e}
    /\ \/ /\ pushes' = [pushes EXCEPT ![sending][e] = @ + 1]
          /\ UNCHANGED <<gone, faults>>
       \/ gone' = gone \cup {e} /\ Fault /\ UNCHANGED pushes
       \/ Fault /\ UNCHANGED <<gone, pushes>>
    /\ UNCHANGED <<world, durable, pc, at, todo, assigned, anyone, sending>>

\* The endpoints that answered "gone" are removed once all sends are over, whoever
\* subscribed there since; a row that cannot be removed stays.
Prune(e) ==
    /\ pc = "sending" /\ targets = {} /\ e \in gone
    /\ gone' = gone \ {e}
    /\ \/ subscriptions' = [subscriptions EXCEPT ![e] = NotSubscribed] /\ UNCHANGED faults
       \/ Fault /\ UNCHANGED subscriptions
    /\ UNCHANGED <<world, handled, owners, pc, at, todo, assigned, anyone, sending, targets,
                   pushes>>

FinishSend ==
    /\ pc = "sending" /\ targets = {} /\ gone = {}
    /\ sending' = NoMoment
    /\ pc' = "evaluating"
    /\ UNCHANGED <<world, durable, at, todo, assigned, anyone, targets, gone, faults, pushes>>

\* The process is killed, or stopped by a signal that aborts the scheduler's task.
Crash ==
    /\ pc # "idle"
    /\ Fault
    /\ Forget
    /\ pc' = "idle"
    /\ UNCHANGED <<world, durable, pushes>>

-----------------------------------------------------------------------------
Evaluate(m) == Hold(m) \/ SkipHandled(m) \/ Expire(m) \/ Claim(m)

\* What the scheduler's loop does when nothing fails.
Scheduler ==
    \/ StartPass \/ ReadTasks \/ CountAudience \/ ReadEvents
    \/ \E m \in Moments : Evaluate(m)
    \/ EndPass
    \/ ReadTargets \/ FinishSend
    \/ \E e \in Endpoints : Push(e) \/ Prune(e)

Next ==
    \/ Tick
    \/ \E o \in Objects : Replan(o)
    \/ \E o \in Tasks : Reassign(o)
    \/ \E e \in Endpoints : Subscribe(e)
    \/ Scheduler
    \/ ReadTasksFails
    \/ \E m \in Moments : ClaimFails(m)
    \/ Crash

Spec == Init /\ [][Next]_vars

\* The runtime polls the scheduler's task, and time passes; nobody must edit or fail.
FairSpec == Spec /\ WF_vars(Scheduler) /\ WF_vars(Tick)

-----------------------------------------------------------------------------
(* Properties *)

\* A device is told of a moment at most once, whatever crashes, is read again,
\* rescheduled away and back, or subscribes in between.
AtMostOncePerDevice ==
    \A m \in Moments, e \in Endpoints : pushes[m][e] <= 1

\* What was sent had been claimed as an attempt, so a restart cannot send it again,
\* and a moment given up as too late is never sent.
SentOnlyWhenClaimed ==
    \A m \in Moments, e \in Endpoints : pushes[m][e] > 0 => handled[m] = "attempted"

\* A task's reminder reaches a device only if someone it belonged to was assigned the
\* task at some time, or it once subscribed as nobody in particular.
OnlyThoseConcerned ==
    \A m \in Tasks \X Times, e \in Endpoints :
        pushes[m][e] > 0 => owners[e] \cap (responsible[m[1]] \cup {Everyone}) # {}

\* While no device has ever subscribed, no reminder is used up as sent: it stays
\* eligible for the first device within the late window.
HeldForTheFirstDevice ==
    (\A e \in Endpoints : owners[e] = {}) => \A m \in Moments : handled[m] # "attempted"

\* A due task reminder is handled in the end, sent or given up, as long as its task
\* keeps it and somebody is subscribed: failed reads and crashes only delay it.
DueTaskIsHandled ==
    \A m \in Tasks \X Times :
        <>[](m[2] \in planned[m[1]] /\ m[2] <= now /\ Subscribed # {}) => <>(handled[m] # "none")

\* The comment in event_entries: the window of starts that is expanded covers every
\* event trigger that can be due.
WindowCoversDueEvents ==
    [][pc = "events" /\ pc' = "evaluating" =>
        \A m \in Events \X Times : Due(m) /\ ~Expired(m) => m \in todo']_vars
=============================================================================
