-------------------------- MODULE RemindersProofs ---------------------------
(***************************************************************************)
(* Proofs about Reminders for any tasks, events, people, endpoints and     *)
(* plans, and any bounds on time, edits and faults.                        *)
(*                                                                         *)
(* The invariant follows a moment through its send: the claim is recorded  *)
(* before the moment is `sending`, no target of the send was told of it    *)
(* yet, and whoever is a target has an owner whom the moment concerns.     *)
(***************************************************************************)
EXTENDS Reminders, TLAPS

\* The moment being sent is claimed, and the devices still to be told were not told.
SendIsClaimed ==
    /\ pc \in {"claimed", "sending"} => sending \in Moments /\ handled[sending] = "attempted"
    /\ pc = "claimed" => \A e \in Endpoints : pushes[sending][e] = 0
    /\ pc = "sending" => \A e \in targets : pushes[sending][e] = 0

\* What the histories know of the tables and of what a pass has read.
HistoriesKnow ==
    /\ \A e \in Endpoints : subscriptions[e] # NotSubscribed => subscriptions[e] \in owners[e]
    /\ \A o \in Tasks : assignees[o] \subseteq responsible[o] /\ assigned[o] \subseteq responsible[o]
    /\ anyone => \E e \in Endpoints : owners[e] # {}

\* The targets of a task's reminder belong to someone it concerns.
TargetsAreConcerned ==
    pc = "sending" /\ sending[1] \in Tasks =>
        \A e \in targets : owners[e] \cap (responsible[sending[1]] \cup {Everyone}) # {}

RemindersInv ==
    /\ TypeOK /\ AtMostOncePerDevice /\ SentOnlyWhenClaimed /\ SendIsClaimed
    /\ HistoriesKnow /\ TargetsAreConcerned /\ OnlyThoseConcerned /\ HeldForTheFirstDevice

-----------------------------------------------------------------------------

\* The initial state satisfies the invariant.
THEOREM RemindersInit == Init => RemindersInv
<1> SUFFICES ASSUME Init PROVE RemindersInv
  OBVIOUS
<1> USE BoundsAssumption, ObjectsAssumption, NamesAssumption
    DEF Init, Times, Moments, Objects
<1>1. TypeOK
  <2>1. anyone \in BOOLEAN
    BY Zenon
  <2>2. now \in Times /\ at \in Times /\ edits \in 0 .. MaxEdits /\ faults \in 0 .. MaxFaults
    OBVIOUS
  <2>3. pushes \in [Moments -> [Endpoints -> Nat]] /\ handled \in [Moments -> Outcomes]
    BY DEF Outcomes
  <2>4. subscriptions \in [Endpoints -> Owners] /\ owners \in [Endpoints -> SUBSET Owners]
    BY DEF Owners
  <2>5. planned \in [Objects -> Plans] /\ assignees \in [Tasks -> SUBSET People]
    OBVIOUS
  <2>6. assigned \in [Tasks -> SUBSET People] /\ responsible \in [Tasks -> SUBSET People]
    OBVIOUS
  <2>7. QED
    BY <2>1, <2>2, <2>3, <2>4, <2>5, <2>6 DEF TypeOK, Points
<1>2. AtMostOncePerDevice /\ SentOnlyWhenClaimed /\ SendIsClaimed
  BY DEF AtMostOncePerDevice, SentOnlyWhenClaimed, SendIsClaimed
<1>3. HistoriesKnow /\ TargetsAreConcerned
  BY DEF HistoriesKnow, TargetsAreConcerned
<1>4. OnlyThoseConcerned /\ HeldForTheFirstDevice
  BY DEF OnlyThoseConcerned, HeldForTheFirstDevice
<1>5. QED
  BY <1>1, <1>2, <1>3, <1>4 DEF RemindersInv

\* Every step keeps the types.
LEMMA RemindersTypeStep == TypeOK /\ [Next]_vars => TypeOK'
<1> SUFFICES ASSUME TypeOK, [Next]_vars PROVE TypeOK'
  OBVIOUS
<1> USE BoundsAssumption DEF TypeOK, world, durable, pass
<1>1. ASSUME Tick PROVE TypeOK'
  BY <1>1 DEF Tick, Times, Moments, Objects, Points, Owners, Outcomes
<1>2. ASSUME NEW o \in Objects, Replan(o) PROVE TypeOK'
  BY <1>2 DEF Replan, Times, Moments, Objects, Points, Owners, Outcomes
<1>3. ASSUME NEW o \in Tasks, Reassign(o) PROVE TypeOK'
  BY <1>3 DEF Reassign, Times, Moments, Objects, Points, Owners, Outcomes
<1>4. ASSUME NEW e \in Endpoints, Subscribe(e) PROVE TypeOK'
  BY <1>4 DEF Subscribe, Times, Moments, Objects, Points, Owners, Outcomes
<1>5. ASSUME StartPass PROVE TypeOK'
  BY <1>5 DEF StartPass, Times, Moments, Objects, Points, Owners, Outcomes
<1>6. ASSUME ReadTasks PROVE TypeOK'
  BY <1>6 DEF ReadTasks, Due, Times, Moments, Objects, Points, Owners, Outcomes
<1>7. ASSUME CountAudience PROVE TypeOK'
  <2>1. anyone' \in BOOLEAN
    BY <1>7, Zenon DEF CountAudience, Fault, Subscribed
  <2>2. faults' \in 0 .. MaxFaults
    BY <1>7 DEF CountAudience, Fault, Subscribed
  <2>3. assigned' \in [Tasks -> SUBSET People]
    BY <1>7 DEF CountAudience, Fault, Subscribed
  <2>4. QED
    BY <1>7, <2>1, <2>2, <2>3 DEF CountAudience, Fault, Subscribed, Points
<1>8. ASSUME ReadEvents PROVE TypeOK'
  BY <1>8 DEF ReadEvents, Due, Fault, Times, Moments, Objects, Points, Owners, Outcomes
<1>9. ASSUME NEW m \in Moments, Hold(m) PROVE TypeOK'
  BY <1>9 DEF Hold, Times, Moments, Objects, Points, Owners, Outcomes
<1>10. ASSUME NEW m \in Moments, SkipHandled(m) PROVE TypeOK'
  BY <1>10 DEF SkipHandled, Times, Moments, Objects, Points, Owners, Outcomes
<1>11. ASSUME NEW m \in Moments, Expire(m) PROVE TypeOK'
  BY <1>11 DEF Expire, Times, Moments, Objects, Points, Owners, Outcomes
<1>12. ASSUME NEW m \in Moments, Claim(m) PROVE TypeOK'
  BY <1>12 DEF Claim, Times, Moments, Objects, Points, Owners, Outcomes
<1>13. ASSUME EndPass PROVE TypeOK'
  BY <1>13 DEF EndPass, Forget, Times, Moments, Objects, Points, Owners, Outcomes
<1>14. ASSUME ReadTargets PROVE TypeOK'
  BY <1>14 DEF ReadTargets, Fault, Reaching, Subscribed, Times, Moments, Objects, Points,
     Owners, Outcomes
<1>15. ASSUME FinishSend PROVE TypeOK'
  BY <1>15 DEF FinishSend, Times, Moments, Objects, Points, Owners, Outcomes
<1>16. ASSUME NEW e \in Endpoints, Push(e) PROVE TypeOK'
  BY <1>16 DEF Push, Fault, Times, Moments, Objects, Points, Owners, Outcomes
<1>17. ASSUME NEW e \in Endpoints, Prune(e) PROVE TypeOK'
  <2>1. faults' \in 0 .. MaxFaults
    BY <1>17 DEF Prune, Fault
  <2>2. subscriptions' \in [Endpoints -> Owners]
    BY <1>17 DEF Prune, Owners
  <2>3. gone' \subseteq Endpoints
    BY <1>17 DEF Prune
  <2>4. QED
    BY <1>17, <2>1, <2>2, <2>3 DEF Prune
<1>18. ASSUME ReadTasksFails PROVE TypeOK'
  <2>1. anyone' \in BOOLEAN
    BY <1>18, Zenon DEF ReadTasksFails, Fault, Forget
  <2>2. faults' \in 0 .. MaxFaults
    BY <1>18 DEF ReadTasksFails, Fault, Forget
  <2>3. assigned' \in [Tasks -> SUBSET People]
    BY <1>18 DEF ReadTasksFails, Fault, Forget
  <2>4. QED
    BY <1>18, <2>1, <2>2, <2>3 DEF ReadTasksFails, Fault, Forget, Points
<1>19. ASSUME NEW m \in Moments, ClaimFails(m) PROVE TypeOK'
  <2>1. anyone' \in BOOLEAN
    BY <1>19, Zenon DEF ClaimFails, Fault, Forget
  <2>2. faults' \in 0 .. MaxFaults
    BY <1>19 DEF ClaimFails, Fault, Forget
  <2>3. assigned' \in [Tasks -> SUBSET People]
    BY <1>19 DEF ClaimFails, Fault, Forget
  <2>4. QED
    BY <1>19, <2>1, <2>2, <2>3 DEF ClaimFails, Fault, Forget, Points
<1>20. ASSUME Crash PROVE TypeOK'
  <2>1. anyone' \in BOOLEAN
    BY <1>20, Zenon DEF Crash, Fault, Forget
  <2>2. faults' \in 0 .. MaxFaults
    BY <1>20 DEF Crash, Fault, Forget
  <2>3. assigned' \in [Tasks -> SUBSET People]
    BY <1>20 DEF Crash, Fault, Forget
  <2>4. QED
    BY <1>20, <2>1, <2>2, <2>3 DEF Crash, Fault, Forget, Points
<1>21. ASSUME UNCHANGED vars PROVE TypeOK'
  BY <1>21 DEF vars
<1>22. QED
  BY <1>1, <1>2, <1>3, <1>4, <1>5, <1>6, <1>7, <1>8, <1>9, <1>10, <1>11, <1>12, <1>13,
     <1>14, <1>15, <1>16, <1>17, <1>18, <1>19, <1>20, <1>21 DEF Next, Scheduler, Evaluate

\* A step that neither claims, sends nor changes who owns or is assigned what keeps the
\* invariant, if what it reads of the assignments and the audience is true.
LEMMA QuietStep ==
    ASSUME RemindersInv, TypeOK',
           UNCHANGED <<handled, pushes, durable, assignees, responsible>>,
           pc' \notin {"claimed", "sending"} \/ UNCHANGED <<pc, sending, targets>>,
           \A o \in Tasks : assigned'[o] \subseteq responsible[o],
           anyone' => anyone
    PROVE  RemindersInv'
<1> USE DEF RemindersInv, durable
<1>1. AtMostOncePerDevice' /\ SentOnlyWhenClaimed'
  BY DEF AtMostOncePerDevice, SentOnlyWhenClaimed
<1>2. SendIsClaimed'
  BY DEF SendIsClaimed
<1>3. HistoriesKnow'
  BY DEF HistoriesKnow
<1>4. TargetsAreConcerned'
  BY DEF TargetsAreConcerned
<1>5. OnlyThoseConcerned' /\ HeldForTheFirstDevice'
  BY DEF OnlyThoseConcerned, HeldForTheFirstDevice
<1>6. QED
  BY <1>1, <1>2, <1>3, <1>4, <1>5

\* Every step keeps the invariant.
THEOREM RemindersStep == RemindersInv /\ [Next]_vars => RemindersInv'
<1> SUFFICES ASSUME RemindersInv, [Next]_vars PROVE RemindersInv'
  OBVIOUS
<1>a. TypeOK /\ TypeOK'
  BY RemindersTypeStep DEF RemindersInv
<1>b. HistoriesKnow
  BY DEF RemindersInv
<1>1. ASSUME Tick PROVE RemindersInv'
  BY <1>a, <1>b, <1>1, QuietStep DEF Tick, TypeOK, HistoriesKnow, world, durable, pass
<1>2. ASSUME NEW o \in Objects, Replan(o) PROVE RemindersInv'
  BY <1>a, <1>b, <1>2, QuietStep DEF Replan, TypeOK, HistoriesKnow, world, durable, pass
<1>3. ASSUME NEW o \in Tasks, Reassign(o) PROVE RemindersInv'
  <2> USE ObjectsAssumption, NamesAssumption DEF RemindersInv, world, durable, pass
  <2>1. AtMostOncePerDevice'
    BY <1>a, <1>3 DEF Reassign, TypeOK, AtMostOncePerDevice, SendIsClaimed
  <2>2. SentOnlyWhenClaimed'
    BY <1>a, <1>3 DEF Reassign, TypeOK, SentOnlyWhenClaimed, SendIsClaimed
  <2>3. SendIsClaimed'
    BY <1>a, <1>3 DEF Reassign, TypeOK, SendIsClaimed, SentOnlyWhenClaimed
  <2>4. HistoriesKnow'
    BY <1>a, <1>3 DEF Reassign, TypeOK, HistoriesKnow
  <2>5. TargetsAreConcerned'
    BY <1>a, <1>3 DEF Reassign, TypeOK, TargetsAreConcerned, HistoriesKnow, Moments
  <2>6. OnlyThoseConcerned'
    BY <1>a, <1>3 DEF Reassign, TypeOK, OnlyThoseConcerned, SendIsClaimed, TargetsAreConcerned,
       HistoriesKnow, Moments, Objects
  <2>7. HeldForTheFirstDevice'
    BY <1>a, <1>3 DEF Reassign, TypeOK, HeldForTheFirstDevice, HistoriesKnow
  <2>8. QED
    BY <1>a, <2>1, <2>2, <2>3, <2>4, <2>5, <2>6, <2>7
<1>4. ASSUME NEW e \in Endpoints, Subscribe(e) PROVE RemindersInv'
  <2> USE ObjectsAssumption, NamesAssumption DEF RemindersInv, world, durable, pass
  <2>1. AtMostOncePerDevice'
    BY <1>a, <1>4 DEF Subscribe, TypeOK, AtMostOncePerDevice, SendIsClaimed
  <2>2. SentOnlyWhenClaimed'
    BY <1>a, <1>4 DEF Subscribe, TypeOK, SentOnlyWhenClaimed, SendIsClaimed
  <2>3. SendIsClaimed'
    BY <1>a, <1>4 DEF Subscribe, TypeOK, SendIsClaimed, SentOnlyWhenClaimed
  <2>4. HistoriesKnow'
    BY <1>a, <1>4 DEF Subscribe, TypeOK, HistoriesKnow
  <2>5. TargetsAreConcerned'
    BY <1>a, <1>4 DEF Subscribe, TypeOK, TargetsAreConcerned, HistoriesKnow, Moments
  <2>6. OnlyThoseConcerned'
    BY <1>a, <1>4 DEF Subscribe, TypeOK, OnlyThoseConcerned, SendIsClaimed,
       TargetsAreConcerned, HistoriesKnow, Moments, Objects
  <2>7. HeldForTheFirstDevice'
    BY <1>a, <1>4 DEF Subscribe, TypeOK, HeldForTheFirstDevice, HistoriesKnow
  <2>8. QED
    BY <1>a, <2>1, <2>2, <2>3, <2>4, <2>5, <2>6, <2>7
<1>5. ASSUME StartPass PROVE RemindersInv'
  BY <1>a, <1>b, <1>5, QuietStep DEF StartPass, TypeOK, HistoriesKnow, world, durable, pass
<1>6. ASSUME ReadTasks PROVE RemindersInv'
  BY <1>a, <1>b, <1>6, QuietStep DEF ReadTasks, TypeOK, HistoriesKnow, world, durable, pass
<1>7. ASSUME CountAudience PROVE RemindersInv'
  <2> USE ObjectsAssumption, NamesAssumption DEF RemindersInv, world, durable, pass
  <2>1. AtMostOncePerDevice'
    BY <1>a, <1>7 DEF CountAudience, Fault, Subscribed, TypeOK, AtMostOncePerDevice, SendIsClaimed
  <2>2. SentOnlyWhenClaimed'
    BY <1>a, <1>7 DEF CountAudience, Fault, Subscribed, TypeOK, SentOnlyWhenClaimed, SendIsClaimed
  <2>3. SendIsClaimed'
    BY <1>a, <1>7 DEF CountAudience, Fault, Subscribed, TypeOK, SendIsClaimed, SentOnlyWhenClaimed
  <2>4. HistoriesKnow'
    BY <1>a, <1>7 DEF CountAudience, Fault, Subscribed, TypeOK, HistoriesKnow
  <2>5. TargetsAreConcerned'
    BY <1>a, <1>7 DEF CountAudience, Fault, Subscribed, TypeOK, TargetsAreConcerned,
       HistoriesKnow, Moments
  <2>6. OnlyThoseConcerned'
    BY <1>a, <1>7 DEF CountAudience, Fault, Subscribed, TypeOK, OnlyThoseConcerned,
       SendIsClaimed, TargetsAreConcerned, HistoriesKnow, Moments, Objects
  <2>7. HeldForTheFirstDevice'
    BY <1>a, <1>7 DEF CountAudience, Fault, Subscribed, TypeOK, HeldForTheFirstDevice, HistoriesKnow
  <2>8. QED
    BY <1>a, <2>1, <2>2, <2>3, <2>4, <2>5, <2>6, <2>7
<1>8. ASSUME ReadEvents PROVE RemindersInv'
  BY <1>a, <1>b, <1>8, QuietStep DEF ReadEvents, Fault, TypeOK, HistoriesKnow, world, durable, pass
<1>9. ASSUME NEW m \in Moments, Hold(m) PROVE RemindersInv'
  BY <1>a, <1>b, <1>9, QuietStep DEF Hold, TypeOK, HistoriesKnow, world, durable, pass
<1>10. ASSUME NEW m \in Moments, SkipHandled(m) PROVE RemindersInv'
  BY <1>a, <1>b, <1>10, QuietStep DEF SkipHandled, TypeOK, HistoriesKnow, world, durable, pass
<1>11. ASSUME NEW m \in Moments, Expire(m) PROVE RemindersInv'
  <2> USE ObjectsAssumption, NamesAssumption DEF RemindersInv, world, durable, pass
  <2>1. AtMostOncePerDevice'
    BY <1>a, <1>11 DEF Expire, TypeOK, AtMostOncePerDevice, SendIsClaimed
  <2>2. SentOnlyWhenClaimed'
    BY <1>a, <1>11 DEF Expire, TypeOK, SentOnlyWhenClaimed, SendIsClaimed
  <2>3. SendIsClaimed'
    BY <1>a, <1>11 DEF Expire, TypeOK, SendIsClaimed, SentOnlyWhenClaimed
  <2>4. HistoriesKnow'
    BY <1>a, <1>11 DEF Expire, TypeOK, HistoriesKnow
  <2>5. TargetsAreConcerned'
    BY <1>a, <1>11 DEF Expire, TypeOK, TargetsAreConcerned, HistoriesKnow, Moments
  <2>6. OnlyThoseConcerned'
    BY <1>a, <1>11 DEF Expire, TypeOK, OnlyThoseConcerned, SendIsClaimed, TargetsAreConcerned,
       HistoriesKnow, Moments, Objects
  <2>7. HeldForTheFirstDevice'
    BY <1>a, <1>11 DEF Expire, TypeOK, HeldForTheFirstDevice, HistoriesKnow
  <2>8. QED
    BY <1>a, <2>1, <2>2, <2>3, <2>4, <2>5, <2>6, <2>7
<1>12. ASSUME NEW m \in Moments, Claim(m) PROVE RemindersInv'
  <2> USE ObjectsAssumption, NamesAssumption DEF RemindersInv, world, durable, pass
  <2>1. AtMostOncePerDevice'
    BY <1>a, <1>12 DEF Claim, TypeOK, AtMostOncePerDevice, SendIsClaimed
  <2>2. SentOnlyWhenClaimed'
    BY <1>a, <1>12 DEF Claim, TypeOK, SentOnlyWhenClaimed, SendIsClaimed
  <2>3. SendIsClaimed'
    BY <1>a, <1>12 DEF Claim, TypeOK, SendIsClaimed, SentOnlyWhenClaimed
  <2>4. HistoriesKnow'
    BY <1>a, <1>12 DEF Claim, TypeOK, HistoriesKnow
  <2>5. TargetsAreConcerned'
    BY <1>a, <1>12 DEF Claim, TypeOK, TargetsAreConcerned, HistoriesKnow, Moments
  <2>6. OnlyThoseConcerned'
    BY <1>a, <1>12 DEF Claim, TypeOK, OnlyThoseConcerned, SendIsClaimed, TargetsAreConcerned,
       HistoriesKnow, Moments, Objects
  <2>7. HeldForTheFirstDevice'
    BY <1>a, <1>12 DEF Claim, TypeOK, HeldForTheFirstDevice, HistoriesKnow
  <2>8. QED
    BY <1>a, <2>1, <2>2, <2>3, <2>4, <2>5, <2>6, <2>7
<1>13. ASSUME EndPass PROVE RemindersInv'
  BY <1>a, <1>b, <1>13, QuietStep DEF EndPass, Forget, TypeOK, HistoriesKnow, world, durable, pass
<1>14. ASSUME ReadTargets PROVE RemindersInv'
  <2> USE ObjectsAssumption, NamesAssumption DEF RemindersInv, world, durable, pass
  <2>1. AtMostOncePerDevice'
    BY <1>a, <1>14 DEF ReadTargets, Fault, Reaching, Subscribed, TypeOK, AtMostOncePerDevice,
       SendIsClaimed
  <2>2. SentOnlyWhenClaimed'
    BY <1>a, <1>14 DEF ReadTargets, Fault, Reaching, Subscribed, TypeOK, SentOnlyWhenClaimed,
       SendIsClaimed
  <2>3. SendIsClaimed'
    BY <1>a, <1>14 DEF ReadTargets, Fault, Reaching, Subscribed, TypeOK, SendIsClaimed,
       SentOnlyWhenClaimed
  <2>4. HistoriesKnow'
    BY <1>a, <1>14 DEF ReadTargets, Fault, Reaching, Subscribed, TypeOK, HistoriesKnow
  <2>5. TargetsAreConcerned'
    BY <1>a, <1>14 DEF ReadTargets, Fault, Reaching, Subscribed, TypeOK, TargetsAreConcerned,
       HistoriesKnow, Moments
  <2>6. OnlyThoseConcerned'
    BY <1>a, <1>14 DEF ReadTargets, Fault, Reaching, Subscribed, TypeOK, OnlyThoseConcerned,
       SendIsClaimed, TargetsAreConcerned, HistoriesKnow, Moments, Objects
  <2>7. HeldForTheFirstDevice'
    BY <1>a, <1>14 DEF ReadTargets, Fault, Reaching, Subscribed, TypeOK, HeldForTheFirstDevice,
       HistoriesKnow
  <2>8. QED
    BY <1>a, <2>1, <2>2, <2>3, <2>4, <2>5, <2>6, <2>7
<1>15. ASSUME FinishSend PROVE RemindersInv'
  BY <1>a, <1>b, <1>15, QuietStep DEF FinishSend, TypeOK, HistoriesKnow, world, durable, pass
<1>16. ASSUME NEW e \in Endpoints, Push(e) PROVE RemindersInv'
  <2> USE ObjectsAssumption, NamesAssumption DEF RemindersInv, world, durable, pass
  <2>1. AtMostOncePerDevice'
    BY <1>a, <1>16 DEF Push, Fault, TypeOK, AtMostOncePerDevice, SendIsClaimed
  <2>2. SentOnlyWhenClaimed'
    BY <1>a, <1>16 DEF Push, Fault, TypeOK, SentOnlyWhenClaimed, SendIsClaimed
  <2>3. SendIsClaimed'
    BY <1>a, <1>16 DEF Push, Fault, TypeOK, SendIsClaimed, SentOnlyWhenClaimed
  <2>4. HistoriesKnow'
    BY <1>a, <1>16 DEF Push, Fault, TypeOK, HistoriesKnow
  <2>5. TargetsAreConcerned'
    BY <1>a, <1>16 DEF Push, Fault, TypeOK, TargetsAreConcerned, HistoriesKnow, Moments
  <2>6. OnlyThoseConcerned'
    <3> SUFFICES ASSUME NEW m \in Tasks \X Times, NEW f \in Endpoints, pushes'[m][f] > 0
                 PROVE  owners[f] \cap (responsible[m[1]] \cup {Everyone}) # {}
      BY <1>16 DEF Push, OnlyThoseConcerned
    <3>1. m \in Moments /\ m[1] \in Tasks
      BY DEF Moments, Objects
    <3>2. CASE m = sending /\ f = e
      BY <1>16, <3>1, <3>2 DEF Push, TargetsAreConcerned
    <3>3. CASE ~(m = sending /\ f = e)
      <4>1. pushes'[m][f] = pushes[m][f]
        BY <1>a, <1>16, <3>1, <3>3 DEF Push, TypeOK
      <4>2. QED
        BY <4>1 DEF OnlyThoseConcerned
    <3>4. QED
      BY <3>2, <3>3
  <2>7. HeldForTheFirstDevice'
    BY <1>a, <1>16 DEF Push, Fault, TypeOK, HeldForTheFirstDevice, HistoriesKnow
  <2>8. QED
    BY <1>a, <2>1, <2>2, <2>3, <2>4, <2>5, <2>6, <2>7
<1>17. ASSUME NEW e \in Endpoints, Prune(e) PROVE RemindersInv'
  <2> USE ObjectsAssumption, NamesAssumption DEF RemindersInv, world, durable, pass
  <2>1. AtMostOncePerDevice'
    BY <1>a, <1>17 DEF Prune, Fault, TypeOK, AtMostOncePerDevice, SendIsClaimed
  <2>2. SentOnlyWhenClaimed'
    BY <1>a, <1>17 DEF Prune, Fault, TypeOK, SentOnlyWhenClaimed, SendIsClaimed
  <2>3. SendIsClaimed'
    BY <1>a, <1>17 DEF Prune, Fault, TypeOK, SendIsClaimed, SentOnlyWhenClaimed
  <2>4. HistoriesKnow'
    BY <1>a, <1>17 DEF Prune, Fault, TypeOK, HistoriesKnow
  <2>5. TargetsAreConcerned'
    BY <1>a, <1>17 DEF Prune, Fault, TypeOK, TargetsAreConcerned, HistoriesKnow, Moments
  <2>6. OnlyThoseConcerned'
    BY <1>a, <1>17 DEF Prune, Fault, TypeOK, OnlyThoseConcerned, SendIsClaimed,
       TargetsAreConcerned, HistoriesKnow, Moments, Objects
  <2>7. HeldForTheFirstDevice'
    BY <1>a, <1>17 DEF Prune, Fault, TypeOK, HeldForTheFirstDevice, HistoriesKnow
  <2>8. QED
    BY <1>a, <2>1, <2>2, <2>3, <2>4, <2>5, <2>6, <2>7
<1>18. ASSUME ReadTasksFails PROVE RemindersInv'
  BY <1>a, <1>b, <1>18, QuietStep DEF ReadTasksFails, Forget, TypeOK, HistoriesKnow, world,
     durable, pass
<1>19. ASSUME NEW m \in Moments, ClaimFails(m) PROVE RemindersInv'
  BY <1>a, <1>b, <1>19, QuietStep DEF ClaimFails, Forget, TypeOK, HistoriesKnow, world,
     durable, pass
<1>20. ASSUME Crash PROVE RemindersInv'
  BY <1>a, <1>b, <1>20, QuietStep DEF Crash, Forget, TypeOK, HistoriesKnow, world, durable, pass
<1>21. ASSUME UNCHANGED vars PROVE RemindersInv'
  BY <1>a, <1>b, <1>21, QuietStep DEF vars, world, durable, pass, HistoriesKnow
<1>22. QED
  BY <1>1, <1>2, <1>3, <1>4, <1>5, <1>6, <1>7, <1>8, <1>9, <1>10, <1>11, <1>12, <1>13,
     <1>14, <1>15, <1>16, <1>17, <1>18, <1>19, <1>20, <1>21 DEF Next, Scheduler, Evaluate

-----------------------------------------------------------------------------

\* The invariant holds in every reachable state.
THEOREM RemindersInvariant == Spec => []RemindersInv
BY RemindersInit, RemindersStep, PTL DEF Spec

\* Every variable keeps its type.
THEOREM RemindersTypeCorrect == Spec => []TypeOK
BY RemindersInvariant, PTL DEF RemindersInv

\* However often the pass crashes, moments are read again and devices come and go, no
\* device is told of a moment twice.
THEOREM ToldAtMostOnce == Spec => []AtMostOncePerDevice
BY RemindersInvariant, PTL DEF RemindersInv

\* Nothing is sent that the state file does not hold as attempted.
THEOREM SentMeansClaimed == Spec => []SentOnlyWhenClaimed
BY RemindersInvariant, PTL DEF RemindersInv

\* A task's reminder reaches only devices of those it was assigned to.
THEOREM RemindersStayPrivate == Spec => []OnlyThoseConcerned
BY RemindersInvariant, PTL DEF RemindersInv

\* No reminder is used up before there is a device.
THEOREM FirstDeviceIsAwaited == Spec => []HeldForTheFirstDevice
BY RemindersInvariant, PTL DEF RemindersInv
=============================================================================
