-------------------------- MODULE CalendarsProofs ---------------------------
(***************************************************************************)
(* Proofs about Calendars for any people, any directory and any space:     *)
(* what a reader finds where, and that nothing is left out.                *)
(***************************************************************************)
EXTENDS Calendars, WellFoundedInduction, TLAPS

\* The two places that decide whose calendar has a task agree: collection_view lists it
\* for a reader in exactly the calendar that locate says serves it.  So whoever reads
\* meets a task once, and the calendar a move takes it from is the one it was seen in.
THEOREM ShownWhereServed ==
    ASSUME NEW space, NEW name \in DOMAIN space, space[name] \in Seq(People),
           NEW reader \in Readers, NEW key \in People \cup {Unassigned}
    PROVE  name \in View(space, key, reader) <=> key = ServedBy(space[name], reader)
<1> DEFINE shared == Len(space[name]) > 1 /\ reader \in Assigned(space[name])
<1>1. key # Flat
  BY CalendarsAssumption
<1>2. name \in SharedWith(space, reader) <=> shared
  BY DEF SharedWith
<1>3. name \in Collection(space, key) <=> FiledUnder(space[name]) = key
  BY DEF Collection
<1>4. ServedBy(space[name], reader) = IF shared THEN reader ELSE FiledUnder(space[name])
  BY DEF ServedBy
<1> HIDE DEF shared
<1>5. CASE key = reader
  BY <1>1, <1>2, <1>3, <1>4, <1>5 DEF View
<1>6. CASE key # reader
  BY <1>1, <1>2, <1>3, <1>4, <1>6 DEF View
<1>7. QED
  BY <1>5, <1>6

\* The comment of partition: no task vanishes from every calendar.  Nobody in particular
\* finds each task in a calendar of the home set, whoever the directory lists.
THEOREM NoTaskIsUnserved ==
    ASSUME NEW space, NEW name \in DOMAIN space, space[name] \in Seq(People),
           NEW members, members # {}, NEW holders
    PROVE  \E key \in Home(space, members, holders, Nobody) : name \in View(space, key, Nobody)
<1> DEFINE key == FiledUnder(space[name])
<1>1. key \in People \cup {Unassigned}
  BY DEF FiledUnder
<1>2. key \in Home(space, members, holders, Nobody)
  BY DEF Home, Collections
<1>3. Nobody \notin Assigned(space[name])
  BY CalendarsAssumption DEF Assigned
<1>4. ServedBy(space[name], Nobody) = key
  BY <1>3 DEF ServedBy
<1>5. Nobody \in Readers
  BY DEF Readers
<1> HIDE DEF key
<1>6. name \in View(space, key, Nobody)
  BY <1>1, <1>4, <1>5, ShownWhereServed
<1>7. QED
  BY <1>2, <1>6

\* A list no longer than one entry has every entry of it for its first.
LEMMA OnlyOneIsTheFirst ==
    ASSUME NEW S, NEW s \in Seq(S), NEW n \in DOMAIN s, ~(Len(s) > 1)
    PROVE  s # <<>> /\ s[1] = s[n]
<1>1. Len(s) \in Nat /\ DOMAIN s = 1 .. Len(s)
  OBVIOUS
<1>2. n \in Nat /\ 1 <= n /\ n <= Len(s)
  BY <1>1
<1>3. n = 1
  BY <1>1, <1>2
<1>4. s # <<>>
  BY <1>1, <1>2
<1>5. QED
  BY <1>3, <1>4

\* The comment of collection_view: a person sees the tasks they share with others without
\* looking in someone else's calendar.  Whoever may sign in finds every task they are
\* assigned to in their own calendar, which is in their home set.
THEOREM OwnTasksAreAtHome ==
    ASSUME NEW space, NEW name \in DOMAIN space, space[name] \in Seq(People),
           NEW members, NEW holders, NEW reader \in People \cap members \cap holders,
           reader \in Assigned(space[name])
    PROVE  reader \in Home(space, members, holders, reader) /\ name \in View(space, reader, reader)
<1>1. reader \in Home(space, members, holders, reader)
  BY DEF Home, Collections
<1>2. ServedBy(space[name], reader) = reader
  <2>1. PICK n \in DOMAIN space[name] : space[name][n] = reader
    BY DEF Assigned
  <2>2. CASE Len(space[name]) > 1
    BY <2>2 DEF ServedBy
  <2>3. CASE ~(Len(space[name]) > 1)
    BY <2>1, <2>3, OnlyOneIsTheFirst DEF ServedBy, FiledUnder
  <2>4. QED
    BY <2>2, <2>3
<1>3. reader \in Readers
  BY DEF Readers
<1>4. QED
  BY <1>1, <1>2, <1>3, ShownWhereServed

\* A set of numbers has a least one: induction, in the form the provers can use.
LEMMA LeastOne ==
    ASSUME NEW S \in SUBSET Nat, S # {}
    PROVE  \E n \in S : \A k \in S : n <= k
<1> DEFINE R == OpToRel(<, Nat)
<1>1. IsWellFoundedOn(R, Nat)
  BY NatLessThanWellFounded
<1>2. \A x, y \in S : <<y, x>> \in R <=> y < x
  BY DEF OpToRel
<1> HIDE DEF R
<1>3. PICK n \in S : \A k \in S : ~(<<k, n>> \in R)
  BY <1>1, WFMin, Zenon
<1>4. \A k \in S : ~(k < n)
  BY <1>2, <1>3, Zenon
<1>5. \A k \in S : k \in Nat /\ n \in Nat
  OBVIOUS
<1>6. \A k \in S : n <= k
  BY <1>4, <1>5, SMT
<1>7. QED
  BY <1>6

\* What is left of the assignees is a list of some of them, without those who leave.
LEMMA WithoutIsWithout ==
    ASSUME NEW S, NEW assignees \in Seq(S), NEW leaving
    PROVE  /\ Without(assignees, leaving) \in Seq(S)
           /\ Assigned(Without(assignees, leaving)) \subseteq Assigned(assignees) \ leaving
<1> DEFINE N == Len(assignees)
           At(f, n) == IF n = 0 THEN <<>>
                       ELSE IF assignees[n] \in leaving THEN f[n - 1]
                       ELSE Append(f[n - 1], assignees[n])
           Staying(f, n) == f = [k \in 0 .. n |-> At(f, k)]
<1>1. N \in Nat /\ DOMAIN assignees = 1 .. N /\ \A n \in 1 .. N : assignees[n] \in S
  OBVIOUS
<1>2. \A n \in 0 .. N : \E f : Staying(f, n)
  <2> DEFINE Missing == {n \in 0 .. N : ~(\E f : Staying(f, n))}
  <2> SUFFICES ASSUME Missing # {} PROVE FALSE
    OBVIOUS
  <2>1. PICK n \in Missing : \A k \in Missing : n <= k
    <3>1. Missing \in SUBSET Nat
      BY <1>1
    <3> HIDE DEF Missing
    <3>2. QED
      BY <3>1, LeastOne
  <2>2. n # 0
    <3>1. Staying([k \in 0 .. 0 |-> <<>>], 0)
      OBVIOUS
    <3> HIDE DEF Staying
    <3>2. \E f : Staying(f, 0)
      BY <3>1
    <3>3. QED
      BY <3>2
  <2>3. n \in Nat /\ n - 1 \in 0 .. N /\ n - 1 < n /\ 0 .. n = (0 .. (n - 1)) \cup {n}
    BY <1>1, <2>2
  <2>4. PICK f : Staying(f, n - 1)
    <3>1. ~(n <= n - 1)
      BY <2>3
    <3> HIDE DEF Staying
    <3>2. QED
      BY <2>1, <2>3, <3>1
  <2> DEFINE g == [k \in 0 .. n |-> IF k < n THEN f[k] ELSE At(f, n)]
  <2>5. \A k \in 0 .. n : g[k] = At(g, k)
    <3> TAKE k \in 0 .. n
    <3>1. CASE k = 0
      BY <2>3, <2>4, <3>1
    <3>2. CASE k # 0
      <4>1. k - 1 \in 0 .. n /\ k - 1 < n
        BY <2>3, <3>2
      <4>2. g[k - 1] = f[k - 1]
        BY <4>1
      <4>3. At(g, k) = At(f, k)
        BY <3>2, <4>2
      <4>4. g[k] = At(f, k)
        <5>1. CASE k = n
          BY <2>3, <5>1
        <5>2. CASE k # n
          <6>1. k \in 0 .. (n - 1) /\ k < n
            BY <2>3, <5>2
          <6> HIDE DEF At
          <6>2. f[k] = At(f, k)
            BY <2>4, <6>1
          <6>3. QED
            BY <6>1, <6>2
        <5>3. QED
          BY <5>1, <5>2
      <4>5. QED
        BY <4>3, <4>4
    <3>3. QED
      BY <3>1, <3>2
  <2>6. g = [k \in 0 .. n |-> g[k]]
    OBVIOUS
  <2> HIDE DEF g
  <2>7. Staying(g, n)
    BY <2>5, <2>6
  <2>8. QED
    BY <2>7
<1>3. PICK f : Staying(f, N) /\ Without(assignees, leaving) = f[N]
  <2>1. Without(assignees, leaving) = (CHOOSE f : Staying(f, N))[N]
    BY DEF Without
  <2>2. \E f : Staying(f, N)
    BY <1>1, <1>2
  <2> HIDE DEF Staying
  <2>3. Staying(CHOOSE f : Staying(f, N), N)
    BY <2>2, Zenon
  <2>4. QED
    BY <2>1, <2>3
<1> DEFINE Right(n) == f[n] \in Seq(S) /\ Assigned(f[n]) \subseteq Assigned(assignees) \ leaving
<1>4. Right(0)
  <2>1. f[0] = <<>>
    BY <1>1, <1>3
  <2>2. QED
    BY <2>1 DEF Assigned
<1>5. \A n \in 1 .. N : Right(n - 1) => Right(n)
  <2> TAKE n \in 1 .. N
  <2> HAVE Right(n - 1)
  <2>1. f[n] = IF assignees[n] \in leaving THEN f[n - 1] ELSE Append(f[n - 1], assignees[n])
    <3>1. n \in 0 .. N /\ n # 0
      BY <1>1
    <3>2. f[n] = At(f, n)
      <4> HIDE DEF At
      <4>1. QED
        BY <1>3, <3>1
    <3>3. QED
      BY <3>1, <3>2
  <2>2. CASE assignees[n] \in leaving
    BY <2>1, <2>2
  <2>3. CASE assignees[n] \notin leaving
    <3>1. f[n] = Append(f[n - 1], assignees[n]) /\ assignees[n] \in S
      BY <1>1, <2>1, <2>3
    <3>2. Assigned(f[n]) \subseteq Assigned(f[n - 1]) \cup {assignees[n]}
      BY <3>1 DEF Assigned
    <3>3. assignees[n] \in Assigned(assignees)
      BY <1>1 DEF Assigned
    <3>4. QED
      BY <2>3, <3>1, <3>2, <3>3
  <2>4. QED
    BY <2>2, <2>3
<1>6. Right(N)
  <2> DEFINE Wrong == {n \in 0 .. N : ~Right(n)}
  <2> HIDE DEF Right
  <2> SUFFICES ASSUME Wrong # {} PROVE FALSE
    BY <1>1
  <2>1. PICK n \in Wrong : \A k \in Wrong : n <= k
    <3>1. Wrong \in SUBSET Nat
      BY <1>1
    <3> HIDE DEF Wrong
    <3>2. QED
      BY <3>1, LeastOne
  <2>2. n # 0
    BY <1>4
  <2>3. n \in 1 .. N /\ n - 1 \in 0 .. N /\ ~(n <= n - 1)
    BY <1>1, <2>2
  <2>4. QED
    BY <1>5, <2>1, <2>3
<1>7. QED
  BY <1>3, <1>6
=============================================================================
