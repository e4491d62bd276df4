------------------------------ MODULE MCSeries ------------------------------
(* Series on a few days and meetings, for TLC. *)
EXTENDS Series

CONSTANTS plain, short

\* A series that has no end at first, is given one, and may lose it again.
Endless == <<plain, NoEnd>>
GivenForms == {Endless, <<plain, short>>}

\* What of a pass its later steps still read.
Needs(p) ==
    LET handling == p.at \notin {"stopped", "idle", "instances", "claiming", "upkeep"}
        writing == p.at = "recording" \/ \E job \in p.jobs : job.kind # "archive"
    IN <<p.at, p.upkeeping, p.todo, p.jobs, p.excludes,
         IF handling THEN <<p.day, p.id>> ELSE <<>>,
         IF ~p.upkeeping THEN <<p.saw, p.settled, p.instances>>
         ELSE <<IF writing THEN p.saw.form ELSE FirstForm,
                IF p.excludes # {} THEN p.saw.exdates ELSE {}>> >>

\* Nobody looks at what a meeting holds, nor whether it was touched, once it is gone.
Gone == {i \in Ids : meetings[i].status \in {"archived", "deleted"}}
Relevant ==
    <<series, claims, edits, faults, crashes, lost, twice, dropped,
      [i \in Ids |-> IF i \in Gone THEN [meetings[i] EXCEPT !.shape = FirstForm] ELSE meetings[i]],
      touched \ Gone, strayed \ Gone, [w \in Workers |-> Needs(pass[w])]>>
=============================================================================
