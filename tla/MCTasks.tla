------------------------------ MODULE MCTasks -------------------------------
(* Tasks on one name, a few people and requests, for TLC. *)
EXTENDS Tasks, TLC

\* Requests, people and fields are interchangeable: none is named, and there is no
\* liveness property.
Interchangeable == Permutations(Requests) \cup Permutations(People) \cup Permutations(Fields)

\* States that differ in what no step and no property looks at any more are one: what a
\* request was told and sent once it has written, and the feed once everybody has asked.
Working(r) == pc[r] \in {"get", "create", "update", "archive"}
ToAsk == \E r \in Requests : pc[r] \in {"idle", "locate"}
ToCome == \E r \in Requests : pc[r] = "idle"
Sent(r) ==
    CASE pc[r] = "create" -> [request[r] EXCEPT !.condition = "none", !.bump = 0]
      [] pc[r] = "update" /\ request[r].op = "PUT" -> [request[r] EXCEPT !.condition = "none"]
      [] pc[r] \in {"update", "archive"} -> [request[r] EXCEPT !.condition = "none", !.base = Absent]
      [] pc[r] \in {"locate", "get"} -> request[r]
      [] OTHER -> NotSent
Relevant ==
    <<past, pc, edits, faults,
      [r \in Requests |-> IF Working(r) THEN <<answer[r].body, patch[r], target[r]>> ELSE <<>>],
      [r \in Requests |-> Sent(r)],
      [r \in Requests |-> IF Working(r) \/ pc[r] = "locate" THEN asked_after[r] ELSE 0],
      IF ToAsk THEN body ELSE 0, IF ToCome THEN invalidated ELSE 0>>
=============================================================================
