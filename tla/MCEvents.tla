------------------------------ MODULE MCEvents ------------------------------
(* One event and a few requests for TLC. *)
EXTENDS Events, TLC

\* Clients and values are interchangeable, and there is no liveness property.
Interchangeable == Permutations(Clients) \cup Permutations(Values)

\* States that differ in what no step and no property looks at any more are one: what
\* a request was sent and read once others have disturbed it or it has written, and
\* what a last request leaves behind.
Reads(c) == pc[c] \in {"locate", "store", "get", "list"}
Compares(c) == Reads(c) /\ (request[c].op = "PUT" \/ request[c].condition = "If-Match")
Judged(c) == pc[c] = "apply" /\ ~disturbed[c]
ToCompare == turns > 0 \/ \E c \in Clients : Compares(c)
\* A request that writes a plan makes the service forget its snapshot when it ends.
ToLocate == \E c \in Clients :
    pc[c] = "locate" \/ (turns > 0 /\ pc[c] \notin {"apply", "delete", "invalidate"})

\* The last request is a GET or about a deadline, or has nothing left to write.
Spent == turns = 0 /\ \A c \in Clients :
            pc[c] \in {"idle", "invalidate"} \/ request[c].op = "GET" \/ request[c].of = "deadline"
Shape(object) == <<object.status, object.uid, object.dated, object.rule, object.series,
                   object.occurrence>>

Asked == {request[c].of : c \in Clients}
Compared(i) ==
    IF turns > 0 \/ "deadline" \in Asked THEN objects[i] ELSE [objects[i] EXCEPT !.deadline = None]
Writes(c, i) == Judged(c) /\ held[c].id \in {i, objects[i].series}
Object(i) ==
    <<Shape(objects[i]),
      IF \E c \in Clients : Reads(c) \/ Writes(c, i) \/ pc[c] = "delete"
        THEN objects[i].recurring ELSE FALSE,
      IF \E c \in Clients : Writes(c, i) THEN <<objects[i].value, objects[i].exdates>> ELSE <<>>>>

\* After the last turn a listing tells which objects have the name.
Names(listing) ==
    IF turns > 0 THEN listing
    ELSE {[r \in Asked |-> {one.id : one \in snapshot[r]}] : snapshot \in listing}

\* What others have disturbed is written and no longer judged.
Kept(c) ==
    CASE (pc[c] = "apply" /\ disturbed[c]) \/ pc[c] \in {"delete", "invalidate"} -> NotSent
      [] pc[c] = "deadline" -> [NotSent EXCEPT !.op = request[c].op]
      [] OTHER -> request[c]
Left(c) ==
    IF turns > 0 \/ ~(pc[c] = "apply" /\ disturbed[c]) THEN plan[c]
    ELSE <<{patch.rule : patch \in plan[c].master}, {write[1] : write \in plan[c].update},
           {write[1] : write \in plan[c].create}, plan[c].archive>>
Of(c) ==
    <<pc[c], Left(c), Kept(c), held[c].id, Names(held[c].listing),
      IF pc[c] = "list" THEN held[c].master ELSE {was.rule : was \in held[c].master},
      IF turns > 0 \/ Compares(c) \/ (Judged(c) /\ request[c].condition = "If-Match")
        THEN copy[c] ELSE {},
      pc[c] \in {"apply", "delete", "new"} /\ disturbed[c]>>
Relevant ==
    IF Spent THEN [i \in Ids |-> Shape(objects[i])]
    ELSE <<turns, [c \in Clients |-> Of(c)], IF ToLocate THEN Names(cache) ELSE {},
           [i \in Ids |-> IF ToCompare THEN Compared(i) ELSE Object(i)]>>
=============================================================================
