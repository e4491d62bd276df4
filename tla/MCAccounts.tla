----------------------------- MODULE MCAccounts -----------------------------
(* Two people with two ids each, for TLC. *)
EXTENDS Accounts

CONSTANTS m, n,             \* memberships
          p, q              \* pages

Page(id, links) == [id |-> id, archived |-> FALSE, links |-> links]

\* Both have a page, or one's page names the other as well, or one has none yet.
PagesOfTwo ==
    {<<Page(p, {m}), Page(q, {n})>>, <<Page(p, {m, n}), Page(q, {n})>>, <<Page(p, {m}), Page(q, {})>>}

ByEitherId == {<<>>, <<m>>, <<m, n>>, <<q, m>>}

Space(pages, active, assignees) == 
    [pages |-> pages, active |-> active, assignees |-> assignees, known |-> TRUE]

\* Fewer edits to choose from: one of the two has a page.
OnePage == {Space(<<Page(q, {m})>>, {m, n}, <<n, m>>)}

SpacesOfTwo ==
    OnePage \cup {Space(pages, {m, n}, <<n, p>>) : pages \in PagesOfTwo} \cup
    {Space(<<Page(p, {m}), Page(q, {})>>, {n}, <<m>>), Space(<<Page(p, {m}), Page(q, {})>>, {m}, <<>>)}

Everyone == {m, n, p, q}
Logins == {p, q, Nobody}

\* What the next steps and the properties depend on: of a pass, only what it will put in
\* use, which the last one has done once it replaced the table; and of the two devices not
\* which is which.
Relevant ==
    LET pass == listing["scheduler"]
        at == IF passes = 0 /\ pass.at = "replaced" THEN "idle" ELSE pass.at
    IN <<space, listing["feed"], at, pass.carried, pass.pages, table, snapshot,
         {<<request[d], put[d], copy[d]>> : d \in Devices}, document,
         edits, failures, passes, turns, saves, errors>>
=============================================================================
