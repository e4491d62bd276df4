------------------------------- MODULE MCFeed -------------------------------
(* Feed on a few requests, for TLC. *)
EXTENDS Feed, TLC

\* Sound for the safety runs only.
Interchangeable == Permutations(Requests)
=============================================================================
