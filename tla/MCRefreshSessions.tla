---------------------------- MODULE MCRefreshSessions ----------------------------
(* Small instances of RefreshSessions for TLC. *)
EXTENDS RefreshSessions, TLC

\* Requests are interchangeable, and so are clients.
Symmetry == Permutations(Requests) \cup Permutations(Clients)
================================================================================
