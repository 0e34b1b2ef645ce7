------------------------------- MODULE MCCT002 -------------------------------
(* Instances of CT002 for TLC: what is too long for a .cfg. *)
EXTENDS CT002, TLC

Unset == AdaptiveTtl

\* Batteries and tasks are interchangeable (not under a liveness property).
Interchangeable == Permutations(Consumers) \cup Permutations(Tasks)

\* Every way a read can end where some meter serves every battery.
AnyRead == Readings \cup {NonFinite, Raised}

Phase == {"A", "0"}
Committed == {"A"}
Move == {0, 1}
Still == {0}
OneReading == {5}
=============================================================================
