---- MODULE MCShelly ----
EXTENDS Shelly

(* A meter of two phases, each an entity of its own. *)
TwoPhases == <<"l1", "l2">>
====
