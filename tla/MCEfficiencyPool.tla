--------------------------- MODULE MCEfficiencyPool ---------------------------
(* Instances of EfficiencyPool for TLC: the pools, and the full command set.  *)
(* The demands of the .cfg files lie on both sides of the thresholds: with    *)
(* EfficientPower 5 a demand of 5 keeps one battery busy, 12 keeps two busy   *)
(* with a fifth to spare, 0 keeps none.                                       *)
EXTENDS EfficiencyPool

Three == 1..3

\* Bounds of the search: one battery may be parked, while it reports; one at a
\* time is aside, one out.
OneMayPark == \A c \in Batteries : weight[c] = 0 => c = 1 /\ status[c] = "auto"
OneOfEach ==
    \A s \in {"aside", "out"} : Cardinality({c \in Batteries : status[c] = s}) <= 1
=============================================================================
