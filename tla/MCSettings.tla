----------------------------- MODULE MCSettings -----------------------------
(* Two settings of two values each: a switch and a threshold.               *)
EXTENDS Settings

CONSTANTS active_control, peakshaving_threshold

TheNames == {active_control, peakshaving_threshold}
TheConfig == [s \in TheNames |-> 0]
=============================================================================
