----------------------------- MODULE MCPresence -----------------------------
(* Two batteries and a queue of two, so that a full queue drops an event    *)
(* and a battery can leave and return with both still waiting.              *)
EXTENDS Presence

CONSTANTS b1, b2

TheBatteries == {b1, b2}
=============================================================================
