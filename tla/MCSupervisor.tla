---------------------------- MODULE MCSupervisor ----------------------------
(* An instance of Supervisor for TLC: two meters, and a CT002 with a Marstek  *)
(* responder beside a Shelly.                                                 *)
EXTENDS Supervisor
CONSTANTS ct002, shelly
Two == {ct002, shelly}
OnlyCT002 == {ct002}
=============================================================================
