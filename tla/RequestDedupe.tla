---------------------------- MODULE RequestDedupe ----------------------------
(***************************************************************************)
(* The request deduplicator both UDP emulators share (request_dedupe.py).  *)
(* The code keeps, per key, the clock reading of the last ACCEPTED         *)
(* request; the model keeps how long ago that was, in ticks, or NoEntry.   *)
(* A window of 0 disables the deduplicator: nothing is ever recorded.      *)
(***************************************************************************)
EXTENDS Integers

CONSTANT DedupeWindow

ASSUME DedupeWindowAssumption == DedupeWindow \in Nat

NoEntry == -1

\* should_process: the request repeats one accepted less than a window ago.
Repeats(last) == last # NoEntry /\ last < DedupeWindow

\* What should_process records for the key of a request it does not drop.
Accepted(last) == IF DedupeWindow > 0 THEN 0 ELSE last

\* What a request that should_process refuses leaves behind: the window stays
\* measured from the accepted one.
Dropped(last) == last

\* purge_older_than keeps the entries that are at most `horizon` old.
Purged(last, horizon) == IF last > horizon THEN NoEntry ELSE last
=============================================================================
