---------------------------- MODULE RequestReply -----------------------------
(***************************************************************************)
(* What a CT owes the batteries that poll it, whatever it does in between: *)
(* a poll it takes on opens ONE debt, and one reply (or a deliberate       *)
(* silence) settles it.  A poll that arrives while a reply is still owed   *)
(* adds nothing.  The reply is a correction the battery adds to its own    *)
(* output, so answering one measurement twice would move the battery       *)
(* twice.  Shutting the server down writes the open debts off.             *)
(***************************************************************************)
EXTENDS Naturals

CONSTANT Consumers

VARIABLE owed

Init == owed = [c \in Consumers |-> 0]

\* A poll the CT takes on.
Request(c) == owed[c] = 0 /\ owed' = [owed EXCEPT ![c] = 1]

\* The poll of c is settled: answered, or dropped on purpose.
Settle(c) == owed[c] = 1 /\ owed' = [owed EXCEPT ![c] = 0]

\* The server stops and abandons every poll it had taken on.
WriteOff == owed' = [c \in Consumers |-> 0]

Next == (\E c \in Consumers : Request(c) \/ Settle(c)) \/ WriteOff

Safety == Init /\ [][Next]_owed

\* Every debt is settled in the end.
Spec == Safety /\ \A c \in Consumers : WF_owed(Settle(c))
=============================================================================
