---- MODULE MCAutoPool ----
EXTENDS AutoPool

(* Three batteries, the second of which does not run below 2, and a house that
   asks for more than one of them delivers or for less than that minimum. *)
Three == {1, 2, 3}
InOrder == <<1, 2, 3>>
Weights == [c \in Three |-> IF c = 1 THEN 2 ELSE 1]
Limits == [c \in Three |-> IF c = 1 THEN 3 ELSE 2]
Minima == [c \in Three |-> IF c = 2 THEN 2 ELSE 0]
TheLoads == {-1, 4}
====
