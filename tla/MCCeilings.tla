------------------------------ MODULE MCCeilings ------------------------------
(* One battery wanted beyond its limit on either side of zero.  Its slices of  *)
(* the grid error ask the pool clearly for less, or wind it up slowly, so that *)
(* a run of flat polls may bridge a rest in which it dips.  At 12 its commands *)
(* reverse from poll to poll, and hunting keeps its pushes down.               *)
EXTENDS Ceilings

Shares_learned == {-9, 12}
Slices_learned == {-5, 1}
=============================================================================
