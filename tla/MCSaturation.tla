---- MODULE MCSaturation ----
EXTENDS Saturation

(* One battery left a share on either side of zero, with a slice of the grid
   error that adds to it or takes from it. *)
TheShares == {-2, 3}
TheSlices == {-1, 1}
====
