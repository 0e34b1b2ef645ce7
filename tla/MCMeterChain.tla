---------------------------- MODULE MCMeterChain ----------------------------
(* An instance of MeterChain for TLC: a meter without a throttle, whose reads  *)
(* overlap, and one whose throttle outlasts the probe's timeout.               *)
EXTENDS MeterChain

NoneOrTwo == {0, 2}
=============================================================================
