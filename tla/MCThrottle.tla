---------------------------- MODULE MCThrottle ----------------------------
(* Throttle on a small instance: two emails typed at two addresses, and    *)
(* the bucket of one address fills the table; room for one strike; the     *)
(* limiter of the resets is switched off.                                  *)
EXTENDS Throttle, TLC
CONSTANTS a1, a2, r1

Rates == [login |-> 1, reset |-> 0, rig |-> 2]
Bursts == [login |-> 1, reset |-> 1, rig |-> 1]
Placed == r1 :> a1
Issued == r1 :> r1
============================================================================
