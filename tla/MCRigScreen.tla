---------------------------- MODULE MCRigScreen ----------------------------
(***************************************************************************)
(* Days of two slots for RigScreen: a shift of two turns, and the next     *)
(* day's, which begins a slot later.                                       *)
(***************************************************************************)
EXTENDS RigScreen, TLC

CONSTANTS ann, bob, cat

Turns(k, seat, person) == k :> [from |-> k, seat |-> seat, person |-> person]

Today    == [day |-> 0, turn |-> Turns(0, "a1", ann) @@ Turns(1, "a2", bob)]
Covered  == [day |-> 0, turn |-> Turns(0, "a1", ann) @@ Turns(1, "a2", cat)]
Tomorrow == [day |-> 1, turn |-> (0 :> Nobody) @@ Turns(1, "a2", bob)]

\* A shift and the next day's.
TwoDays == {Today, Tomorrow}

\* A shift and the same seats with somebody else in one of them.
ACover == {Today, Covered}
=============================================================================
