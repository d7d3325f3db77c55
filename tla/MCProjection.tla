---------------------------- MODULE MCProjection ----------------------------
(***************************************************************************)
(* Instances of Projection: what the rigs file in each.                    *)
(***************************************************************************)
EXTENDS Projection

CONSTANTS r1, r2, t1, t2, off, w1, w2

\* Takes of two turns, a block, and an outage that work or a standby rig_up
\* closes; the other kinds differ from these in name alone.
MixedFiling == ({"saved", "down", "stint"} \X {t1}) \cup {<<"saved", t2>>, <<"up", off>>}

\* What a turn hears of: a take, a block, an outage and its end.
TurnFiling == {"saved", "down", "up", "stint"} \X {t1}
=============================================================================
