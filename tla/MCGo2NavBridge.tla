-------------------------- MODULE MCGo2NavBridge --------------------------
(* Go2NavBridge for TLC.  One unit of time is 100 ms. *)
EXTENDS Go2NavBridge

CONSTANTS NaN, Inf

MCNonFinite == {NaN, Inf}

MCTwist(x, y, w) == [linear_x |-> x, linear_y |-> y, angular_z |-> w]

\* Too fast in two directions and broken in the third.
MCWild == {MCTwist(2, -3, NaN)}

\* A command to stand still, and one to move.
MCStandOrMove == {MCTwist(0, 0, 0), MCTwist(1, Inf, 0)}

=============================================================================
