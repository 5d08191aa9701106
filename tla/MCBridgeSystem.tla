-------------------------- MODULE MCBridgeSystem --------------------------
(* BridgeSystem for TLC.  One unit of time is 100 ms. *)
EXTENDS BridgeSystem

CONSTANTS NaN

MCNonFinite == {NaN}

MCTwist(x) == [linear_x |-> x, linear_y |-> 0, angular_z |-> 0]
MCTwists == {MCTwist(1)}

=============================================================================
