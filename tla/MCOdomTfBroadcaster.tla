------------------------ MODULE MCOdomTfBroadcaster ------------------------
(* OdomTfBroadcaster for TLC.  One unit of time is 50 ms, MaxDt is 0.1 s. *)
EXTENDS OdomTfBroadcaster

MCOffset == [a \in Axes |-> IF a = "roll" THEN 1 ELSE 0]
MCTilts == {-1, 1}
MCRates == {-2, 2}

=============================================================================
