---------------------------- MODULE MCVeinRecorder ----------------------------
(* A trigger and one recorded component of one entity, and another holder    *)
(* of the trigger; values are 0 and 1.                                       *)
EXTENDS VeinRecorder

CONSTANTS e1, c1, c2, h1, h2, w1

MCWatches == [h \in Consumers |-> IF h = h2 THEN <<e1, c2>> ELSE <<e1, c1>>]
=============================================================================
