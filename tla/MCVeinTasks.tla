----------------------------- MODULE MCVeinTasks ------------------------------
(* A getter of a whole entity and a setter of one of its components on one   *)
(* connection; v3 is a JSON object, which the new value of the setter is not. *)
EXTENDS VeinTasks

CONSTANTS e1, c1, c2, v1, v3, get, set

MCOrder == <<c1, c2>>
MCInitKeys == {<<e1, c1>>, <<e1, c2>>}
MCKind == [t \in Tasks |-> IF t = get THEN "entityGetter" ELSE "setter"]
MCTaskKey == [t \in Tasks |-> <<e1, c1>>]
MCTaskValue == [t \in Tasks |-> v1]
MCUnparsable == {<<v3, v1>>}
=============================================================================
