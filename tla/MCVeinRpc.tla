----------------------------- MODULE MCVeinRpc ------------------------------
(* A task client and a QML client; one procedure of each kind, and a name    *)
(* that two signatures contain.                                              *)
EXTENDS VeinRpc

MCCaller == [id \in Calls |-> IF id = "c1" THEN "task" ELSE "qml"]
MCProcOrder == <<"async", "missing", "simplified", "threaded">>
MCNames == Procs \cup {"part", "unknown"}
MCUses == [p \in Peers |->
  IF p = "qml" THEN {"async", "simplified", "threaded"} ELSE {"part", "unknown", "threaded"}]
MCMatches == {<<pr, pr>> : pr \in Procs} \cup {<<"missing", "part">>, <<"threaded", "part">>}
=============================================================================
