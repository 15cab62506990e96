---------------------------- MODULE MCVeinStorage ----------------------------
(* Small instance of VeinStorage: two components of one entity, each watched *)
(* by a consumer of its own.                                                 *)
EXTENDS VeinStorage, TLC

CONSTANTS e1, c1, c2, h1, h2

MCWatches == (h1 :> <<e1, c1>>) @@ (h2 :> <<e1, c2>>)
=============================================================================
