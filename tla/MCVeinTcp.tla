------------------------------ MODULE MCVeinTcp ------------------------------
(* A connection with messages both ways and a client that only comes and     *)
(* goes; two-digit lengths in base 2: 0, 2 and the mark of the null array.      *)
EXTENDS VeinTcp

CONSTANTS c1, c2

MCMessages == {<<>>, <<1, 0>>}
MCMaxSent == [p \in Peers |->
  CASE p = <<c1, "client">> -> 2
    [] p = <<c1, "server">> -> 1
    [] OTHER -> 0]
=============================================================================
