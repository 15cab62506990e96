------------------------------ MODULE MCVeinNet ------------------------------
(* A small instance of VeinNet: one entity with one component.              *)
EXTENDS VeinNet

CONSTANTS e1, c1

MCOneOrder == <<c1>>
MCInitKeys == {<<e1, c1>>}
=============================================================================
