------------------------------ MODULE MCVeinQml ------------------------------
(* Small instances of VeinQml: the system entity with its session, alone or  *)
(* with one further entity.                                                  *)
EXTENDS VeinQml

CONSTANTS e0, e1, c1

MCOrder == <<c1>>
MCInitKeys == Entities \X {c1}
MCSessionKey == <<e0, c1>>
=============================================================================
