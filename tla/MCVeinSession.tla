---------------------------- MODULE MCVeinSession ----------------------------
(* Small instance of VeinSession: two sessions, one of them with a displayed *)
(* name, and a name that does not exist.                                     *)
EXTENDS VeinSession

CONSTANTS s1, s2, s2Displayed, unknown

MCNames == {s1, s2, s2Displayed, unknown}
MCJsonName == [n \in MCNames |->
  IF n = s2Displayed THEN s2 ELSE IF n = unknown THEN NoSession ELSE n]
=============================================================================
