---------------------------- MODULE MCVeinLicense -----------------------------
(* Two systems and two devices: licenses that expire in either month or never, *)
(* for one device or all, two of them for one system, a universal license and *)
(* a file whose signature is bad.                                            *)
EXTENDS VeinLicense

CONSTANTS sys1, sys2, dev1

License(n, s, m) ==
  [isLicense |-> TRUE, universal |-> FALSE, system |-> n, serial |-> s, expires |-> m]

MCFiles ==
  {License(sys1, dev1, 0), License(sys1, AnySerial, 1), License(sys2, dev1, Never),
   [License(NoSystem, AnySerial, 1) EXCEPT !.universal = TRUE],
   [License(sys2, dev1, Never) EXCEPT !.universal = TRUE],
   [License(sys2, AnySerial, Never) EXCEPT !.isLicense = FALSE]}
=============================================================================
