-------------------------- MODULE VeinLicenseProofs ---------------------------
(* Proofs about VeinLicense for any set of files, systems and devices and any *)
(* number of months.                                                         *)
EXTENDS VeinLicense, TLAPS

\* A license that is found in the table and passes both checks covers its system.
LEMMA CheckedIsCovered ==
  ASSUME LicenseInv, NEW n \in Systems, table[n] # NoFile,
         isValidLicenseDeviceSerial(table[n], serial), isValidLicenseExpiryDate(table[n], month)
  PROVE  n \in Covered(disk, month, serial)
  <1>1. table[n] \in LicensesOf(disk, n)
    BY DEF LicenseInv, Table
  <1> QED
    BY <1>1 DEF Covered

\* The constructor establishes the invariant.
LEMMA LicenseInvInit == Init => LicenseInv
  BY DEF Init, LicenseInv

\* An answer caches a system only if its license covers it.
LEMMA AskStep ==
  ASSUME LicenseInv, NEW n \in Systems, isSystemLicensed(n)
  PROVE  LicenseInv'
  <1>1. table' = table /\ disk' = disk /\ universal' = universal
    BY DEF isSystemLicensed, fileVars
  <1>2. (table \in Table(disk))'
    BY <1>1 DEF LicenseInv
  <1>3. earned' = earned \cup Covered(disk, month, serial)
    BY DEF isSystemLicensed, remember, fileVars, serialVars
  <1>4. CASE universal \/ n \in licensed
    <2>1. licensed' = licensed /\ granted' = granted \cup {n}
      BY <1>4 DEF isSystemLicensed
    <2> QED
      BY <1>1, <1>2, <1>3, <1>4, <2>1 DEF LicenseInv
  <1>5. CASE ~(universal \/ n \in licensed)
    <2>1. checkLicense(n)
      BY <1>5 DEF isSystemLicensed
    <2>2. CASE answer'.ok
      <3>1. n \in Covered(disk, month, serial)
        BY <2>1, <2>2, CheckedIsCovered DEF checkLicense
      <3>2. licensed' = licensed \cup {n} /\ granted' = granted \cup {n}
        BY <2>1, <2>2 DEF checkLicense, isSystemLicensed
      <3> QED
        BY <1>1, <1>2, <1>3, <3>1, <3>2 DEF LicenseInv
    <2>3. CASE ~answer'.ok
      <3>1. licensed' = licensed /\ granted' = granted
        BY <2>1, <2>3 DEF checkLicense, isSystemLicensed
      <3> QED
        BY <1>1, <1>2, <1>3, <3>1 DEF LicenseInv
    <2> QED
      BY <2>2, <2>3
  <1> QED
    BY <1>4, <1>5

\* Every step keeps the invariant.
LEMMA LicenseInvStep ==
  ASSUME LicenseInv, [Next]_vars
  PROVE  LicenseInv'
  <1>1. CASE LicenseSystem
    BY <1>1 DEF LicenseSystem, LicenseInv
  <1>2. CASE nextMonth
    BY <1>2 DEF nextMonth, LicenseInv, fileVars, remember
  <1>3. ASSUME NEW n \in Systems, isSystemLicensed(n)
        PROVE  LicenseInv'
    BY <1>3, AskStep
  <1>4. ASSUME NEW s \in Serials, processEvent(s)
        PROVE  LicenseInv'
    BY <1>4 DEF processEvent, setDeviceSerial, LicenseInv, fileVars, remember
  <1>5. CASE UNCHANGED vars
    BY <1>5 DEF vars, LicenseInv
  <1> QED
    BY <1>1, <1>2, <1>3, <1>4, <1>5 DEF Next

THEOREM LicenseInvariant == Spec => []LicenseInv
  BY LicenseInvInit, LicenseInvStep, PTL DEF Spec

\* Nobody is granted, now or out of the cache later, what no verified license
\* has covered since the start.
THEOREM OnlyEarnedGrants == Spec => []GrantsEarned
  <1>1. LicenseInv => GrantsEarned
    BY DEF LicenseInv, GrantsEarned
  <1> QED
    BY <1>1, LicenseInvariant, PTL

\* A refusal means that the system was not granted before and that its only
\* license does not cover it.
LEMMA RefusalStep ==
  ASSUME LicenseInv, [Next]_vars, answer' # answer, answer'.system # NoSystem, ~answer'.ok
  PROVE  LET n == answer'.system IN
         /\ n \notin granted
         /\ n \in Covered(disk, month, serial) => \E f, g \in LicensesOf(disk, n) : f # g
  <1>1. PICK n \in Systems : isSystemLicensed(n)
    BY DEF Next, LicenseSystem, nextMonth, processEvent, setDeviceSerial, NoAnswer, vars
  <1>2. ~universal /\ n \notin licensed /\ checkLicense(n)
    BY <1>1 DEF isSystemLicensed
  <1>3. answer'.system = n
    BY <1>2 DEF checkLicense
  <1>4. n \notin granted
    BY <1>2 DEF LicenseInv
  <1>5. ASSUME n \in Covered(disk, month, serial)
        PROVE  \E f, g \in LicensesOf(disk, n) : f # g
    <2>1. PICK f \in LicensesOf(disk, n) :
            isValidLicenseExpiryDate(f, month) /\ isValidLicenseDeviceSerial(f, serial)
      BY <1>5 DEF Covered
    <2>2. table[n] \in LicensesOf(disk, n)
      BY <2>1 DEF LicenseInv, Table
    <2>3. table[n] # NoFile
      BY <2>1, <2>2, LicenseConstants DEF LicenseInv, LicensesOf, Licenses
    <2>4. table[n] # f
      BY <1>2, <2>1, <2>3 DEF checkLicense
    <2> QED
      BY <2>1, <2>2, <2>4
  <1> QED
    BY <1>3, <1>4, <1>5

\* What was granted stays granted until the server restarts, and a valid license
\* that no other one hides is honoured.
THEOREM RefusalsAreRight == Spec => RefusedOnlyUncovered
  <1>1. LicenseInv /\ [Next]_vars =>
          [answer' # answer /\ answer'.system # NoSystem /\ ~answer'.ok =>
             LET n == answer'.system IN
             /\ n \notin granted
             /\ n \in Covered(disk, month, serial) =>
                  \E f, g \in LicensesOf(disk, n) : f # g]_vars
    BY RefusalStep
  <1> QED
    BY <1>1, LicenseInvariant, PTL DEF Spec, RefusedOnlyUncovered
=============================================================================
