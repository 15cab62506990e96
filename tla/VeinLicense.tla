----------------------------- MODULE VeinLicense ------------------------------
(***************************************************************************)
(* LicenseSystem: signed license files are read once when the server       *)
(* starts, the device serial arrives later in an event of the status       *)
(* module, and modules ask for their license whenever a session is built.  *)
(* Serial, date and files change while answers are cached.  Whether a      *)
(* signature is good is an attribute of the file.                          *)
(***************************************************************************)
EXTENDS Naturals

CONSTANTS
  Systems,     \* unique names of modules
  Serials,     \* device serials
  NoSerial,    \* "SERIAL NUMBER NOT FOUND!"
  AnySerial,   \* "universalSerial"
  NoSystem,    \* a license file without a uniqueSystemName
  NoFile,      \* the empty map a missing entry of the table is read as
  Files,       \* files that may be in the license directories
  LastMonth    \* bound: months the model runs

Never == LastMonth + 1

\* The fields of a license that are read; isLicense says that the file ends in
\* .p7m, carries a good signature and is JSON.  Every license has a system
\* name or is universal, as the assertions of the constructor demand.
ASSUME FileAssumption ==
  \A f \in Files :
    /\ f.isLicense \in BOOLEAN /\ f.universal \in BOOLEAN
    /\ f.system \in Systems \cup {NoSystem}
    /\ f.serial \in Serials \cup {AnySerial}
    /\ f.expires \in 0..Never
    /\ f.universal \/ f.system # NoSystem
ASSUME LicenseConstants ==
  /\ LastMonth \in Nat
  /\ NoSerial \notin Serials \cup {AnySerial} /\ AnySerial \notin Serials
  /\ NoSystem \notin Systems /\ NoFile \notin Files

VARIABLES
  disk,        \* the files found when the server started
  table,       \* m_verifiedLicenseDataTable: license per system name
  universal,   \* m_universalLicenseFound
  licensed,    \* m_licensedSystems, the cache of positive answers
  serial,      \* m_deviceSerial
  initialized, \* m_serialNumberInitialized
  month,       \* the current month
  answer,      \* the last answer to isSystemLicensed, or none since then
  granted,     \* history: systems granted since the start
  earned       \* history: systems that had a valid license at some time

fileVars == <<disk, table, universal>>
serialVars == <<serial, initialized>>
vars == <<disk, table, universal, licensed, serial, initialized, month, answer, granted, earned>>

NoAnswer == [system |-> NoSystem, ok |-> FALSE]

-----------------------------------------------------------------------------
\* A license expires at the end of its month.
isValidLicenseExpiryDate(f, m) == f.expires = Never \/ m <= f.expires

isValidLicenseDeviceSerial(f, s) == f.serial \in {AnySerial, s}

\* getLicenseFilesFromPath and verifyCMSSignature.
Licenses(files) == {f \in files : f.isLicense}

LicensesOf(files, n) == {f \in Licenses(files) : f.system = n}

\* Among licenses for one system the last one of a hash order stays.
Table(files) ==
  {t \in [Systems -> files \cup {NoFile}] :
     \A n \in Systems : IF LicensesOf(files, n) = {} THEN t[n] = NoFile
                                                     ELSE t[n] \in LicensesOf(files, n)}

\* The serial is not known when the files are read.
UniversalFound(files, m) ==
  \E f \in Licenses(files) :
    f.universal /\ isValidLicenseExpiryDate(f, m) /\ isValidLicenseDeviceSerial(f, NoSerial)

\* Systems with a license that is valid in month m on device s.
Covered(files, m, s) ==
  {n \in Systems : \E f \in LicensesOf(files, n) :
     isValidLicenseExpiryDate(f, m) /\ isValidLicenseDeviceSerial(f, s)}

Init ==
  /\ month = 0
  /\ disk \in SUBSET Files
  /\ table \in Table(disk)
  /\ universal = UniversalFound(disk, month)
  /\ licensed = {} /\ granted = {}
  /\ serial = NoSerial /\ initialized = FALSE
  /\ answer = NoAnswer
  /\ earned = Covered(disk, month, serial)

\* The history of valid licenses after a step.
remember == earned' = earned \cup Covered(disk', month', serial')

\* The server is started again, maybe with other license files.
LicenseSystem ==
  /\ disk' \in SUBSET Files
  /\ table' \in Table(disk')
  /\ universal' = UniversalFound(disk', month)
  /\ licensed' = {} /\ granted' = {}
  /\ serial' = NoSerial /\ initialized' = FALSE
  /\ answer' = NoAnswer
  /\ earned' = Covered(disk', month, NoSerial)
  /\ UNCHANGED month

\* Fault: the license is cached before its date is looked at.
checkLicenseEarly(n) ==
  LET f == table[n]
      ok == f # NoFile /\ isValidLicenseDeviceSerial(f, serial)
  IN /\ answer' = [system |-> n, ok |-> ok /\ isValidLicenseExpiryDate(f, month)]
     /\ licensed' = IF ok THEN licensed \cup {n} ELSE licensed

\* A system that is neither cached nor under a universal license.  A missing
\* entry has no serial, which no device has, and a license found under a name
\* carries that name.
checkLicense(n) ==
  LET f == table[n]
      ok == f # NoFile /\ isValidLicenseDeviceSerial(f, serial) /\ isValidLicenseExpiryDate(f, month)
  IN /\ answer' = [system |-> n, ok |-> ok]
     /\ licensed' = IF ok THEN licensed \cup {n} ELSE licensed

\* Fault: every answer is worked out again.
isSystemLicensedUncached(n) ==
  /\ IF universal THEN answer' = [system |-> n, ok |-> TRUE] /\ UNCHANGED licensed
     ELSE checkLicense(n)
  /\ granted' = IF answer'.ok THEN granted \cup {n} ELSE granted
  /\ UNCHANGED <<fileVars, serialVars, month>>
  /\ remember

isSystemLicensed(n) ==
  /\ IF universal \/ n \in licensed
       THEN answer' = [system |-> n, ok |-> TRUE] /\ UNCHANGED licensed
       ELSE checkLicense(n)
  /\ granted' = IF answer'.ok THEN granted \cup {n} ELSE granted
  /\ UNCHANGED <<fileVars, serialVars, month>>
  /\ remember

\* An empty serial is ignored.  The cache stays as it is.
setDeviceSerial(s) ==
  /\ serial' = s /\ initialized' = TRUE
  /\ answer' = NoAnswer
  /\ UNCHANGED <<fileVars, licensed, month, granted>>
  /\ remember

\* ADD or SET of PAR_SerialNr by the status module; other events, and events
\* of clients, are not looked at.
processEvent(s) == s # serial /\ setDeviceSerial(s)

\* Time passes.
nextMonth ==
  /\ month < LastMonth
  /\ month' = month + 1
  /\ answer' = NoAnswer
  /\ UNCHANGED <<fileVars, licensed, serialVars, granted>>
  /\ remember

Next ==
  \/ LicenseSystem
  \/ nextMonth
  \/ \E n \in Systems : isSystemLicensed(n)
  \/ \E s \in Serials : processEvent(s)

Spec == Init /\ [][Next]_vars

-----------------------------------------------------------------------------
(* Properties                                                              *)

\* No system is licensed that was not: whoever is granted, or will be because
\* it is cached, had a verified license of its own that was valid for serial
\* and date at some time since the start, or there is a universal license.
GrantsEarned ==
  /\ licensed \subseteq earned
  /\ ~universal => granted \subseteq earned

\* A module is not refused what it was granted before, whatever happens to date
\* and serial, nor what its license covers now, provided that no second
\* license for it hides the first.
RefusedOnlyUncovered ==
  [][answer' # answer /\ answer'.system # NoSystem /\ ~answer'.ok =>
       LET n == answer'.system IN
       /\ n \notin granted
       /\ n \in Covered(disk, month, serial) =>
            \E f, g \in LicensesOf(disk, n) : f # g]_vars

\* The inductive invariant behind both: without a universal license the cache is
\* exactly what was granted, and the table holds licenses under their names.
LicenseInv ==
  /\ disk \subseteq Files
  /\ table \in Table(disk)
  /\ licensed \subseteq earned
  /\ ~universal => granted = licensed
=============================================================================
