--------------------------- MODULE LunTestsProofs ---------------------------
(***************************************************************************)
(* What a passing functional test has done, for any number of sources and  *)
(* LUNs: the promise is carried through the test by an invariant that says *)
(* of every LUN that it has been verified or is still to be tested, and of *)
(* every device that it has been tried or is still to be tried.            *)
(***************************************************************************)
EXTENDS LunTests, TLAPS

Short    == IF handler = "hba" THEN 1 ELSE 0
Testing  == pc \in {"io", "paths"}
Ending   == pc \in {"logout", "done"}
Passing  == retval = TRUE
Verified(l) == \E d \in writable : d[2] = l
Waiting(l)  == l \in luns \/ (pc = "paths" /\ l = lun)
Tried(d)    == d \in tried \/ d = rootdev
AllTried(s) == \A d \in Exposed(s) : Tried(d)

\* What is still to be earned at every place of the test.
MarksInv == /\ pc = "discover" => Passing /\ checkpoint = 0 /\ total = 4
            /\ pc = "report" => Passing /\ checkpoint = 2 /\ total = 4
            /\ pc = "io" => Passing /\ checkpoint = total - 1 - Short
            /\ pc = "paths" => Passing /\ checkpoint = total - 2 - Short
            /\ Ending /\ ~Passing => checkpoint < total
            /\ Ending /\ Passing => checkpoint = total - Short

\* The list of a portal is complete once it has been asked; no promised LUN
\* is lost between the report and the verdict.
ListedInv == handler = "iscsi" /\ (pc = "report" \/ Testing) =>
               \A s \in listed : s \in todo \/ Exposed(s) \subseteq known
PromiseInv == /\ Testing => \A l \in Promised : Waiting(l) \/ Verified(l)
              /\ Ending /\ Passing => \A l \in Promised : Verified(l)
CountInv == pc = "paths" => path_passed = 0 \/ Verified(lun)
TriedInv == /\ Testing => todo = {}
            /\ Testing /\ handler = "iscsi" =>
                 \A d \in known : Tried(d) \/ d \in untried \/ d[2] \in luns
            /\ pc # "paths" /\ ~Ending => untried = {}
            /\ Ending /\ Passing /\ handler = "iscsi" => \A s \in listed : AllTried(s)

SessionInv == /\ sessions \subseteq before \cup logoutlist \cup stuck
              /\ pc = "done" => logoutlist = {}
              /\ handler = "hba" => sessions = before /\ logoutlist = {}

\* Nothing that must not be written gets near the IO test.
May(d) == d[1] \in listed /\ (handler = "hba" => ~RootOf(d[1]))
WriteInv == /\ \A d \in known : May(d)
            /\ \A d \in written : May(d) /\ (handler = "hba" => d[2] \in requested)
            /\ handler = "hba" => luns \subseteq requested
            /\ pc = "discover" => known = {} /\ written = {}
            /\ pc = "paths" => /\ handler = "hba" => lun \in requested
                               /\ \A d \in untried : d[2] = lun

IInv == /\ TypeOK /\ MarksInv /\ ListedInv /\ PromiseInv /\ CountInv /\ TriedInv
        /\ SessionInv /\ WriteInv

\* What it is to be a device of a source.
LEMMA ExposedDevices ==
  ASSUME TypeOK, NEW s \in Source
  PROVE  /\ Exposed(s) \subseteq Device
         /\ \A d \in Exposed(s) : d[1] = s /\ d[2] \in exposes[s]
         /\ \A l \in exposes[s] : <<s, l>> \in Exposed(s) /\ <<s, l>>[2] = l
  BY DEF Exposed, Device, TypeOK, SetupType

LEMMA DeviceLun == ASSUME NEW d \in Device PROVE d[1] \in Source /\ d[2] \in Lun
  BY DEF Device

\* Nothing has been promised yet, and nothing has been done.
LEMMA InitInv == Init => IInv
<1> SUFFICES ASSUME Init PROVE IInv
  OBVIOUS
<1> USE DEF Init
<1>1. TypeOK
  <2>1. SetupType /\ ScanType /\ IoType /\ HistoryType /\ PcType
    BY HandlerAssumption DEF SetupType, ScanType, IoType, HistoryType, PcType
  <2>2. MarksType /\ FlagType
    BY DEF MarksType, FlagType
  <2> QED
    BY <2>1, <2>2 DEF TypeOK
<1>2. MarksInv /\ ListedInv /\ PromiseInv /\ CountInv /\ TriedInv
  BY DEF MarksInv, ListedInv, PromiseInv, CountInv, TriedInv, Testing, Ending, Passing
<1>3. SessionInv /\ WriteInv
  BY DEF SessionInv, WriteInv
<1> QED
  BY <1>1, <1>2, <1>3 DEF IInv

\* No step leaves a type.
LEMMA TypeStep ==
  ASSUME IInv, [Next]_vars PROVE TypeOK'
<1> USE DEF IInv, TypeOK, SetupType, ScanType, IoType, MarksType, FlagType, PcType,
        HistoryType, WriteInv, setup, scan, io, marks, history
<1>1. CASE DiscoverPortals
  <2>1. SetupType'
    BY <1>1 DEF DiscoverPortals, Credit, Raise
  <2>2. ScanType'
    BY <1>1 DEF DiscoverPortals, Credit, Raise
  <2>3. IoType'
    BY <1>1 DEF DiscoverPortals, Credit, Raise
  <2>4. MarksType'
    BY <1>1 DEF DiscoverPortals, Credit, Raise
  <2>5. FlagType'
    BY Zenon, <1>1 DEF DiscoverPortals, Credit, Raise
  <2>6. PcType'
    BY <1>1 DEF DiscoverPortals, Credit, Raise
  <2>7. HistoryType'
    BY <1>1 DEF DiscoverPortals, Credit, Raise
  <2> QED
    BY <2>1, <2>2, <2>3, <2>4, <2>5, <2>6, <2>7
<1>2. CASE DiscoverAdapters
  <2>1. SetupType'
    BY <1>2 DEF DiscoverAdapters, Adapters, Credit, Raise
  <2>2. ScanType'
    BY <1>2 DEF DiscoverAdapters, Adapters, Credit, Raise
  <2>3. IoType'
    BY <1>2 DEF DiscoverAdapters, Adapters, Credit, Raise
  <2>4. MarksType'
    BY <1>2 DEF DiscoverAdapters, Adapters, Credit, Raise
  <2>5. FlagType'
    BY Zenon, <1>2 DEF DiscoverAdapters, Adapters, Credit, Raise
  <2>6. PcType'
    BY <1>2 DEF DiscoverAdapters, Adapters, Credit, Raise
  <2>7. HistoryType'
    BY <1>2 DEF DiscoverAdapters, Adapters, Credit, Raise
  <2> QED
    BY <2>1, <2>2, <2>3, <2>4, <2>5, <2>6, <2>7
<1>3. CASE ReportPortal
  <2>1. SetupType'
    BY <1>3 DEF ReportPortal, Estimate, Raise
  <2>2. ScanType'
    <3>1. PICK s \in todo : known' = known \/ known' = known \cup Exposed(s)
      BY <1>3 DEF ReportPortal, Estimate, Raise
    <3>2. Exposed(s) \subseteq Device
      BY ExposedDevices
    <3>3. reference' \in SUBSET Lun
      BY <1>3 DEF ReportPortal, Estimate, Raise
    <3> QED
      BY <1>3, <3>1, <3>2, <3>3 DEF ReportPortal, Estimate, Raise
  <2>3. IoType'
    BY <1>3 DEF ReportPortal, Estimate, Raise
  <2>4. MarksType'
    BY <1>3 DEF ReportPortal, Estimate, Raise
  <2>5. FlagType'
    BY Zenon, <1>3 DEF ReportPortal, Estimate, Raise
  <2>6. PcType'
    BY <1>3 DEF ReportPortal, Estimate, Raise
  <2>7. HistoryType'
    <3>1. PICK s \in todo : written' \subseteq written \cup Exposed(s)
      BY <1>3 DEF ReportPortal, Estimate, Raise
    <3>2. Exposed(s) \subseteq Device
      BY ExposedDevices
    <3>3. written \subseteq written' /\ UNCHANGED <<tried, writable, stuck>>
      BY <1>3 DEF ReportPortal, Estimate, Raise
    <3> QED
      BY <3>1, <3>2, <3>3
  <2> QED
    BY <2>1, <2>2, <2>3, <2>4, <2>5, <2>6, <2>7
<1>4. CASE ReportAdapter
  <2>1. SetupType'
    BY <1>4 DEF ReportAdapter, HasLuns, Estimate, Credit, Compares
  <2>2. ScanType'
    <3>1. PICK s \in todo : known' \subseteq known \cup Exposed(s)
      BY <1>4 DEF ReportAdapter, HasLuns, Estimate, Credit, Compares
    <3>2. Exposed(s) \subseteq Device
      BY ExposedDevices
    <3>3. reference' \in SUBSET Lun
      BY <1>4 DEF ReportAdapter, HasLuns, Estimate, Credit, Compares
    <3> QED
      BY <1>4, <3>1, <3>2, <3>3 DEF ReportAdapter, HasLuns, Estimate, Credit, Compares
  <2>3. IoType'
    BY <1>4 DEF ReportAdapter, HasLuns, Estimate, Credit, Compares
  <2>4. MarksType'
    BY <1>4 DEF ReportAdapter, HasLuns, Estimate, Credit, Compares
  <2>5. FlagType'
    BY Zenon, <1>4 DEF ReportAdapter, HasLuns, Estimate, Credit, Compares
  <2>6. PcType'
    BY <1>4 DEF ReportAdapter, HasLuns, Estimate, Credit, Compares
  <2>7. HistoryType'
    <3>1. PICK s \in todo : written' \subseteq written \cup Exposed(s)
      BY <1>4 DEF ReportAdapter, HasLuns, Estimate, Credit, Compares
    <3>2. Exposed(s) \subseteq Device
      BY ExposedDevices
    <3>3. written \subseteq written' /\ UNCHANGED <<tried, writable, stuck>>
      BY <1>4 DEF ReportAdapter, HasLuns, Estimate, Credit, Compares
    <3> QED
      BY <3>1, <3>2, <3>3
  <2> QED
    BY <2>1, <2>2, <2>3, <2>4, <2>5, <2>6, <2>7
<1>5. CASE StartIscsiIo
  <2>1. SetupType'
    BY <1>5 DEF StartIscsiIo, Credit
  <2>2. ScanType'
    BY <1>5 DEF StartIscsiIo, Credit
  <2>3. IoType'
    BY <1>5, DeviceLun DEF StartIscsiIo, Credit
  <2>4. MarksType'
    BY <1>5 DEF StartIscsiIo, Credit
  <2>5. FlagType'
    BY Zenon, <1>5 DEF StartIscsiIo, Credit
  <2>6. PcType'
    BY <1>5 DEF StartIscsiIo, Credit
  <2>7. HistoryType'
    BY <1>5 DEF StartIscsiIo, Credit
  <2> QED
    BY <2>1, <2>2, <2>3, <2>4, <2>5, <2>6, <2>7
<1>6. CASE StartHbaIo
  <2>1. SetupType'
    BY <1>6 DEF StartHbaIo, Credit, Raise
  <2>2. ScanType'
    BY <1>6 DEF StartHbaIo, Credit, Raise
  <2>3. IoType'
    BY <1>6 DEF StartHbaIo, Credit, Raise
  <2>4. MarksType'
    BY <1>6 DEF StartHbaIo, Credit, Raise
  <2>5. FlagType'
    BY Zenon, <1>6 DEF StartHbaIo, Credit, Raise
  <2>6. PcType'
    BY <1>6 DEF StartHbaIo, Credit, Raise
  <2>7. HistoryType'
    BY <1>6 DEF StartHbaIo, Credit, Raise
  <2> QED
    BY <2>1, <2>2, <2>3, <2>4, <2>5, <2>6, <2>7
<1>7. CASE StartLun
  <2>1. SetupType'
    BY <1>7 DEF StartLun
  <2>2. ScanType'
    BY <1>7 DEF StartLun
  <2>3. IoType'
    BY <1>7 DEF StartLun
  <2>4. MarksType'
    BY <1>7 DEF StartLun
  <2>5. FlagType'
    BY Zenon, <1>7 DEF StartLun
  <2>6. PcType'
    BY <1>7 DEF StartLun
  <2>7. HistoryType'
    BY <1>7 DEF StartLun
  <2> QED
    BY <2>1, <2>2, <2>3, <2>4, <2>5, <2>6, <2>7
<1>8. CASE TestPath
  <2>1. SetupType'
    BY <1>8 DEF TestPath, DiskDataTest
  <2>2. ScanType'
    BY <1>8 DEF TestPath, DiskDataTest
  <2>3. IoType'
    BY <1>8 DEF TestPath, DiskDataTest
  <2>4. MarksType'
    BY <1>8 DEF TestPath, DiskDataTest
  <2>5. FlagType'
    BY Zenon, <1>8 DEF TestPath, DiskDataTest
  <2>6. PcType'
    BY <1>8 DEF TestPath, DiskDataTest
  <2>7. HistoryType'
    BY <1>8 DEF TestPath, DiskDataTest
  <2> QED
    BY <2>1, <2>2, <2>3, <2>4, <2>5, <2>6, <2>7
<1>9. CASE EndLun
  <2>1. SetupType'
    BY <1>9 DEF EndLun, Credit, Raise
  <2>2. ScanType'
    BY <1>9 DEF EndLun, Credit, Raise
  <2>3. IoType'
    BY <1>9 DEF EndLun, Credit, Raise
  <2>4. MarksType'
    BY <1>9 DEF EndLun, Credit, Raise
  <2>5. FlagType'
    BY Zenon, <1>9 DEF EndLun, Credit, Raise
  <2>6. PcType'
    BY <1>9 DEF EndLun, Credit, Raise
  <2>7. HistoryType'
    BY <1>9 DEF EndLun, Credit, Raise
  <2> QED
    BY <2>1, <2>2, <2>3, <2>4, <2>5, <2>6, <2>7
<1>10. CASE EndIo
  <2>1. SetupType'
    BY <1>10 DEF EndIo, Credit
  <2>2. ScanType'
    BY <1>10 DEF EndIo, Credit
  <2>3. IoType'
    BY <1>10 DEF EndIo, Credit
  <2>4. MarksType'
    BY <1>10 DEF EndIo, Credit
  <2>5. FlagType'
    BY Zenon, <1>10 DEF EndIo, Credit
  <2>6. PcType'
    BY <1>10 DEF EndIo, Credit
  <2>7. HistoryType'
    BY <1>10 DEF EndIo, Credit
  <2> QED
    BY <2>1, <2>2, <2>3, <2>4, <2>5, <2>6, <2>7
<1>11. CASE Logout
  <2>1. SetupType'
    BY <1>11 DEF Logout
  <2>2. ScanType'
    BY <1>11 DEF Logout
  <2>3. IoType'
    BY <1>11 DEF Logout
  <2>4. MarksType'
    BY <1>11 DEF Logout
  <2>5. FlagType'
    BY Zenon, <1>11 DEF Logout
  <2>6. PcType'
    BY <1>11 DEF Logout
  <2>7. HistoryType'
    BY <1>11 DEF Logout
  <2> QED
    BY <2>1, <2>2, <2>3, <2>4, <2>5, <2>6, <2>7
<1>12. CASE Return
  <2>1. SetupType'
    BY <1>12 DEF Return
  <2>2. ScanType'
    BY <1>12 DEF Return
  <2>3. IoType'
    BY <1>12 DEF Return
  <2>4. MarksType'
    BY <1>12 DEF Return
  <2>5. FlagType'
    BY Zenon, <1>12 DEF Return
  <2>6. PcType'
    BY <1>12 DEF Return
  <2>7. HistoryType'
    BY <1>12 DEF Return
  <2> QED
    BY <2>1, <2>2, <2>3, <2>4, <2>5, <2>6, <2>7
<1>13. CASE UNCHANGED vars
  <2>1. SetupType'
    BY <1>13 DEF vars
  <2>2. ScanType'
    BY <1>13 DEF vars
  <2>3. IoType'
    BY <1>13 DEF vars
  <2>4. MarksType'
    BY <1>13 DEF vars
  <2>5. FlagType'
    BY Zenon, <1>13 DEF vars
  <2>6. PcType'
    BY <1>13 DEF vars
  <2>7. HistoryType'
    BY <1>13 DEF vars
  <2> QED
    BY <2>1, <2>2, <2>3, <2>4, <2>5, <2>6, <2>7
<1> QED
  BY <1>1, <1>2, <1>3, <1>4, <1>5, <1>6, <1>7, <1>8, <1>9, <1>10, <1>11, <1>12, <1>13 DEF Next, Finished

\* What a failure does to the result.
LEMMA RaiseFails == Raise => pc' = "logout" /\ ~Passing'
  BY Zenon DEF Raise, Passing

LEMMA SamePassing == retval' = retval => (Passing' <=> Passing)
  BY Zenon DEF Passing

\* Every step earns what the ledger says.
LEMMA MarksStep ==
  ASSUME IInv, [Next]_vars PROVE MarksInv'
<1> USE RaiseFails, SamePassing DEF IInv, TypeOK, SetupType, MarksType, MarksInv,
        Short, Testing, Ending, setup, scan, io, marks, history
<1>1. CASE DiscoverPortals
  BY <1>1 DEF DiscoverPortals, Credit
<1>2. CASE DiscoverAdapters
  BY <1>2 DEF DiscoverAdapters, Adapters, Credit
<1>3. CASE ReportPortal
  BY <1>3 DEF ReportPortal, Estimate
<1>4. CASE ReportAdapter
  BY <1>4 DEF ReportAdapter, HasLuns, Estimate, Credit, Compares
<1>5. CASE StartIscsiIo
  BY <1>5 DEF StartIscsiIo, Credit
<1>6. CASE StartHbaIo
  BY <1>6 DEF StartHbaIo, Credit
<1>7. CASE StartLun
  BY <1>7 DEF StartLun
<1>8. CASE TestPath
  BY <1>8 DEF TestPath, DiskDataTest
<1>9. CASE EndLun
  BY <1>9 DEF EndLun, Credit
<1>10. CASE EndIo
  BY <1>10 DEF EndIo, Credit
<1>11. CASE Logout
  BY <1>11 DEF Logout
<1>12. CASE Return
  BY <1>12 DEF Return
<1>13. CASE UNCHANGED vars
  BY <1>13 DEF vars
<1> QED
  BY <1>1, <1>2, <1>3, <1>4, <1>5, <1>6, <1>7, <1>8, <1>9, <1>10, <1>11, <1>12, <1>13 DEF Next, Finished

\* A session that is opened is remembered until it is closed or refuses to be.
LEMMA SessionStep ==
  ASSUME IInv, [Next]_vars PROVE SessionInv'
<1> USE DEF IInv, TypeOK, SetupType, IoType, SessionInv, setup, scan, io, marks, history
<1>1. CASE DiscoverPortals
  BY <1>1 DEF DiscoverPortals, Credit, Raise
<1>2. CASE DiscoverAdapters
  BY <1>2 DEF DiscoverAdapters, Adapters, Credit, Raise
<1>3. CASE ReportPortal
  BY <1>3 DEF ReportPortal, Estimate, Raise
<1>4. CASE ReportAdapter
  BY <1>4 DEF ReportAdapter, HasLuns, Estimate, Credit, Compares
<1>5. CASE StartIscsiIo
  BY <1>5 DEF StartIscsiIo, Credit
<1>6. CASE StartHbaIo
  BY <1>6 DEF StartHbaIo, Credit, Raise
<1>7. CASE StartLun
  BY <1>7 DEF StartLun
<1>8. CASE TestPath
  BY <1>8 DEF TestPath, DiskDataTest
<1>9. CASE EndLun
  BY <1>9 DEF EndLun, Credit, Raise
<1>10. CASE EndIo
  BY <1>10 DEF EndIo, Credit
<1>11. CASE Logout
  BY <1>11 DEF Logout
<1>12. CASE Return
  BY <1>12 DEF Return
<1>13. CASE UNCHANGED vars
  BY <1>13 DEF vars
<1> QED
  BY <1>1, <1>2, <1>3, <1>4, <1>5, <1>6, <1>7, <1>8, <1>9, <1>10, <1>11, <1>12, <1>13 DEF Next, Finished

\* Only permitted devices are recorded, queued and written to.
LEMMA WriteStep ==
  ASSUME IInv, TypeOK', [Next]_vars PROVE WriteInv'
<1> USE DEF IInv, TypeOK, WriteInv, May, RootOf, Exposed, SetupType, ScanType,
        IoType, HistoryType, setup, scan, io, marks, history
<1>1. CASE DiscoverPortals
  BY <1>1 DEF DiscoverPortals, Credit, Raise
<1>2. CASE DiscoverAdapters
  BY <1>2 DEF DiscoverAdapters, Adapters, Credit, Raise
<1>3. CASE ReportPortal
  BY <1>3 DEF ReportPortal, Estimate, Raise
<1>4. CASE ReportAdapter
  BY <1>4 DEF ReportAdapter, HasLuns, Estimate, Credit, Compares
<1>5. CASE StartIscsiIo
  BY <1>5 DEF StartIscsiIo, Credit
<1>6. CASE StartHbaIo
  BY <1>6 DEF StartHbaIo, Credit, Raise
<1>7. CASE StartLun
  BY <1>7 DEF StartLun
<1>8. CASE TestPath
  BY <1>8 DEF TestPath, DiskDataTest
<1>9. CASE EndLun
  BY <1>9 DEF EndLun, Credit, Raise
<1>10. CASE EndIo
  BY <1>10 DEF EndIo, Credit
<1>11. CASE Logout
  BY <1>11 DEF Logout
<1>12. CASE Return
  BY <1>12 DEF Return
<1>13. CASE UNCHANGED vars
  BY <1>13 DEF vars
<1> QED
  BY <1>1, <1>2, <1>3, <1>4, <1>5, <1>6, <1>7, <1>8, <1>9, <1>10, <1>11, <1>12, <1>13 DEF Next, Finished

\* A portal that has been asked has all its LUNs in the map.
LEMMA ListedStep ==
  ASSUME IInv, [Next]_vars PROVE ListedInv'
<1> USE DEF IInv, TypeOK, ListedInv, Testing, Exposed, ScanType, setup, scan, io,
        marks, history
<1>1. CASE DiscoverPortals
  BY <1>1 DEF DiscoverPortals, Credit, Raise
<1>2. CASE DiscoverAdapters
  BY <1>2 DEF DiscoverAdapters, Adapters, Credit, Raise
<1>3. CASE ReportPortal
  BY <1>3 DEF ReportPortal, Estimate, Raise
<1>4. CASE ReportAdapter
  BY <1>4 DEF ReportAdapter, HasLuns, Estimate, Credit, Compares
<1>5. CASE StartIscsiIo
  BY <1>5 DEF StartIscsiIo, Credit
<1>6. CASE StartHbaIo
  BY <1>6 DEF StartHbaIo, Credit, Raise
<1>7. CASE StartLun
  BY <1>7 DEF StartLun
<1>8. CASE TestPath
  BY <1>8 DEF TestPath, DiskDataTest
<1>9. CASE EndLun
  BY <1>9 DEF EndLun, Credit, Raise
<1>10. CASE EndIo
  BY <1>10 DEF EndIo, Credit
<1>11. CASE Logout
  BY <1>11 DEF Logout
<1>12. CASE Return
  BY <1>12 DEF Return
<1>13. CASE UNCHANGED vars
  BY <1>13 DEF vars
<1> QED
  BY <1>1, <1>2, <1>3, <1>4, <1>5, <1>6, <1>7, <1>8, <1>9, <1>10, <1>11, <1>12, <1>13 DEF Next, Finished

\* A promised LUN waits until it has been verified.
LEMMA PromiseStep ==
  ASSUME IInv, [Next]_vars PROVE PromiseInv' /\ CountInv'
<1> USE DEF IInv, PromiseInv, CountInv, Testing, Ending, Waiting, Verified,
        Promised, Passing, setup, scan, io, marks, history
<1>1. CASE DiscoverPortals
  <2>1. PromiseInv'
    BY <1>1 DEF DiscoverPortals, Credit, Raise
  <2>2. CountInv'
    BY <1>1 DEF DiscoverPortals, Credit, Raise
  <2> QED
    BY <2>1, <2>2
<1>2. CASE DiscoverAdapters
  <2>1. PromiseInv'
    BY <1>2 DEF DiscoverAdapters, Adapters, Credit, Raise
  <2>2. CountInv'
    BY <1>2 DEF DiscoverAdapters, Adapters, Credit, Raise
  <2> QED
    BY <2>1, <2>2
<1>3. CASE ReportPortal
  <2>1. PromiseInv'
    BY <1>3 DEF ReportPortal, Estimate, Raise
  <2>2. CountInv'
    BY <1>3 DEF ReportPortal, Estimate, Raise
  <2> QED
    BY <2>1, <2>2
<1>4. CASE ReportAdapter
  <2>1. PromiseInv'
    BY <1>4 DEF ReportAdapter, HasLuns, Estimate, Credit, Compares
  <2>2. CountInv'
    BY <1>4 DEF ReportAdapter, HasLuns, Estimate, Credit, Compares
  <2> QED
    BY <2>1, <2>2
<1>5. CASE StartIscsiIo
  <2>1. PromiseInv'
    <3>1. \A s \in listed : Exposed(s) \subseteq known
      BY <1>5 DEF StartIscsiIo, Credit, ListedInv, TypeOK
    <3>2. ASSUME NEW s \in listed, NEW l \in exposes[s] PROVE l \in luns'
      <4>1. <<s, l>> \in known /\ <<s, l>>[2] = l
        BY <3>1, ExposedDevices DEF TypeOK, ScanType
      <4> QED
        BY <1>5, <4>1 DEF StartIscsiIo, Credit
    <3> QED
      BY <1>5, <3>2 DEF StartIscsiIo, Credit
  <2>2. CountInv'
    BY <1>5 DEF StartIscsiIo, Credit
  <2> QED
    BY <2>1, <2>2
<1>6. CASE StartHbaIo
  <2>1. PromiseInv'
    BY <1>6 DEF StartHbaIo, Credit, Raise
  <2>2. CountInv'
    BY <1>6 DEF StartHbaIo, Credit, Raise
  <2> QED
    BY <2>1, <2>2
<1>7. CASE StartLun
  <2>1. PromiseInv'
    BY <1>7 DEF StartLun
  <2>2. CountInv'
    BY <1>7 DEF StartLun
  <2> QED
    BY <2>1, <2>2
<1>8. CASE TestPath
  <2>1. PromiseInv'
    BY <1>8 DEF TestPath, DiskDataTest
  <2>2. CountInv'
    BY <1>8 DEF TestPath, DiskDataTest, WriteInv, TypeOK, IoType
  <2> QED
    BY <2>1, <2>2
<1>9. CASE EndLun
  <2>1. PromiseInv'
    BY <1>9 DEF EndLun, Credit, Raise
  <2>2. CountInv'
    BY <1>9 DEF EndLun, Credit, Raise
  <2> QED
    BY <2>1, <2>2
<1>10. CASE EndIo
  <2>1. PromiseInv'
    BY <1>10 DEF EndIo, Credit
  <2>2. CountInv'
    BY <1>10 DEF EndIo, Credit
  <2> QED
    BY <2>1, <2>2
<1>11. CASE Logout
  <2>1. PromiseInv'
    BY <1>11 DEF Logout
  <2>2. CountInv'
    BY <1>11 DEF Logout
  <2> QED
    BY <2>1, <2>2
<1>12. CASE Return
  <2>1. PromiseInv'
    BY <1>12 DEF Return
  <2>2. CountInv'
    BY <1>12 DEF Return
  <2> QED
    BY <2>1, <2>2
<1>13. CASE UNCHANGED vars
  BY <1>13 DEF vars
<1> QED
  BY <1>1, <1>2, <1>3, <1>4, <1>5, <1>6, <1>7, <1>8, <1>9, <1>10, <1>11, <1>12, <1>13 DEF Next, Finished

\* A device waits until it has been tried, over iSCSI.
LEMMA TriedStep ==
  ASSUME IInv, [Next]_vars PROVE TriedInv'
<1> USE DEF IInv, TriedInv, Testing, Ending, Tried, AllTried, Passing, setup, scan,
        io, marks, history
<1>1. CASE DiscoverPortals
  BY <1>1 DEF DiscoverPortals, Credit, Raise
<1>2. CASE DiscoverAdapters
  BY <1>2 DEF DiscoverAdapters, Adapters, Credit, Raise
<1>3. CASE ReportPortal
  BY <1>3 DEF ReportPortal, Estimate, Raise
<1>4. CASE ReportAdapter
  BY <1>4 DEF ReportAdapter, HasLuns, Estimate, Credit, Compares
<1>5. CASE StartIscsiIo
  BY <1>5 DEF StartIscsiIo, Credit
<1>6. CASE StartHbaIo
  BY <1>6 DEF StartHbaIo, Credit, Raise
<1>7. CASE StartLun
  BY <1>7 DEF StartLun
<1>8. CASE TestPath
  BY <1>8 DEF TestPath, DiskDataTest
<1>9. CASE EndLun
  BY <1>9 DEF EndLun, Credit, Raise
<1>10. CASE EndIo
  BY <1>10 DEF EndIo, Credit, Exposed, ListedInv
<1>11. CASE Logout
  BY <1>11 DEF Logout, Exposed
<1>12. CASE Return
  BY <1>12 DEF Return, Exposed
<1>13. CASE UNCHANGED vars
  BY <1>13 DEF vars, Exposed
<1> QED
  BY <1>1, <1>2, <1>3, <1>4, <1>5, <1>6, <1>7, <1>8, <1>9, <1>10, <1>11, <1>12, <1>13 DEF Next, Finished

\* IInv is inductive.
LEMMA InductiveStep == IInv /\ [Next]_vars => IInv'
<1> SUFFICES ASSUME IInv, [Next]_vars PROVE IInv'
  OBVIOUS
<1>1. TypeOK'
  BY TypeStep
<1>2. MarksInv' /\ SessionInv' /\ ListedInv'
  BY MarksStep, SessionStep, ListedStep
<1>3. WriteInv' /\ PromiseInv' /\ CountInv' /\ TriedInv'
  BY <1>1, WriteStep, PromiseStep, TriedStep
<1> QED
  BY <1>1, <1>2, <1>3 DEF IInv

THEOREM Invariance == Spec => []IInv
<1>1. Init => IInv
  BY InitInv
<1>2. IInv /\ [Next]_vars => IInv'
  BY InductiveStep
<1> QED
  BY <1>1, <1>2, PTL DEF Spec

\* Every variable of the functional tests keeps its type.
THEOREM TypeCorrect == Spec => []TypeOK
<1>1. IInv => TypeOK
  BY DEF IInv
<1> QED
  BY <1>1, Invariance, PTL

\* A test that passes has verified every LUN it was to test.
THEOREM PassCorrect == Spec => []PassMeansTested
<1>1. IInv => PassMeansTested
  <2> SUFFICES ASSUME IInv, pc = "done", retval PROVE PassMeansTested
    BY DEF PassMeansTested
  <2>1. Passing
    BY Zenon DEF IInv, TypeOK, FlagType, Passing
  <2>2. \A l \in Promised : Verified(l)
    BY <2>1 DEF IInv, PromiseInv, Ending
  <2>3. handler = "iscsi" => \A s \in listed : AllTried(s)
    BY <2>1 DEF IInv, TriedInv, Ending
  <2> QED
    BY <2>2, <2>3 DEF PassMeansTested, Verified, AllTried, Tried
<1> QED
  BY <1>1, Invariance, PTL

\* The exit status and the report agree as far as the checkpoints allow.
THEOREM MarksCorrect == Spec => []MarksAgree
<1>1. IInv => MarksAgree
  <2> SUFFICES ASSUME IInv, pc = "done" PROVE MarksAgree
    BY DEF MarksAgree
  <2>1. retval => Passing
    BY Zenon DEF IInv, TypeOK, FlagType, Passing
  <2>2. Passing => retval
    BY Zenon DEF Passing
  <2>3. checkpoint = total => Passing
    BY DEF IInv, MarksInv, Ending, TypeOK, MarksType
  <2>4. Passing => checkpoint = total - (IF handler = "hba" THEN 1 ELSE 0)
    BY DEF IInv, MarksInv, Ending, Short
  <2> QED
    BY <2>1, <2>2, <2>3, <2>4, Zenon DEF MarksAgree
<1> QED
  BY <1>1, Invariance, PTL

\* No device is written to that the test was not asked to write to.
THEOREM WritesCorrect == Spec => []WritesOnlyWhatItMay
<1>1. IInv => WritesOnlyWhatItMay
  BY DEF IInv, WriteInv, May, WritesOnlyWhatItMay
<1> QED
  BY <1>1, Invariance, PTL

\* No session is forgotten.
THEOREM SessionsCorrect == Spec => []SessionsClosed
<1>1. IInv => SessionsClosed
  BY DEF IInv, SessionInv, SessionsClosed
<1> QED
  BY <1>1, Invariance, PTL
=============================================================================
