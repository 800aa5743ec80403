------------------------------ MODULE LunTests ------------------------------
(***************************************************************************)
(* The functional tests of the block storage handlers                      *)
(* (StorageHandlerISCSI.functional_tests, StorageHandlerHBA.               *)
(* functional_tests): ask every source of LUNs, the portals of an IQN or   *)
(* the host adapters, what it exposes, then write and verify a pattern on  *)
(* the LUNs, over each path.                                               *)
(*                                                                         *)
(* A device is a path to a LUN: the pair of the source and the LUN.  The   *)
(* storage does not change while the tests run, but any call may fail.     *)
(***************************************************************************)
EXTENDS Integers, FiniteSets

CONSTANTS
  Source,     \* portals (iSCSI) or adapters (HBA) that may be found
  Lun,
  NoDevice,   \* no device of the storage under test is the root device
  Handlers    \* handlers under test, of {"iscsi", "hba"}

Device == Source \X Lun

ASSUME SourceAssumption  == IsFiniteSet(Source) /\ IsFiniteSet(Lun)
ASSUME DeviceAssumption  == NoDevice \notin Device
ASSUME HandlerAssumption == Handlers \subseteq {"iscsi", "hba"}

VARIABLES
  handler, exposes,    \* exposes[s]: the LUNs behind source s
  rootdev,             \* os.path.realpath(util.getrootdev())
  requested,           \* the SCSI IDs of -s (HBA only)
  before,              \* sources that had an iSCSI session before the test
  sessions,            \* sources with an iSCSI session
  pc,
  listed,              \* the portals or adapters found
  todo,                \* those whose LUNs have not been asked for
  reference,           \* LUNs of the first of them; {} when there is none yet
  known,               \* the devices in scsi_to_tuple_map
  luns,                \* LUNs that are still to be tested
  lun, untried,        \* the one under test, and its paths not yet tried
  path_passed, logoutlist, retval, checkpoint, total, skipped,
  written,             \* history: devices written to by any part of the test
  tried, writable,     \* history: devices the IO test tried; that verified
  stuck                \* history: sources that refused the logout

setup   == <<handler, exposes, rootdev, requested, before>>
scan    == <<listed, todo, reference, known>>
io      == <<luns, lun, untried, path_passed>>
marks   == <<retval, checkpoint, total, skipped>>
history == <<written, tried, writable, stuck>>
vars    == <<setup, sessions, pc, scan, io, logoutlist, marks, history>>

Credit(n) == checkpoint' = checkpoint + n

\* The outermost except clause; the logout loop follows it.
Raise == pc' = "logout" /\ retval' = FALSE

Exposed(s) == {s} \X exposes[s]
RootOf(s)  == rootdev \in Exposed(s)

\* list.sort() sorts in place and returns None, whatever the list.
Sort(list)     == "None"
Mismatch(a, b) == Sort(a) # Sort(b)

\* get_hba_information: the adapters of the probe that -a selects.  A probe
\* that fails or cannot be parsed leaves none.
Adapters == SUBSET Source

\* get_lun_information refuses an adapter without LUNs.
HasLuns(s) == exposes[s] # {}

\* find_disk_data_test_estimate writes the pattern to the devices for some
\* seconds.
Estimate(devices) == written' = written \cup devices

\* disk_data_test writes the pattern over a path and reads it back; only a
\* path on which nothing raised counts.
DiskDataTest(d) ==
  /\ tried' = tried \cup {d} /\ written' = written \cup {d}
  /\ \/ path_passed' = path_passed + 1 /\ writable' = writable \cup {d}
     \/ UNCHANGED <<path_passed, writable>>

----------------------------------------------------------------------------
Init ==
  /\ handler \in Handlers
  /\ exposes \in [Source -> SUBSET Lun]
  /\ rootdev \in {NoDevice} \cup UNION {Exposed(s) : s \in Source}
  /\ requested \in SUBSET Lun \ {{}}
  /\ before \in SUBSET Source /\ sessions = before
  /\ pc = "discover"
  /\ listed = {} /\ todo = {} /\ reference = {} /\ known = {}
  /\ luns = {} /\ lun \in Lun /\ untried = {} /\ path_passed = 0
  /\ logoutlist = {}
  /\ retval = TRUE /\ checkpoint = 0 /\ total = 4 /\ skipped = 0
  /\ written = {} /\ tried = {} /\ writable = {} /\ stuck = {}

\* iSCSI: the portals that advertise one of the IQNs, possibly none of them;
\* any target that cannot be asked ends the test.
DiscoverPortals ==
  /\ pc = "discover" /\ handler = "iscsi"
  /\ \/ /\ listed' \in SUBSET Source
        /\ todo' = listed' /\ Credit(2)
        /\ pc' = "report" /\ UNCHANGED retval
     \/ Raise /\ UNCHANGED <<listed, todo, checkpoint>>
  /\ UNCHANGED <<setup, sessions, reference, known, io, logoutlist, total, skipped, history>>

\* HBA: having no adapter is an error.
DiscoverAdapters ==
  /\ pc = "discover" /\ handler = "hba"
  /\ \/ /\ listed' \in Adapters /\ listed' # {}
        /\ todo' = listed' /\ Credit(2)
        /\ pc' = "report" /\ UNCHANGED retval
     \/ Raise /\ UNCHANGED <<listed, todo, checkpoint>>
  /\ UNCHANGED <<setup, sessions, reference, known, io, logoutlist, total, skipped, history>>

\* Mutant: a portal is remembered for the logout only once its LUNs are read.
ReportPortalLateAppend ==
  /\ pc = "report" /\ handler = "iscsi"
  /\ \E s \in todo :
       /\ todo' = todo \ {s}
       /\ \/ Raise /\ UNCHANGED <<sessions, logoutlist, reference, known, written>>
          \/ /\ sessions' = sessions \cup {s}
             /\ Raise /\ UNCHANGED <<logoutlist, reference, known, written>>
          \/ /\ sessions' = sessions \cup {s} /\ logoutlist' = logoutlist \cup {s}
             /\ exposes[s] # {}
             /\ known' = known \cup Exposed(s) /\ written' = written \cup Exposed(s)
             /\ reference' = IF reference = {} THEN exposes[s] ELSE reference
             /\ UNCHANGED <<pc, retval>>
  /\ UNCHANGED <<setup, listed, io, checkpoint, total, skipped, tried, writable, stuck>>

\* Log in to a portal and list its LUNs.  To estimate how long the IO test
\* will take, diskdatatest writes to each of them for some seconds.  A portal
\* without LUNs, or any error, an estimate that fails included, ends the
\* test.  The result of _checkTGT is not looked at.
ReportPortal ==
  /\ pc = "report" /\ handler = "iscsi"
  /\ \E s \in todo :
       /\ todo' = todo \ {s}
       /\ \/ Raise /\ UNCHANGED <<sessions, logoutlist, reference, known, written>>
          \/ /\ sessions' = sessions \cup {s} /\ logoutlist' = logoutlist \cup {s}
             /\ \/ /\ Raise /\ UNCHANGED <<reference, known>>
                   /\ \E some \in SUBSET Exposed(s) : Estimate(some)
                \/ /\ exposes[s] # {}
                   /\ known' = known \cup Exposed(s) /\ Estimate(Exposed(s))
                   /\ reference' = IF reference = {} THEN exposes[s] ELSE reference
                   /\ IF reference # {} /\ Mismatch(reference, exposes[s])
                        THEN Raise
                        ELSE UNCHANGED <<pc, retval>>
  /\ UNCHANGED <<setup, listed, io, checkpoint, total, skipped, tried, writable, stuck>>

\* The condition under which an adapter is compared with the reference list.
Compares(s) == reference # {} /\ exposes[s] = {}

\* List the LUNs of an adapter.  The adapter of the root device is left out.
\* One without LUNs, with another list than the reference, or with any error
\* is passed over; the error may come after some devices were recorded, and
\* while the estimate of one more wrote to it.  Only LUNs of -s are estimated.
\* As those without LUNs do not get here, none is ever compared.
ReportAdapter ==
  /\ pc = "report" /\ handler = "hba"
  /\ \E s \in todo :
       /\ todo' = todo \ {s}
       /\ \/ UNCHANGED <<reference, known, written, checkpoint, skipped>>
          \/ /\ HasLuns(s) /\ RootOf(s)
             /\ skipped' = skipped + 1
             /\ UNCHANGED <<reference, known, written, checkpoint>>
          \/ /\ HasLuns(s) /\ ~RootOf(s)
             /\ \E done, failing \in SUBSET Exposed(s) :
                  /\ Cardinality(failing) <= 1
                  /\ known' = known \cup done
                  /\ Estimate({d \in done \cup failing : d[2] \in requested})
             /\ IF Compares(s)
                  THEN exposes[s] = reference /\ Credit(1) /\ UNCHANGED reference
                  ELSE reference' = exposes[s] /\ UNCHANGED checkpoint
             /\ UNCHANGED skipped
  /\ UNCHANGED <<setup, sessions, pc, listed, io, logoutlist, retval, total,
                 tried, writable, stuck>>

StartIscsiIo ==
  /\ pc = "report" /\ handler = "iscsi" /\ todo = {}
  /\ luns' = {d[2] : d \in known}
  /\ pc' = "io" /\ Credit(1)
  /\ UNCHANGED <<setup, sessions, scan, lun, untried, path_passed, logoutlist,
                 retval, total, skipped, history>>

\* Mutant: every LUN found is tested, not only those of -s.
StartHbaIoUnpruned ==
  /\ pc = "report" /\ handler = "hba" /\ todo = {}
  /\ Credit(1)
  /\ requested \subseteq {d[2] : d \in known}
  /\ luns' = {d[2] : d \in known}
  /\ pc' = "io" /\ total' = total + 1
  /\ UNCHANGED <<setup, sessions, scan, lun, untried, path_passed, logoutlist,
                 retval, skipped, history>>

\* Only the SCSI IDs of -s are tested, and all of them must have been found.
StartHbaIo ==
  /\ pc = "report" /\ handler = "hba" /\ todo = {}
  /\ Credit(1)
  /\ LET scsi_ids_to_test == {d[2] : d \in known} \cap requested IN
       \/ /\ scsi_ids_to_test = requested
          /\ luns' = scsi_ids_to_test
          /\ pc' = "io" /\ total' = total + 1 /\ UNCHANGED retval
       \/ /\ scsi_ids_to_test # requested
          /\ Raise /\ UNCHANGED <<luns, total>>
  /\ UNCHANGED <<setup, sessions, scan, lun, untried, path_passed, logoutlist,
                 skipped, history>>

\* Mutant: path_passed keeps the count of the LUN before.
StartLunWithoutReset ==
  /\ pc = "io" /\ luns # {}
  /\ lun' \in luns
  /\ luns' = luns \ {lun'}
  /\ untried' = {d \in known : d[2] = lun'}
  /\ pc' = "paths" /\ total' = total + 1
  /\ UNCHANGED <<setup, sessions, scan, path_passed, logoutlist, retval,
                 checkpoint, skipped, history>>

\* Mutant: the paths through every source, whether its list was read or not.
StartLunAllSources ==
  /\ pc = "io" /\ luns # {}
  /\ lun' \in luns
  /\ luns' = luns \ {lun'}
  /\ untried' = {d \in Device : d[2] = lun'} /\ path_passed' = 0
  /\ pc' = "paths" /\ total' = total + 1
  /\ UNCHANGED <<setup, sessions, scan, logoutlist, retval, checkpoint, skipped, history>>

StartLun ==
  /\ pc = "io" /\ luns # {}
  /\ lun' \in luns
  /\ luns' = luns \ {lun'}
  /\ untried' = {d \in known : d[2] = lun'} /\ path_passed' = 0
  /\ pc' = "paths" /\ total' = total + 1
  /\ UNCHANGED <<setup, sessions, scan, logoutlist, retval, checkpoint, skipped, history>>

\* Write a small chunk, then write and verify the test pattern, unless this is
\* the root device.
TestPath ==
  /\ pc = "paths"
  /\ \E d \in untried :
       /\ untried' = untried \ {d}
       /\ \/ /\ d = rootdev
             /\ skipped' = skipped + 1
             /\ UNCHANGED <<path_passed, written, tried, writable>>
          \/ /\ d # rootdev /\ DiskDataTest(d)
             /\ UNCHANGED skipped
  /\ UNCHANGED <<setup, sessions, pc, scan, luns, lun, logoutlist, retval,
                 checkpoint, total, stuck>>

\* Mutant: a LUN without a writable path is only printed.
EndLunContinues ==
  /\ pc = "paths" /\ untried = {}
  /\ pc' = "io"
  /\ IF path_passed = 0 THEN UNCHANGED checkpoint ELSE Credit(1)
  /\ UNCHANGED <<setup, sessions, scan, io, logoutlist, retval, total, skipped, history>>

\* One writable path is enough; a LUN with none ends the test, and so does a
\* LUN whose only path is the root device.
EndLun ==
  /\ pc = "paths" /\ untried = {}
  /\ IF path_passed = 0
       THEN Raise /\ UNCHANGED checkpoint
       ELSE pc' = "io" /\ Credit(1) /\ UNCHANGED retval
  /\ UNCHANGED <<setup, sessions, scan, io, logoutlist, total, skipped, history>>

EndIo ==
  /\ pc = "io" /\ luns = {}
  /\ pc' = "logout" /\ Credit(1)
  /\ UNCHANGED <<setup, sessions, scan, io, logoutlist, retval, total, skipped, history>>

\* A failing logout is printed and forgotten.
Logout ==
  /\ pc = "logout"
  /\ \E s \in logoutlist :
       /\ logoutlist' = logoutlist \ {s}
       /\ \/ sessions' = sessions \ {s} /\ UNCHANGED stuck
          \/ stuck' = stuck \cup {s} /\ UNCHANGED sessions
  /\ UNCHANGED <<setup, pc, scan, io, marks, written, tried, writable>>

Return ==
  /\ pc = "logout" /\ logoutlist = {}
  /\ pc' = "done"
  /\ UNCHANGED <<setup, sessions, scan, io, logoutlist, marks, history>>

Finished == pc = "done" /\ UNCHANGED vars

Next == \/ DiscoverPortals \/ DiscoverAdapters \/ ReportPortal \/ ReportAdapter
        \/ StartIscsiIo \/ StartHbaIo \/ StartLun \/ TestPath \/ EndLun \/ EndIo
        \/ Logout \/ Return \/ Finished

Spec == Init /\ [][Next]_vars

----------------------------------------------------------------------------
\* Properties.

SetupType   == /\ handler \in {"iscsi", "hba"}
               /\ exposes \in [Source -> SUBSET Lun]
               /\ requested \in SUBSET Lun
               /\ before \in SUBSET Source
               /\ sessions \in SUBSET Source
ScanType    == /\ listed \in SUBSET Source /\ todo \in SUBSET listed
               /\ reference \in SUBSET Lun
               /\ known \subseteq Device
IoType      == /\ luns \in SUBSET Lun /\ lun \in Lun
               /\ untried \subseteq known /\ path_passed \in Nat
               /\ logoutlist \in SUBSET Source
MarksType   == checkpoint \in Nat /\ total \in Nat /\ skipped \in Nat
FlagType    == retval \in BOOLEAN
PcType      == pc \in {"discover", "report", "io", "paths", "logout", "done"}
HistoryType == /\ written \subseteq Device /\ tried \subseteq written
               /\ writable \subseteq tried /\ stuck \subseteq Source

\* Every variable has its type.
TypeOK == SetupType /\ ScanType /\ IoType /\ MarksType /\ FlagType /\ PcType /\ HistoryType

\* The LUNs that a test which passes has to have tested: everything that the
\* portals expose, or the SCSI IDs of -s.
Promised == IF handler = "iscsi" THEN UNION {exposes[s] : s \in listed} ELSE requested

\* A functional test that returns True has verified every LUN it was to test
\* over some path, and over iSCSI has tried every path but the root device.
PassMeansTested ==
  pc = "done" /\ retval =>
    /\ \A l \in Promised : \E d \in writable : d[2] = l
    /\ handler = "iscsi" =>
         \A s \in listed : Exposed(s) \subseteq tried \cup {rootdev}

\* Equal checkpoints, which give exit status 0, never hide a retval of False,
\* which the report shows as a failure; and a test that passes has earned all
\* its checkpoints, whatever the number of LUNs.  The HBA test announces one
\* more than that, for the comparison it never makes: it passes with an exit
\* status of 1.
MarksAgree ==
  pc = "done" => /\ checkpoint = total => retval
                 /\ retval => checkpoint = total - (IF handler = "hba" THEN 1 ELSE 0)

\* The test destroys data: it only ever writes to what was found, for an HBA
\* only to the LUNs of -s, and never through the adapter that the root device
\* hangs on.
WritesOnlyWhatItMay ==
  \A d \in written : /\ d[1] \in listed
                     /\ handler = "hba" => d[2] \in requested /\ ~RootOf(d[1])

\* However the iSCSI test ends, no session it opened is left, unless the
\* logout itself was refused; the HBA test leaves the sessions alone.
SessionsClosed ==
  pc = "done" => /\ sessions \subseteq before \cup stuck
                 /\ handler = "hba" => sessions = before

\* "This test also verifies that all the sessions from the same IQN expose the
\* same number of LUNs and the same LUNs", "ensures that all host ids expose
\* the same number of LUNs and the same LUNs".
PassMeansSameLuns ==
  pc = "done" /\ retval =>
    \A s, t \in listed : RootOf(s) \/ RootOf(t) \/ exposes[s] = exposes[t]

\* "If this is a root device then skip IO tests for this device."
RootDeviceSpared == rootdev \notin written
=============================================================================
