----------------------------- MODULE Multipath -----------------------------
(***************************************************************************)
(* The multipath failover test of XenCert                                  *)
(* (StorageHandler.mp_config_verification_tests) together with what it     *)
(* runs against: the WaitForFailover thread it starts in every iteration,  *)
(* the path blocking script or the operator, multipathd, and the XAPI      *)
(* objects (SR, VDI, VBD, host.other_config) it creates and removes.       *)
(*                                                                         *)
(* The driver is sequential, so it is a program counter and one action per *)
(* step between two points where the environment or the thread may         *)
(* interfere.  Every call to XAPI, to the script and to multipathd may     *)
(* fail at any time; there is no fault budget.                             *)
(***************************************************************************)
EXTENDS Integers, FiniteSets

CONSTANTS
  Path,              \* the paths multipathd lists for the LUN under test
  Port,              \* what the script blocks: target IPs, switch ports
  Setups,            \* the command lines and storages to consider (see SetupType)
  DownAtStart,       \* sets of paths that may be failed before the test starts
  MaxFailoverPolls,  \* 50 in WaitForFailover.run
  MaxRestorePolls,   \* 120 in the restoration loop
  DefaultIterations  \* 100, the value of iteration_count without -g

Handlers == {"manual", "iscsi", "hba"}
NoCount  == 0        \* -g was not given (-g 0 does what -g 1 does: no iteration)
Refs     == {"vbd", "vdi", "sr"}

SetupType == [handler : Handlers,       \* which script -u names
              portOf  : [Path -> Port], \* the port every path runs through
              ports   : SUBSET Port,    \* the ports of -i (HBA only)
              count   : Nat,            \* -g, or NoCount
              mpOn    : BOOLEAN]        \* is_mp_enabled when the test starts

ASSUME PathAssumption  == IsFiniteSet(Path) /\ IsFiniteSet(Port)
ASSUME SetupAssumption == Setups \subseteq SetupType
ASSUME DownAssumption  == DownAtStart \subseteq SUBSET Path
ASSUME BoundAssumption == /\ MaxFailoverPolls \in Nat
                          /\ MaxRestorePolls \in Nat
                          /\ DefaultIterations \in Nat

VARIABLES
  setup,        \* the chosen setup, constant during a behaviour
  blocked,      \* ports that let no traffic through
  down,         \* paths multipathd reports as not active
  mp,           \* host.other_config is multipathing = true and handle = dmp
  vbd, vdi, sr, \* the XAPI objects of the test that exist
  pc,           \* where mp_config_verification_tests is
  refs,         \* which of vbd_ref, vdi_ref, sr_ref are not None
  disable_mp, retval, checkpoint, total,   \* locals of the driver
  listed,       \* self.listPathConfig
  initial,      \* self.initial_active_paths
  i,            \* iteration number, as printed
  chosen,       \* self.blockedpathinfo: the ports handed to the unblock call
  expect,       \* devices_to_fail * scale
  scale,        \* its denominator: devices_to_fail is a float for HBA
  polls,        \* `count' of the restoration loop
  alive, pathsFailed, failoverTime   \* the WaitForFailover thread

env     == <<blocked, down>>
xapi    == <<mp, vbd, vdi, sr>>
marks   == <<retval, checkpoint, total>>
plan    == <<i, chosen, expect, scale>>
paths   == <<listed, initial>>
thread  == <<alive, pathsFailed, failoverTime>>
own     == <<refs, disable_mp>>
vars    == <<setup, env, xapi, pc, own, marks, paths, plan, polls, thread>>

----------------------------------------------------------------------------
\* Helpers.

PathsOn(S)  == {p \in Path : setup.portOf[p] \in S}
BlockedPaths == PathsOn(blocked)
Active      == Path \ down
NPorts      == Cardinality(setup.ports)
IterationCount ==
  IF setup.count = NoCount THEN DefaultIterations ELSE setup.count + 1

Goto(from, to) == pc = from /\ pc' = to

\* An exception inside the first try block: the handler prints it, clears
\* retval and falls into the cleanup.
Raise == /\ pc' = "vbdcleanup"
         /\ retval' = FALSE

Credit(n) == checkpoint' = checkpoint + n

----------------------------------------------------------------------------
Init ==
  /\ setup \in Setups
  /\ blocked = {}
  /\ down \in DownAtStart
  /\ mp = setup.mpOn
  /\ vbd = "none" /\ vdi = FALSE /\ sr = FALSE
  /\ pc = "config"
  /\ refs = {} /\ disable_mp = FALSE
  /\ retval = TRUE /\ checkpoint = 0 /\ total = 6
  /\ listed = {} /\ initial = 0
  /\ i = 1 /\ chosen = {} /\ expect = 0 /\ scale = 1
  /\ polls = 0
  /\ alive = FALSE /\ pathsFailed = FALSE /\ failoverTime = 0

\* No path handler, a missing one, or an HBA without -i.
ConfigError ==
  /\ pc = "config"
  /\ Raise
  /\ UNCHANGED <<setup, env, xapi, own, checkpoint, total, paths, plan, polls, thread>>

\* is_mp_enabled answers False when its query fails.  enable_multipathing makes
\* four XAPI calls, the first of which switch it off, and swallows the exception
\* of any of them: multipathing may be off although disable_mp is set.
EnableMultipathing ==
  /\ Goto("config", "create")
  /\ \/ mp /\ UNCHANGED <<mp, disable_mp>>
     \/ mp' \in BOOLEAN /\ disable_mp' = TRUE
  /\ UNCHANGED <<setup, env, vbd, vdi, sr, refs, marks, paths, plan, polls, thread>>

CreateSR ==
  /\ pc = "create"
  /\ \/ /\ pc' = "status"
        /\ sr' = TRUE
        /\ refs' = refs \cup {"sr"}
        /\ Credit(1)
        /\ UNCHANGED retval
     \/ /\ Raise
        /\ UNCHANGED <<sr, refs, checkpoint>>
  /\ UNCHANGED <<setup, env, mp, vbd, vdi, disable_mp, total, paths, plan, polls, thread>>

\* GetPathStatus: a failure only costs its checkpoint, but leaves
\* listPathConfig unset, and then fewer than two paths are an exception.
GetPathStatus ==
  /\ pc = "status"
  /\ \/ /\ listed' = Path
        /\ Credit(1)
     \/ /\ listed' = {}
        /\ UNCHANGED checkpoint
  /\ initial' = Cardinality(listed' \ down)
  /\ IF Cardinality(listed') < 2
       THEN Raise
       ELSE pc' = "vdi" /\ UNCHANGED retval
  /\ UNCHANGED <<setup, env, xapi, own, total, plan, polls, thread>>

\* create_max_size_vdi_and_vbd returns the references only at its end: when
\* it raises, what it had created is not known to the caller.
CreateVdiAndVbd ==
  /\ pc = "vdi"
  /\ \/ /\ pc' = "firstio"
        /\ vdi' = TRUE /\ vbd' = "plugged"
        /\ refs' = refs \cup {"vdi", "vbd"}
        /\ Credit(2)
        /\ UNCHANGED retval
     \/ /\ Raise
        /\ \/ UNCHANGED <<vdi, vbd>>
           \/ vdi' = TRUE /\ vbd' \in {"none", "unplugged"}
        /\ UNCHANGED <<refs, checkpoint>>
  /\ UNCHANGED <<setup, env, mp, sr, disable_mp, total, paths, plan, polls, thread>>

\* Iteration 1: one TimedDeviceIO without blocking.  A copy that takes more
\* than three seconds loses the checkpoint and nothing else.
FirstIO ==
  /\ pc = "firstio"
  /\ \/ /\ pc' = "iterate"
        /\ checkpoint' \in {checkpoint, checkpoint + 1}
        /\ UNCHANGED retval
     \/ /\ Raise
        /\ UNCHANGED checkpoint
  /\ i' = 2
  /\ UNCHANGED <<setup, env, xapi, own, total, paths, chosen, expect, scale, polls, thread>>

----------------------------------------------------------------------------
\* One failover iteration.

\* blockunblockiscsipaths samples `no' entries of the list of path addresses;
\* its expectation is that number.
IscsiSample(S) ==
  /\ setup.handler = "iscsi"
  /\ S \subseteq listed
  /\ Cardinality(S) \in 1 .. Cardinality(listed) - 1
  /\ chosen' = {setup.portOf[p] : p \in S}
  /\ expect' = Cardinality(S)
  /\ scale'  = 1

\* blockunblockhbapaths-* samples the ports and reports the blocked and the
\* total number, from which the driver computes the expectation.
HbaSample(S) ==
  /\ setup.handler = "hba"
  /\ S \subseteq setup.ports
  /\ Cardinality(S) \in 1 .. (IF NPorts > 1 THEN NPorts - 1 ELSE 1)
  /\ chosen' = S
  /\ expect' = Cardinality(listed) * Cardinality(S)
  /\ scale'  = NPorts

\* Mutant: one of the two checkpoints of an iteration is not announced.
StartIterationOneMark == /\ pc = "iterate"
                         /\ i < IterationCount
                         /\ total' = total + 1

StartIteration == /\ pc = "iterate"
                  /\ i < IterationCount
                  /\ total' = total + 2

\* The thread starts with pathsFailed and failoverTime reset.
StartWatch == /\ pc' = "watch"
              /\ alive' = TRUE /\ pathsFailed' = FALSE /\ failoverTime' = 0

\* RandomlyFailPaths.  The script ignores a port it could not block and
\* still reports it as blocked.
BlockByScript ==
  /\ StartIteration
  /\ \E S \in SUBSET (Path \cup Port) : IscsiSample(S) \/ HbaSample(S)
  /\ \E ignored \in SUBSET chosen' : blocked' = blocked \cup (chosen' \ ignored)
  /\ StartWatch
  /\ UNCHANGED <<setup, down, xapi, own, retval, checkpoint, paths, i, polls>>

\* The script ends with an error, possibly after it blocked some ports: the
\* driver does not know which.  Also the operator's script of manual mode.
BlockFails ==
  /\ StartIteration
  /\ \E S \in SUBSET Port : S # Port /\ blocked' = blocked \cup S
  /\ Raise
  /\ UNCHANGED <<setup, down, xapi, own, checkpoint, paths, plan, polls, thread>>

\* wait_manual_block_unblock_paths returned: the operator blocked some ports.
\* One failed path is enough, whatever was blocked.
BlockByOperator ==
  /\ StartIteration
  /\ setup.handler = "manual"
  /\ \E S \in SUBSET Port \ {{}, Port} : blocked' = blocked \cup S
  /\ expect' = 1 /\ scale' = 1 /\ chosen' = {}
  /\ StartWatch
  /\ UNCHANGED <<setup, down, xapi, own, retval, checkpoint, paths, i, polls>>

\* while s.is_alive(): one more TimedDeviceIO.
Watch ==
  /\ pc = "watch"
  /\ pc' = IF alive THEN "io" ELSE "judge"
  /\ UNCHANGED <<setup, env, xapi, own, marks, paths, plan, polls, thread>>

\* A failed IO raises at once: the ports stay blocked, the thread runs on.
DeviceIO ==
  /\ pc = "io"
  /\ \/ /\ BlockedPaths # Path
        /\ pc' = "watch"
        /\ UNCHANGED retval
     \/ Raise
  /\ UNCHANGED <<setup, env, xapi, own, checkpoint, total, paths, plan, polls, thread>>

\* The unblock call of the scripts: every port of chosen is tried, a failure
\* on one is ignored.
ScriptUnblocks == \E left \in SUBSET (blocked \cap chosen) :
                     blocked' = (blocked \ chosen) \cup left

JudgeFailover ==
  /\ pc = "judge"
  /\ \/ /\ pathsFailed
        /\ pc' = "unblock"
        /\ Credit(1)
        /\ UNCHANGED <<blocked, retval>>
     \/ /\ ~pathsFailed
        /\ Raise
        /\ IF setup.handler = "manual" THEN UNCHANGED blocked ELSE ScriptUnblocks
        /\ UNCHANGED checkpoint
  /\ UNCHANGED <<setup, down, xapi, own, total, paths, plan, polls, thread>>

\* The operator unblocks everything when asked; the script may end in error.
Unblock ==
  /\ pc = "unblock"
  /\ \/ /\ pc' = "restore"
        /\ IF setup.handler = "manual" THEN blocked' = {} ELSE ScriptUnblocks
        /\ UNCHANGED retval
     \/ /\ blocked' \in SUBSET blocked
        /\ Raise
  /\ polls' = 0
  /\ UNCHANGED <<setup, down, xapi, own, checkpoint, total, paths, plan, thread>>

\* Mutant: any answer of multipathd ends the wait for the restoration.
RestorePollAnyAnswer ==
  /\ pc = "restore"
  /\ polls < MaxRestorePolls
  /\ polls' = polls + 1
  /\ pc' = "iterate"
  /\ Credit(1)
  /\ i' = i + 1
  /\ UNCHANGED <<setup, env, xapi, own, retval, total, paths, chosen, expect, scale, thread>>

\* do_new_paths_match: an error of multipathd counts as "not yet".
RestorePoll ==
  /\ pc = "restore"
  /\ polls < MaxRestorePolls
  /\ polls' = polls + 1
  /\ \/ /\ Cardinality(Active) >= initial
        /\ pc' = "iterate"
        /\ Credit(1)
        /\ i' = i + 1
     \/ UNCHANGED <<pc, checkpoint, i>>
  /\ UNCHANGED <<setup, env, xapi, own, retval, total, paths, chosen, expect, scale, thread>>

\* Mutant: the loop waits for the paths however long that takes.
RestoreTimeoutNever ==
  /\ pc = "restore"
  /\ polls > MaxRestorePolls
  /\ Raise
  /\ UNCHANGED <<setup, env, xapi, own, checkpoint, total, paths, plan, polls, thread>>

RestoreTimeout ==
  /\ pc = "restore"
  /\ polls = MaxRestorePolls
  /\ Raise
  /\ UNCHANGED <<setup, env, xapi, own, checkpoint, total, paths, plan, polls, thread>>

IterationsDone ==
  /\ Goto("iterate", "vbdcleanup")
  /\ i >= IterationCount
  /\ UNCHANGED <<setup, env, xapi, own, marks, paths, plan, polls, thread>>

----------------------------------------------------------------------------
\* The second try block: the first exception ends it without its checkpoint.

\* vbd_ref_cleanup
CleanupVbd ==
  /\ pc = "vbdcleanup"
  /\ \/ /\ pc' = "srcleanup"
        /\ IF "vbd" \in refs THEN vbd' = "none" /\ vdi' = FALSE ELSE UNCHANGED <<vbd, vdi>>
     \/ /\ "vbd" \in refs
        /\ pc' = "done"
        /\ vbd' \in {"plugged", "unplugged", "none"}
        /\ UNCHANGED vdi
  /\ UNCHANGED <<setup, env, mp, sr, own, marks, paths, plan, polls, thread>>

\* destroy_sr: the PBDs cannot be unplugged under a plugged VBD, and the SR
\* driver refuses to delete an SR that still holds a VDI.
CleanupSr ==
  /\ pc = "srcleanup"
  /\ \/ /\ pc' = "mpcleanup"
        /\ IF "sr" \in refs THEN ~vdi /\ sr' = FALSE ELSE UNCHANGED sr
     \/ /\ "sr" \in refs
        /\ pc' = "done"
        /\ UNCHANGED sr
  /\ UNCHANGED <<setup, env, mp, vbd, vdi, own, marks, paths, plan, polls, thread>>

\* disable_multipathing swallows its exceptions as well; get_localhost_ref,
\* which is evaluated for it, does not.
CleanupMp ==
  /\ Goto("mpcleanup", "done")
  /\ \/ /\ IF disable_mp THEN mp' \in {FALSE, mp} ELSE UNCHANGED mp
        /\ Credit(1)
     \/ disable_mp /\ UNCHANGED <<mp, checkpoint>>
  /\ UNCHANGED <<setup, env, vbd, vdi, sr, own, retval, total, paths, plan, polls, thread>>

----------------------------------------------------------------------------
\* WaitForFailover.run.  get_path_status never raises: when multipathd does
\* not answer it returns an empty list, and the thread ignores the retval.

\* Mutant: at least the expected number, also for the scripts.
FailedAtLeast(n) == n * scale >= expect

Failed(n) == IF setup.handler = "manual" THEN n * scale >= expect ELSE n * scale = expect

\* Mutant: the bound of the loop is dropped.
ThreadPollUnbounded ==
  /\ alive /\ ~pathsFailed
  /\ \E answer \in {Active, {}} :
       pathsFailed' = Failed(Cardinality(listed) - Cardinality(answer))
  /\ failoverTime' = failoverTime + 1
  /\ UNCHANGED <<setup, env, xapi, pc, own, marks, paths, plan, polls, alive>>

ThreadPoll ==
  /\ alive /\ ~pathsFailed
  /\ failoverTime < MaxFailoverPolls
  /\ \E answer \in {Active, {}} :
       pathsFailed' = Failed(Cardinality(listed) - Cardinality(answer))
  /\ failoverTime' = failoverTime + 1
  /\ UNCHANGED <<setup, env, xapi, pc, own, marks, paths, plan, polls, alive>>

ThreadExit ==
  /\ alive
  /\ pathsFailed \/ failoverTime = MaxFailoverPolls
  /\ alive' = FALSE
  /\ UNCHANGED <<setup, env, xapi, pc, own, marks, paths, plan, polls, pathsFailed, failoverTime>>

\* multipathd notices, path by path and whenever it likes, what the ports let
\* through.
MultipathdFails(p) ==
  /\ p \in BlockedPaths \ down
  /\ down' = down \cup {p}
  /\ UNCHANGED <<setup, blocked, xapi, pc, own, marks, paths, plan, polls, thread>>

MultipathdReinstates(p) ==
  /\ p \in down \ BlockedPaths
  /\ down' = down \ {p}
  /\ UNCHANGED <<setup, blocked, xapi, pc, own, marks, paths, plan, polls, thread>>

----------------------------------------------------------------------------
Iteration == \/ BlockByScript \/ BlockByOperator \/ BlockFails \/ Watch \/ DeviceIO
             \/ JudgeFailover \/ Unblock \/ RestorePoll \/ RestoreTimeout
Driver == \/ ConfigError \/ EnableMultipathing \/ CreateSR \/ GetPathStatus
          \/ CreateVdiAndVbd \/ FirstIO \/ Iteration \/ IterationsDone
          \/ CleanupVbd \/ CleanupSr \/ CleanupMp
Thread == ThreadPoll \/ ThreadExit
Multipathd == \E p \in Path : MultipathdFails(p) \/ MultipathdReinstates(p)
Finished == pc = "done" /\ ~alive /\ UNCHANGED vars

Next == Driver \/ Thread \/ Multipathd \/ Finished

\* The driver and its thread are scheduled; every call they make returns.
\* Nothing is assumed of multipathd.
Fairness == WF_vars(Driver) /\ WF_vars(Thread)
Spec == Init /\ [][Next]_vars /\ Fairness

----------------------------------------------------------------------------
\* Properties.

StorageType == setup \in Setups /\ blocked \subseteq Port /\ down \subseteq Path
XapiType    == /\ mp \in BOOLEAN /\ vdi \in BOOLEAN /\ sr \in BOOLEAN
               /\ vbd \in {"none", "unplugged", "plugged"}
ControlType ==
  /\ pc \in {"config", "create", "status", "vdi", "firstio", "iterate", "watch", "io",
             "judge", "unblock", "restore", "vbdcleanup", "srcleanup", "mpcleanup", "done"}
  /\ refs \subseteq Refs /\ disable_mp \in BOOLEAN /\ retval \in BOOLEAN
CountType   == /\ checkpoint \in Nat /\ total \in Nat /\ i \in Nat
               /\ polls \in 0 .. MaxRestorePolls
PlanType    == /\ listed \in {{}, Path} /\ initial \in Nat
               /\ chosen \subseteq Port /\ expect \in Nat /\ scale \in Nat
ThreadType  == /\ alive \in BOOLEAN /\ pathsFailed \in BOOLEAN
               /\ failoverTime \in 0 .. MaxFailoverPolls

\* Every variable has its type; the counters of the two polling loops stay
\* within their bounds (50 seconds, 120 polls).
TypeOK == StorageType /\ XapiType /\ ControlType /\ CountType /\ PlanType /\ ThreadType

FullMarks == pc = "done" /\ checkpoint = total

\* The exit status of XenCert compares the checkpoints, its report prints
\* retval: a run that exits 0 never has a report that says FAIL, and no
\* sequence of outcomes earns more checkpoints than there are.
FullMarksMeanPass ==
  pc = "done" => /\ checkpoint <= total
                 /\ checkpoint = total => retval

\* A test with all its checkpoints leaves the storage as it found it: every
\* port open, every path active, and no object of the test left behind.
FullMarksLeaveNothing ==
  FullMarks => blocked = {} /\ down = {} /\ vbd = "none" /\ ~vdi /\ ~sr

\* The blocking script can tell the truth about a setup: one path per target
\* address for iSCSI, equally many paths on each of at least two ports for HBA.
Regular(s) ==
  LET PathsOf(S) == {p \in Path : s.portOf[p] \in S}
  IN  \/ /\ s.handler = "iscsi"
         /\ \A p, q \in Path : s.portOf[p] = s.portOf[q] => p = q
      \/ /\ s.handler = "hba"
         /\ Cardinality(s.ports) > 1
         /\ \A S \in SUBSET s.ports :
              Cardinality(PathsOf(S)) * Cardinality(s.ports) = Cardinality(Path) * Cardinality(S)

\* The checkpoint for a failover is given only when multipathd has failed
\* exactly the paths behind the ports the script says it blocked
\* ("i.e. the correct paths are detected as failed").
FailoverCredited == pc = "judge" /\ pc' = "unblock"
CreditMeansFailover ==
  [][FailoverCredited /\ Regular(setup) =>
       chosen # {} /\ blocked = chosen /\ down = PathsOn(chosen)]_vars

\* An iteration starts from an intact storage: nothing
\* is left from the iteration before, and no earlier thread still runs.
IterationsIndependent ==
  [][(pc = "iterate" /\ pc' = "watch") => blocked = {} /\ down = {} /\ ~alive]_vars

\* The checkpoint of the cleanup means that nothing the test created is left,
\* also when an earlier step failed half way.
CleanupCreditMeansClean ==
  [][pc # "done" /\ pc' = "done" /\ checkpoint' > checkpoint
       => vbd' = "none" /\ ~vdi' /\ ~sr']_vars

\* The test ends, and its thread does too, however slowly multipathd notices
\* a change and whatever fails.
Terminates == <>[](pc = "done" /\ ~alive)
============================================================================
