-------------------------- MODULE MultipathProofs --------------------------
(***************************************************************************)
(* Proofs about Multipath, for every finite set of paths and ports, every  *)
(* number of iterations and every bound of the two polling loops.          *)
(*                                                                         *)
(* The argument has layers, each an invariant relative to the ones before  *)
(* it: TypeOK, MarksInv (checkpoints against the steps to come),           *)
(* ObjectsInv (what exists in XAPI against what the driver refers to),     *)
(* ThreadInv (when the watching thread may run) and, for a Healthy         *)
(* storage, StorageInv (ports and paths against what the driver believes). *)
(***************************************************************************)
EXTENDS Multipath, FiniteSetTheorems, TLAPS

----------------------------------------------------------------------------
\* The inductive invariants.

\* The checkpoints the driver can still earn from pc on without another
\* iteration, for a driver that has not lost any.
Pending ==
  CASE pc \in {"config", "create"}        -> 6
    [] pc = "status"                      -> 5
    [] pc = "vdi"                         -> 4
    [] pc = "firstio"                     -> 2
    [] pc \in {"watch", "io", "judge"}    -> 3
    [] pc \in {"unblock", "restore"}      -> 2
    [] pc \in {"iterate", "vbdcleanup", "srcleanup", "mpcleanup"} -> 1
    [] OTHER                              -> 0

\* Only a run whose retval is still TRUE can reach all its checkpoints.
MarksInv == /\ checkpoint + Pending <= total
            /\ ~retval => checkpoint + Pending < total

\* Nothing exists without its SR, the driver refers to the SR it created, and
\* past the cleanup of the SR nothing exists any more.
ObjectsInv ==
  /\ vbd # "none" => vdi
  /\ vdi => sr
  /\ sr => "sr" \in refs
  /\ pc \in {"config", "create"} => ~sr
  /\ pc \in {"status", "vdi"} => ~vdi /\ sr
  /\ "vbd" \in refs /\ pc \notin {"srcleanup", "mpcleanup", "done"} => vdi
  /\ pc = "mpcleanup" => ~sr

\* The driver and the thread agree on who runs.
ThreadInv == alive => pc \notin {"config", "create", "status", "vdi", "firstio", "iterate",
                                 "judge", "unblock", "restore"}

Before   == {"config", "create", "status", "vdi", "firstio", "iterate"}
Watching == {"watch", "io", "judge"}
Started  == {"vdi", "firstio", "iterate", "unblock", "restore"} \cup Watching

\* Every port the script was told to unblock has a path that shows it.
Visible(S) == \A x \in S : PathsOn({x}) # {}

\* Until the first iteration, and between iterations, the storage is intact.
Intact == pc \in Before => blocked = {} /\ down = {}

\* What the driver learned from GetPathStatus.
Learned == pc \in Started => /\ listed = Path
                             /\ initial = Cardinality(Path)
                             /\ Cardinality(Path) > 0

\* While the thread watches, only paths behind ports the script named can be
\* failed; their number is what the driver expects, and no other answer of
\* multipathd, an empty one included, gives that number.
Watched ==
  setup.handler # "manual" /\ pc \in Watching =>
    /\ chosen # {} /\ Visible(chosen)
    /\ blocked \subseteq chosen /\ down \subseteq PathsOn(blocked)
    /\ scale > 0
    /\ Cardinality(PathsOn(chosen)) * scale = expect
    /\ expect # Cardinality(Path) * scale
    /\ pathsFailed => down = PathsOn(chosen)

\* While the driver restores, a port that is still blocked shows itself as a
\* failed path.
Restoring ==
  setup.handler # "manual" /\ pc \in {"unblock", "restore"} =>
    blocked \subseteq chosen /\ PathsOn(blocked) \subseteq down /\ Visible(chosen)

Operated == setup.handler = "manual" /\ pc = "restore" => blocked = {}

\* The cleanup of a test without an exception starts from an intact storage.
Restored == retval /\ pc \in {"vbdcleanup", "srcleanup", "mpcleanup", "done"} =>
              blocked = {} /\ down = {}

StorageInv == Intact /\ Learned /\ Watched /\ Restoring /\ Operated /\ Restored

\* The storages the last invariant is about: every script can tell the truth,
\* and no path has failed before the test.
Healthy == /\ \A s \in Setups : s.handler = "manual" \/ Regular(s)
           /\ DownAtStart \subseteq {{}}

----------------------------------------------------------------------------
\* Facts about the step relation.

LEMMA PathFinite ==
  ASSUME NEW S \in SUBSET Path
  PROVE  IsFiniteSet(S) /\ Cardinality(S) \in Nat
BY PathAssumption, FS_Subset, FS_CardinalityType

LEMMA PortFinite ==
  ASSUME NEW S \in SUBSET Port
  PROVE  IsFiniteSet(S) /\ Cardinality(S) \in Nat
BY PathAssumption, FS_Subset, FS_CardinalityType

LEMMA TypeInit == Init => TypeOK
<1> SUFFICES ASSUME Init PROVE TypeOK
    OBVIOUS
<1> USE DEF Init
<1>1. StorageType /\ PlanType
  BY DownAssumption DEF StorageType, PlanType, DownAssumption
<1>2. XapiType
  BY SetupAssumption DEF XapiType, SetupType, SetupAssumption
<1>3. ControlType
  BY DEF ControlType, Refs
<1>4. CountType
  BY BoundAssumption DEF CountType
<1>5. failoverTime \in 0 .. MaxFailoverPolls
  BY BoundAssumption
<1>6. QED BY <1>1, <1>2, <1>3, <1>4, <1>5 DEF TypeOK, ThreadType

\* What a sample of the blocking script leaves in chosen, expect and scale.
LEMMA SampleType ==
  ASSUME TypeOK, NEW S, IscsiSample(S) \/ HbaSample(S)
  PROVE  chosen' \subseteq Port /\ expect' \in Nat /\ scale' \in Nat
<1>s. setup \in SetupType /\ listed \in SUBSET Path
  BY SetupAssumption DEF TypeOK, StorageType, PlanType, SetupAssumption
<1>1. CASE IscsiSample(S)
  <2>1. S \in SUBSET Path
    BY <1>1, <1>s DEF IscsiSample
  <2>2. QED BY <1>1, <2>1, <1>s, PathFinite DEF IscsiSample, SetupType
<1>2. CASE HbaSample(S)
  <2>1. S \in SUBSET Port /\ setup.ports \in SUBSET Port
    BY <1>2, <1>s DEF HbaSample, SetupType
  <2>2. Cardinality(S) \in Nat /\ NPorts \in Nat /\ Cardinality(listed) \in Nat
    BY <2>1, <1>s, PathFinite, PortFinite DEF NPorts
  <2>3. Cardinality(listed) * Cardinality(S) \in Nat
    BY <2>2
  <2>4. QED BY <1>2, <2>1, <2>2, <2>3 DEF HbaSample
<1>3. QED BY <1>1, <1>2

\* The comparison of the thread is between integers.
LEMMA FailedType ==
  ASSUME TypeOK, NEW answer \in {Active, {}}
  PROVE  Failed(Cardinality(listed) - Cardinality(answer)) \in BOOLEAN
<1>1. Cardinality(listed) \in Nat /\ Cardinality(answer) \in Nat
  BY PathFinite DEF TypeOK, PlanType, Active
<1>2. expect \in Nat /\ scale \in Nat
  BY DEF TypeOK, PlanType
<1>3. (Cardinality(listed) - Cardinality(answer)) * scale \in Int
  BY <1>1, <1>2
<1>4. CASE setup.handler = "manual"
  BY <1>2, <1>3, <1>4 DEF Failed
<1>5. CASE setup.handler # "manual"
  BY <1>5 DEF Failed
<1>6. QED BY <1>4, <1>5

LEMMA PollsStep ==
  ASSUME [Next]_vars
  PROVE  polls' \in {polls, 0} \/ (polls < MaxRestorePolls /\ polls' = polls + 1)
<1> USE DEF env, xapi, marks, plan, paths, thread, own, Goto, Raise, StartWatch, StartIteration,
            vars, Next, Driver, Iteration, Thread, Multipathd
<1>1. CASE RestorePoll
  BY <1>1 DEF RestorePoll
<1>2. ASSUME ~RestorePoll PROVE polls' \in {polls, 0}
  BY <1>2 DEF ConfigError, EnableMultipathing, CreateSR, GetPathStatus,
              CreateVdiAndVbd, FirstIO, BlockByScript, BlockFails, BlockByOperator, Watch,
              DeviceIO, JudgeFailover, Unblock, RestoreTimeout, IterationsDone,
              CleanupVbd, CleanupSr, CleanupMp, ThreadPoll, ThreadExit, MultipathdFails,
              MultipathdReinstates, Finished
<1>3. QED BY <1>1, <1>2

LEMMA TypeStep == TypeOK /\ [Next]_vars => TypeOK'
<1> USE DEF TypeOK, env, xapi, marks, plan, paths, thread, own, Raise, Credit, Goto,
            StartWatch, StartIteration, ScriptUnblocks, vars, Next, Driver, Iteration, Thread,
            Multipathd, ConfigError, EnableMultipathing, CreateSR, GetPathStatus,
            CreateVdiAndVbd, FirstIO, BlockByScript, BlockFails, BlockByOperator, Watch,
            DeviceIO, JudgeFailover, Unblock, RestorePoll, RestoreTimeout, IterationsDone,
            CleanupVbd, CleanupSr, CleanupMp, ThreadPoll, ThreadExit, MultipathdFails,
            MultipathdReinstates, Finished
<1> SUFFICES ASSUME TypeOK, [Next]_vars PROVE TypeOK'
    OBVIOUS
<1>1. StorageType'
  <2>1. (setup \in Setups)'
    BY DEF StorageType
  <2>2. (down \subseteq Path)'
    BY DEF StorageType, BlockedPaths, PathsOn
  <2>3. (blocked \subseteq Port)'
    <3>1. CASE BlockByScript
      BY <3>1, SampleType DEF StorageType
    <3>2. CASE ~BlockByScript
      BY <3>2 DEF StorageType
    <3>3. QED BY <3>1, <3>2
  <2>4. QED BY <2>1, <2>2, <2>3 DEF StorageType
<1>2. XapiType'
  <2>1. (mp \in BOOLEAN)'
    BY DEF XapiType
  <2>2. (vdi \in BOOLEAN)'
    BY DEF XapiType
  <2>3. (sr \in BOOLEAN)'
    BY DEF XapiType
  <2>4. (vbd \in {"none", "unplugged", "plugged"})'
    BY DEF XapiType
  <2>5. QED BY <2>1, <2>2, <2>3, <2>4 DEF XapiType
<1>3. ControlType'
  BY DEF ControlType, Refs
<1>4. CountType'
  <2>1. checkpoint' \in {checkpoint, checkpoint + 1, checkpoint + 2}
    OBVIOUS
  <2>2. total' \in {total, total + 2}
    OBVIOUS
  <2>3. i' \in {i, 2, i + 1}
    OBVIOUS
  <2>4. polls' \in {polls, 0} \/ (polls < MaxRestorePolls /\ polls' = polls + 1)
    BY PollsStep
  <2>5. QED BY ONLY BoundAssumption, CountType, <2>1, <2>2, <2>3, <2>4 DEF CountType
<1>5. PlanType'
  <2>1. listed' \in {{}, Path}
    BY DEF PlanType
  <2>2. initial' \in Nat
    <3>1. CASE GetPathStatus
      <4>1. listed' \ down \in SUBSET Path
        BY <2>1
      <4>2. QED BY <3>1, <4>1, PathFinite
    <3>2. CASE ~GetPathStatus
      BY <3>2 DEF PlanType
    <3>3. QED BY <3>1, <3>2
  <2>3. chosen' \subseteq Port /\ expect' \in Nat /\ scale' \in Nat
    <3>1. CASE BlockByScript
      BY <3>1, SampleType
    <3>2. CASE BlockByOperator
      BY <3>2
    <3>3. CASE ~BlockByScript /\ ~BlockByOperator
      BY <3>3 DEF PlanType
    <3>4. QED BY <3>1, <3>2, <3>3
  <2>4. QED BY <2>1, <2>2, <2>3 DEF PlanType
<1>6. ThreadType'
  <2>1. alive' \in BOOLEAN
    BY DEF ThreadType
  <2>2. pathsFailed' \in BOOLEAN
    <3>1. CASE ThreadPoll
      BY <3>1, FailedType
    <3>2. CASE ~ThreadPoll
      BY <3>2 DEF ThreadType
    <3>3. QED BY <3>1, <3>2
  <2>3. failoverTime' \in 0 .. MaxFailoverPolls
    <3>1. \/ failoverTime' \in {failoverTime, 0}
          \/ failoverTime < MaxFailoverPolls /\ failoverTime' = failoverTime + 1
      OBVIOUS
    <3>2. QED BY ONLY BoundAssumption, ThreadType, <3>1 DEF ThreadType
  <2>4. QED BY <2>1, <2>2, <2>3 DEF ThreadType
<1>7. QED BY <1>1, <1>2, <1>3, <1>4, <1>5, <1>6

\* Every reachable state has the declared types (property TypeOK of the runs).
THEOREM TypeCorrect == Spec => []TypeOK
BY TypeInit, TypeStep, PTL DEF Spec

\* The thread and multipathd change neither the objects of the test nor a
\* local variable of the driver.
LEMMA OthersStep ==
  ASSUME Thread \/ Multipathd \/ Finished \/ UNCHANGED vars
  PROVE  UNCHANGED <<setup, blocked, xapi, pc, own, marks, paths, plan, polls>>
BY DEF Thread, ThreadPoll, ThreadExit, Multipathd, MultipathdFails, MultipathdReinstates,
       Finished, vars, env

----------------------------------------------------------------------------
\* Checkpoints.

LEMMA MarksStep ==
  ASSUME TypeOK, TypeOK', MarksInv, [Next]_vars
  PROVE  MarksInv'
<1> USE DEF TypeOK, ControlType, CountType, MarksInv, Pending, Raise, Credit, Goto, marks
<1>0. UNCHANGED <<pc, marks>> => MarksInv'
  OBVIOUS
<1>1. CASE ConfigError
  BY <1>1 DEF ConfigError
<1>2. CASE EnableMultipathing
  BY <1>2 DEF EnableMultipathing
<1>3. CASE CreateSR
  BY <1>3 DEF CreateSR
<1>4. CASE GetPathStatus
  BY <1>4 DEF GetPathStatus
<1>5. CASE CreateVdiAndVbd
  BY <1>5 DEF CreateVdiAndVbd
<1>6. CASE FirstIO
  BY <1>6 DEF FirstIO
<1>7. CASE BlockByScript \/ BlockByOperator \/ BlockFails
  BY <1>7 DEF BlockByScript, BlockByOperator, BlockFails, StartIteration, StartWatch
<1>8. CASE Watch \/ DeviceIO
  BY <1>8 DEF Watch, DeviceIO
<1>9. CASE JudgeFailover
  BY <1>9 DEF JudgeFailover
<1>10. CASE Unblock
  BY <1>10 DEF Unblock
<1>11. CASE RestorePoll \/ RestoreTimeout
  BY <1>11 DEF RestorePoll, RestoreTimeout
<1>12. CASE IterationsDone \/ CleanupVbd \/ CleanupSr \/ CleanupMp
  <2>1. CASE IterationsDone
    BY <2>1 DEF IterationsDone
  <2>2. CASE CleanupVbd
    BY <2>2 DEF CleanupVbd
  <2>3. CASE CleanupSr
    BY <2>3 DEF CleanupSr
  <2>4. CASE CleanupMp
    <3>1. /\ pc = "mpcleanup" /\ pc' = "done" /\ UNCHANGED <<retval, total>>
          /\ checkpoint' \in {checkpoint, checkpoint + 1}
      BY <2>4 DEF CleanupMp
    <3>2. QED BY <3>1
  <2>5. QED BY <1>12, <2>1, <2>2, <2>3, <2>4
<1>13. CASE Thread \/ Multipathd \/ Finished \/ UNCHANGED vars
  BY <1>13, <1>0, OthersStep
<1>14. QED BY <1>1, <1>2, <1>3, <1>4, <1>5, <1>6, <1>7, <1>8, <1>9, <1>10, <1>11, <1>12, <1>13
           DEF Next, Driver, Iteration

LEMMA MarksInit == Init => MarksInv
BY DEF Init, MarksInv, Pending

\* No sequence of outcomes earns more checkpoints than there are, and a test
\* whose report says FAIL misses at least one (property FullMarksMeanPass).
THEOREM MarksCorrect == Spec => []FullMarksMeanPass
<1>1. TypeOK /\ MarksInv => FullMarksMeanPass
  BY DEF TypeOK, CountType, MarksInv, Pending, FullMarksMeanPass
<1>2. Spec => [](TypeOK /\ MarksInv)
  BY TypeInit, TypeStep, MarksInit, MarksStep, PTL DEF Spec
<1>3. QED BY <1>1, <1>2, PTL

----------------------------------------------------------------------------
\* Objects.

LEMMA ObjectsInit == Init => ObjectsInv
BY DEF Init, ObjectsInv

LEMMA ObjectsStep ==
  ASSUME TypeOK, ObjectsInv, [Next]_vars
  PROVE  ObjectsInv'
<1> USE DEF TypeOK, ControlType, XapiType, ObjectsInv, Raise, Goto, xapi, own
<1>0. UNCHANGED <<pc, refs, vbd, vdi, sr>> => ObjectsInv'
  OBVIOUS
<1>1. CASE ConfigError \/ EnableMultipathing
  BY <1>1 DEF ConfigError, EnableMultipathing
<1>2. CASE CreateSR
  BY <1>2 DEF CreateSR
<1>3. CASE GetPathStatus
  <2>1. pc = "status" /\ pc' \in {"vdi", "vbdcleanup"} /\ UNCHANGED <<refs, vbd, vdi, sr>>
    BY <1>3 DEF GetPathStatus
  <2>2. QED BY <2>1
<1>4. CASE CreateVdiAndVbd
  BY <1>4 DEF CreateVdiAndVbd
<1>5. CASE FirstIO
  BY <1>5 DEF FirstIO
<1>6. CASE BlockByScript \/ BlockByOperator \/ BlockFails
  BY <1>6 DEF BlockByScript, BlockByOperator, BlockFails, StartIteration, StartWatch
<1>7. CASE Watch \/ DeviceIO \/ JudgeFailover \/ Unblock
  BY <1>7 DEF Watch, DeviceIO, JudgeFailover, Unblock
<1>8. CASE RestorePoll \/ RestoreTimeout \/ IterationsDone
  BY <1>8 DEF RestorePoll, RestoreTimeout, IterationsDone
<1>9. CASE CleanupVbd
  BY <1>9 DEF CleanupVbd
<1>10. CASE CleanupSr
  BY <1>10 DEF CleanupSr
<1>11. CASE CleanupMp
  BY <1>11 DEF CleanupMp
<1>12. CASE Thread \/ Multipathd \/ Finished \/ UNCHANGED vars
  BY <1>12, <1>0, OthersStep
<1>13. QED BY <1>1, <1>2, <1>3, <1>4, <1>5, <1>6, <1>7, <1>8, <1>9, <1>10, <1>11, <1>12
           DEF Next, Driver, Iteration

LEMMA CleanupCreditStep ==
  ASSUME TypeOK, ObjectsInv, [Next]_vars, pc # "done", pc' = "done", checkpoint' > checkpoint
  PROVE  vbd' = "none" /\ ~vdi' /\ ~sr'
<1> USE DEF TypeOK, ControlType, CountType, Raise, Goto, marks
<1>1. CASE CleanupMp
  BY <1>1 DEF CleanupMp, ObjectsInv
<1>2. ~CleanupVbd /\ ~CleanupSr
  <2>1. ~(checkpoint > checkpoint)
    OBVIOUS
  <2>2. QED BY <2>1 DEF CleanupVbd, CleanupSr
<1>3. ~(Thread \/ Multipathd \/ Finished \/ UNCHANGED vars)
  BY OthersStep
<1>4. ~(ConfigError \/ EnableMultipathing \/ CreateSR \/ GetPathStatus \/ CreateVdiAndVbd)
  BY DEF ConfigError, EnableMultipathing, CreateSR, GetPathStatus, CreateVdiAndVbd
<1>5. ~(FirstIO \/ IterationsDone \/ Iteration)
  BY DEF FirstIO, IterationsDone, Iteration, BlockByScript, BlockByOperator, BlockFails,
         Watch, DeviceIO, JudgeFailover, Unblock, RestorePoll, RestoreTimeout, StartWatch,
         StartIteration
<1>6. QED BY <1>1, <1>2, <1>3, <1>4, <1>5 DEF Next, Driver

\* The checkpoint of the cleanup means that nothing the test created is left
\* (property CleanupCreditMeansClean), whatever failed before.
THEOREM CleanupCorrect == Spec => CleanupCreditMeansClean
<1>1. TypeOK /\ ObjectsInv /\ [Next]_vars
        => [pc # "done" /\ pc' = "done" /\ checkpoint' > checkpoint
              => vbd' = "none" /\ ~vdi' /\ ~sr']_vars
  BY CleanupCreditStep
<1>2. Spec => [](TypeOK /\ ObjectsInv)
  BY TypeInit, TypeStep, ObjectsInit, ObjectsStep, PTL DEF Spec
<1>3. QED BY <1>1, <1>2, PTL DEF Spec, CleanupCreditMeansClean

----------------------------------------------------------------------------
\* The driver and its thread.

LEMMA ThreadInit == Init => ThreadInv
BY DEF Init, ThreadInv

LEMMA ThreadStep ==
  ASSUME TypeOK, ThreadInv, [Next]_vars
  PROVE  ThreadInv'
<1> USE DEF TypeOK, ControlType, ThreadType, ThreadInv, Raise, Goto, thread
<1>1. CASE ConfigError \/ EnableMultipathing \/ CreateSR
  BY <1>1 DEF ConfigError, EnableMultipathing, CreateSR
<1>2. CASE GetPathStatus \/ CreateVdiAndVbd \/ FirstIO
  BY <1>2 DEF GetPathStatus, CreateVdiAndVbd, FirstIO
<1>3. CASE BlockByScript \/ BlockByOperator \/ BlockFails
  BY <1>3 DEF BlockByScript, BlockByOperator, BlockFails, StartWatch
<1>4. CASE Watch
  BY <1>4 DEF Watch
<1>5. CASE DeviceIO
  BY <1>5 DEF DeviceIO
<1>6. CASE JudgeFailover \/ Unblock
  BY <1>6 DEF JudgeFailover, Unblock
<1>7. CASE RestorePoll \/ RestoreTimeout \/ IterationsDone
  BY <1>7 DEF RestorePoll, RestoreTimeout, IterationsDone
<1>8. CASE CleanupVbd \/ CleanupSr \/ CleanupMp
  BY <1>8 DEF CleanupVbd, CleanupSr, CleanupMp
<1>9. CASE Thread
  BY <1>9 DEF Thread, ThreadPoll, ThreadExit
<1>10. CASE Multipathd \/ Finished \/ UNCHANGED vars
  BY <1>10 DEF Multipathd, MultipathdFails, MultipathdReinstates, Finished, vars
<1>11. QED BY <1>1, <1>2, <1>3, <1>4, <1>5, <1>6, <1>7, <1>8, <1>9, <1>10
           DEF Next, Driver, Iteration

----------------------------------------------------------------------------
\* Ports and paths.

LEMMA PathsOnSubset ==
  ASSUME NEW S
  PROVE  PathsOn(S) \in SUBSET Path
BY DEF PathsOn

\* A product with a positive factor determines the other factor.
LEMMA TimesInjective ==
  ASSUME NEW m \in Nat, NEW n \in Nat, NEW k \in Nat, k > 0, m * k = n * k
  PROVE  m = n
OBVIOUS

LEMMA StorageInit ==
  ASSUME Healthy, Init
  PROVE  StorageInv
BY DEF Healthy, Init, StorageInv, Intact, Learned, Watched, Restoring, Operated, Restored,
       Before, Started, Watching

\* A sample of the iSCSI script: one path per port, so the paths behind the
\* ports are the sampled ones.
LEMMA IscsiExpectation ==
  ASSUME TypeOK, Regular(setup), listed = Path, NEW S, IscsiSample(S)
  PROVE  /\ chosen' # {}
         /\ \A x \in chosen' : PathsOn({x}) # {}
         /\ scale' > 0
         /\ Cardinality(PathsOn(chosen')) * scale' = expect'
         /\ expect' # Cardinality(Path) * scale'
<1>1. S \in SUBSET Path /\ S # {}
  <2>1. Cardinality({}) = 0
    BY FS_EmptySet
  <2>2. QED BY <2>1 DEF IscsiSample
<1>2. chosen' = {setup.portOf[p] : p \in S} /\ expect' = Cardinality(S) /\ scale' = 1
  BY DEF IscsiSample
<1>3. PathsOn(chosen') = S
  <2>1. \A p, q \in Path : setup.portOf[p] = setup.portOf[q] => p = q
    BY DEF Regular, IscsiSample
  <2>2. QED BY <1>1, <1>2, <2>1 DEF PathsOn
<1>4. chosen' # {} /\ \A x \in chosen' : PathsOn({x}) # {}
  BY <1>1, <1>2 DEF PathsOn
<1>5. Cardinality(S) \in Nat /\ Cardinality(Path) \in Nat
  BY <1>1, PathFinite
<1>6. Cardinality(S) <= Cardinality(Path) - 1
  BY <1>5 DEF IscsiSample
<1>7. Cardinality(S) * 1 = Cardinality(S) /\ Cardinality(Path) * 1 = Cardinality(Path)
  BY <1>5
<1>8. Cardinality(S) # Cardinality(Path)
  BY <1>5, <1>6
<1>9. scale' = 1 /\ expect' = Cardinality(S)
  BY <1>2
<1>10. Cardinality(PathsOn(chosen')) * 1 = expect'
  BY <1>3, <1>7, <1>9
<1>11. scale' > 0 /\ expect' # Cardinality(Path) * 1
  BY <1>7, <1>8, <1>9
<1>12. QED BY <1>4, <1>9, <1>10, <1>11

\* A sample of the HBA script: every port carries the same share of the paths.
LEMMA HbaExpectation ==
  ASSUME TypeOK, Regular(setup), listed = Path, Cardinality(Path) > 0, NEW S, HbaSample(S)
  PROVE  /\ chosen' # {}
         /\ \A x \in chosen' : PathsOn({x}) # {}
         /\ scale' > 0
         /\ Cardinality(PathsOn(chosen')) * scale' = expect'
         /\ expect' # Cardinality(Path) * scale'
<1>1. setup \in SetupType
  BY SetupAssumption DEF TypeOK, StorageType
<1>2. S \in SUBSET Port /\ S \in SUBSET setup.ports /\ setup.ports \in SUBSET Port
  BY <1>1 DEF HbaSample, SetupType
<1>3. Cardinality(S) \in Nat /\ NPorts \in Nat /\ Cardinality(Path) \in Nat
  BY <1>2, PathFinite, PortFinite DEF NPorts
<1>4. /\ NPorts > 1
      /\ \A T \in SUBSET setup.ports :
           Cardinality(PathsOn(T)) * NPorts = Cardinality(Path) * Cardinality(T)
  BY DEF Regular, HbaSample, NPorts, PathsOn
<1>5. Cardinality(S) > 0 /\ Cardinality(S) < NPorts
  BY <1>3, <1>4 DEF HbaSample
<1>6. chosen' = S /\ expect' = Cardinality(Path) * Cardinality(S) /\ scale' = NPorts
  BY DEF HbaSample
<1>7. S # {}
  BY <1>5, FS_EmptySet
<1>8. ASSUME NEW x \in S PROVE PathsOn({x}) # {}
  <2>1. Cardinality({x}) = 1 /\ Cardinality({}) = 0
    BY FS_Singleton, FS_EmptySet
  <2>2. Cardinality(PathsOn({x})) * NPorts = Cardinality(Path) * 1
    BY <1>2, <1>4, <2>1
  <2>3. SUFFICES ASSUME PathsOn({x}) = {} PROVE FALSE
    OBVIOUS
  <2>4. 0 * NPorts = Cardinality(Path) * 1
    BY <2>1, <2>2, <2>3
  <2>5. QED BY <2>4, <1>3
<1>9. Cardinality(Path) * Cardinality(S) # Cardinality(Path) * NPorts
  BY <1>3, <1>5, TimesInjective
<1>10. QED BY <1>2, <1>3, <1>4, <1>6, <1>7, <1>8, <1>9

\* The setup is chosen once.
LEMMA SetupConstant ==
  ASSUME [Next]_vars
  PROVE  setup' = setup
BY DEF Next, Driver, Iteration, Thread, Multipathd, ConfigError, EnableMultipathing, CreateSR,
       GetPathStatus, CreateVdiAndVbd, FirstIO, BlockByScript, BlockFails, BlockByOperator, Watch,
       DeviceIO, JudgeFailover, Unblock, RestorePoll, RestoreTimeout, IterationsDone,
       CleanupVbd, CleanupSr, CleanupMp, ThreadPoll, ThreadExit, MultipathdFails,
       MultipathdReinstates, Finished, vars

\* Every port that a finite restoration left blocked would show.
LEMMA AllActive ==
  ASSUME TypeOK, Cardinality(Active) >= Cardinality(Path)
  PROVE  down = {}
<1>1. Active \in SUBSET Path /\ down \subseteq Path
  BY DEF Active, TypeOK, StorageType
<1>2. Cardinality(Active) <= Cardinality(Path) /\ Cardinality(Active) \in Nat /\ Cardinality(Path) \in Nat
  BY <1>1, PathFinite, PathAssumption, FS_Subset
<1>3. Active = Path
  BY <1>1, <1>2, PathAssumption, FS_Subset
<1>4. QED BY <1>1, <1>3 DEF Active

\* The thread reports a failover of a scripted test only when the paths behind
\* the named ports are failed, and no others.
LEMMA FailedExactly ==
  ASSUME TypeOK, Watched, Learned, setup.handler # "manual", pc \in Watching,
         NEW answer \in {Active, {}}, Failed(Cardinality(listed) - Cardinality(answer))
  PROVE  down = PathsOn(chosen)
<1>1. listed = Path /\ down \in SUBSET Path /\ scale \in Nat /\ scale > 0
  BY DEF Learned, Watching, Started, TypeOK, StorageType, PlanType, Watched
<1>2. /\ Cardinality(PathsOn(chosen)) * scale = expect
      /\ expect # Cardinality(Path) * scale
  BY DEF Watched
<1>3. (Cardinality(Path) - Cardinality(answer)) * scale = expect
  BY <1>1 DEF Failed
<1>4. Cardinality(Path) \in Nat /\ Cardinality(down) \in Nat /\ Cardinality(PathsOn(chosen)) \in Nat
  BY <1>1, PathFinite, PathsOnSubset
<1>5. answer = Active
  <2>1. SUFFICES ASSUME answer = {} PROVE FALSE
    OBVIOUS
  <2>2. Cardinality(Path) - 0 = Cardinality(Path)
    BY <1>4
  <2>3. QED BY <1>2, <1>3, <2>1, <2>2, FS_EmptySet
<1>6. Cardinality(Active) = Cardinality(Path) - Cardinality(down)
  <2>1. Path \cap down = down
    BY <1>1
  <2>2. Cardinality(Path \ down) = Cardinality(Path) - Cardinality(Path \cap down)
    BY PathAssumption, FS_Difference, Zenon
  <2>3. QED BY <2>1, <2>2 DEF Active
<1>7. Cardinality(Path) - Cardinality(answer) = Cardinality(down)
  BY <1>4, <1>5, <1>6
<1>8. Cardinality(down) = Cardinality(PathsOn(chosen))
  BY <1>1, <1>2, <1>3, <1>4, <1>7, TimesInjective
<1>9. down \in SUBSET PathsOn(chosen)
  BY DEF Watched, PathsOn
<1>10. IsFiniteSet(PathsOn(chosen))
  BY PathsOnSubset, PathFinite
<1>11. QED BY <1>8, <1>9, <1>10, FS_Subset

\* StorageInv, one part after the other.  Healthy is used where the setup is
\* known to be one a script can tell the truth about.
LEMMA StorageStep ==
  ASSUME Healthy, TypeOK, TypeOK', ThreadInv, StorageInv, [Next]_vars
  PROVE  StorageInv'
<1>s. setup' = setup
  BY SetupConstant
<1>p. \A S : PathsOn(S) \in SUBSET Path
  BY PathsOnSubset
<1>t. setup.handler = "manual" \/ Regular(setup)
  BY DEF Healthy, TypeOK, StorageType
<1> USE DEF StorageInv, TypeOK, ControlType, Raise, Goto
<1>1. CASE ConfigError \/ EnableMultipathing \/ CreateSR
  BY <1>1, <1>s DEF ConfigError, EnableMultipathing, CreateSR, Intact, Learned, Watched,
     Restoring, Operated, Restored, Before, Started, Watching, env, paths
<1>2. CASE GetPathStatus
  <2>1. UNCHANGED env /\ pc = "status" /\ down = {} /\ blocked = {}
    BY <1>2 DEF GetPathStatus, Intact, Before, env
  <2>2. CASE pc' = "vdi"
    <3>1. listed' = Path /\ initial' = Cardinality(Path \ down) /\ Cardinality(Path) >= 2
      <4>1. Cardinality({}) = 0 /\ ~(0 >= 2)
        BY FS_EmptySet
      <4>2. Cardinality(listed') \in Nat
        BY PathFinite DEF PlanType
      <4>3. Cardinality(listed') >= 2
        BY <1>2, <2>2, <4>2 DEF GetPathStatus
      <4>4. QED BY <1>2, <4>1, <4>3 DEF GetPathStatus
    <3>2. Path \ down = Path
      BY <2>1
    <3>3. Cardinality(Path) > 0
      BY <3>1, PathFinite
    <3>4. QED BY <2>1, <2>2, <3>1, <3>2, <3>3 DEF Intact, Learned, Watched, Restoring, Operated,
             Restored, Before, Watching, env
  <2>3. CASE pc' = "vbdcleanup"
    BY <2>1, <2>3 DEF Intact, Learned, Watched, Restoring, Operated, Restored, Before, Started,
       Watching, env
  <2>4. QED BY <1>2, <2>2, <2>3 DEF GetPathStatus
<1>3. CASE CreateVdiAndVbd \/ FirstIO
  BY <1>3, <1>s DEF CreateVdiAndVbd, FirstIO, Intact, Learned, Watched,
     Restoring, Operated, Restored, Before, Started, Watching, env, paths
<1>r. Raise => StorageInv'
  BY DEF Intact, Learned, Watched, Restoring, Operated, Restored, Before, Started, Watching
<1>4. CASE BlockByScript
  <2>1. pc = "iterate" /\ listed = Path /\ Cardinality(Path) > 0 /\ blocked = {} /\ down = {}
    BY <1>4 DEF BlockByScript, StartIteration, Intact, Learned, Before, Started
  <2>2. PICK S : IscsiSample(S) \/ HbaSample(S)
    BY <1>4 DEF BlockByScript
  <2>3. setup.handler # "manual" /\ Regular(setup)
    BY <2>2, <1>t DEF IscsiSample, HbaSample
  <2>4. /\ chosen' # {}
        /\ \A x \in chosen' : PathsOn({x}) # {}
        /\ scale' > 0
        /\ Cardinality(PathsOn(chosen')) * scale' = expect'
        /\ expect' # Cardinality(Path) * scale'
    BY <2>1, <2>2, <2>3, IscsiExpectation, HbaExpectation
  <2>5. /\ blocked' \subseteq chosen' /\ down' = {} /\ ~pathsFailed' /\ pc' = "watch"
        /\ UNCHANGED paths
    BY <1>4, <2>1 DEF BlockByScript, StartWatch
  <2>6. Watched'
    <3>1. PathsOn(chosen)' = PathsOn(chosen')
      BY <1>s DEF PathsOn
    <3>2. \A x : PathsOn({x})' = PathsOn({x})
      BY <1>s DEF PathsOn
    <3>3. QED BY <2>4, <2>5, <3>1, <3>2 DEF Watched, Visible
  <2>7. QED BY <2>1, <2>5, <2>6 DEF Intact, Learned, Restoring, Operated, Restored, Before,
           Started, paths
<1>5. CASE BlockByOperator
  <2>1. pc = "iterate" /\ pc' = "watch" /\ UNCHANGED paths /\ setup.handler = "manual"
    BY <1>5 DEF BlockByOperator, StartIteration, StartWatch
  <2>2. QED BY <1>s, <2>1 DEF Intact, Learned, Watched, Restoring, Operated, Restored, Before,
           Started, paths
<1>6. CASE BlockFails
  BY <1>6, <1>r DEF BlockFails
<1>7. CASE Watch
  <2>1. /\ UNCHANGED <<setup, env, plan, paths, pathsFailed>>
        /\ pc = "watch" /\ pc' \in Watching
    BY <1>7 DEF Watch, Watching, thread
  <2>2. QED BY <2>1 DEF Intact, Learned, Watched, Visible, PathsOn, Restoring, Operated, Restored,
           Before, Started, Watching, env, plan, paths
<1>8. CASE DeviceIO
  <2>1. CASE pc' = "watch"
    <3>1. UNCHANGED <<setup, env, plan, paths, pathsFailed>> /\ pc = "io"
      BY <1>8 DEF DeviceIO, thread
    <3>2. QED BY <2>1, <3>1 DEF Intact, Learned, Watched, Visible, PathsOn, Restoring, Operated,
             Restored, Before, Started, Watching, env, plan, paths
  <2>2. QED BY <1>8, <1>r, <2>1 DEF DeviceIO
<1>9. CASE JudgeFailover
  <2>1. CASE pathsFailed
    <3>1. UNCHANGED <<setup, env, plan, paths>> /\ pc = "judge" /\ pc' = "unblock"
      BY <1>9, <2>1 DEF JudgeFailover, env
    <3>2. QED BY <2>1, <3>1 DEF Intact, Learned, Watched, Visible, PathsOn, Restoring, Operated,
             Restored, Before, Started, Watching, env, plan, paths
  <2>2. QED BY <1>9, <1>r, <2>1 DEF JudgeFailover
<1>10. CASE Unblock
  <2>1. CASE pc' = "restore"
    <3>1. UNCHANGED <<setup, down, plan, paths>> /\ pc = "unblock"
      BY <1>10 DEF Unblock
    <3>2. blocked' \subseteq blocked /\ (setup.handler = "manual" => blocked' = {})
      BY <1>10, <2>1 DEF Unblock, ScriptUnblocks
    <3>3. Learned' /\ Intact' /\ Operated' /\ Restored' /\ Watched'
      BY <2>1, <3>1, <3>2 DEF Learned, Intact, Operated, Restored, Watched, Before, Started,
         Watching, paths
    <3>4. Restoring'
      BY <2>1, <3>1, <3>2 DEF Restoring, Visible, PathsOn, plan
    <3>5. QED BY <3>3, <3>4
  <2>2. QED BY <1>10, <1>r, <2>1 DEF Unblock
<1>11. CASE RestorePoll
  <2>1. /\ UNCHANGED <<setup, env, chosen, paths>> /\ pc = "restore"
        /\ pc' \in {"iterate", "restore"}
        /\ pc' = "iterate" => Cardinality(Active) >= initial
    BY <1>11 DEF RestorePoll
  <2>2. CASE pc' = "iterate"
    <3>1. down = {}
      BY <2>1, <2>2, AllActive DEF Learned, Started
    <3>2. blocked = {}
      BY <2>1, <3>1 DEF Restoring, Operated, Visible, PathsOn
    <3>3. QED BY <2>1, <2>2, <3>1, <3>2 DEF Intact, Learned, Watched, Restoring, Operated,
             Restored, Started, Watching, env, paths
  <2>3. CASE pc' = "restore"
    BY <2>1, <2>3 DEF Intact, Learned, Watched, Visible, PathsOn, Restoring, Operated, Restored,
       Before, Started, Watching, env, paths
  <2>4. QED BY <2>1, <2>2, <2>3
<1>12. CASE RestoreTimeout
  BY <1>12, <1>r DEF RestoreTimeout
<1>13. CASE IterationsDone \/ CleanupVbd \/ CleanupSr \/ CleanupMp
  <2>1. UNCHANGED <<env, retval>>
    BY <1>13 DEF IterationsDone, CleanupVbd, CleanupSr, CleanupMp, marks
  <2>2. /\ pc \in {"iterate", "vbdcleanup", "srcleanup", "mpcleanup"}
        /\ pc' \in {"vbdcleanup", "srcleanup", "mpcleanup", "done"}
    BY <1>13 DEF IterationsDone, CleanupVbd, CleanupSr, CleanupMp
  <2>3. retval' => blocked' = {} /\ down' = {}
    BY <2>1, <2>2 DEF Intact, Restored, Before, env
  <2>4. QED BY <2>2, <2>3 DEF Intact, Learned, Watched, Restoring, Operated, Restored, Before,
           Started, Watching
<1>14. CASE ThreadPoll
  <2>1. UNCHANGED <<setup, env, pc, retval, paths, plan>> /\ alive
    BY <1>14 DEF ThreadPoll, marks
  <2>2. setup.handler # "manual" /\ pc \in Watching /\ pathsFailed' => down = PathsOn(chosen)
    BY <1>14, FailedExactly DEF ThreadPoll
  <2>3. Watched'
    BY <2>1, <2>2 DEF Watched, Visible, PathsOn, env, plan
  <2>4. QED BY <2>1, <2>3 DEF Intact, Learned, Restoring, Visible, PathsOn, Operated, Restored,
           env, plan, paths
<1>15. CASE ThreadExit \/ Finished \/ UNCHANGED vars
  <2>1. UNCHANGED <<setup, env, pc, retval, paths, plan, pathsFailed>>
    BY <1>15 DEF ThreadExit, Finished, vars, marks, thread
  <2>2. QED BY <2>1 DEF Intact, Learned, Watched, Restoring, Visible, PathsOn, Operated, Restored,
           env, plan, paths
<1>16. CASE Multipathd
  <2>1. PICK p \in Path : MultipathdFails(p) \/ MultipathdReinstates(p)
    BY <1>16 DEF Multipathd
  <2>2. UNCHANGED <<setup, blocked, pc, retval, paths, plan, pathsFailed>>
    BY <2>1 DEF MultipathdFails, MultipathdReinstates, marks, thread
  <2>3. \/ p \in PathsOn(blocked) /\ p \notin down /\ down' = down \cup {p}
        \/ p \notin PathsOn(blocked) /\ p \in down /\ down' = down \ {p}
    BY <2>1 DEF MultipathdFails, MultipathdReinstates, BlockedPaths
  <2>4. blocked = {} /\ down = {} => FALSE
    BY <2>3 DEF PathsOn
  <2>5. Intact' /\ Learned' /\ Operated' /\ Restored'
    BY <2>2, <2>4 DEF Intact, Learned, Operated, Restored, paths
  <2>6. Restoring'
    BY <2>2, <2>3 DEF Restoring, Visible, PathsOn, plan
  <2>7. Watched'
    <3>1. SUFFICES ASSUME setup.handler # "manual", pc \in Watching PROVE Watched'
      BY <2>2 DEF Watched
    <3>2. down' \subseteq PathsOn(blocked)
      BY <2>3, <3>1 DEF Watched
    <3>3. pathsFailed => down' = PathsOn(chosen)
      BY <2>3, <3>1 DEF Watched, PathsOn
    <3>4. QED BY <2>2, <3>1, <3>2, <3>3 DEF Watched, Visible, PathsOn, plan
  <2>8. QED BY <2>5, <2>6, <2>7
<1>17. QED BY <1>1, <1>2, <1>3, <1>4, <1>5, <1>6, <1>7, <1>8, <1>9, <1>10, <1>11, <1>12, <1>13,
              <1>14, <1>15, <1>16 DEF Next, Driver, Iteration, Thread

\* The inductive invariant.
IInv == TypeOK /\ MarksInv /\ ObjectsInv /\ ThreadInv /\ StorageInv

LEMMA Inductive ==
  ASSUME Healthy
  PROVE  Spec => []IInv
<1>1. Init => IInv
  BY TypeInit, MarksInit, ObjectsInit, ThreadInit, StorageInit DEF IInv
<1>2. IInv /\ [Next]_vars => IInv'
  BY TypeStep, MarksStep, ObjectsStep, ThreadStep, StorageStep DEF IInv
<1>3. QED BY <1>1, <1>2, PTL DEF Spec

\* A driver that ends with an SR left behind misses the checkpoint of the
\* cleanup.
LeftBehind == pc = "done" /\ checkpoint = total => ~sr

LEMMA LeftBehindStep ==
  ASSUME IInv, IInv', LeftBehind, [Next]_vars
  PROVE  LeftBehind'
<1> USE DEF IInv, TypeOK, ControlType, CountType, MarksInv, Pending, LeftBehind, Raise, Goto,
            xapi, marks
<1>1. CASE ConfigError \/ EnableMultipathing \/ CreateSR \/ GetPathStatus
  BY <1>1 DEF ConfigError, EnableMultipathing, CreateSR, GetPathStatus
<1>2. CASE CreateVdiAndVbd \/ FirstIO \/ IterationsDone
  BY <1>2 DEF CreateVdiAndVbd, FirstIO, IterationsDone
<1>3. CASE Iteration
  BY <1>3 DEF Iteration, BlockByScript, BlockByOperator, BlockFails, StartWatch, Watch, DeviceIO,
     JudgeFailover, Unblock, RestorePoll, RestoreTimeout
<1>4. CASE CleanupVbd
  BY <1>4 DEF CleanupVbd
<1>5. CASE CleanupSr
  BY <1>5 DEF CleanupSr
<1>6. CASE CleanupMp
  BY <1>6 DEF CleanupMp, ObjectsInv
<1>7. CASE Thread \/ Multipathd \/ Finished \/ UNCHANGED vars
  BY <1>7, OthersStep
<1>8. QED BY <1>1, <1>2, <1>3, <1>4, <1>5, <1>6, <1>7 DEF Next, Driver

\* A test of a healthy storage that earns all its checkpoints leaves every
\* port open, every path active and no object behind (property
\* FullMarksLeaveNothing).
THEOREM FullMarksCorrect ==
  ASSUME Healthy
  PROVE  Spec => []FullMarksLeaveNothing
<1>1. IInv /\ LeftBehind => FullMarksLeaveNothing
  <2> SUFFICES ASSUME IInv, LeftBehind, pc = "done", checkpoint = total
               PROVE  blocked = {} /\ down = {} /\ vbd = "none" /\ ~vdi /\ ~sr
    BY DEF FullMarksLeaveNothing, FullMarks
  <2>1. retval
    BY DEF IInv, TypeOK, ControlType, CountType, MarksInv, Pending
  <2>2. blocked = {} /\ down = {}
    BY <2>1 DEF IInv, StorageInv, Restored
  <2>3. vbd = "none" /\ ~vdi /\ ~sr
    BY DEF IInv, ObjectsInv, LeftBehind
  <2>4. QED BY <2>2, <2>3
<1>2. Init => LeftBehind
  BY DEF Init, LeftBehind
<1>3. IInv /\ IInv' /\ LeftBehind /\ [Next]_vars => LeftBehind'
  BY LeftBehindStep
<1>4. QED BY <1>1, <1>2, <1>3, Inductive, PTL DEF Spec

\* The checkpoint for a failover is given only when exactly the paths behind
\* the blocked ports are failed (property CreditMeansFailover).
THEOREM FailoverCorrect ==
  ASSUME Healthy
  PROVE  Spec => CreditMeansFailover
<1>1. IInv /\ [Next]_vars
        => [FailoverCredited /\ Regular(setup) =>
              chosen # {} /\ blocked = chosen /\ down = PathsOn(chosen)]_vars
  <2>1. SUFFICES ASSUME IInv, pc = "judge", pc' = "unblock", [Next]_vars, Regular(setup)
                 PROVE  chosen # {} /\ blocked = chosen /\ down = PathsOn(chosen)
    BY DEF FailoverCredited
  <2>2. JudgeFailover
    BY <2>1 DEF Next, Driver, Iteration, Thread, Multipathd, Finished, ConfigError,
       EnableMultipathing, CreateSR, GetPathStatus, CreateVdiAndVbd, FirstIO, BlockByScript,
       BlockByOperator, BlockFails, StartIteration, Watch, DeviceIO, Unblock, RestorePoll,
       RestoreTimeout, IterationsDone, CleanupVbd, CleanupSr, CleanupMp, ThreadPoll, ThreadExit,
       MultipathdFails, MultipathdReinstates, Goto, vars
  <2>3. pathsFailed /\ setup.handler # "manual"
    BY <2>1, <2>2 DEF JudgeFailover, Raise, Regular
  <2>4. /\ chosen # {} /\ Visible(chosen) /\ blocked \subseteq chosen
        /\ down \subseteq PathsOn(blocked) /\ down = PathsOn(chosen)
    BY <2>1, <2>3 DEF IInv, StorageInv, Watched, Watching
  <2>5. chosen \subseteq blocked
    BY <2>4 DEF Visible, PathsOn
  <2>6. QED BY <2>4, <2>5
<1>2. QED BY <1>1, Inductive, PTL DEF Spec, CreditMeansFailover

\* Every iteration starts from an intact storage and without an earlier
\* thread (property IterationsIndependent).
THEOREM IterationsCorrect ==
  ASSUME Healthy
  PROVE  Spec => IterationsIndependent
<1>1. IInv => [(pc = "iterate" /\ pc' = "watch")
                 => blocked = {} /\ down = {} /\ ~alive]_vars
  BY DEF IInv, ThreadInv, StorageInv, Intact, Before
<1>2. QED BY <1>1, Inductive, PTL DEF Spec, IterationsIndependent
============================================================================
