------------------------- MODULE ControlPathProofs -------------------------
(***************************************************************************)
(* What the exit status of the control path tests means, for any number of *)
(* iterations, PBD cycles, LUNs and NFS versions.                          *)
(*                                                                         *)
(* The inductive invariant keeps a ledger: Due is the number of announced  *)
(* checkpoints that the rest of a pass can still earn at most, and a run   *)
(* with a flaw (a failed pass, or an SR that was not removed) is behind    *)
(* for good.                                                               *)
(***************************************************************************)
EXTENDS ControlPath, TLAPS

\* Control is outside of a pass, or at the start of one: what sr_ref
\* designates is then the legacy of the pass before.
Between == pc \in {"start", "next", "supported", "disable", "unwind", "reported", "aborted"}

Due == IF Between THEN 0
       ELSE IF pc = "create" THEN 5
       ELSE IF pc = "plug" THEN 6 + PbdCycles
       ELSE IF pc = "destroy" THEN 6
       ELSE IF pc = "cleanup" THEN (IF retval THEN 1 ELSE 2)
       ELSE 4

Legacy == sr = "live" /\ (Between \/ pc = "create")
Flawed == failed \/ left > 0 \/ Legacy

MarksInv == /\ checkpoint + Due <= total
            /\ Flawed => checkpoint + Due < total

VerdictInv == verdict \/ failed

ObjectsInv == /\ vdi => sr = "live"
              /\ vbd # "none" => vdi
              /\ pc \in {"plug", "destroy"} => ~vdi /\ iter < Iterations
              /\ pc \in {"write", "removevdi"} => vdi
              /\ (pc = "create" /\ sr = "live") => iter = 0

WarnedInv == Legacy \/ left > 0 => warned

ClusterInv == /\ enabled_clustering => ~hadCluster /\ kind = "gfs2"
              /\ cluster # hadCluster => enabled_clustering
              /\ pc = "reported" => cluster = hadCluster
              /\ pc = "supported" => kind = "block"

IInv == TypeOK /\ MarksInv /\ VerdictInv /\ ObjectsInv /\ WarnedInv /\ ClusterInv

\* The ledger is open, and nothing exists yet.
LEMMA InitInv == Init => IInv
<1> SUFFICES ASSUME Init PROVE IInv
  OBVIOUS
<1> USE DEF Init
<1>1. TypeOK
  <2>1. ControlType /\ MarksType
    BY CountAssumption, HandlerAssumption DEF ControlType, MarksType, Kinds
  <2>2. ObjectType
    BY DEF ObjectType
  <2>3. FlagType /\ PoolType
    BY Zenon DEF FlagType, PoolType
  <2> QED
    BY <2>1, <2>2, <2>3 DEF TypeOK
<1>2. MarksInv /\ WarnedInv
  BY DEF MarksInv, WarnedInv, Flawed, Legacy, Due, Between
<1>3. VerdictInv /\ ObjectsInv /\ ClusterInv
  BY DEF VerdictInv, ObjectsInv, ClusterInv
<1> QED
  BY <1>1, <1>2, <1>3 DEF IInv

\* No step leaves a type.
LEMMA TypeStep ==
  ASSUME IInv, [Next]_vars PROVE TypeOK'
<1> USE CountAssumption DEF IInv, TypeOK, ControlType, ObjectType, MarksType, FlagType, PoolType, Kinds, ObjectsInv, objects, marks, outcome, pool
<1>1. CASE Start
  <2>1. ControlType'
    BY <1>1 DEF Start
  <2>2. ObjectType'
    BY <1>1 DEF Start
  <2>3. MarksType'
    BY <1>1 DEF Start
  <2>4. FlagType'
    BY <1>1 DEF Start
  <2>5. PoolType'
    BY <1>1 DEF Start
  <2> QED
    BY <2>1, <2>2, <2>3, <2>4, <2>5
<1>2. CASE NextPass
  <2>1. ControlType'
    BY <1>2 DEF NextPass, Goto
  <2>2. ObjectType'
    <3>1. sr' \in {"none", "live", "gone"} /\ left' \in Nat
      BY <1>2 DEF NextPass, Goto
    <3>2. vdi' \in {FALSE, vdi} /\ vbd' \in {"none", vbd}
      BY <1>2 DEF NextPass, Goto
    <3> QED
      BY <3>1, <3>2 DEF ObjectType
  <2>3. MarksType'
    BY <1>2 DEF NextPass, Goto
  <2>4. FlagType'
    BY <1>2 DEF NextPass, Goto
  <2>5. PoolType'
    BY <1>2 DEF NextPass, Goto
  <2> QED
    BY <2>1, <2>2, <2>3, <2>4, <2>5
<1>3. CASE CreateSR
  <2>1. ControlType'
    BY <1>3 DEF CreateSR, Raise, Credit, SrCreated, CreateReturns, Repeating, Announced
  <2>2. ObjectType'
    <3>1. sr' \in {"none", "live", "gone"} /\ left' \in Nat
      BY <1>3 DEF CreateSR, Raise, SrCreated
    <3>2. vdi' \in {FALSE, vdi} /\ vbd' \in {"none", vbd}
      BY <1>3 DEF CreateSR, Raise, SrCreated
    <3> QED
      BY <3>1, <3>2 DEF ObjectType
  <2>3. MarksType'
    BY <1>3 DEF CreateSR, Raise, Credit, SrCreated, CreateReturns, Repeating, Announced
  <2>4. FlagType'
    BY <1>3 DEF CreateSR, Raise, Credit, SrCreated, CreateReturns, Repeating, Announced
  <2>5. PoolType'
    BY <1>3 DEF CreateSR, Raise, Credit, SrCreated, CreateReturns, Repeating, Announced
  <2> QED
    BY <2>1, <2>2, <2>3, <2>4, <2>5
<1>4. CASE PlugAndUnplugPbds
  <2>1. ControlType'
    BY <1>4 DEF PlugAndUnplugPbds, Goto, Credit
  <2>2. ObjectType'
    BY <1>4 DEF PlugAndUnplugPbds, Goto, Credit
  <2>3. MarksType'
    BY <1>4 DEF PlugAndUnplugPbds, Goto, Credit
  <2>4. FlagType'
    BY <1>4 DEF PlugAndUnplugPbds, Goto, Credit
  <2>5. PoolType'
    BY <1>4 DEF PlugAndUnplugPbds, Goto, Credit
  <2> QED
    BY <2>1, <2>2, <2>3, <2>4, <2>5
<1>5. CASE DestroySr
  <2>1. ControlType'
    BY <1>5 DEF DestroySr, Raise, Credit
  <2>2. ObjectType'
    BY <1>5 DEF DestroySr, Raise, Credit
  <2>3. MarksType'
    BY <1>5 DEF DestroySr, Raise, Credit
  <2>4. FlagType'
    BY <1>5 DEF DestroySr, Raise, Credit
  <2>5. PoolType'
    BY <1>5 DEF DestroySr, Raise, Credit
  <2> QED
    BY <2>1, <2>2, <2>3, <2>4, <2>5
<1>6. CASE CreateVdiAndVbd
  <2>1. ControlType'
    BY <1>6 DEF CreateVdiAndVbd, Raise
  <2>2. ObjectType'
    BY <1>6 DEF CreateVdiAndVbd, Raise
  <2>3. MarksType'
    BY <1>6 DEF CreateVdiAndVbd, Raise
  <2>4. FlagType'
    BY <1>6 DEF CreateVdiAndVbd, Raise
  <2>5. PoolType'
    BY <1>6 DEF CreateVdiAndVbd, Raise
  <2> QED
    BY <2>1, <2>2, <2>3, <2>4, <2>5
<1>7. CASE WriteAll
  <2>1. ControlType'
    BY <1>7 DEF WriteAll, Goto
  <2>2. ObjectType'
    BY <1>7 DEF WriteAll, Goto
  <2>3. MarksType'
    BY <1>7 DEF WriteAll, Goto
  <2>4. FlagType'
    BY <1>7 DEF WriteAll, Goto
  <2>5. PoolType'
    BY <1>7 DEF WriteAll, Goto
  <2> QED
    BY <2>1, <2>2, <2>3, <2>4, <2>5
<1>8. CASE RemoveVdi
  <2>1. ControlType'
    BY <1>8 DEF RemoveVdi, Goto, Credit
  <2>2. ObjectType'
    BY <1>8 DEF RemoveVdi, Goto, Credit
  <2>3. MarksType'
    BY <1>8 DEF RemoveVdi, Goto, Credit
  <2>4. FlagType'
    BY <1>8 DEF RemoveVdi, Goto, Credit
  <2>5. PoolType'
    BY <1>8 DEF RemoveVdi, Goto, Credit
  <2> QED
    BY <2>1, <2>2, <2>3, <2>4, <2>5
<1>9. CASE CleanupSr
  <2>1. ControlType'
    BY <1>9 DEF CleanupSr, EndPass, Goto, CleanupSucceeds, CleanupFails, Trim, Credit
  <2>2. ObjectType'
    BY <1>9 DEF CleanupSr, EndPass, Goto, CleanupSucceeds, CleanupFails, Trim, Credit
  <2>3. MarksType'
    BY <1>9 DEF CleanupSr, EndPass, Goto, CleanupSucceeds, CleanupFails, Trim, Credit
  <2>4. FlagType'
    BY <1>9 DEF CleanupSr, EndPass, Goto, CleanupSucceeds, CleanupFails, Trim, Credit
  <2>5. PoolType'
    BY <1>9 DEF CleanupSr, EndPass, Goto, CleanupSucceeds, CleanupFails, Trim, Credit
  <2> QED
    BY <2>1, <2>2, <2>3, <2>4, <2>5
<1>10. CASE PassesDone
  <2>1. ControlType'
    BY <1>10 DEF PassesDone
  <2>2. ObjectType'
    BY <1>10 DEF PassesDone
  <2>3. MarksType'
    BY <1>10 DEF PassesDone
  <2>4. FlagType'
    BY <1>10 DEF PassesDone
  <2>5. PoolType'
    BY <1>10 DEF PassesDone
  <2> QED
    BY <2>1, <2>2, <2>3, <2>4, <2>5
<1>11. CASE Gfs2Supported
  <2>1. ControlType'
    BY <1>11 DEF Gfs2Supported, RunGfs2
  <2>2. ObjectType'
    BY <1>11 DEF Gfs2Supported, RunGfs2
  <2>3. MarksType'
    BY <1>11 DEF Gfs2Supported, RunGfs2
  <2>4. FlagType'
    BY <1>11 DEF Gfs2Supported, RunGfs2
  <2>5. PoolType'
    BY <1>11 DEF Gfs2Supported, RunGfs2
  <2> QED
    BY <2>1, <2>2, <2>3, <2>4, <2>5
<1>12. CASE DisableClustering
  <2>1. ControlType'
    BY <1>12 DEF DisableClustering
  <2>2. ObjectType'
    BY <1>12 DEF DisableClustering
  <2>3. MarksType'
    BY <1>12 DEF DisableClustering
  <2>4. FlagType'
    BY <1>12 DEF DisableClustering
  <2>5. PoolType'
    BY <1>12 DEF DisableClustering
  <2> QED
    BY <2>1, <2>2, <2>3, <2>4, <2>5
<1>13. CASE UNCHANGED vars
  BY <1>13 DEF vars
<1> QED
  BY <1>1, <1>2, <1>3, <1>4, <1>5, <1>6, <1>7, <1>8, <1>9, <1>10, <1>11, <1>12, <1>13 DEF Next, Finished

\* The ledger.
LEMMA MarksStep ==
  ASSUME IInv, [Next]_vars PROVE MarksInv'
<1> USE CountAssumption DEF IInv, TypeOK, ControlType, ObjectType, MarksType, FlagType, Kinds, ObjectsInv, MarksInv, Flawed, Legacy, Due, Between, objects, marks, outcome, pool
<1>1. CASE Start
  BY <1>1 DEF Start
<1>2. CASE NextPass
  BY <1>2 DEF NextPass, Goto
<1>3. CASE CreateSR
  BY <1>3 DEF CreateSR, Raise, Credit, SrCreated, CreateReturns, Repeating, Announced
<1>4. CASE PlugAndUnplugPbds
  BY <1>4 DEF PlugAndUnplugPbds, Goto, Credit
<1>5. CASE DestroySr
  BY <1>5 DEF DestroySr, Raise, Credit
<1>6. CASE CreateVdiAndVbd
  BY <1>6 DEF CreateVdiAndVbd, Raise
<1>7. CASE WriteAll
  BY <1>7 DEF WriteAll, Goto
<1>8. CASE RemoveVdi
  BY <1>8 DEF RemoveVdi, Goto, Credit
<1>9. CASE CleanupSr
  BY <1>9 DEF CleanupSr, EndPass, Goto, CleanupSucceeds, CleanupFails, Trim, Credit
<1>10. CASE PassesDone
  BY <1>10 DEF PassesDone
<1>11. CASE Gfs2Supported
  BY <1>11 DEF Gfs2Supported, RunGfs2
<1>12. CASE DisableClustering
  BY <1>12 DEF DisableClustering
<1>13. CASE UNCHANGED vars
  BY <1>13 DEF vars
<1> QED
  BY <1>1, <1>2, <1>3, <1>4, <1>5, <1>6, <1>7, <1>8, <1>9, <1>10, <1>11, <1>12, <1>13 DEF Next, Finished

\* The disk lives on the SR that sr_ref designates.
LEMMA ObjectsStep ==
  ASSUME IInv, [Next]_vars PROVE ObjectsInv'
<1> USE CountAssumption DEF IInv, TypeOK, ControlType, ObjectType, MarksType, FlagType, Kinds, ObjectsInv, objects, marks, outcome, pool
<1>1. CASE Start
  BY <1>1 DEF Start
<1>2. CASE NextPass
  BY <1>2 DEF NextPass, Goto
<1>3. CASE CreateSR
  BY <1>3 DEF CreateSR, Raise, Credit, SrCreated, CreateReturns, Repeating, Announced
<1>4. CASE PlugAndUnplugPbds
  BY <1>4 DEF PlugAndUnplugPbds, Goto, Credit
<1>5. CASE DestroySr
  BY <1>5 DEF DestroySr, Raise, Credit
<1>6. CASE CreateVdiAndVbd
  BY <1>6 DEF CreateVdiAndVbd, Raise
<1>7. CASE WriteAll
  BY <1>7 DEF WriteAll, Goto
<1>8. CASE RemoveVdi
  <2>1. (vdi => sr = "live")'
    BY <1>8 DEF RemoveVdi, Goto, Credit
  <2>2. (vbd # "none" => vdi)'
    <3>1. vdi
      BY <1>8, SMT DEF RemoveVdi, Goto
    <3>2. vbd' = "none" \/ vdi' = vdi
      BY <1>8, Zenon DEF RemoveVdi
    <3> QED
      BY <3>1, <3>2, Zenon
  <2>3. (pc \in {"plug", "destroy"} => ~vdi /\ iter < Iterations)'
    BY <1>8 DEF RemoveVdi, Goto, Credit
  <2>4. (pc \in {"write", "removevdi"} => vdi)'
    BY <1>8 DEF RemoveVdi, Goto, Credit
  <2>5. (pc = "create" /\ sr = "live" => iter = 0)'
    BY <1>8 DEF RemoveVdi, Goto, Credit
  <2> QED
    BY <2>1, <2>2, <2>3, <2>4, <2>5
<1>9. CASE CleanupSr
  BY <1>9 DEF CleanupSr, EndPass, Goto, CleanupSucceeds, CleanupFails, Trim, Credit
<1>10. CASE PassesDone
  BY <1>10 DEF PassesDone
<1>11. CASE Gfs2Supported
  BY <1>11 DEF Gfs2Supported, RunGfs2
<1>12. CASE DisableClustering
  BY <1>12 DEF DisableClustering
<1>13. CASE UNCHANGED vars
  BY <1>13 DEF vars
<1> QED
  BY <1>1, <1>2, <1>3, <1>4, <1>5, <1>6, <1>7, <1>8, <1>9, <1>10, <1>11, <1>12, <1>13 DEF Next, Finished

\* What stays behind was announced.
LEMMA WarnedStep ==
  ASSUME IInv, [Next]_vars PROVE WarnedInv'
<1> USE CountAssumption DEF IInv, TypeOK, ControlType, ObjectType, MarksType, FlagType, ObjectsInv, WarnedInv, Legacy, Between, objects, marks, outcome, pool
<1>1. CASE Start
  BY <1>1 DEF Start
<1>2. CASE NextPass
  BY <1>2 DEF NextPass, Goto
<1>3. CASE CreateSR
  BY <1>3 DEF CreateSR, Raise, Credit, SrCreated, CreateReturns, Repeating, Announced
<1>4. CASE PlugAndUnplugPbds
  BY <1>4 DEF PlugAndUnplugPbds, Goto, Credit
<1>5. CASE DestroySr
  BY <1>5 DEF DestroySr, Raise, Credit
<1>6. CASE CreateVdiAndVbd
  BY <1>6 DEF CreateVdiAndVbd, Raise
<1>7. CASE WriteAll
  BY <1>7 DEF WriteAll, Goto
<1>8. CASE RemoveVdi
  <2>1. sr = "live" /\ sr' = sr /\ left' = left
    BY <1>8 DEF RemoveVdi, Goto
  <2>2. ~Legacy' /\ (left' > 0 => warned)
    BY <1>8, <2>1 DEF RemoveVdi, Goto
  <2>3. warned => warned'
    BY <1>8, Zenon DEF RemoveVdi, Goto
  <2> QED
    BY <2>2, <2>3, Zenon DEF WarnedInv
<1>9. CASE CleanupSr
  BY <1>9 DEF CleanupSr, EndPass, Goto, CleanupSucceeds, CleanupFails, Trim, Credit
<1>10. CASE PassesDone
  BY <1>10 DEF PassesDone
<1>11. CASE Gfs2Supported
  BY <1>11 DEF Gfs2Supported, RunGfs2
<1>12. CASE DisableClustering
  BY <1>12 DEF DisableClustering
<1>13. CASE UNCHANGED vars
  BY <1>13 DEF vars
<1> QED
  BY <1>1, <1>2, <1>3, <1>4, <1>5, <1>6, <1>7, <1>8, <1>9, <1>10, <1>11, <1>12, <1>13 DEF Next, Finished

\* No handler returns True when all of its passes but none failed.
LEMMA VerdictStep ==
  ASSUME IInv, [Next]_vars PROVE VerdictInv'
<1> USE CountAssumption DEF IInv, TypeOK, ControlType, ObjectType, MarksType, FlagType, VerdictInv, objects, marks, outcome, pool
<1>1. CASE Start
  BY <1>1 DEF Start
<1>2. CASE NextPass
  BY <1>2 DEF NextPass, Goto
<1>3. CASE CreateSR
  BY <1>3 DEF CreateSR, Raise, Credit, SrCreated, CreateReturns, Repeating, Announced
<1>4. CASE PlugAndUnplugPbds
  BY <1>4 DEF PlugAndUnplugPbds, Goto, Credit
<1>5. CASE DestroySr
  BY <1>5 DEF DestroySr, Raise, Credit
<1>6. CASE CreateVdiAndVbd
  BY <1>6 DEF CreateVdiAndVbd, Raise
<1>7. CASE WriteAll
  BY <1>7 DEF WriteAll, Goto
<1>8. CASE RemoveVdi
  BY <1>8 DEF RemoveVdi, Goto, Credit
<1>9. CASE CleanupSr
  BY <1>9 DEF CleanupSr, EndPass, Goto, CleanupSucceeds, CleanupFails, Trim, Credit
<1>10. CASE PassesDone
  BY <1>10 DEF PassesDone
<1>11. CASE Gfs2Supported
  BY <1>11 DEF Gfs2Supported, RunGfs2
<1>12. CASE DisableClustering
  BY <1>12 DEF DisableClustering
<1>13. CASE UNCHANGED vars
  BY <1>13 DEF vars
<1> QED
  BY <1>1, <1>2, <1>3, <1>4, <1>5, <1>6, <1>7, <1>8, <1>9, <1>10, <1>11, <1>12, <1>13 DEF Next, Finished

\* The cluster.
LEMMA ClusterStep ==
  ASSUME IInv, [Next]_vars PROVE ClusterInv'
<1> USE CountAssumption DEF IInv, TypeOK, ControlType, PoolType, Kinds, ClusterInv, objects, marks, outcome, pool
<1>1. CASE Start
  BY <1>1 DEF Start
<1>2. CASE NextPass
  BY <1>2 DEF NextPass, Goto
<1>3. CASE CreateSR
  BY <1>3 DEF CreateSR, Raise, Credit, SrCreated, CreateReturns, Repeating, Announced
<1>4. CASE PlugAndUnplugPbds
  BY <1>4 DEF PlugAndUnplugPbds, Goto, Credit
<1>5. CASE DestroySr
  BY <1>5 DEF DestroySr, Raise, Credit
<1>6. CASE CreateVdiAndVbd
  BY <1>6 DEF CreateVdiAndVbd, Raise
<1>7. CASE WriteAll
  BY <1>7 DEF WriteAll, Goto
<1>8. CASE RemoveVdi
  BY <1>8 DEF RemoveVdi, Goto, Credit
<1>9. CASE CleanupSr
  BY <1>9 DEF CleanupSr, EndPass, Goto, CleanupSucceeds, CleanupFails, Trim, Credit
<1>10. CASE PassesDone
  <2>1. pc' = "reported" => ~enabled_clustering
    BY <1>10, SMT DEF PassesDone
  <2>2. pc' = "supported" => kind = "block"
    BY <1>10, SMT DEF PassesDone
  <2>3. UNCHANGED <<kind, cluster, hadCluster, enabled_clustering>>
    BY <1>10, Zenon DEF PassesDone
  <2> QED
    BY <2>1, <2>2, <2>3, Zenon
<1>11. CASE Gfs2Supported
  BY <1>11 DEF Gfs2Supported, RunGfs2
<1>12. CASE DisableClustering
  BY <1>12 DEF DisableClustering
<1>13. CASE UNCHANGED vars
  BY <1>13 DEF vars
<1> QED
  BY <1>1, <1>2, <1>3, <1>4, <1>5, <1>6, <1>7, <1>8, <1>9, <1>10, <1>11, <1>12, <1>13 DEF Next, Finished

\* The steps above together.
LEMMA Inductive == IInv /\ [Next]_vars => IInv'
  BY TypeStep, MarksStep, ObjectsStep, WarnedStep, VerdictStep, ClusterStep DEF IInv

\* Every reachable state satisfies the ledger and the ownership invariants.
THEOREM Invariance == Spec => []IInv
  BY InitInv, Inductive, PTL DEF Spec

\* Every variable has its type in every reachable state.
THEOREM TypeCorrect == Spec => []TypeOK
  BY Invariance, PTL DEF IInv

\* XenCert exits 0 only if no pass of no handler failed, and no run earns
\* more checkpoints than it announced.
THEOREM ExitStatusCorrect == Spec => []ExitStatusIsTrue
<1>1. IInv => ExitStatusIsTrue
  BY DEF IInv, TypeOK, MarksType, FlagType, MarksInv, VerdictInv, Flawed, Due, Between,
         ExitStatusIsTrue, Exit0
<1> QED
  BY <1>1, Invariance, PTL

\* With exit status 0 the pool is as it was: no SR, no disk, no new cluster.
THEOREM Exit0Clean == Spec => []Exit0LeavesNothing
<1>1. IInv /\ Exit0 => sr # "live" /\ left = 0
  BY DEF IInv, TypeOK, MarksType, ObjectType, MarksInv, Flawed, Legacy, Due, Between, Exit0
<1>2. IInv /\ Exit0 => ~vdi /\ vbd = "none" /\ cluster = hadCluster
  BY <1>1 DEF IInv, ObjectsInv, ClusterInv, Exit0
<1>3. IInv => Exit0LeavesNothing
  BY <1>1, <1>2 DEF Exit0LeavesNothing
<1> QED
  BY <1>3, Invariance, PTL

\* Nothing stays behind without a message to the operator.
THEOREM LeftoversCorrect == Spec => []LeftoversAnnounced
<1>1. IInv => LeftoversAnnounced
  BY DEF IInv, ObjectsInv, WarnedInv, Legacy, Between, LeftoversAnnounced, Ended
<1> QED
  BY <1>1, Invariance, PTL

\* The clustering that the GFS2 pass enabled is gone when the report is printed.
THEOREM ClusterCorrect == Spec => []ClusterRestored
<1>1. IInv => ClusterRestored
  BY DEF IInv, ClusterInv, ClusterRestored
<1> QED
  BY <1>1, Invariance, PTL

\* No iteration creates its SR beside the one of the iteration before.
THEOREM OneSrCorrect == Spec => OneSrAtATime
<1>1. IInv => ((pc = "create" /\ sr = "live" /\ left' > left) => iter = 0)
  BY DEF IInv, ObjectsInv
<1> QED
  BY <1>1, Invariance, PTL DEF OneSrAtATime, Spec
============================================================================
