---------------------------- MODULE ControlPath ----------------------------
(***************************************************************************)
(* The control path stress tests of XenCert: control_path_stress_tests of  *)
(* every storage handler, the second GFS2 pass of the block handlers with  *)
(* the clustering it switches on for that, and what main does with the     *)
(* result.                                                                 *)
(*                                                                         *)
(* A pass creates an SR, replugs its PBDs and destroys it, several times,  *)
(* then creates one more SR, fills a disk on it and cleans up.  The NFS    *)
(* handler runs one pass for each NFS version and keeps its locals from    *)
(* one pass to the next; a block handler runs an LVM pass and, in a call   *)
(* of its own, a GFS2 pass.  Every call to XAPI may fail at any time.      *)
(***************************************************************************)
EXTENDS Integers

CONSTANTS
  Handlers,      \* handlers under test: "block", "nfs", "cifs"
  Iterations,    \* 10, SRs created and destroyed in one pass
  PbdCycles,     \* 10, unplug and plug of the PBDs of each of them
  MaxLuns,       \* LUNs the block handlers may find
  MaxVersions    \* 2, NFS versions the server may support

Kinds == {"block", "gfs2", "nfs", "cifs"}

ASSUME HandlerAssumption == Handlers \subseteq Kinds \ {"gfs2"}
ASSUME CountAssumption == /\ Iterations \in Nat /\ PbdCycles \in Nat
                          /\ MaxLuns \in Nat /\ MaxVersions \in Nat

VARIABLES
  kind,        \* the handler whose pass runs
  passes,      \* passes this handler has still to start
  pc,
  iter,        \* i of the loop; Iterations while the space test runs
  sr,          \* what sr_ref designates: "none", a "live" SR, or one that is "gone"
  left,        \* SRs that exist and that no reference designates any more
  vdi, vbd,    \* the test disk on the SR of sr_ref
  retval, checkpoint, total,   \* locals of the handler
  verdict,     \* retval returned by the handlers so far
  failed,      \* history: some pass ended with retval False
  warned,      \* history: "please destroy ... manually" was printed
  cluster,     \* the pool has a cluster
  hadCluster,  \* it had one when the test started
  enabled_clustering

objects == <<sr, left, vdi, vbd>>
marks   == <<checkpoint, total>>
outcome == <<verdict, failed>>
pool    == <<cluster, hadCluster, enabled_clustering>>
vars    == <<kind, passes, pc, iter, objects, retval, marks, outcome, warned, pool>>

Goto(from, to) == pc = from /\ pc' = to
Credit(n) == checkpoint' = checkpoint + n

\* The except clause of a pass.
Raise == pc' = "cleanup" /\ retval' = FALSE

\* Mutant: the PBD cycles of an iteration are not announced.
AnnouncedCreateOnly == 2

\* total_checkpoints of an iteration: create, destroy, and each PBD cycle.
Announced == 2 + PbdCycles

\* Mutant: one iteration too many.
RepeatingOnceMore == iter <= Iterations

Repeating == iter < Iterations

----------------------------------------------------------------------------
Init ==
  /\ kind \in Handlers
  /\ passes = 0
  /\ pc = "start"
  /\ iter = 0
  /\ sr = "none" /\ left = 0 /\ vdi = FALSE /\ vbd = "none"
  /\ retval = TRUE /\ checkpoint = 0 /\ total = 0
  /\ verdict = TRUE /\ failed = FALSE /\ warned = FALSE
  /\ cluster \in BOOLEAN /\ hadCluster = cluster /\ enabled_clustering = FALSE

\* getSupportedNFSVersions raises outside of every try block; it may also
\* return no version at all.
Start ==
  /\ pc = "start"
  /\ \/ /\ pc' = "next"
        /\ passes' \in IF kind = "nfs" THEN 0 .. MaxVersions ELSE {1}
     \/ /\ kind = "nfs"
        /\ pc' = "aborted"
        /\ UNCHANGED passes
  /\ UNCHANGED <<kind, iter, objects, retval, marks, outcome, warned, pool>>

\* The NFS handler loops with its locals, sr_ref among them; the GFS2 pass
\* is a call of its own, so the LVM pass's reference is out of scope.
NextPass ==
  /\ Goto("next", "create")
  /\ passes > 0
  /\ passes' = passes - 1
  /\ total' = total + 5
  /\ iter' = 0
  /\ IF kind = "nfs"
       THEN UNCHANGED <<objects, retval>>
       ELSE /\ sr' = "none" /\ vdi' = FALSE /\ vbd' = "none"
            /\ left' = IF sr = "live" THEN left + 1 ELSE left
            /\ retval' = TRUE
  /\ UNCHANGED <<kind, checkpoint, outcome, warned, pool>>

\* The value create() returns when the first k of n LUNs refused the SR.
\* The GFS2 handler looks at sr_ref inside the loop over the LUNs.
CreateReturns(n, k) == IF kind = "gfs2" THEN k = 0 ELSE k < n

\* create() without an exception: the first LUN that accepts an SR gets it.
SrCreated(n, k) ==
  /\ sr' = IF k < n THEN "live" ELSE "none"
  /\ IF sr = "live"      \* the SR an earlier NFS version could not remove
       THEN left' = left + 1 /\ vdi' = FALSE /\ vbd' = "none"
       ELSE UNCHANGED <<left, vdi, vbd>>
  /\ IF CreateReturns(n, k)
       THEN /\ pc' = IF Repeating THEN "plug" ELSE "space"
            /\ retval' = TRUE
            /\ Credit(1)
       ELSE Raise /\ UNCHANGED checkpoint

\* A create() that raises leaves sr_ref as it was.
CreateSR ==
  /\ pc = "create"
  /\ total' = IF Repeating THEN total + Announced ELSE total
  /\ \/ \E n \in 0 .. MaxLuns, k \in 0 .. MaxLuns :
          kind \in {"block", "gfs2"} /\ k <= n /\ SrCreated(n, k)
     \/ kind \in {"nfs", "cifs"} /\ SrCreated(1, 0)
     \/ Raise /\ UNCHANGED <<objects, checkpoint>>
  /\ UNCHANGED <<kind, passes, iter, outcome, warned, pool>>

\* plug_and_unplug_pbds swallows its exceptions: the cycles that were not
\* reached only lose their checkpoints.
PlugAndUnplugPbds ==
  /\ Goto("plug", "destroy")
  /\ \E n \in 0 .. PbdCycles : (sr = "live" \/ n = 0) /\ Credit(n)
  /\ UNCHANGED <<kind, passes, iter, objects, retval, total, outcome, warned, pool>>

\* Mutant: destroy_sr prints its exception and returns, as the plug does.
DestroySrSwallows ==
  /\ Goto("destroy", "create")
  /\ sr' \in {sr, "gone"}
  /\ Credit(1)
  /\ iter' = iter + 1
  /\ UNCHANGED <<kind, passes, left, vdi, vbd, retval, total, outcome, warned, pool>>

DestroySr ==
  /\ pc = "destroy"
  /\ \/ /\ sr = "live"
        /\ sr' = "gone"
        /\ pc' = "create"
        /\ Credit(1)
        /\ iter' = iter + 1
        /\ UNCHANGED retval
     \/ /\ Raise
        /\ UNCHANGED <<sr, checkpoint, iter>>
  /\ UNCHANGED <<kind, passes, left, vdi, vbd, total, outcome, warned, pool>>

----------------------------------------------------------------------------
\* perform_sr_control_path_tests.  What create_max_size_vdi_and_vbd created
\* before it raised is not known to its caller, which then removes nothing.
CreateVdiAndVbd ==
  /\ pc = "space"
  /\ \/ /\ sr = "live"
        /\ pc' = "write"
        /\ vdi' = TRUE /\ vbd' = "plugged"
        /\ UNCHANGED retval
     \/ /\ Raise
        /\ \/ UNCHANGED <<vdi, vbd>>
           \/ sr = "live" /\ vdi' = TRUE /\ vbd' \in {"none", "unplugged"}
  /\ UNCHANGED <<kind, passes, iter, sr, left, marks, outcome, warned, pool>>

\* The estimate is over the limit, or zeroOut fails; else all was written.
WriteAll ==
  /\ Goto("write", "removevdi")
  /\ retval' \in BOOLEAN
  /\ UNCHANGED <<kind, passes, iter, objects, marks, outcome, warned, pool>>

\* A failure to remove the disk is printed and does not change the result.
RemoveVdi ==
  /\ Goto("removevdi", "cleanup")
  /\ \/ vdi' = FALSE /\ vbd' = "none" /\ UNCHANGED warned
     \/ vbd' \in {"plugged", "unplugged", "none"} /\ warned' = TRUE /\ UNCHANGED vdi
  /\ IF retval THEN Credit(3) ELSE UNCHANGED checkpoint
  /\ UNCHANGED <<kind, passes, iter, sr, left, retval, total, outcome, pool>>

----------------------------------------------------------------------------
\* The second try block of a pass.

\* SR.get_type is the first call that notices a reference to a destroyed SR.
\* An LVM SR is trimmed before it is destroyed, for one checkpoint more.
Trim(extra) == /\ kind = "block" /\ sr = "live"
               /\ total' = total + 1
               /\ \E t \in 0 .. 1 : Credit(extra + t)

CleanupSucceeds ==
  /\ sr = "live" /\ ~vdi
  /\ sr' = "gone"
  /\ Trim(1) \/ (kind # "block" /\ Credit(1) /\ UNCHANGED total)
  /\ UNCHANGED warned

\* It fails before the trim or after it.
CleanupFails ==
  /\ sr # "none"
  /\ Trim(0) \/ UNCHANGED marks
  /\ warned' = TRUE
  /\ UNCHANGED sr

\* The NFS handler returns the retval of its last version, the block
\* handler the conjunction of its two calls.
EndPass ==
  /\ Goto("cleanup", "next")
  /\ verdict' = (IF kind = "nfs" THEN retval ELSE verdict /\ retval)
  /\ failed' = (failed \/ ~retval)
  /\ UNCHANGED <<kind, passes, iter, left, vdi, vbd, retval, pool>>

\* Mutant: only a pass that went well removes its SR.
CleanupSrAfterSuccess ==
  /\ EndPass
  /\ \/ ~retval /\ UNCHANGED <<sr, marks, warned>>
     \/ retval /\ (CleanupSucceeds \/ CleanupFails)

\* Mutant: a failure to remove the SR is only printed.
CleanupSrAlwaysCredits ==
  /\ EndPass
  /\ \/ sr = "none" /\ UNCHANGED <<sr, marks, warned>>
     \/ CleanupSucceeds
     \/ sr # "none" /\ Credit(1) /\ warned' = TRUE /\ UNCHANGED <<sr, total>>

CleanupSr ==
  /\ EndPass
  /\ \/ sr = "none" /\ UNCHANGED <<sr, marks, warned>>
     \/ CleanupSucceeds
     \/ CleanupFails

PassesDone ==
  /\ pc = "next" /\ passes = 0
  /\ pc' = CASE kind = "block" -> "supported"
             [] kind = "gfs2"  -> "disable"
             [] OTHER          -> "reported"
  /\ UNCHANGED <<kind, passes, iter, objects, retval, marks, outcome, warned, pool>>

----------------------------------------------------------------------------
\* BlockStorageHandler.control_path_stress_tests after its LVM pass.

RunGfs2 == pc' = "next" /\ kind' = "gfs2" /\ passes' = 1

\* No corosync restriction is known to the pool, or FCoE: no GFS2.  A host
\* without the licence is an exception, and so is any XAPI call that fails;
\* the finally clause still runs ("unwind").
Gfs2Supported ==
  /\ pc = "supported"
  /\ \/ RunGfs2 /\ cluster /\ UNCHANGED <<cluster, enabled_clustering>>
     \/ RunGfs2 /\ ~cluster /\ cluster' = TRUE /\ enabled_clustering' = TRUE
     \/ pc' \in {"disable", "unwind"} /\ UNCHANGED <<kind, passes, cluster, enabled_clustering>>
  /\ UNCHANGED <<iter, objects, retval, marks, outcome, warned, hadCluster>>

\* Mutant: an except clause in the place of the finally clause.
DisableClusteringOnError ==
  /\ pc \in {"disable", "unwind"}
  /\ pc' = IF pc = "disable" THEN "reported" ELSE "aborted"
  /\ IF enabled_clustering /\ pc = "unwind" THEN cluster' = FALSE ELSE UNCHANGED cluster
  /\ UNCHANGED <<kind, passes, iter, objects, retval, marks, outcome, warned, hadCluster, enabled_clustering>>

\* XAPI refuses to destroy a cluster while a GFS2 SR is attached.
DisableClustering ==
  /\ pc \in {"disable", "unwind"}
  /\ \/ /\ enabled_clustering
        /\ ~(kind = "gfs2" /\ sr = "live")
        /\ cluster' = FALSE
        /\ pc' = IF pc = "disable" THEN "reported" ELSE "aborted"
     \/ /\ enabled_clustering
        /\ pc' = "aborted"
        /\ UNCHANGED cluster
     \/ /\ ~enabled_clustering
        /\ pc' = IF pc = "disable" THEN "reported" ELSE "aborted"
        /\ UNCHANGED cluster
  /\ UNCHANGED <<kind, passes, iter, objects, retval, marks, outcome, warned, hadCluster, enabled_clustering>>

\* main: either all reports have been printed, or an exception reached it.
Ended == pc \in {"reported", "aborted"}
Finished == Ended /\ UNCHANGED vars

Next == \/ Start \/ NextPass \/ CreateSR \/ PlugAndUnplugPbds \/ DestroySr
        \/ CreateVdiAndVbd \/ WriteAll \/ RemoveVdi \/ CleanupSr \/ PassesDone
        \/ Gfs2Supported \/ DisableClustering \/ Finished

Spec == Init /\ [][Next]_vars

----------------------------------------------------------------------------
\* Properties.

ControlType == /\ kind \in Kinds /\ passes \in Nat /\ iter \in 0 .. Iterations
               /\ pc \in {"start", "next", "create", "plug", "destroy", "space", "write",
                          "removevdi", "cleanup", "supported", "disable", "unwind",
                          "reported", "aborted"}
ObjectType  == /\ sr \in {"none", "live", "gone"} /\ left \in Nat
               /\ vdi \in BOOLEAN /\ vbd \in {"none", "unplugged", "plugged"}
MarksType   == checkpoint \in Nat /\ total \in Nat
FlagType    == /\ retval \in BOOLEAN /\ verdict \in BOOLEAN
               /\ failed \in BOOLEAN /\ warned \in BOOLEAN
PoolType    == cluster \in BOOLEAN /\ hadCluster \in BOOLEAN /\ enabled_clustering \in BOOLEAN

\* Every variable has its type; no pass creates more SRs than announced.
TypeOK == ControlType /\ ObjectType /\ MarksType /\ FlagType /\ PoolType

\* main exits 0 when the checkpoints are equal.
Exit0 == pc = "reported" /\ checkpoint = total

\* An exit status of 0 means that no pass failed, although the NFS handler
\* forgets the retval of all versions but the last; and no order of failures
\* and of references that outlived their SR earns a checkpoint that was
\* never announced.
ExitStatusIsTrue == /\ pc = "reported" => checkpoint <= total
                    /\ Exit0 => ~failed /\ verdict

\* With exit status 0, nothing the test created is left on the pool.
Exit0LeavesNothing ==
  Exit0 => /\ sr # "live" /\ left = 0 /\ ~vdi /\ vbd = "none"
           /\ cluster = hadCluster

\* Whenever the test ends with an SR or a disk left on the storage, the
\* operator has been told to remove something by hand.
LeftoversAnnounced ==
  Ended /\ (sr = "live" \/ left > 0 \/ vdi \/ vbd # "none") => warned

\* Within one pass no SR is created while the SR of an earlier iteration
\* still exists: they would compete for the same LUN or export.
OneSrAtATime ==
  [][(pc = "create" /\ sr = "live" /\ left' > left) => iter = 0]_vars

\* "If we enabled clustering disable it afterwards": a test that gets to its
\* report leaves the cluster of the pool as it found it.
ClusterRestored == pc = "reported" => cluster = hadCluster

\* "try to create an SR with one of the LUNs mapped, if all fails throw an
\* exception": a create() that made an SR is not treated as a failure.
CreateSucceedsWithAnyLun ==
  [][(pc = "create" /\ sr # "live" /\ sr' = "live") => pc' # "cleanup"]_vars
=============================================================================
