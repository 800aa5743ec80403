----------------------------- MODULE FileShare -----------------------------
(***************************************************************************)
(* The tests of the file based storage: functional_tests of the NFS        *)
(* handler (a mount for each version of the protocol) and of the CIFS      *)
(* handler (an SR), which write a file into a directory of the share, and  *)
(* data_integrity_tests of the CIFS handler, which grows a disk between    *)
(* two patterns.                                                           *)
(*                                                                         *)
(* Any call may fail at any time.  NFS keeps its locals from one version   *)
(* to the next; a local that was never assigned raises when it is read.    *)
(***************************************************************************)
EXTENDS Integers

CONSTANTS
  Tests,         \* of {"nfs", "cifs", "data"}
  MaxVersions,   \* 2, NFS versions the server may support
  Half           \* 4, GiB of the disk before it is grown to twice as many

ASSUME TestAssumption  == Tests \subseteq {"nfs", "cifs", "data"}
ASSUME CountAssumption == MaxVersions \in Nat /\ Half \in Nat \ {0}

VARIABLES
  test, pc,
  todo,          \* NFS versions still to be tried
  attached,      \* mounts of the export, or the SR: 0 when there is none
  dir,           \* what testdir designates: "none", or a directory that is
                 \* "empty" or "full", that is, with testfile in it
  strays,        \* test directories on the share that no local designates
  vdi, vbd,      \* the disk of the data test
  pattern,       \* the GiBs of it that hold the pattern
  lost,          \* history: the storage lost some of the pattern
  attach_created, dir_create, file_created,   \* mount_created or test_sr_created, ...
  bound,         \* testfile has been assigned
  retval, checkpoint, total,
  warned         \* history: "please delete the following manually" was printed

share  == <<attached, dir, strays>>
disk   == <<vdi, vbd, pattern, lost>>
locals == <<attach_created, dir_create, file_created, bound>>
marks  == <<retval, checkpoint, total>>
vars   == <<test, pc, todo, share, disk, locals, marks, warned>>

Credit(n) == checkpoint' = checkpoint + n

\* The except clause of a test; its clean up follows.
Raise == pc' = "cleanup" /\ retval' = FALSE

----------------------------------------------------------------------------
Init ==
  /\ test \in Tests
  /\ pc = "start" /\ todo = 0
  /\ attached = 0 /\ dir = "none" /\ strays = 0
  /\ vdi = FALSE /\ vbd = "none" /\ pattern = {} /\ lost = FALSE
  /\ attach_created = FALSE /\ dir_create = FALSE /\ file_created = FALSE /\ bound = FALSE
  /\ retval = TRUE /\ checkpoint = 0 /\ total = 0
  /\ warned = FALSE

\* The versions of the NFS server and the VM of dom0 are asked for outside of
\* every try block.
Start ==
  /\ pc = "start"
  /\ \/ /\ test = "nfs"
        /\ todo' \in 0 .. MaxVersions /\ pc' = "version" /\ UNCHANGED total
     \/ test = "cifs" /\ pc' = "attach" /\ total' = 3 /\ UNCHANGED todo
     \/ test = "data" /\ pc' = "data" /\ total' = 11 /\ UNCHANGED todo
     \/ test # "cifs" /\ pc' = "aborted" /\ UNCHANGED <<todo, total>>
  /\ UNCHANGED <<test, share, disk, locals, retval, checkpoint, warned>>

NextVersion ==
  /\ pc = "version"
  /\ IF todo = 0
       THEN pc' = "reported" /\ UNCHANGED <<todo, total>>
       ELSE pc' = "exports" /\ todo' = todo - 1 /\ total' = total + 5
  /\ UNCHANGED <<test, share, disk, locals, retval, checkpoint, warned>>

DisplayExports ==
  /\ pc = "exports"
  /\ \/ pc' = "attach" /\ Credit(1) /\ UNCHANGED retval
     \/ Raise /\ UNCHANGED checkpoint
  /\ UNCHANGED <<test, todo, share, disk, locals, total, warned>>

\* Mutant: mount_created is forgotten.
AttachUnflagged ==
  /\ pc = "attach"
  /\ \/ /\ attached' = attached + 1 /\ UNCHANGED attach_created
        /\ pc' = "io" /\ Credit(IF test = "nfs" THEN 1 ELSE 0) /\ UNCHANGED retval
     \/ Raise /\ UNCHANGED <<attached, attach_created, checkpoint>>
  /\ UNCHANGED <<test, todo, dir, strays, disk, dir_create, file_created, bound, total, warned>>

\* soft_mount, or the creation of the CIFS SR, which earns no checkpoint; a
\* failure leaves nothing attached.
Attach ==
  /\ pc = "attach"
  /\ \/ /\ attached' = attached + 1 /\ attach_created' = TRUE
        /\ pc' = "io" /\ Credit(IF test = "nfs" THEN 1 ELSE 0) /\ UNCHANGED retval
     \/ Raise /\ UNCHANGED <<attached, attach_created, checkpoint>>
  /\ UNCHANGED <<test, todo, dir, strays, disk, dir_create, file_created, bound, total, warned>>

\* try_filesystem_io_tests: its caller learns the names and the flags only
\* when it returns, so a failure after the mkdir leaves a stray directory.
NfsIo ==
  /\ pc = "io" /\ test = "nfs"
  /\ \/ /\ dir' = "full" /\ strays' = strays + (IF dir = "none" THEN 0 ELSE 1)
        /\ dir_create' = TRUE /\ file_created' = TRUE /\ bound' = TRUE
        /\ pc' = "space" /\ Credit(1) /\ UNCHANGED retval
     \/ /\ strays' \in {strays, strays + 1}
        /\ Raise /\ UNCHANGED <<dir, dir_create, file_created, bound, checkpoint>>
  /\ UNCHANGED <<test, todo, attached, disk, attach_created, total, warned>>

\* The CIFS test assigns its flags as it goes: nothing was made; a directory;
\* a directory in which dd failed, with or without the file; all of it.
CifsIo ==
  /\ pc = "io" /\ test = "cifs"
  /\ \/ Raise /\ UNCHANGED <<dir, dir_create, file_created, bound, checkpoint>>
     \/ /\ dir' \in {"empty", "full"} /\ dir_create' = TRUE /\ bound' = TRUE
        /\ file_created' \in BOOLEAN /\ (dir' = "full" => file_created')
        /\ Raise /\ UNCHANGED checkpoint
     \/ /\ dir' = "full" /\ dir_create' = TRUE /\ file_created' = TRUE /\ bound' = TRUE
        /\ pc' = "space" /\ Credit(1) /\ UNCHANGED retval
  /\ UNCHANGED <<test, todo, attached, strays, disk, attach_created, total, warned>>

ReportSpace ==
  /\ pc = "space"
  /\ \/ pc' = "cleanup" /\ Credit(1) /\ UNCHANGED retval
     \/ Raise /\ UNCHANGED checkpoint
  /\ UNCHANGED <<test, todo, share, disk, locals, total, warned>>

\* Removing a file that is not there, or through no mount, raises.
FileRemoved == file_created => dir = "full" /\ attached > 0
DirRemoved  == dir_create => dir # "none" /\ attached > 0

\* unmount also removes the mount point, which fails under another mount.
Released == attach_created => attached > 0 /\ (test = "nfs" => attached = 1)

\* What each step of the clean up leaves, when it stops after that step.
CleanupStops ==
  \/ file_created /\ UNCHANGED <<dir, attached>>
  \/ /\ dir_create /\ FileRemoved
     /\ dir' = IF file_created THEN "empty" ELSE dir
     /\ UNCHANGED attached
  \/ /\ attach_created /\ FileRemoved /\ DirRemoved
     /\ dir' = IF dir_create THEN "none" ELSE dir
     /\ \/ UNCHANGED attached
        \/ test = "nfs" /\ attached > 0 /\ attached' = attached - 1

\* The message names testfile; the one of the CIFS test asks XAPI for a uuid.
CleanupWarns ==
  IF bound THEN \/ warned' = TRUE /\ pc' = IF test = "nfs" THEN "version" ELSE "reported"
                \/ test = "cifs" /\ pc' = "aborted" /\ UNCHANGED warned
           ELSE pc' = "aborted" /\ UNCHANGED warned

CleanupEnds == pc' = IF test = "nfs" THEN "version" ELSE "reported"

\* Mutant: the flags decide nothing, the clean up always earns its checkpoint.
CleanupCreditFirst ==
  /\ pc = "cleanup" /\ test # "data"
  /\ \/ /\ FileRemoved /\ DirRemoved /\ Released
        /\ dir' = IF dir_create THEN "none" ELSE dir
        /\ attached' = IF attach_created THEN attached - 1 ELSE attached
        /\ Credit(1) /\ CleanupEnds /\ UNCHANGED warned
     \/ CleanupStops /\ CleanupWarns /\ Credit(1)
     \/ test = "cifs" /\ attached = 0 /\ CleanupEnds /\ UNCHANGED <<dir, attached, checkpoint, warned>>
  /\ UNCHANGED <<test, todo, strays, disk, locals, retval, total>>

\* The clean up of a functional test, done according to flags that are never
\* reset; the one of the CIFS test needs an sr_ref.
Cleanup ==
  /\ pc = "cleanup" /\ test # "data"
  /\ \/ /\ test = "nfs" \/ attached > 0
        /\ FileRemoved /\ DirRemoved /\ Released
        /\ dir' = IF dir_create THEN "none" ELSE dir
        /\ attached' = IF attach_created THEN attached - 1 ELSE attached
        /\ Credit(1) /\ CleanupEnds /\ UNCHANGED warned
     \/ /\ test = "nfs" \/ attached > 0
        /\ CleanupStops /\ CleanupWarns /\ UNCHANGED checkpoint
     \/ /\ test = "cifs" /\ attached = 0
        /\ CleanupEnds /\ UNCHANGED <<dir, attached, checkpoint, warned>>
  /\ UNCHANGED <<test, todo, strays, disk, locals, retval, total>>

----------------------------------------------------------------------------
\* data_integrity_tests: the number of the step is the number of checkpoints.

Step(k) == pc = "data" /\ checkpoint \in k
Done    == Credit(1) /\ pc' = (IF checkpoint = 10 THEN "cleanup" ELSE "data") /\ UNCHANGED retval
Fail    == Raise /\ UNCHANGED checkpoint

\* What the storage may do to the data while the disk is detached or resized.
Loses == pattern' \in SUBSET pattern /\ lost' = (lost \/ pattern' # pattern)

CreateSr ==
  /\ Step({0})
  /\ \/ attached' = 1 /\ Done
     \/ Fail /\ UNCHANGED attached
  /\ UNCHANGED <<test, todo, dir, strays, disk, locals, total, warned>>

CreateVdi ==
  /\ Step({1})
  /\ \/ vdi' = TRUE /\ Done
     \/ Fail /\ UNCHANGED vdi
  /\ UNCHANGED <<test, todo, share, vbd, pattern, lost, locals, total, warned>>

AttachVdi ==
  /\ Step({2, 6, 9})
  /\ \/ vbd' = "plugged" /\ Done
     \/ vbd' \in {vbd, "unplugged"} /\ Fail
  /\ UNCHANGED <<test, todo, share, vdi, pattern, lost, locals, total, warned>>

\* Mutant: one GiB too many.
WriteDataLong ==
  /\ Step({3, 7})
  /\ LET first == IF checkpoint = 3 THEN 0 ELSE Half IN
       \/ pattern' = pattern \cup (first .. first + Half) /\ Done
       \/ Fail /\ UNCHANGED pattern
  /\ UNCHANGED <<test, todo, share, vdi, vbd, lost, locals, total, warned>>

\* 0 to 3 before the disk is grown, 4 to 7 after.
WriteData ==
  /\ Step({3, 7})
  /\ LET first == IF checkpoint = 3 THEN 0 ELSE Half IN
       \/ pattern' = pattern \cup (first .. first + Half - 1) /\ Done
       \/ Fail /\ UNCHANGED pattern
  /\ UNCHANGED <<test, todo, share, vdi, vbd, lost, locals, total, warned>>

DetachVdi ==
  /\ Step({4, 8})
  /\ Loses
  /\ \/ vbd' = "none" /\ Done
     \/ vbd' \in {vbd, "unplugged"} /\ Fail
  /\ UNCHANGED <<test, todo, share, vdi, locals, total, warned>>

ResizeVdi ==
  /\ Step({5})
  /\ Loses
  /\ Done \/ Fail
  /\ UNCHANGED <<test, todo, share, vdi, vbd, locals, total, warned>>

\* Mutant: only the new half is read back.
VerifyDataNewHalf ==
  /\ Step({10})
  /\ (Half .. 2 * Half - 1 \subseteq pattern /\ Done) \/ Fail
  /\ UNCHANGED <<test, todo, share, disk, locals, total, warned>>

VerifyData ==
  /\ Step({10})
  /\ (0 .. 2 * Half - 1 \subseteq pattern /\ Done) \/ Fail
  /\ UNCHANGED <<test, todo, share, disk, locals, total, warned>>

\* The numbers of checkpoints at which the disk is attached.
AttachedAt == {3, 4, 7, 8, 10, 11}

\* XAPI detaches a plugged VBD only, destroys a disk that is not plugged, with
\* the VBDs that are left of it, and an SR without disks.
Detached == checkpoint \in AttachedAt <=> vbd = "plugged"

DataCleanup ==
  /\ pc = "cleanup" /\ test = "data"
  /\ pc' = "reported"
  /\ \/ /\ Detached
        /\ vdi' = FALSE /\ vbd' = "none" /\ attached' = 0 /\ UNCHANGED warned
     \/ /\ warned' = TRUE
        /\ \/ /\ checkpoint \in AttachedAt
              /\ vbd' \in {vbd, "unplugged"} /\ UNCHANGED <<vdi, attached>>
           \/ /\ checkpoint > 1 /\ Detached
              /\ vbd' = (IF vbd = "plugged" THEN "none" ELSE vbd)
              /\ UNCHANGED <<vdi, attached>>
           \/ /\ checkpoint > 0 /\ Detached
              /\ vdi' = FALSE /\ vbd' = "none" /\ UNCHANGED attached
  /\ UNCHANGED <<test, todo, dir, strays, pattern, lost, locals, marks>>

Ended    == pc \in {"reported", "aborted"}
Finished == Ended /\ UNCHANGED vars

Next == \/ Start \/ NextVersion \/ DisplayExports \/ Attach \/ NfsIo \/ CifsIo
        \/ ReportSpace \/ Cleanup
        \/ CreateSr \/ CreateVdi \/ AttachVdi \/ WriteData \/ DetachVdi
        \/ ResizeVdi \/ VerifyData \/ DataCleanup \/ Finished

Spec == Init /\ [][Next]_vars

----------------------------------------------------------------------------
\* Properties.

ControlType == /\ test \in {"nfs", "cifs", "data"} /\ todo \in Nat
               /\ pc \in {"start", "version", "exports", "attach", "io", "space",
                          "cleanup", "data", "reported", "aborted"}
ShareType   == /\ attached \in Nat /\ dir \in {"none", "empty", "full"} /\ strays \in Nat
DiskType    == /\ vdi \in BOOLEAN /\ lost \in BOOLEAN
               /\ vbd \in {"none", "unplugged", "plugged"}
               /\ pattern \subseteq 0 .. 2 * Half - 1
LocalType   == /\ attach_created \in BOOLEAN /\ dir_create \in BOOLEAN
               /\ file_created \in BOOLEAN /\ bound \in BOOLEAN
MarksType   == /\ checkpoint \in Nat /\ total \in Nat
               /\ retval \in BOOLEAN /\ warned \in BOOLEAN

\* Every variable has its type.
TypeOK == ControlType /\ ShareType /\ DiskType /\ LocalType /\ MarksType

Exit0 == pc = "reported" /\ checkpoint = total
NothingOnTheShare == attached = 0 /\ dir = "none" /\ strays = 0

\* Equal checkpoints mean that the test succeeded, whatever the NFS versions
\* before left in the locals and on the share; for a functional test they also
\* mean that all it made has been removed.
Exit0MeansClean ==
  /\ pc = "reported" => checkpoint <= total
  /\ Exit0 => retval /\ (test # "data" => NothingOnTheShare)

\* A data test that gets all its checkpoints has seen every GiB of the pattern
\* survive the detach and the growth of the disk.
PatternSurvived ==
  test = "data" /\ pc = "reported" /\ checkpoint = total =>
    pattern = 0 .. 2 * Half - 1 /\ ~lost

\* What a test that returns leaves attached, in the directory it knows of, or
\* on the SR of the data test has been announced.
KnownLeftoversAnnounced ==
  pc = "reported" /\ (attached > 0 \/ dir # "none" \/ vdi \/ vbd # "none") => warned
=============================================================================
