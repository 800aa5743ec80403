-------------------------- MODULE FileShareProofs --------------------------
(***************************************************************************)
(* The file share tests, for any number of NFS versions and any size of    *)
(* the disk.  The checkpoints a test can still earn (Remaining) never      *)
(* bring it above its total, and only a test to which nothing went wrong   *)
(* can still reach it: IInv says what such a test has made at each step,   *)
(* and which part of the pattern a data test has on its disk.              *)
(***************************************************************************)
EXTENDS FileShare, TLAPS

USE TestAssumption, CountAssumption

\* The checkpoints of a functional test that are still to be earned.
Remaining == IF pc = "exports" THEN 5
             ELSE IF pc = "attach" THEN IF test = "nfs" THEN 4 ELSE 3
             ELSE IF pc = "io" THEN 3
             ELSE IF pc = "space" THEN 2
             ELSE IF pc = "cleanup" THEN 1
             ELSE 0

Clean == attached = 0 /\ dir = "none" /\ strays = 0
Whole == attached = 1 /\ dir = "full" /\ strays = 0

\* What a functional test has made when it has earned everything so far.
Perfect == /\ retval
           /\ pc \in {"version", "exports", "attach", "reported"} => Clean
           /\ pc = "io" => attached = 1 /\ dir = "none" /\ strays = 0
           /\ pc \in {"space", "cleanup"} => Whole

CreditInv == test # "data" /\ pc # "start" /\ pc # "aborted" =>
               /\ checkpoint + Remaining =< total
               /\ checkpoint + Remaining = total => Perfect
StartInv  == pc = "start" => Clean /\ checkpoint = 0 /\ total = 0 /\ retval /\ pattern = {} /\ ~lost

\* The flags of the functional tests, which are never reset.
FlagInv == test # "data" => /\ attached > 0 => attach_created
                            /\ dir # "none" => dir_create
DiskInv == test # "data" => ~vdi /\ vbd = "none"
NfsInv  == test = "nfs" => /\ pc # "data"
                           /\ pc \in {"start", "version", "exports", "attach"} /\ ~warned =>
                                attached = 0 /\ dir = "none"
CifsInv == test = "cifs" => /\ pc \notin {"version", "exports", "data"}
                            /\ attached =< 1 /\ (dir # "none" => attached = 1)
                            /\ pc = "attach" => attached = 0
                            /\ pc \in {"io", "space"} => attached = 1

\* The GiBs of the pattern written when the data test has n checkpoints.
Written(n) == IF n =< 3 THEN {} ELSE IF n =< 7 THEN 0 .. Half - 1 ELSE 0 .. 2 * Half - 1
DataInv == test = "data" =>
             /\ pc \in {"start", "data", "cleanup", "reported", "aborted"} /\ dir = "none"
             /\ pc = "data" => /\ total = 11 /\ checkpoint =< 10 /\ retval
                               /\ pattern \subseteq Written(checkpoint)
                               /\ lost => pattern # Written(checkpoint)
             /\ pc \in {"cleanup", "reported"} =>
                  /\ total = 11 /\ checkpoint =< 11
                  /\ checkpoint = 11 => retval /\ pattern = Written(11) /\ ~lost

Parts == FlagInv /\ DiskInv /\ NfsInv /\ CifsInv
IInv  == /\ TypeOK /\ StartInv /\ CreditInv /\ DataInv /\ Parts /\ KnownLeftoversAnnounced

LEMMA Starts ==
  ASSUME Init
  PROVE  IInv
<1>1. TypeOK
  <2>1. ControlType /\ ShareType
    BY DEF Init, ControlType, ShareType
  <2>2. DiskType
    BY DEF Init, DiskType
  <2>3. LocalType
    BY Zenon DEF Init, LocalType
  <2>4. MarksType
    BY DEF Init, MarksType
  <2> QED BY <2>1, <2>2, <2>3, <2>4 DEF TypeOK
<1>2. StartInv
  BY DEF Init, StartInv, Clean
<1>3. CreditInv
  BY DEF Init, CreditInv
<1>4. DataInv
  BY DEF Init, DataInv
<1>5. Parts
  BY DEF Init, Parts, FlagInv, DiskInv, NfsInv, CifsInv
<1>6. KnownLeftoversAnnounced
  BY DEF Init, KnownLeftoversAnnounced
<1> QED BY <1>1, <1>2, <1>3, <1>4, <1>5, <1>6 DEF IInv

----------------------------------------------------------------------------
\* Types.
LEMMA TypeNext ==
  ASSUME IInv, [Next]_vars
  PROVE  TypeOK'
<1> USE DEF share, disk, locals, marks, Credit, Raise
<1>1. TypeOK /\ FlagInv
  BY DEF IInv, Parts
<1>2. ControlType'
  <2> USE DEF ControlType
  <2>0. ControlType
    BY <1>1 DEF TypeOK
  <2>1. CASE Start
    BY <2>0, <2>1 DEF Start
  <2>2. CASE NextVersion
    BY <2>0, <2>2 DEF NextVersion
  <2>3. CASE DisplayExports \/ Attach \/ NfsIo \/ CifsIo \/ ReportSpace
    BY <2>0, <2>3 DEF DisplayExports, Attach, NfsIo, CifsIo, ReportSpace
  <2>4. CASE Cleanup
    BY <2>0, <2>4 DEF Cleanup, CleanupWarns, CleanupEnds
  <2>5. CASE CreateSr \/ CreateVdi \/ AttachVdi \/ WriteData \/ DetachVdi \/ ResizeVdi \/ VerifyData
    BY <2>0, <2>5 DEF CreateSr, CreateVdi, AttachVdi, WriteData, DetachVdi, ResizeVdi, VerifyData, Done, Fail
  <2>6. CASE DataCleanup
    BY <2>0, <2>6 DEF DataCleanup
  <2>7. CASE UNCHANGED vars
    BY <2>0, <2>7 DEF vars
  <2> QED BY <2>1, <2>2, <2>3, <2>4, <2>5, <2>6, <2>7 DEF Next, Finished
<1>3. ShareType'
  <2> USE DEF ShareType
  <2>0. ShareType
    BY <1>1 DEF TypeOK
  <2>1. CASE Start \/ NextVersion \/ DisplayExports \/ ReportSpace
    BY <2>0, <2>1 DEF Start, NextVersion, DisplayExports, ReportSpace
  <2>2. CASE Attach \/ NfsIo \/ CifsIo
    BY <2>0, <2>2 DEF Attach, NfsIo, CifsIo
  <2>3. CASE Cleanup
    BY <2>0, <2>3 DEF Cleanup, CleanupStops, Released
  <2>4. CASE CreateSr \/ CreateVdi \/ AttachVdi \/ WriteData \/ DetachVdi \/ ResizeVdi \/ VerifyData
    BY <2>0, <2>4 DEF CreateSr, CreateVdi, AttachVdi, WriteData, DetachVdi, ResizeVdi, VerifyData
  <2>5. CASE DataCleanup
    BY <2>0, <2>5 DEF DataCleanup
  <2>6. CASE UNCHANGED vars
    BY <2>0, <2>6 DEF vars
  <2> QED BY <2>1, <2>2, <2>3, <2>4, <2>5, <2>6 DEF Next, Finished
<1>4. DiskType'
  <2> USE DEF DiskType
  <2>0. DiskType
    BY <1>1 DEF TypeOK
  <2>1. CASE Start \/ NextVersion \/ DisplayExports \/ ReportSpace \/ Attach \/ NfsIo \/ CifsIo \/ Cleanup \/ CreateSr \/ VerifyData \/ UNCHANGED vars
    BY <2>0, <2>1 DEF Start, NextVersion, DisplayExports, ReportSpace, Attach, NfsIo, CifsIo, Cleanup, CreateSr, VerifyData, vars
  <2>2. CASE CreateVdi \/ AttachVdi
    BY <2>0, <2>2 DEF CreateVdi, AttachVdi
  <2>3. CASE WriteData
    <3>1. vdi' = vdi /\ vbd' = vbd /\ lost' = lost
      BY <2>3 DEF WriteData
    <3>2. pattern' = pattern \/ \E first \in {0, Half} : pattern' = pattern \cup (first .. first + Half - 1)
      BY <2>3 DEF WriteData
    <3>3. pattern' \subseteq 0 .. 2 * Half - 1
      <4>1. 0 .. 0 + Half - 1 \subseteq 0 .. 2 * Half - 1 /\ Half .. Half + Half - 1 \subseteq 0 .. 2 * Half - 1
        <5>1. \A i \in 0 .. 0 + Half - 1 : i \in 0 .. 2 * Half - 1
          OBVIOUS
        <5>2. \A i \in Half .. Half + Half - 1 : i \in 0 .. 2 * Half - 1
          OBVIOUS
        <5> QED BY <5>1, <5>2
      <4>2. pattern \subseteq 0 .. 2 * Half - 1
        BY <2>0
      <4> QED BY <3>2, <4>1, <4>2, Zenon
    <3>4. vdi' \in BOOLEAN /\ lost' \in BOOLEAN
      BY <2>0, <3>1, Zenon
    <3> QED BY <2>0, <3>1, <3>3, <3>4
  <2>4. CASE DetachVdi \/ ResizeVdi
    BY <2>0, <2>4 DEF DetachVdi, ResizeVdi, Loses
  <2>5. CASE DataCleanup
    BY <2>0, <2>5 DEF DataCleanup
  <2> QED BY <2>1, <2>2, <2>3, <2>4, <2>5 DEF Next, Finished
<1>5. LocalType'
  <2> USE DEF LocalType
  <2>0. LocalType
    BY <1>1 DEF TypeOK
  <2>1. CASE Attach \/ NfsIo \/ CifsIo
    BY <2>0, <2>1, Zenon DEF Attach, NfsIo, CifsIo
  <2>2. CASE \/ Start \/ NextVersion \/ DisplayExports \/ ReportSpace \/ Cleanup \/ CreateSr \/ CreateVdi \/ AttachVdi
             \/ WriteData \/ DetachVdi \/ ResizeVdi \/ VerifyData \/ DataCleanup \/ UNCHANGED vars
    BY <2>0, <2>2 DEF Start, NextVersion, DisplayExports, ReportSpace, Cleanup, CreateSr, CreateVdi, AttachVdi,
             WriteData, DetachVdi, ResizeVdi, VerifyData, DataCleanup, vars
  <2> QED BY <2>1, <2>2 DEF Next, Finished
<1>6. MarksType'
  <2>0. checkpoint \in Nat /\ total \in Nat /\ retval \in BOOLEAN /\ warned \in BOOLEAN
    BY <1>1 DEF TypeOK, MarksType
  <2>1. checkpoint' \in Nat /\ total' \in Nat
    <3>1. CASE Start \/ NextVersion \/ DisplayExports \/ ReportSpace \/ Attach \/ NfsIo \/ CifsIo \/ Cleanup
      BY <2>0, <3>1 DEF Start, NextVersion, DisplayExports, ReportSpace, Attach, NfsIo, CifsIo, Cleanup
    <3>2. CASE CreateSr \/ CreateVdi \/ AttachVdi \/ WriteData \/ DetachVdi \/ ResizeVdi \/ VerifyData
      BY <2>0, <3>2 DEF CreateSr, CreateVdi, AttachVdi, WriteData, DetachVdi, ResizeVdi, VerifyData, Done, Fail
    <3>3. CASE DataCleanup \/ UNCHANGED vars
      BY <2>0, <3>3 DEF DataCleanup, vars
    <3> QED BY <3>1, <3>2, <3>3 DEF Next, Finished
  <2>2. retval' \in BOOLEAN
    <3>1. retval' = retval \/ retval' = FALSE
      BY Zenon DEF Next, Finished, Start, NextVersion, DisplayExports, ReportSpace, Attach, NfsIo, CifsIo, Cleanup,
         CreateSr, CreateVdi, AttachVdi, WriteData, DetachVdi, ResizeVdi, VerifyData, Done, Fail, DataCleanup, vars
    <3> QED BY <2>0, <3>1, Zenon
  <2>3. warned' \in BOOLEAN
    <3>1. warned' = warned \/ warned' = TRUE
      BY Zenon DEF Next, Finished, Start, NextVersion, DisplayExports, ReportSpace, Attach, NfsIo, CifsIo, Cleanup, CleanupWarns,
         CreateSr, CreateVdi, AttachVdi, WriteData, DetachVdi, ResizeVdi, VerifyData, Done, Fail, DataCleanup, vars
    <3> QED BY <2>0, <3>1, Zenon
  <2> QED BY <2>1, <2>2, <2>3 DEF MarksType
<1> QED BY <1>2, <1>3, <1>4, <1>5, <1>6 DEF TypeOK

----------------------------------------------------------------------------
\* What the flags of the functional tests say.
LEMMA TestKept ==
  ASSUME [Next]_vars
  PROVE  test' = test /\ (pc' = "start" => UNCHANGED vars)
<1> USE DEF share, disk, locals, marks, Raise
<1>1. CASE \/ Start \/ NextVersion \/ DisplayExports \/ Attach \/ NfsIo \/ CifsIo \/ ReportSpace \/ Cleanup
  BY <1>1 DEF Start, NextVersion, DisplayExports, Attach, NfsIo, CifsIo, ReportSpace, Cleanup, CleanupWarns, CleanupEnds
<1>2. CASE \/ CreateSr \/ CreateVdi \/ AttachVdi \/ WriteData \/ DetachVdi \/ ResizeVdi \/ VerifyData
  BY <1>2 DEF CreateSr, CreateVdi, AttachVdi, WriteData, DetachVdi, ResizeVdi, VerifyData, Done, Fail
<1>3. CASE DataCleanup
  BY <1>3 DEF DataCleanup
<1>4. CASE UNCHANGED vars
  BY <1>4 DEF vars
<1> QED BY <1>1, <1>2, <1>3, <1>4 DEF Next, Finished

\* The data test alone takes the steps of the data test.
LEMMA DataSteps ==
  ASSUME IInv
  PROVE  /\ pc = "data" => test = "data"
         /\ pc \in {"version", "exports"} => test = "nfs"
         /\ pc \in {"attach", "io", "space"} => test \in {"nfs", "cifs"}
         /\ test \in {"nfs", "cifs", "data"}
BY DEF IInv, Parts, NfsInv, CifsInv, DataInv, TypeOK, ControlType

LEMMA PartsNext ==
  ASSUME IInv, [Next]_vars
  PROVE  Parts'
<1> USE DEF share, disk, locals, marks, Raise
<1>1. ShareType /\ ControlType /\ FlagInv /\ DiskInv /\ NfsInv /\ CifsInv
  BY DEF IInv, Parts, TypeOK
<1>2. test' = test
  BY TestKept
<1>3. CASE \/ CreateSr \/ CreateVdi \/ AttachVdi \/ WriteData \/ DetachVdi \/ ResizeVdi \/ VerifyData
           \/ DataCleanup
  <2>1. test = "data"
    BY <1>3, DataSteps DEF CreateSr, CreateVdi, AttachVdi, WriteData, DetachVdi, ResizeVdi, VerifyData, DataCleanup, Step
  <2> QED BY <1>2, <2>1 DEF Parts, FlagInv, DiskInv, NfsInv, CifsInv
<1>4. CASE Start
  <2>1. attached' = attached /\ dir' = dir /\ vdi' = vdi /\ vbd' = vbd /\ pc = "start" /\ UNCHANGED <<warned, locals>>
    BY <1>4 DEF Start
  <2>2. pc' \in {"version", "attach", "data", "aborted"} /\ (pc' = "version" => test = "nfs")
        /\ (pc' = "attach" => test = "cifs") /\ (pc' = "data" => test = "data")
    BY <1>4 DEF Start
  <2>3. Clean
    BY <2>1 DEF IInv, StartInv
  <2> QED BY <1>1, <1>2, <2>1, <2>2, <2>3 DEF Parts, FlagInv, DiskInv, NfsInv, CifsInv, Clean
<1>5. CASE NextVersion \/ DisplayExports \/ ReportSpace
  <2>1. attached' = attached /\ dir' = dir /\ vdi' = vdi /\ vbd' = vbd /\ UNCHANGED <<warned, locals>>
    BY <1>5 DEF NextVersion, DisplayExports, ReportSpace
  <2>2. \/ pc = "version" /\ pc' \in {"reported", "exports"}
        \/ pc = "exports" /\ pc' \in {"attach", "cleanup"}
        \/ pc = "space" /\ pc' = "cleanup"
    BY <1>5 DEF NextVersion, DisplayExports, ReportSpace
  <2> QED BY <1>1, <1>2, <2>1, <2>2 DEF Parts, FlagInv, DiskInv, NfsInv, CifsInv
<1>6. CASE Attach
  <2>1. dir' = dir /\ vdi' = vdi /\ vbd' = vbd /\ UNCHANGED <<warned, dir_create>> /\ pc = "attach"
    BY <1>6 DEF Attach
  <2>2. \/ attached' = attached + 1 /\ attach_created' /\ pc' = "io"
        \/ attached' = attached /\ attach_created' = attach_created /\ pc' = "cleanup"
    BY <1>6 DEF Attach
  <2> QED BY <1>1, <1>2, <2>1, <2>2 DEF Parts, FlagInv, DiskInv, NfsInv, CifsInv, ShareType
<1>7. CASE NfsIo \/ CifsIo
  <2>1. attached' = attached /\ vdi' = vdi /\ vbd' = vbd /\ UNCHANGED <<warned, attach_created>> /\ pc = "io"
    BY <1>7 DEF NfsIo, CifsIo
  <2>2. dir_create' \/ (dir' = dir /\ dir_create' = dir_create)
    BY <1>7, Zenon DEF NfsIo, CifsIo
  <2>3. pc' \in {"space", "cleanup"}
    BY <1>7 DEF NfsIo, CifsIo
  <2> QED BY <1>1, <1>2, <2>1, <2>2, <2>3 DEF Parts, FlagInv, DiskInv, NfsInv, CifsInv, ShareType
<1>8. CASE Cleanup
  <2>1. vdi' = vdi /\ vbd' = vbd /\ UNCHANGED <<attach_created, dir_create>> /\ pc = "cleanup" /\ test # "data"
    BY <1>8 DEF Cleanup
  <2>2. (dir' = "none" \/ dir' = dir \/ dir # "none") /\ attached' \in {attached, attached - 1}
    BY <1>8 DEF Cleanup, CleanupStops, FileRemoved
  <2>3. FlagInv' /\ DiskInv'
    BY <1>1, <1>2, <2>1, <2>2 DEF FlagInv, DiskInv, ShareType
  <2>4. CASE /\ FileRemoved /\ DirRemoved /\ Released
             /\ dir' = IF dir_create THEN "none" ELSE dir
             /\ attached' = IF attach_created THEN attached - 1 ELSE attached
             /\ CleanupEnds
    <3>1. dir' = "none"
      BY <1>1, <2>1, <2>4 DEF FlagInv
    <3>2. test = "nfs" \/ attached =< 1
      BY <1>1, <2>1 DEF CifsInv, ControlType
    <3>3. attached' = 0
      BY <1>1, <2>1, <2>4, <3>2 DEF FlagInv, Released, ShareType
    <3>4. pc' \in {"version", "reported"} /\ (pc' = "version" => test = "nfs")
      BY <2>4 DEF CleanupEnds
    <3> QED BY <1>1, <1>2, <2>1, <2>3, <3>1, <3>3, <3>4 DEF Parts, NfsInv, CifsInv
  <2>5. CASE CleanupStops /\ CleanupWarns
    <3>1. /\ pc' \in {"version", "reported", "aborted"} /\ (pc' = "version" => test = "nfs")
          /\ pc' # "aborted" => warned'
      BY <2>5 DEF CleanupWarns
    <3>2. test # "nfs" => attached' = attached
      BY <2>5 DEF CleanupStops
    <3> QED BY <1>1, <1>2, <2>1, <2>2, <2>3, <3>1, <3>2 DEF Parts, NfsInv, CifsInv
  <2>6. CASE test = "cifs" /\ CleanupEnds /\ UNCHANGED <<dir, attached>>
    <3>1. pc' = "reported"
      BY <2>6 DEF CleanupEnds
    <3> QED BY <1>1, <1>2, <2>1, <2>3, <2>6, <3>1 DEF Parts, NfsInv, CifsInv
  <2> QED BY <1>8, <2>4, <2>5, <2>6 DEF Cleanup
<1>9. CASE UNCHANGED vars
  <2>1. attached' = attached /\ dir' = dir /\ vdi' = vdi /\ vbd' = vbd /\ UNCHANGED <<pc, warned, attach_created, dir_create>>
    BY <1>9 DEF vars
  <2> QED BY <1>1, <1>2, <2>1, Zenon DEF Parts, FlagInv, DiskInv, NfsInv, CifsInv
<1> QED BY <1>3, <1>4, <1>5, <1>6, <1>7, <1>8, <1>9 DEF Next, Finished

\* What a test that returns leaves behind has been announced.
LEMMA LeftoversNext ==
  ASSUME IInv, [Next]_vars
  PROVE  KnownLeftoversAnnounced'
<1> USE DEF share, disk, locals, marks, Raise
<1>1. ShareType /\ ControlType /\ FlagInv /\ DiskInv /\ NfsInv /\ CifsInv /\ KnownLeftoversAnnounced
  BY DEF IInv, Parts, TypeOK
<1>2. test' = test /\ DiskInv'
  BY TestKept, PartsNext DEF Parts
<1>3. CASE pc' # "reported"
  BY <1>3 DEF KnownLeftoversAnnounced
<1>4. CASE NextVersion /\ pc' = "reported"
  <2>1. attached' = attached /\ dir' = dir /\ warned' = warned /\ vdi' = vdi /\ vbd' = vbd /\ pc = "version"
    BY <1>4 DEF NextVersion
  <2>2. test = "nfs"
    BY <2>1, DataSteps
  <2> QED BY <1>1, <2>1, <2>2 DEF NfsInv, DiskInv, KnownLeftoversAnnounced
<1>5. CASE Cleanup /\ pc' = "reported"
  <2>1. test = "cifs"
    BY <1>1, <1>5 DEF Cleanup, CleanupWarns, CleanupEnds, ControlType
  <2>2. vdi' = vdi /\ vbd' = vbd /\ ~vdi /\ vbd = "none"
    BY <1>1, <1>5, <2>1 DEF Cleanup, DiskInv
  <2>3. CASE /\ FileRemoved /\ DirRemoved /\ Released
             /\ dir' = IF dir_create THEN "none" ELSE dir
             /\ attached' = IF attach_created THEN attached - 1 ELSE attached
    <3>1. dir' = "none"
      BY <1>1, <2>1, <2>3 DEF FlagInv
    <3>2. attached' = 0
      BY <1>1, <2>1, <2>3 DEF FlagInv, CifsInv, Released, ShareType
    <3> QED BY <2>2, <3>1, <3>2 DEF KnownLeftoversAnnounced
  <2>4. CASE CleanupStops /\ CleanupWarns
    <3>1. warned'
      BY <1>5, <2>4 DEF CleanupWarns
    <3> QED BY <3>1 DEF KnownLeftoversAnnounced
  <2>5. CASE attached = 0 /\ UNCHANGED <<dir, attached>>
    <3>1. dir' = "none" /\ attached' = 0
      BY <1>1, <2>1, <2>5 DEF CifsInv
    <3> QED BY <2>2, <3>1 DEF KnownLeftoversAnnounced
  <2> QED BY <1>5, <2>3, <2>4, <2>5 DEF Cleanup
<1>6. CASE DataCleanup
  <2>1. test = "data" /\ dir = "none" /\ dir' = dir
    BY <1>6 DEF DataCleanup, IInv, DataInv
  <2>2. (~vdi' /\ vbd' = "none" /\ attached' = 0) \/ warned'
    BY <1>6 DEF DataCleanup
  <2> QED BY <2>1, <2>2 DEF KnownLeftoversAnnounced
<1>7. CASE UNCHANGED vars
  BY <1>1, <1>7, Zenon DEF vars, KnownLeftoversAnnounced
<1>8. CASE pc' = "reported"
  <2>1. NextVersion \/ Cleanup \/ DataCleanup \/ UNCHANGED vars
    BY <1>8 DEF Next, Finished, Start, DisplayExports, ReportSpace, Attach, NfsIo, CifsIo,
       CreateSr, CreateVdi, AttachVdi, WriteData, DetachVdi, ResizeVdi, VerifyData, Done, Fail
  <2> QED BY <1>4, <1>5, <1>6, <1>7, <1>8, <2>1
<1> QED BY <1>3, <1>8

----------------------------------------------------------------------------
\* Checkpoints of the functional tests.
LEMMA CreditNext ==
  ASSUME IInv, [Next]_vars
  PROVE  CreditInv'
<1> USE DEF share, disk, locals, marks, Raise, Credit
<1>1. ShareType /\ ControlType /\ FlagInv /\ CifsInv /\ CreditInv /\ checkpoint \in Nat /\ total \in Nat
  BY DEF IInv, Parts, TypeOK, MarksType
<1>2. test' = test
  BY TestKept
<1>3. CASE test = "data"
  BY <1>2, <1>3 DEF CreditInv
<1>4. CASE test # "data"
  <2>1. CASE Start
    <3>1. /\ pc = "start" /\ attached' = attached /\ dir' = dir /\ strays' = strays /\ retval' = retval
          /\ checkpoint' = checkpoint
      BY <2>1 DEF Start
    <3>2. Clean /\ checkpoint = 0 /\ total = 0 /\ retval
      BY <3>1 DEF IInv, StartInv
    <3>3. \/ pc' = "aborted"
          \/ pc' = "version" /\ total' = total
          \/ pc' = "attach" /\ total' = 3 /\ test = "cifs"
      BY <1>4, <2>1 DEF Start
    <3> QED BY <1>2, <3>1, <3>2, <3>3 DEF CreditInv, Remaining, Perfect, Clean
  <2>2. CASE NextVersion
    <3>1. /\ pc = "version" /\ attached' = attached /\ dir' = dir /\ strays' = strays /\ retval' = retval
          /\ checkpoint' = checkpoint
      BY <2>2 DEF NextVersion
    <3>2. \/ pc' = "reported" /\ total' = total
          \/ pc' = "exports" /\ total' = total + 5
      BY <2>2 DEF NextVersion
    <3> QED BY <1>1, <1>2, <1>4, <3>1, <3>2 DEF CreditInv, Remaining, Perfect, Clean
  <2>3. CASE DisplayExports
    <3>1. pc = "exports" /\ attached' = attached /\ dir' = dir /\ strays' = strays /\ total' = total
      BY <2>3 DEF DisplayExports
    <3>2. \/ pc' = "attach" /\ checkpoint' = checkpoint + 1 /\ retval' = retval
          \/ pc' = "cleanup" /\ checkpoint' = checkpoint
      BY <2>3 DEF DisplayExports
    <3> QED BY <1>1, <1>2, <1>4, <3>1, <3>2 DEF CreditInv, Remaining, Perfect, Clean
  <2>4. CASE Attach
    <3>1. pc = "attach" /\ dir' = dir /\ strays' = strays /\ total' = total /\ (test = "nfs" \/ test = "cifs")
      BY <1>1, <1>4, <2>4 DEF Attach, ControlType
    <3>2. \/ /\ pc' = "io" /\ checkpoint' = checkpoint + (IF test = "nfs" THEN 1 ELSE 0) /\ retval' = retval
             /\ attached' = attached + 1
          \/ pc' = "cleanup" /\ checkpoint' = checkpoint
      BY <2>4 DEF Attach
    <3> QED BY <1>1, <1>2, <1>4, <3>1, <3>2 DEF CreditInv, Remaining, Perfect, Clean
  <2>5. CASE NfsIo \/ CifsIo
    <3>1. pc = "io" /\ attached' = attached /\ total' = total
      BY <2>5 DEF NfsIo, CifsIo
    <3>2. \/ /\ pc' = "space" /\ checkpoint' = checkpoint + 1 /\ retval' = retval
             /\ dir' = "full" /\ (dir = "none" => strays' = strays)
          \/ pc' = "cleanup" /\ checkpoint' = checkpoint
      BY <1>1, <2>5 DEF NfsIo, CifsIo, ShareType
    <3> QED BY <1>1, <1>2, <1>4, <3>1, <3>2 DEF CreditInv, Remaining, Perfect, Whole
  <2>6. CASE ReportSpace
    <3>1. pc = "space" /\ attached' = attached /\ dir' = dir /\ strays' = strays /\ total' = total /\ pc' = "cleanup"
      BY <2>6 DEF ReportSpace
    <3>2. (checkpoint' = checkpoint + 1 /\ retval' = retval) \/ checkpoint' = checkpoint
      BY <2>6 DEF ReportSpace
    <3> QED BY <1>1, <1>2, <1>4, <3>1, <3>2 DEF CreditInv, Remaining, Perfect, Whole
  <2>7. CASE Cleanup
    <3>1. pc = "cleanup" /\ strays' = strays /\ total' = total /\ retval' = retval
      BY <2>7 DEF Cleanup
    <3>2. pc' \in {"version", "reported", "aborted"}
      BY <2>7 DEF Cleanup, CleanupWarns, CleanupEnds
    <3>3. \/ /\ checkpoint' = checkpoint + 1
             /\ dir' = IF dir_create THEN "none" ELSE dir
             /\ attached' = IF attach_created THEN attached - 1 ELSE attached
          \/ checkpoint' = checkpoint
      BY <2>7 DEF Cleanup
    <3>4. CASE checkpoint' = checkpoint
      BY <1>1, <1>2, <1>4, <3>1, <3>2, <3>4 DEF CreditInv, Remaining
    <3>5. CASE /\ checkpoint' = checkpoint + 1
               /\ dir' = IF dir_create THEN "none" ELSE dir
               /\ attached' = IF attach_created THEN attached - 1 ELSE attached
      <4>1. Whole => dir' = "none" /\ attached' = 0
        BY <1>1, <1>4, <3>5 DEF FlagInv, Whole
      <4> QED BY <1>1, <1>2, <1>4, <3>1, <3>2, <3>5, <4>1 DEF CreditInv, Remaining, Perfect, Clean, Whole
    <3> QED BY <3>3, <3>4, <3>5
  <2>8. CASE UNCHANGED vars
    <3>1. UNCHANGED <<pc, checkpoint, total, retval, attached, dir, strays, test>>
      BY <2>8 DEF vars
    <3> QED BY <1>1, <3>1, Zenon DEF CreditInv, Remaining, Perfect, Clean, Whole
  <2>9. CASE \/ CreateSr \/ CreateVdi \/ AttachVdi \/ WriteData \/ DetachVdi \/ ResizeVdi \/ VerifyData \/ DataCleanup
    BY <1>4, <2>9, DataSteps
       DEF CreateSr, CreateVdi, AttachVdi, WriteData, DetachVdi, ResizeVdi, VerifyData, DataCleanup, Step
  <2> QED BY <2>1, <2>2, <2>3, <2>4, <2>5, <2>6, <2>7, <2>8, <2>9 DEF Next, Finished
<1> QED BY <1>3, <1>4

\* The start of a test.
LEMMA StartNext ==
  ASSUME IInv, [Next]_vars
  PROVE  StartInv'
<1>1. CASE pc' = "start"
  <2>1. UNCHANGED vars
    BY <1>1, TestKept
  <2>2. UNCHANGED <<pc, checkpoint, total, retval, attached, dir, strays, pattern, lost>>
    BY <2>1 DEF vars, share, disk, marks
  <2> QED BY <2>2, Zenon DEF IInv, StartInv, Clean
<1>2. CASE pc' # "start"
  BY <1>2 DEF StartInv
<1> QED BY <1>1, <1>2

----------------------------------------------------------------------------
\* The pattern of the data test.
LEMMA Grows ==
  /\ Written(11) = 0 .. 2 * Half - 1 /\ Written(8) = (0 .. Half - 1) \cup (Half .. Half + Half - 1)
  /\ Written(3) = {} /\ Written(4) = 0 .. Half - 1 /\ Written(7) = 0 .. Half - 1
  /\ \A n \in {0, 1, 2, 4, 5, 6, 8, 9, 10} : Written(n + 1) = Written(n)
  /\ (0 .. Half - 1) \cap (Half .. Half + Half - 1) = {}
<1>1. 0 .. 2 * Half - 1 = (0 .. Half - 1) \cup (Half .. Half + Half - 1)
  OBVIOUS
<1>2. (0 .. Half - 1) \cap (Half .. Half + Half - 1) = {}
  OBVIOUS
<1>3. /\ Written(11) = 0 .. 2 * Half - 1 /\ Written(8) = 0 .. 2 * Half - 1
      /\ Written(3) = {} /\ Written(4) = 0 .. Half - 1 /\ Written(7) = 0 .. Half - 1
  BY DEF Written
<1>4. \A n \in {0, 1, 2, 4, 5, 6, 8, 9, 10} : Written(n + 1) = Written(n)
  BY DEF Written
<1> QED BY <1>1, <1>2, <1>3, <1>4

\* A step of the data test that succeeds, or fails.
LEMMA DataMoves ==
  ASSUME DataInv, checkpoint \in Nat, test = "data", test' = test, pc = "data", total' = total, dir' = dir,
         \/ /\ checkpoint' = checkpoint + 1 /\ retval' = retval
            /\ pc' = (IF checkpoint = 10 THEN "cleanup" ELSE "data")
            /\ pattern' \subseteq Written(checkpoint + 1)
            /\ lost' => pattern' # Written(checkpoint + 1)
            /\ checkpoint = 10 => pattern' = Written(11)
         \/ pc' = "cleanup" /\ checkpoint' = checkpoint
  PROVE  DataInv'
<1>1. pc' = "cleanup" /\ checkpoint' = checkpoint => DataInv'
  BY DEF DataInv
<1>2. ASSUME checkpoint' = checkpoint + 1, retval' = retval, pc' = (IF checkpoint = 10 THEN "cleanup" ELSE "data"),
             pattern' \subseteq Written(checkpoint + 1), lost' => pattern' # Written(checkpoint + 1),
             checkpoint = 10 => pattern' = Written(11)
      PROVE  DataInv'
  <2>1. total = 11 /\ checkpoint =< 10 /\ retval /\ dir = "none"
    BY DEF DataInv
  <2>2. CASE checkpoint = 10
    <3>1. checkpoint' = 11 /\ checkpoint + 1 = 11 /\ pc' = "cleanup"
      BY <1>2, <2>2
    <3>2. ~lost' /\ pattern' = Written(11)
      BY <1>2, <2>2, <3>1
    <3> QED BY <1>2, <2>1, <3>1, <3>2 DEF DataInv
  <2>3. CASE checkpoint # 10
    <3>1. checkpoint' =< 10 /\ pc' = "data"
      BY <1>2, <2>1, <2>3
    <3>2. pattern' \subseteq Written(checkpoint') /\ (lost' => pattern' # Written(checkpoint'))
      BY <1>2, Zenon
    <3> QED BY <1>2, <2>1, <3>1, <3>2 DEF DataInv
  <2> QED BY <2>2, <2>3
<1> QED BY <1>1, <1>2

LEMMA DataNext ==
  ASSUME IInv, [Next]_vars
  PROVE  DataInv'
<1> USE DEF share, disk, locals, marks, Raise, Credit
<1>1. ControlType /\ DataInv /\ checkpoint \in Nat /\ total \in Nat /\ pattern \subseteq 0 .. 2 * Half - 1
  BY DEF IInv, TypeOK, MarksType, DiskType
<1>2. test' = test
  BY TestKept
<1>3. CASE test # "data"
  BY <1>2, <1>3 DEF DataInv
<1>4. CASE test = "data"
  <2>1. CASE Start
    <3>1. /\ pc = "start" /\ dir' = dir /\ pattern' = pattern /\ lost' = lost /\ retval' = retval
          /\ checkpoint' = checkpoint
      BY <2>1 DEF Start
    <3>2. checkpoint = 0 /\ retval /\ pattern = {} /\ ~lost /\ dir = "none"
      BY <3>1 DEF IInv, StartInv, Clean
    <3>3. pc' = "aborted" \/ (pc' = "data" /\ total' = 11)
      BY <1>4, <2>1 DEF Start
    <3>4. Written(0) = {}
      BY DEF Written
    <3> QED BY <1>2, <3>1, <3>2, <3>3, <3>4 DEF DataInv
  <2>2. CASE NextVersion \/ DisplayExports \/ Attach \/ NfsIo \/ CifsIo \/ ReportSpace \/ Cleanup
    BY <1>1, <1>4, <2>2 DEF NextVersion, DisplayExports, Attach, NfsIo, CifsIo, ReportSpace, Cleanup, DataInv
  <2>3. CASE DataCleanup
    <3>1. /\ pc = "cleanup" /\ pc' = "reported" /\ UNCHANGED <<dir, pattern, lost, total, checkpoint, retval>>
      BY <2>3 DEF DataCleanup
    <3> QED BY <1>1, <1>2, <3>1 DEF DataInv
  <2>4. CASE UNCHANGED vars
    <3>1. UNCHANGED <<pc, dir, pattern, lost, total, checkpoint, retval>>
      BY <2>4 DEF vars
    <3> QED BY <1>1, <1>2, <3>1, Zenon DEF DataInv
  <2>5. ASSUME pc = "data", checkpoint \in {0, 1, 2, 4, 5, 6, 8, 9, 10}, total' = total, dir' = dir,
               pattern' \subseteq pattern, lost' => lost \/ pattern' # pattern,
               checkpoint = 10 => pattern' = pattern /\ (Done => pattern = 0 .. 2 * Half - 1),
               Done \/ Fail
        PROVE  DataInv'
    <3>1. CASE Done
      <4>1. pattern \subseteq Written(checkpoint) /\ (lost => pattern # Written(checkpoint))
        BY <1>1, <1>4, <2>5 DEF DataInv
      <4>2. Written(checkpoint + 1) = Written(checkpoint)
        BY <2>5, Grows
      <4>3. pattern' \subseteq Written(checkpoint + 1) /\ (lost' => pattern' # Written(checkpoint + 1))
        BY <2>5, <4>1, <4>2
      <4>4. checkpoint = 10 => pattern' = Written(11)
        BY <2>5, <3>1, Grows
      <4>5. checkpoint' = checkpoint + 1 /\ retval' = retval /\ pc' = (IF checkpoint = 10 THEN "cleanup" ELSE "data")
        BY <3>1 DEF Done
      <4> QED BY <1>1, <1>2, <1>4, <2>5, <4>3, <4>4, <4>5, DataMoves
    <3>2. CASE Fail
      <4>1. pc' = "cleanup" /\ checkpoint' = checkpoint
        BY <3>2 DEF Fail
      <4> QED BY <1>1, <1>2, <1>4, <2>5, <4>1, DataMoves
    <3> QED BY <2>5, <3>1, <3>2
  <2>6. CASE CreateSr \/ CreateVdi \/ AttachVdi
    <3>1. /\ pc = "data" /\ checkpoint \in {0, 1, 2, 6, 9} /\ total' = total /\ dir' = dir /\ pattern' = pattern
          /\ lost' = lost /\ (Done \/ Fail)
      BY <2>6 DEF CreateSr, CreateVdi, AttachVdi, Step
    <3> QED BY <2>5, <3>1
  <2>7. CASE DetachVdi \/ ResizeVdi
    <3>1. /\ pc = "data" /\ checkpoint \in {4, 5, 8} /\ total' = total /\ dir' = dir /\ (Done \/ Fail) /\ Loses
      BY <2>7 DEF DetachVdi, ResizeVdi, Step
    <3>2. pattern' \subseteq pattern /\ (lost' => lost \/ pattern' # pattern)
      BY <3>1, Zenon DEF Loses
    <3> QED BY <2>5, <3>1, <3>2
  <2>8. CASE VerifyData
    <3>1. /\ pc = "data" /\ checkpoint = 10 /\ total' = total /\ dir' = dir /\ pattern' = pattern /\ lost' = lost
      BY <2>8 DEF VerifyData, Step
    <3>2. (0 .. 2 * Half - 1 \subseteq pattern /\ Done) \/ Fail
      BY <2>8 DEF VerifyData
    <3>3. Done => ~Fail
      BY DEF Done, Fail
    <3>4. Done => pattern = 0 .. 2 * Half - 1
      BY <1>1, <3>2, <3>3
    <3> QED BY <2>5, <3>1, <3>2, <3>4
  <2>9. CASE WriteData
    <3>1. /\ pc = "data" /\ checkpoint \in {3, 7} /\ total' = total /\ dir' = dir /\ lost' = lost
      BY <2>9 DEF WriteData, Step
    <3>2. \/ Done /\ checkpoint = 3 /\ pattern' = pattern \cup (0 .. 0 + Half - 1)
          \/ Done /\ checkpoint = 7 /\ pattern' = pattern \cup (Half .. Half + Half - 1)
          \/ Fail
      BY <2>9, <3>1 DEF WriteData
    <3>3. pattern \subseteq Written(checkpoint) /\ (lost => pattern # Written(checkpoint))
      BY <1>1, <1>4, <3>1 DEF DataInv
    <3>4. CASE Done
      <4>1. checkpoint' = checkpoint + 1 /\ retval' = retval /\ pc' = "data" /\ checkpoint # 10
        BY <3>1, <3>4 DEF Done
      <4>2. ~Fail
        BY <3>4 DEF Done, Fail
      <4>3. CASE checkpoint = 3
        <5>1. pattern = {} /\ ~lost /\ 0 + Half - 1 = Half - 1
          BY <3>3, <4>3, Grows
        <5>2. pattern' = Written(4)
          BY <3>2, <4>2, <4>3, <5>1, Grows
        <5>3. pattern' \subseteq Written(checkpoint + 1) /\ (lost' => pattern' # Written(checkpoint + 1))
          BY <3>1, <4>3, <5>1, <5>2
        <5> QED BY <1>1, <1>2, <1>4, <3>1, <4>1, <5>3, DataMoves
      <4>4. CASE checkpoint = 7
        <5> DEFINE low == 0 .. Half - 1
                   high == Half .. Half + Half - 1
        <5>1. pattern \subseteq low /\ (lost => pattern # low) /\ pattern' = pattern \cup high
              /\ Written(8) = low \cup high /\ low \cap high = {}
          BY <3>2, <3>3, <4>2, <4>4, Grows
        <5> HIDE DEF low, high
        <5>2. pattern' \subseteq Written(8) /\ (lost => pattern' # Written(8))
          <6>1. ASSUME pattern' = Written(8)
                PROVE  pattern = low
            BY <5>1, <6>1
          <6>2. pattern' \subseteq Written(8)
            BY <5>1
          <6> QED BY <5>1, <6>1, <6>2, Zenon
        <5>3. pattern' \subseteq Written(checkpoint + 1) /\ (lost' => pattern' # Written(checkpoint + 1))
          <6>1. checkpoint + 1 = 8
            BY <4>4
          <6> QED BY <3>1, <5>2, <6>1, Zenon
        <5> QED BY <1>1, <1>2, <1>4, <3>1, <4>1, <5>3, DataMoves
      <4> QED BY <3>1, <4>3, <4>4
    <3>5. CASE Fail
      <4>1. pc' = "cleanup" /\ checkpoint' = checkpoint
        BY <3>5 DEF Fail
      <4> QED BY <1>1, <1>2, <1>4, <3>1, <4>1, DataMoves
    <3> QED BY <3>2, <3>4, <3>5
  <2> QED BY <2>1, <2>2, <2>3, <2>4, <2>6, <2>7, <2>8, <2>9 DEF Next, Finished
<1> QED BY <1>3, <1>4

----------------------------------------------------------------------------
LEMMA Invariance == Spec => []IInv
<1>1. Init => IInv
  BY Starts
<1>2. IInv /\ [Next]_vars => IInv'
  BY TypeNext, StartNext, CreditNext, DataNext, PartsNext, LeftoversNext, Zenon DEF IInv
<1> QED BY <1>1, <1>2, PTL DEF Spec

\* Every variable keeps its type.
THEOREM TypeCorrect == Spec => []TypeOK
<1>1. IInv => TypeOK
  BY DEF IInv
<1> QED BY <1>1, Invariance, PTL

\* What a test that returns leaves behind has been announced, for any number
\* of versions and whichever calls fail.
THEOREM LeftoversCorrect == Spec => []KnownLeftoversAnnounced
<1>1. IInv => KnownLeftoversAnnounced
  BY DEF IInv
<1> QED BY <1>1, Invariance, PTL

\* Equal checkpoints mean success, and a share as it was found.
THEOREM Exit0Correct == Spec => []Exit0MeansClean
<1>1. IInv => Exit0MeansClean
  <2> SUFFICES ASSUME IInv, pc = "reported"
               PROVE  /\ checkpoint =< total
                      /\ checkpoint = total => retval /\ (test # "data" => NothingOnTheShare)
    BY DEF Exit0MeansClean, Exit0
  <2>1. checkpoint \in Nat /\ total \in Nat /\ CreditInv /\ DataInv
    BY DEF IInv, TypeOK, MarksType
  <2>2. CASE test = "data"
    BY <2>1, <2>2 DEF DataInv
  <2>3. CASE test # "data"
    BY <2>1, <2>3 DEF CreditInv, Remaining, Perfect, Clean, NothingOnTheShare
  <2> QED BY <2>2, <2>3
<1> QED BY <1>1, Invariance, PTL

\* A data test that gets all its checkpoints has seen every GiB survive, for
\* any size of the disk.
THEOREM PatternCorrect == Spec => []PatternSurvived
<1>1. IInv => PatternSurvived
  BY Grows DEF IInv, DataInv, PatternSurvived
<1> QED BY <1>1, Invariance, PTL
=============================================================================
