# A verification project for XenCert

XenCert certifies storage for XenServer. It is run on a pool master with a
storage type and the address of a storage array, creates and destroys storage
repositories, writes to LUNs and files, fails paths, and reports for each test
how many of its checkpoints were earned. Its exit status, 0 when every test
earned all of them, is what the certification rests on.

Two questions therefore run through all the modules here:

1. **Is the answer right?** Can a test earn all its checkpoints, or report PASS,
   although what it was to establish is not the case?
2. **Is the storage left as it was?** Can an SR, a disk, a session, a blocked
   port, a cluster or a file stay behind, and does somebody learn of it?

Neither is easy to test: each depends on which of some dozens of XAPI, iSCSI,
multipath or shell calls fails, on what had been done by then, on local
variables that outlive what they designate, and in the multipath test on a
second thread and a daemon that answers when it likes.

XenCert also carries the storage manager's library, `sm/`: locks, reference counts of
activated volumes, the metadata volume of an SR. Processes of the host use the same
files at the same time and are killed at any moment, so there the question is

3. **Does the state on disk survive its users?** Is a lock exclusive, a count right, a
   volume readable, whoever is killed and whatever is removed under whom?

File names below are those under `src/src/XenCert/` unless they start with
`docs/`; SH is `StorageHandler.py`, SU is `StorageHandlerUtil.py`. A number after
them is a line.

## 1. The system

### Components

| Component | State it keeps | Operations | Modelled in |
|---|---|---|---|
| Main program and report: `XenCert`, `XenCertCommon.py`, `XenCertLog.py` | (retval, checkpoint, total) of each test; argument table; log files | parse and validate the arguments, build the handler, call the selected tests one after the other, print the report, compute the exit status | ControlPath, LunTests, FileShare (the comparison of checkpoints, the effect of an exception); the rest is straight-line |
| Multipath failover test: SH 245-454, 653-710, SU 78-109, 461-537, 811-855, `blockunblock*` | SR/VDI/VBD references, list of paths, blocked ports, iteration, checkpoints; the `WaitForFailover` thread (SH 98-121); multipathd's view of the paths; state of the ports | enable multipathing, create an SR, block, wait for the failover while doing IO, unblock, wait for the restoration, clean up | **Multipath** |
| Control path stress tests: SH 147-231 (base), 1779-1843 (block), 2885-2953 (NFS), 3081-3142 (CIFS), `create` of each handler, GFS2's included (3283-3343); SU 417-458, 606-679 | SR reference, references to the disk, checkpoints, cluster | create, replug and destroy SRs, fill one, clean up; the GFS2 pass with clustering | **ControlPath** |
| Functional tests of block storage: SH 2142-2365 (iSCSI), 2470-2719 (HBA) | sessions to log out of, the map of LUNs to devices, counts of passed paths, checkpoints | discovery, login, list of the LUNs of each portal or adapter, IO test of every path, logout | **LunTests** |
| Tests of file based storage: SH 2777-2883 (NFS), 3011-3079 and 3144-3243 (CIFS) | mount or SR, names of a directory and a file, flags that say what was made, a disk and its size | mount, write a file, report the free space, remove it, unmount; write a pattern, resize, verify | **FileShare** |
| Pool tests: SH 564-646, SU 78-109 | SR reference, the list of hosts to switch back, checkpoints; `other_config` of hosts and PBDs | enable multipathing on the hosts, create an SR, show the path counts of its PBDs, remove the SR, disable multipathing | **PoolTests** |
| Disk pattern test: `src/src/diskdatatest/`, SU 871-916 | the pattern on the device, sector number and counter | write a pattern, read it back, both within a time limit | one step of LunTests (`DiskDataTest`); the rest is planned |
| Locks: `Lock` and `LockImplementation` in `sm/lock.py` | lock files and their directory, the kernel's locks, the table of instances with a bit and a count each | acquire, release, drop and clean up a lock | **FileLock**, which implements **Serialization** |
| Reference counts and activation: `RefCounter` and `LVMCache` in `sm/lock.py` | count files and their directory, what lvs said last, the device and its names | get, put, set, reset and check a count; activate and deactivate a volume | **RefCounts**, which implements **Counters**; **Activation**; sizes, tags and renaming are not modelled |
| LVM helpers: `sm/lvutil.py` | none | retried LVM commands, removal of a device that lvchange left | the commands of **Activation** |
| SR metadata volume: `sm/srmetadata.py`, `sm/metadata.py` | a header with a length, and a record per VDI, on disk | add, update and delete a VDI, try whether one more fits | **SRMetadata**, which implements **VdiStore** |
| Metadata tests: SH 879-1777, 1858-2042 | - | not reached: main calls `meta_data_tests` of the base class, which says that they do not apply | not modelled |
| Performance and basic SR tests: SH 483-562, 758-872 | - | not called by main | not modelled |
| SCSI, iSCSI and multipath commands: `sm/iscsilib.py`, `sm/scsiutil.py`, `sm/mpath_cli.py`, `sm/mpath_dmp.py` | none | one command each, and the parsing of its output | steps of LunTests and Multipath that may fail |
| Utilities: `sm/util.py`, `sm/vhdutil.py`, `sm/xs_errors.py`, `sm/nfs.py` | none | processes, files, error tables, mount | `nfs.py` in FileShare; how `util.py` writes to a volume in SRMetadata; the rest not modelled |

### How they interact

`main` is sequential. It builds one storage handler and calls its tests; each
returns a triple (retval, checkpoint count, total checkpoints). The report prints
PASS or FAIL from retval, the exit status compares the two counts
of each test (`XenCert` 85-127), so the two can disagree. A handler's test is one or more
`try` blocks followed by a cleanup in a `try` block of its own. An exception that
a handler does not catch reaches the interpreter: there is no report at all.

The multipath test is the only place with concurrency: the driver starts a
`WaitForFailover` thread in each iteration and does device IO while it is alive; the
thread polls multipathd and leaves its result in variables the driver reads after the
thread has ended. multipathd notices a blocked port path by path and on its own
schedule. The ports are blocked and unblocked by a script, or in manual mode by an
operator who answers through the xenstore (`blockunblockpaths`).

Shared state outside of the process: XAPI's objects (SR, PBD, VDI, VBD,
`host.other_config`, the cluster), iSCSI sessions, the devices, the server's
export, and the lock and reference count files of `sm/lock.py`, which the storage
manager of the host uses at the same time. XenCert itself takes one lock, around
iscsiadm (`sm/iscsilib.py` 48-54); `activate` and `deactivate` take the lock of the
reference count, and the metadata volume is read and written under the lock of its SR.

### What is hard, and what makes it correct

* *Partial failure.* Every call can fail, in the cleanup too. What was created
  before the failure is sometimes known to the code only after a helper has returned
  (`create_max_size_vdi_and_vbd`, `try_filesystem_io_tests`), and is lost when it raises.
  Correct: equal checkpoints mean that nothing is left; what is left was announced.
* *Stale references.* `sr_ref` survives the SR it designates into the cleanup of the
  next iteration, the NFS handlers keep all their locals from one version of the
  protocol to the next, `retval` is overwritten by the next version.
  Correct: the exit status remembers every failed pass, and no reference leads to
  credit for what was not done.
* *Counting.* Totals grow while a test runs. Correct: they are never overtaken,
  and they are reached only by a test that did everything.
* *Timing* (multipath). Failover and restoration are recognised by counting
  active paths within bounded polling loops, and a daemon that does not answer looks like
  "no path active". Correct: credit for a failover is given only for the right paths,
  no iteration inherits anything from the one before, and the test ends.
* *Destructive IO.* The IO tests overwrite LUNs. Correct: nothing is written to but
  what was found and asked for.
* *Hosts between two modes.* Multipathing is switched on each host of a pool by four calls, any of
  which may fail, and a query that fails reads as "off". Correct: a host gets back what it had.
* *Clean up under users.* A lock's file and directory are unlinked while others hold, wait for
  or open it. Correct: each file is a lock, waiters get in, and the open gives up last.
* *A directory that belongs to nobody.* Each count has a lock, the directory of the counts has none: it is made and removed
  under whoever works in it. Correct: no count is lost by that and no directory stays behind its files.
* *Two records of one fact.* A count and the device it stands for, a bit and the kernel's
  lock, a header and the records it covers are changed one after the other, with kills, failures and stale caches
  in between. Correct: the second never promises more than the first holds.

`PROJECT.json` lists each of these with its line under `hazards`, and the properties
that cover it.

## 2. Modules

| Module | Contents |
|---|---|
| `Multipath` | the driver, the thread, the scripts, the operator, multipathd, XAPI |
| `MCMultipath` | its instances for TLC: cabling and command lines |
| `ControlPath` | the control path tests of all handlers, GFS2 and clustering, and the exit status |
| `LunTests` | the functional tests of the iSCSI and the HBA handler |
| `FileShare` | the functional tests of NFS and CIFS, the data test of CIFS |
| `PoolTests` | the pool test and the switching of multipathing on its hosts |
| `Serialization` | what a lock promises |
| `FileLock` | the lock files, the instances and the kernel's locks; implements `Serialization` |
| `Counters` | what the reference counts of a namespace promise |
| `RefCounts` | the count files of several objects and their directory; implements `Counters` |
| `MCRefCounts` | its instance for TLC: what `set` is called with |
| `Activation` | the count of a volume and its device, on top of `Serialization` |
| `VdiStore` | what the metadata volume promises |
| `SRMetadata` | the records and the header of the volume and the buffer in front of it; implements `VdiStore` |
| `MultipathProofs`, `ControlPathProofs`, `LunTestsProofs`, `FileShareProofs`, `PoolTestsProofs`, `FileLockProofs`, `ActivationProofs`, `SRMetadataProofs` | theorems about each |

`FileLock` and `Activation` meet in `Serialization`: the first implements it, the second instantiates it, with the
lock of the reference as its only lock, instead of the many steps of the first. `RefCounts` is about several objects and `Activation` about the
one count of a volume together with its device: what the first assumes, that the calls on one object exclude each other, is what the lock of the second provides.

All modules follow the same conventions.

* `pc` is where the code is. An action is what happens between two points at
  which somebody else may act, or something may fail; its successful and its failing
  outcomes are disjuncts of one action.
* Every call to the outside may fail every time, and a call that makes several changes may fail after
  any of them. Only kills are counted, where a process may be killed at every step (`MaxFaults`, which also bounds
  file operations that fail, and `MaxKills`).
* Locals keep their name: `retval`, `checkpoint`, `total` (for
  `checkpointCount`, `totalCheckpoints`), `sr_ref` as `refs` or `sr`,
  `path_passed`, `logoutlist`, `test_dir_create` as `dir_create`.
* `Raise` is the jump to the `except` clause, which in all these tests prints,
  sets `retval = False` and falls into the cleanup.
* Variables commented *history* exist for the properties only; no guard reads them.
* Messages, sizes, names and times are left out, as is the log. The printed
  request to remove something by hand is kept, as `warned`, because a property is about it.
* A definition whose comment begins with *Mutant* is not part of the
  specification: it is a variant of the definition after it with a plausible mistake, used to
  show that a property notices the mistake.

### Multipath

State: `blocked` (ports) and `down` (paths as multipathd reports them) are the
storage; `mp`, `vbd`, `vdi`, `sr` are XAPI's; `refs`, `listed`, `initial`, `chosen`,
`expect`, `scale`, `polls`, `i` are the driver's; `alive`, `pathsFailed`,
`failoverTime` the thread's. The expectation of the HBA scripts is a fraction
(paths × blocked ports / ports, a float in the code): it is kept as `expect / scale`, and
compared without rounding.

| Actions | Code |
|---|---|
| ConfigError ... FirstIO | SH 245-335: multipathing, SR, path list, disk, first IO |
| BlockByScript, BlockByOperator, BlockFails | SH 337-367, 653-681, `RandomlyFailPaths`, the scripts' sampling of ports |
| Watch, DeviceIO | SH 369-387, the loop over `s.is_alive()` |
| JudgeFailover, Unblock, RestorePoll, RestoreTimeout | SH 389-423, `do_new_paths_match` (691) |
| CleanupVbd, CleanupSr, CleanupMp | SH 434-454, one `try` block: the first failure skips the rest |
| ThreadPoll, ThreadExit | `WaitForFailover.run`, with `get_path_status` that turns an error into an empty list |
| MultipathdFails, MultipathdReinstates | external: one path at a time, at any time, or never |

### ControlPath

One behaviour is one handler's control path test as `main` sees it. `sr` says what `sr_ref`
designates, including an SR that is `"gone"`; `left` counts SRs that exist although
no reference designates them; `failed` remembers whether any pass failed.

| Actions | Code |
|---|---|
| Start, NextPass, PassesDone | one pass for each NFS version, or one; then GFS2 for the block handlers |
| CreateSR | `create` of each handler; for the block handlers the loop over the LUNs, with GFS2's own result (SH 3335) |
| PlugAndUnplugPbds, DestroySr | SU 417-458, SH 170-182 |
| CreateVdiAndVbd, WriteAll, RemoveVdi | `perform_sr_control_path_tests`, SU 606-679 |
| CleanupSr | the cleanup of a pass, with the trim of an LVM SR |
| Gfs2Supported, DisableClustering | SH 1787-1843, the `finally` clause included |

### LunTests

A device is a path to a LUN, a pair of a source (a portal or an adapter) and a LUN.
`exposes` is the mapping of the storage, chosen at the start: every mapping is
tried, asymmetric and empty ones included, with every place of the root device and
every list of `-s`. `known` is `scsi_to_tuple_map`, `reference` the list of LUNs the others
are compared with, `luns` and `untried` what is still to be tested. `Sort` returns what
`list.sort()` returns.

| Actions | Code |
|---|---|
| DiscoverPortals, ReportPortal, StartIscsiIo | SH 2151-2294 |
| DiscoverAdapters, ReportAdapter, StartHbaIo | SH 2479-2658 |
| StartLun, TestPath, EndLun, EndIo | the IO loops, SH 2295-2347 and 2659-2700, which are the same up to their messages |
| Logout, Return | the loop over `logoutlist` after the `except` clause |

### FileShare

`attached` is the number of mounts of the export, or the SR; `dir` the directory
that the code's `testdir` designates; `strays` the directories that no
variable designates. `bound` says that `testfile` has been assigned: the
message of a failed cleanup reads it, and `UnboundLocalError` is the result when it has
not. `pattern` is the set of GiBs that hold the data test's pattern; the storage
may lose any of it while the disk is detached or grown.

| Actions | Code |
|---|---|
| Start, NextVersion, DisplayExports, Attach | SH 2777-2850; for CIFS the creation of an SR, 2973-2996 |
| NfsIo, CifsIo, ReportSpace, Cleanup | SH 2794-2883, 3011-3079; `unmount` of `sm/nfs.py` |
| CreateSr ... VerifyData | SH 3144-3220: eleven steps, each with one checkpoint |
| DataCleanup | SH 3223-3243, which decides by the number of checkpoints what there is to undo |

### PoolTests

`mp` and `handle` are the two keys of a host's `other_config`, `list` is `host_disable_mp_list`, `at` and `step` say which
host is being switched and how far that is. `broken` (history) has the hosts one of whose calls failed.

| Actions | Code |
|---|---|
| GetHosts, QueryHost, EnableStep, AllVisited | SH 594-602, with `is_mp_enabled` and `enable_multipathing` call by call (SU 78-109) |
| CreateSr, OwnPbd, OtherPbd, OthersShown | SH 604-623, `find_my_pbd`, `pbds_function` and `find_scsi_key` (564-580) |
| DestroySr, DisableNext, DisableStep | SH 629-643 |

### Serialization and FileLock

A file is a number: every open after a clean up makes a new one, and `link` is the file the path names. An
instance is known by its file. `cached` is `Lock.INSTANCES`, `refs` the instances the nested sections of a process
have in hand; an instance that neither has is closed (`Collect`), and with it the kernel's lock. `count` and `held` are the instance's
attributes, `owner` is the kernel's. Serialization's holder of a file is the process whose instance has the bit `held`.

| Actions | Code |
|---|---|
| Begin, Mkdirs, OpenLockfile | `Lock.__new__`, `_open` and `_open_lockfile` with its retries |
| TryLock, WaitLock | `acquire` (both attempts), `acquireNoblock` |
| Release, LeaveLocked | `release`; a section that raises without it, as `doexec_locked` does |
| Cleanup, CleanupAll, Rmdir | `cleanup`, `cleanupAll`, which unlinks and then removes the directory |
| Die | the process ends or is killed anywhere |

### Activation

`normal` and `binary` are the numbers in the count file, `torn` says that it was truncated and not
written; `node` is the device, `link` its name; `cache` is what each process remembers of lvs. `held` and `flag` are
the references that callers hold: normal ones, which are counted, and the binary one, which is there or not.
Three variables are history: `taken`, a failed activation took back the binary reference that somebody held; `stray`, a
count was left that is nobody's; `troubled`, a call raised or warned.

| Actions | Code |
|---|---|
| Begin, AcquireLock, Leave | `activate` and `deactivate` up to the lock, and from the end of the lock's section |
| Count, Write, WriteFails | `RefCounter.get`, `put`, `_adjust` and `_writeCount`; also those of the `except` clauses (`Undo`) |
| Activate, CheckActiveFails | `activateNoRefcount`, `_checkActive`: a failed command is undone by the `except` clause, any other exception leaves the count |
| Info, Deactivate, LvmBugCleanup, NotDeactivated | the loop of `deactivate`, `deactivateNoRefcount` with its retries, `_lvmBugCleanup` of `sm/lvutil.py`, the `except` clause |
| Escape (a disjunct of Deactivate, LvmBugCleanup and NotDeactivated) | an exception that no clause takes: an OSError of a symlink, an unlink or the start of a command, a refresh that fails |
| EndProcess, Kill | the process ends between calls, or in one |
| Create, Open, Close, Remove | others, who make the volume, use its device and remove the volume when nobody has a reference |

### Counters and RefCounts

In `Counters` an object has a `content`, its count and whether that is spoilt, and the call on it a `stage`: it is asked, takes effect (`Effect`) or
is refused (`Refuse`), and returns. Its `answer` is what the code returns: the sum of the two numbers for `get` and `put`, both numbers for `check`, and
nothing for `set` and `reset`. In `RefCounts` `dir` is the directory of the namespace, `there` and `count` are the file of
each object, `at` is where the call on it is, `op` its kind and `goal` the count it computed. `was` is history: the content that the open found, which the count still is until the
new numbers are written. A call of RefCounts takes effect at its write, at its `unlink`, or for `check` when it has read.

| Actions | Code |
|---|---|
| BeginCount, Look, ReadCount | `get`, `put`, `set`, `check`, `resetAll` of one object; `_get`, `_adjust`, `_set`, `_readCount` of `RefCounter` |
| OpenFile, CreateNamespace, WriteCount | the loop of `_writeCount`: open, make the directory if that fails, open again |
| Unlink, RmdirNamespace | `_removeObject` |
| WriteCountFails, KillCaller | the file system is full; the process is killed anywhere in a call |

### VdiStore and SRMetadata

An image is the volume: `slot` and `len`. `pending` are the images after each write that is still in the
file object's buffer; `View` is what a read returns. The lock of the SR allows one operation at a time. VdiStore's
records are those of the image on disk that are covered by the length and not marked as deleted.

| Actions | Code |
|---|---|
| Open, Close | the handler's construction, the reading of the volume, `__del__` |
| AddRecord, AddHeader | `addVdiInternal`, `updateLengthInHeader`; for `spaceAvailableForVdis` followed by DeleteRecord |
| UpdateVdi | `updateVdi` |
| DeleteRecord, Shrink | `deleteVdi`: the mark, then the shorter length if the record is the last one |
| Flush, Kill | any part of the buffer reaches the disk at any time; the process is killed and the rest is lost |

## 3. What is checked

Twelve runs. In a *pass* run all properties hold in every reachable state; a
*violation* run shows the shortest behaviour in which the code does not do what its own
documentation, comments or messages say, and is described under Findings.

| Run | Instance | Properties |
|---|---|---|
| `multipath` (578,922 states) | 4 paths; iSCSI with a port per path, HBA and manual with two ports of two paths; two blocking iterations (`-g 3`), and without `-g` | TypeOK, FullMarksMeanPass, FullMarksLeaveNothing, CreditMeansFailover, IterationsIndependent, Terminates |
| `control` (53,625) | all handlers, 3 iterations, 2 PBD cycles, 0-2 LUNs, 0-2 NFS versions | TypeOK, ExitStatusIsTrue, Exit0LeavesNothing, LeftoversAnnounced, ClusterRestored, OneSrAtATime |
| `luns` (341,536) | 2 sources, 2 LUNs, both handlers | TypeOK, PassMeansTested, MarksAgree, WritesOnlyWhatItMay, SessionsClosed |
| `share` (6,253) | NFS (0-2 versions), CIFS, data test of 2 × 4 GiB | TypeOK, Exit0MeansClean, PatternSurvived, KnownLeftoversAnnounced |
| `pool` (287,453) | 2 hosts, 2 keys in a PBD | HostsAsFound, FullMarksLeaveNoSr |
| `lock` (151,251) | 3 processes, one of which cleans up twice; 4 sections nested up to 2; 1 retry | TypeOK, BookkeepingIsTrue, ExclusiveUntilCleanup, OpenGivesUpLast, WaitersGetIn, Serializes |
| `activation` (1,126,006) | 2 processes, 4 calls, 2 attempts of a command, one kill or failed file operation | TypeOK, HeldIsActive, NothingLeaks, HeldDeviceStays, EveryCallEnds |
| `refcounts` (269,518) | 2 objects, 4 calls, `set` to three values, one kill or full file system | NamespaceIsItsFiles, KeepsCounts |
| `srmeta` (2,117,968) | 4 VDIs, 2 values and one that is too long, 3 records, 2 kills | TypeOK, LengthCoversRecords, ClosedIsDone, Implements |
| `control_gfs2` | two LUNs | CreateSucceedsWithAnyLun violated |
| `luns_iscsi` | iSCSI | PassMeansSameLuns violated |
| `luns_root` | iSCSI | RootDeviceSpared violated |

What the pass runs show:

* **CreditMeansFailover** - with a healthy storage and regular cabling the checkpoint of
  a failover is never given by accident: neither by a daemon that does not answer, nor by
  paths that fail late, nor by a port that the script did not block.
* **IterationsIndependent** - each iteration starts with open ports, active paths and no
  thread of an earlier one, although each one may end by many routes.
* **FullMarksLeaveNothing** - a multipath test with all its checkpoints leaves neither blocked ports nor objects. That the
  checkpoint of the cleanup alone already means that no object is left, also after a failure, is proved (`CleanupCorrect`); it
  does *not* mean that ports are open: see section 6.
* **Terminates** - driver and thread end.
* **ExitStatusIsTrue** - exit status 0 is right even where `retval` is not: the NFS handler
  forgets a failed version, but its checkpoints do not come back.
* **Exit0LeavesNothing**, **LeftoversAnnounced**, **OneSrAtATime**, **ClusterRestored** -
  the cleanup of the control path tests, with the stale references it works with.
* **PassMeansTested**, **MarksAgree** - every LUN that was to be tested has been verified over
  a path; the map, the counter and the verdict of different loops stay consistent.
* **WritesOnlyWhatItMay**, **SessionsClosed** - what is overwritten was found and asked for, and the logout
  loop knows of every session.
* **Exit0MeansClean**, **PatternSurvived**, **KnownLeftoversAnnounced** - the file based tests:
  flags that are never reset between NFS versions do not lead to credit for a cleanup that was not done.
* **HostsAsFound**, **FullMarksLeaveNoSr** - the two loops over the hosts of a pool fit together although they share only a list
  that is filled whether or not the switching worked: a host none of whose calls failed has at the end the mode it had. All four
  checkpoints also mean that SR and PBDs are gone, although the one for the removal is there without an SR as well.
* **BookkeepingIsTrue**, **Serializes**, **ExclusiveUntilCleanup** - the instance's bit and count never differ from the kernel's lock, although
  instances are shared, nested, leaked, forgotten by a clean up and closed when the last section ends. So every file
  is a lock; what a clean up costs is that there can be two files, and no more than that.
* **OpenGivesUpLast**, **WaitersGetIn** - an open that raises lost the directory once more often than it retries; who waits gets in, also behind
  a section that raised without a release.
* **HeldDeviceStays** - for normal references it survives everything, kills and failing file operations included:
  an emptied count file makes calls raise and is never read as a count of zero. For the binary reference it holds until a second
  activation of that reference fails and takes it back (`taken`); after that the device can go under its holder, which is the code's mistake
  (section 5).
* **HeldIsActive** - who holds a reference has the device and its name, whichever commands fail, in `activate` or in `deactivate`, until a
  reference is taken back like that or a count is nobody's (`stray`): after a kill, after an exception in `activate` that is not that of a failed command,
  or after a put in its `except` clause that fails as well.
* **NothingLeaks** - as long as every call returned, the count is what callers hold and nothing is active that nobody counts.
* **KeepsCounts**, **NamespaceIsItsFiles** - the operations of `RefCounter`, their answers included, are atomic for callers that hold the lock of their object, although
  others make and remove the directory between any two of their steps. An accident leaves the count from before, the one from after, or one that is
  refused. A file always has its directory, and once all calls have ended and none met an accident, a directory has a file.
* **LengthCoversRecords**, **ClosedIsDone**, **Implements** - the metadata volume is readable after a kill anywhere, with any part of the buffer
  written; each operation is on disk at once or not at all, because the record goes before the header and a deletion is a mark in a
  single record; and an operation whose handler was closed has had its effect.

### Bounds

* *Four paths, four ports.* With two ports of two paths a failover leaves half of the paths, with four single
  ones it leaves three, two or one. Smaller setups have no iteration in which
  a wrong set of paths has the right size.
* *Two blocking iterations* are the least for anything to leak from one into the next; the
  theorems hold for any number.
* *Two polls* instead of 50 and 120: the loops only count, and one poll before and one after a
  change of the paths gives every order of events. The theorems hold for any bound.
* *Three control path iterations* have a first, a last and one in between, and a
  stale reference needs two. *Two PBD cycles*, so that
  some can be missing from both ends. *Two LUNs*, so that the first can refuse and the second accept, and *two NFS versions*, the real
  maximum.
* *Two sources and two LUNs* give every relation of two lists of LUNs, and a LUN whose paths
  differ in outcome. A run with three of each is too large for a check, the theorems hold for any number.
* *FileShare* has its real sizes.
* *Two hosts* are this one and another one, in every pair of modes, two keys a PBD with and without the path count in front.
* *FileLock*: a holder, a waiter and one who cleans up; two clean ups make three files of the same path, so that a process can have
  sections on two of them while another opens the third; two levels of nesting tell the last release from the others; one
  retry tells a retried open from one that gives up.
* *Activation*: four calls let two references of both kinds be taken and one returned while the other process is in a call. With no
  more than one kill or failed file operation the state is one that a single accident produces; the commands fail, and end in other exceptions, without
  bound. The theorems hold for any number of calls and accidents.
* *RefCounts*: one object whose file comes while the last file of the other goes is all that two calls can do to each other in the directory; four
  calls let each object be counted up and down again, with the calls in every order. One accident, as in Activation.
* *SRMetadata*: three records are the least for a deleted one in the middle; the fourth VDI finds the volume full or
  a slot to use again; two kills let the second one meet what the first one left.

No state constraint and no symmetry is used. `CHECK_DEADLOCK` is on in every run but `activation`: a test or a bounded number of calls that has ended
stutters by an action of its own (`Finished`, `Done`, `CountsDone`), and any other state without a successor is an error. In
`activation` processes stop when the bounded number of calls has been made; that no call is stuck before is `EveryCallEnds`.

### Fairness

* `Terminates`: `Multipath!Fairness` is weak fairness of `Driver` and of `Thread`: two Python threads that
  are both scheduled, and whose calls return; the code has no provision for one that does
  not. Nothing is assumed of multipathd, of the operator's speed, or of success:
  a test whose every call fails and a daemon that never notices anything must
  still end, which is what the two bounded loops are for.
* `WaitersGetIn`: weak fairness of the steps of each process, the end of a section among them, and of the end of a process that is
  outside of all sections. A section that leaks the lock is followed by such an end or by another section. Weak fairness
  of waiting is enough because the bounded number of sections lets the lock be free from some point on; nothing is said of who is next.
* `EveryCallEnds`: weak fairness of the steps of each call. Kills and failures are not excluded, success is not assumed.

The other modules check safety only.

## 4. What is proved

The theorems hold for every value of the constants and are checked by TLAPS to the last leaf.

| Module | Theorems |
|---|---|
| `MultipathProofs` | TypeCorrect, MarksCorrect, CleanupCorrect; for a healthy storage FullMarksCorrect, FailoverCorrect, IterationsCorrect |
| `ControlPathProofs` | TypeCorrect, ExitStatusCorrect, Exit0Clean, LeftoversCorrect, ClusterCorrect, OneSrCorrect |
| `LunTestsProofs` | TypeCorrect, PassCorrect, MarksCorrect, WritesCorrect, SessionsCorrect |
| `FileShareProofs` | TypeCorrect, Exit0Correct, LeftoversCorrect, PatternCorrect |
| `PoolTestsProofs` | TypeCorrect, HostsCorrect, MarksCorrect |
| `FileLockProofs` | TypeCorrect, BookkeepingHolds, ExclusionHolds, OpenGivesUpLastHolds, **Refinement**: FileLock implements Serialization |
| `ActivationProofs` | TypeCorrect, HeldDeviceCorrect, HeldIsActiveCorrect, NothingLeaksCorrect; for RefCounts CountsTypeCorrect, NamespaceCorrect, **CountsRefinement**: RefCounts implements Counters |
| `SRMetadataProofs` | TypeCorrect, LengthCorrect, ClosedCorrect, **Refinement**: SRMetadata implements VdiStore |

These are all invariants and action properties of the nine passing runs, and the three refinements. Three results are proved and
belong to no run: the type invariants of PoolTests and RefCounts and `CleanupCorrect`. What stays with TLC is liveness: `Terminates`,
`WaitersGetIn` and `EveryCallEnds`, which are out of the prover's reach.

**Assumptions.** Path, Port, Source, Lun and the processes of Activation are finite sets, the bounds are natural numbers
(`PathAssumption`, `BoundAssumption`, ...), and the values that stand for "none" are not members of the sets they extend; TLC evaluates
these in every run. `Healthy` is an
assumption of the last three theorems of `MultipathProofs` only: no path is failed before the
test starts. It is needed: on a storage with a failed path the code compares only the number of failed paths with what it expects (section 5). That the cabling is regular
(`Regular`) is a premise of CreditMeansFailover itself: with two paths behind one address the
script's expectation is wrong whatever the test does.

**Argument.** None of the properties is inductive.

* *Ledger.* That equal checkpoints mean success cannot be seen from the sums while a test
  runs. `MarksInv` compares the checkpoints with what can still be earned from the present
  place on (`Pending` in MultipathProofs, `Due` in ControlPathProofs, an equation for each place in
  LunTestsProofs): a run with a flaw is behind by at least one, and no step catches up.
* *Objects.* `ObjectsInv` says which objects can exist at which place and that the code refers to
  those; `WarnedInv` that what is no longer referred to has been announced.
* *Multipath.* `ThreadInv` says when the thread can run. On top of it `StorageInv` follows an
  iteration: while the thread watches, the failed paths are among those behind the blocked ports, which are
  among the chosen ones, and no answer with another set of paths, the empty answer included, has the expected number;
  while the driver restores, a port that is still blocked shows as a failed path, so that "as many active
  paths as at the start" means that all ports are open.
* *LunTests.* The promise of the test is carried through it: of each promised LUN, that it is
  verified or waits (`PromiseInv`); of each listed source, that it is still to be asked or its LUNs are
  in the map (`ListedInv`); of each device in the map, that it was tried or waits
  (`TriedInv`); that a non-zero counter belongs to the present LUN (`CountInv`).

* *FileShare.* `CreditInv` is the ledger again, with `Remaining` and the addition that only a test to which nothing happened (`Perfect`)
  can still reach its total; `DataInv` says which GiBs each of the eleven steps has written; `NfsInv` and `CifsInv` which leftovers the flags know of.
* *PoolTests.* `HostInv` follows a host through both loops: still to be visited and as found, in hand at a step, or in the list.
* *FileLock.* A release without looking would give up somebody else's lock. That it does not follows from `SectionOf`: the count of
  an instance is at least the number of sections inside it. `FilesOf` says that a process that opens or waits has no section on that file. Each
  step of the code is then an acquisition, a release, an abandonment of a set of files, or a stutter of Serialization.
* *Activation.* `CountInv`: the normal count is at least what callers hold and what calls in progress have yet to hand out or
  to take back; `FlagsInv` says the same of the binary one until `taken`. That is why a device is only taken away when nobody holds a reference, and it
  needs no premise on commands or kills. `PhaseInv` ties the count to the place of the call. `SoundInv` says
  when a device may be missing although the count is positive, namely only while the call that counted first is trying, or goes back: this holds until
  `stray` as well, because a count that is nobody's makes the next activation skip its work. `LeakInv`, which holds as long
  as no call raised, turns the inequality of `CountInv` into an equation and says that device and count differ only while a call works on the device.
* *RefCounts.* That the directory is not left behind cannot be seen from the directory alone: `DirInv` says that while it exists without a file,
  and no accident happened, some call is about to open a file in it or to remove it. `Decided` gives the refinement: from the moment a call has looked at the count until it
  changes it, its `goal` is what Counters says of the call and of the count that is still shown, so that the one step that changes the file is `Effect` and every
  other one begins, returns, spoils or stutters. The calls on other objects keep it because nobody but the call on `o` touches the file of `o`.
* *SRMetadata.* `ImageInv`: every image in the buffer could be on the disk, that is, its length covers records and no VDI is twice in it.
  `Between`: each of them shows the records from before the operation or those after it. A flush of any length is then one step of VdiStore
  or none (for `spaceAvailableForVdis`, which adds and deletes, one of its two), and a kill is none.

Each invariant `IInv` was checked by TLC on the instances above before it was proved.

## 5. Findings

Each has a run that shows it.

1. **The GFS2 `create` fails on success** (`control_gfs2`). SH 3302: "try to create an SR with one of the
   LUNs mapped, if all fails throw an exception"; the test of `sr_ref` at 3335 is inside the loop.
2. **Portals with different LUNs pass** (`luns_iscsi`). SH 2260 compares the results of `list.sort()`, which are `None`.
3. **The root device is written to** (`luns_root`). The estimate of the run time (2247) writes to each LUN before
   the loop that skips the root device (2303).

Noticed while reading, without a run of their own:

* The pool test compares nothing: SH 591 announces that "PBD records display the same number of paths for each host in
  the pool"; `find_scsi_key` (564-569) prints the record of the local host for every host, and its test `key.find(...)` is true for -1 as well.
* `RefCounter.set` (`sm/lock.py` 61) is said to return the new count and returns None, as `reset` does. `get` and `put` are atomic, as 35 says, only for callers that hold the lock.
* An IO error during a failover raises with the ports still blocked; nothing unblocks them (SH 369-387).
* Manual mode takes one failed path for a failover, hence also a multipathd that does not answer.
* Without `-g`, 98 blocking iterations are made where the guide (152) says 100.
* iSCSI blocking is by address: paths that share an address fail together, and the HBA scripts, given a single port,
  expect all paths to fail, which IO on the device then contradicts.
* `enable_multipathing`, `disable_multipathing` and `plug_and_unplug_pbds` swallow their exceptions.
* NFS with no supported version: 0 of 0 checkpoints, hence exit status 0; `getSupportedNFSVersions` may raise outside of every `try`.
* A stale `sr_ref` produces a request to destroy an SR that is gone.
* On a storage with a failed path the failover is credited for the wrong paths: only their number is compared (SH 115), whereas 292 says "the
  correct paths are detected as failed".
* Adapters with different LUNs pass the HBA test: the comparison (2554-2574) cannot be reached, and as its checkpoint stays in the total the test
  never exits 0.
* An exception of `Gfs2Supported` or `DisableClustering` (1794, 1831) ends XenCert without a report.
* An NFS IO test that fails after its `mkdir` (2855) leaves a directory that nobody announces.
* A second activation of the binary reference that fails takes back the first one's (`GivesBackAnothers`; `sm/lock.py` 649-654).
* `activate` gives its reference back after a CommandException only (`sm/lock.py` 651). An OSError of the symlink in `_checkActive` (`sm/lvutil.py`
  377), or of a command that cannot be started, keeps the count although the name, or the device, is missing, and the next activation finds a count of two
  and returns without looking (`stray`).
* A count file that a kill leaves empty makes every later `get` and `put` end in an IndexError (`sm/lock.py` 226), although 35 calls them atomic.
* A volume younger than the cache is a KeyError in `activate`, after the count and the activation: both stay. A `deactivate` that was told it failed,
  and is called again, counts down twice.
* `LVMCache.rename` leaves the index of tags as it was, and `remove` changes a list it iterates over.
* A kill in `spaceAvailableForVdis` leaves its dummy VDI. `unictrunc` (`sm/util.py` 581) decodes a `str` and raises for every name that it should shorten; names
  that are not ASCII make records longer than their two sectors.
* `sm/nfs.py` 59 gives the service a fixed number of attempts.
* The pool test says that it creates a shared SR (SH 606), which only the `create` of the iSCSI handler asks for (2068); the others pass `False` (2399, 2759, 2984).
* `is_mp_enabled` answers False when its query fails, so a host that had multipathing can lose it.
* `set_disallow_unplug` is never reset.
* Below 1 GiB `actual_sr_free_space` (SU 474) returns the text of a float.
* The iSCSI functional test passes with 4 of 4 when no portal of the IQN is found.
* For iSCSI a path that cannot be written to fails the test during the estimate, although one writable path is meant to be enough.
* The root device is recognised by its device name, so another path to its LUN is written to.
* Skipped paths are added to the share of passed ones, which can exceed 100 %; duplicate SCSI IDs in `-s` make the HBA test fail.
* The message of a failed cleanup reads `testfile` (SH 2881, 3077), which may be unbound: `UnboundLocalError`, no report.
* The CIFS data test reports full marks although its cleanup failed (it does ask for help).

## 6. Limits

* The actions that wait for XAPI or for a command end at some point; a call that hangs is not modelled.
* Multipath: creating the SR is one step; the list of active paths is complete or empty, not partial (SU 829-855); the xenstore handshake of manual mode is the operator's step. Ports that stay blocked after
  an error are in the model (they are why FullMarksLeaveNothing speaks of full marks only).
* ControlPath: PBDs are not objects of the model, only the checkpoints of their cycles; an SR with an unplugged
  PBD is one whose destruction may fail, as every destruction may.
* LunTests: portals of one IQN; the storage does not change while the test runs; the pattern test is one step.
* FileShare: the local mount point of a mount that failed is not part of the state; `create` of CIFS succeeds or raises, although the data test would go on
  after a `(False, None)` (SH 3158-3160).
* PoolTests: what happens inside `create` and `destroy_sr` is ControlPath's; of the comparison of keys in `find_scsi_key` the model keeps whether it raises and where it ends. A host one of
  whose calls failed, the query of its mode included, is outside of `HostsAsFound`.
* FileLock: errors of the file system other than ENOENT, EDEADLK and interrupted calls; `test()`, which only feeds the log; `clearAll` and forks. `Lock.cleanup`
  forgets, closes and unlinks in one step (976-989).
* Activation: one volume, hence one namespace entry; no sizes, names and tags. `NothingLeaks` stops speaking once a call raised or warned; `HeldIsActive` once a
  process was killed in a call or an activation ended in an exception that its `except` clause does not take, because then a reference is counted and nobody's, or once
  the binary reference was taken back. A failing `lvchange -an` is taken to leave device and name as they were, a failing refresh in `lazyInit` is a call that has not begun, and
  a `rmdir` of the count directory that fails after the last put is left out.
* RefCounts: `resetAll` of a whole namespace, which takes no lock and for which no caller is in the repository; errors of the file system other than a full one, a `rmdir` that fails for another reason than a file in the directory among them.
* SRMetadata: the host does not crash, so what was written stays; an error of the device looks on disk like a kill; XML, escaping and
  the SR's own record in the header are left out; a record is written as a whole, whereas the code merges the given tags into the record it found there
  (279-302 of `sm/srmetadata.py`), so that a tag the caller leaves out survives from a deleted VDI; the header has no other user than the length.
* Not modelled, with reasons in `PROJECT.json`: argument parsing, report layout and log (no state a property is about), the parsing of command output,
  and code that no command reaches (metadata and performance tests).

## 7. Plan

The order was: the test with concurrency first (Multipath), then the test whose result depends on most
handlers (ControlPath), then destructive IO (LunTests), the file based tests (FileShare), the library that others use at the
same time (Serialization, FileLock, Activation, Counters, RefCounts), its state on disk (VdiStore, SRMetadata), and the pool test. To come, in this order:

| Module | What it models | Properties and theorems |
|---|---|---|
| `Pattern` (+ proofs) | `fdpattern.c`, `atomicio.c` and `disk_data_test`: the pattern as a function of sector and start, short reads and writes, the two time limits, and the remains of an earlier test on the same LUN | a verification that passes has read what this run wrote, over as many blocks as it reports |
| `Handshake` | `blockunblockpaths`, its caller and the operator over the xenstore key | which answers are lost and who then waits; composed with the operator's step of Multipath, which it refines when the operator answers late enough |
| `Main` | the tests as a sequence with their triples, the report and the exit status | exit status against report for every choice of tests; what an exception discards |
| `Discovery` | SU 241-415 and `sm/iscsilib.py`: the portals and LUNs of a target from an exception of SR probe, the adapters of an HBA | refines the discovery steps of LunTests |
| `LvmCache` | names, sizes and the index of tags in `LVMCache` | the index agrees with the volumes after every operation |

Abstract specifications worth stating: *a test* as (promise, outcome, leftovers), which ControlPath, LunTests and
FileShare each refine through a mapping of their counters, and on which `Main` is built; *a disk* that returns what was written to it last, for `Pattern`.
