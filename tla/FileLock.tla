------------------------------ MODULE FileLock ------------------------------
(***************************************************************************)
(* Lock and LockImplementation of sm/lock.py for one lock name: a file in  *)
(* a directory that is shared by the locks of a namespace, and an fcntl    *)
(* lock on it.  Its users are the contexts around iscsiadm and the LVM     *)
(* commands and the activation of volumes.                                 *)
(*                                                                         *)
(* A process keeps one instance in a table and has another one only while  *)
(* a section that began before a clean up still refers to it.  An instance *)
(* that nothing refers to is closed.  fcntl locks belong to the process    *)
(* and the file, not to the path: whoever unlinks the path separates those *)
(* who have the file open from those who open it next.                     *)
(***************************************************************************)
EXTENDS Integers, Sequences

CONSTANTS
  Proc, NoProc,
  Cleaners,      \* the processes that call cleanup or cleanupAll
  Retries,       \* 10, number_of_enoent_retries
  MaxDepth,      \* sections nested in one another
  MaxSections,   \* bound: sections the processes begin, together
  MaxCleanups    \* bound: calls of cleanup and cleanupAll

ASSUME ProcAssumption  == NoProc \notin Proc /\ Cleaners \subseteq Proc
ASSUME BoundAssumption == /\ Retries \in Nat /\ MaxDepth \in Nat
                          /\ MaxSections \in Nat /\ MaxCleanups \in Nat

\* Every file but the first takes the place of one that was cleaned up.
File   == 1 .. MaxCleanups + 1
NoFile == 0

VARIABLES
  dir,       \* the directory of the namespace exists
  link,      \* the file the path names
  made,      \* files made so far
  owner,     \* the kernel's lock on each file
  pc, tries,
  cached,    \* the instance in INSTANCES, known by its file
  refs,      \* the instances the nested sections refer to, innermost last
  count, held,   \* attributes of the instances
  left,      \* sections that may still begin
  cleanups,  \* calls of cleanup and cleanupAll so far
  removals, failed   \* history: removals of the directory before an open; it raised

disk  == <<dir, link, made>>
insts == <<cached, refs, count, held>>
notes == <<left, cleanups, removals, failed>>
vars  == <<disk, owner, pc, tries, insts, notes>>

Goto(p, l) == pc' = [pc EXCEPT ![p] = l]
Last(s)    == s[Len(s)]
Pop(s)     == SubSeq(s, 1, Len(s) - 1)

Init ==
  /\ dir = FALSE /\ link = NoFile /\ made = 0
  /\ owner = [f \in File |-> NoProc]
  /\ pc = [p \in Proc |-> "run"] /\ tries = [p \in Proc |-> 0]
  /\ cached = [p \in Proc |-> NoFile] /\ refs = [p \in Proc |-> <<>>]
  /\ count = [p \in Proc |-> [f \in File |-> 0]]
  /\ held = [p \in Proc |-> [f \in File |-> FALSE]]
  /\ left = MaxSections /\ cleanups = 0
  /\ removals = [p \in Proc |-> 0] /\ failed = [p \in Proc |-> FALSE]

----------------------------------------------------------------------------
\* Lock.__new__: the instance in the table, or a new one.
Begin(p) ==
  /\ pc[p] = "run" /\ left > 0 /\ Len(refs[p]) < MaxDepth
  /\ left' = left - 1
  /\ IF cached[p] # NoFile
       THEN /\ refs' = [refs EXCEPT ![p] = Append(@, cached[p])]
            /\ Goto(p, "try") /\ UNCHANGED <<tries, removals>>
       ELSE /\ tries' = [tries EXCEPT ![p] = Retries]
            /\ removals' = [removals EXCEPT ![p] = 0]
            /\ Goto(p, "mkdirs") /\ UNCHANGED refs
  /\ UNCHANGED <<disk, owner, cached, count, held, cleanups, failed>>

Mkdirs(p) ==
  /\ pc[p] = "mkdirs"
  /\ dir' = TRUE
  /\ Goto(p, "open")
  /\ UNCHANGED <<link, made, owner, tries, insts, notes>>

\* The new instance, on file f.
Opened(p, f) ==
  /\ cached' = [cached EXCEPT ![p] = f]
  /\ refs' = [refs EXCEPT ![p] = Append(@, f)]
  /\ tries' = [tries EXCEPT ![p] = 0]
  /\ removals' = [removals EXCEPT ![p] = 0]
  /\ Goto(p, "try")

\* Mutant: the retry does not make the directory again.
OpenWithoutMkdirs(p) ==
  /\ pc[p] = "open"
  /\ \/ /\ dir /\ link # NoFile /\ Opened(p, link)
        /\ UNCHANGED <<link, made, failed>>
     \/ /\ dir /\ link = NoFile
        /\ made' = made + 1 /\ link' = made + 1 /\ Opened(p, made + 1)
        /\ UNCHANGED failed
     \/ /\ ~dir /\ tries[p] > 0
        /\ tries' = [tries EXCEPT ![p] = @ - 1] /\ Goto(p, "open")
        /\ UNCHANGED <<link, made, cached, refs, removals, failed>>
     \/ /\ ~dir /\ tries[p] = 0
        /\ failed' = [failed EXCEPT ![p] = TRUE] /\ Goto(p, "run")
        /\ UNCHANGED <<link, made, tries, cached, refs, removals>>
  /\ UNCHANGED <<dir, owner, count, held, left, cleanups>>

\* Mutant: the retries are counted down below zero.
OpenOneMore(p) ==
  /\ pc[p] = "open"
  /\ \/ /\ dir /\ link # NoFile /\ Opened(p, link)
        /\ UNCHANGED <<link, made, failed>>
     \/ /\ dir /\ link = NoFile
        /\ made' = made + 1 /\ link' = made + 1 /\ Opened(p, made + 1)
        /\ UNCHANGED failed
     \/ /\ ~dir /\ tries[p] >= 0
        /\ tries' = [tries EXCEPT ![p] = @ - 1] /\ Goto(p, "mkdirs")
        /\ UNCHANGED <<link, made, cached, refs, removals, failed>>
  /\ UNCHANGED <<dir, owner, count, held, left, cleanups>>

\* _open_lockfile, which finds no directory if a clean up came in between.
OpenLockfile(p) ==
  /\ pc[p] = "open"
  /\ \/ /\ dir /\ link # NoFile /\ Opened(p, link)
        /\ UNCHANGED <<link, made, failed>>
     \/ /\ dir /\ link = NoFile
        /\ made' = made + 1 /\ link' = made + 1 /\ Opened(p, made + 1)
        /\ UNCHANGED failed
     \/ /\ ~dir /\ tries[p] > 0
        /\ tries' = [tries EXCEPT ![p] = @ - 1] /\ Goto(p, "mkdirs")
        /\ UNCHANGED <<link, made, cached, refs, removals, failed>>
     \/ /\ ~dir /\ tries[p] = 0
        /\ failed' = [failed EXCEPT ![p] = TRUE] /\ Goto(p, "run")
        /\ UNCHANGED <<link, made, tries, cached, refs, removals>>
  /\ UNCHANGED <<dir, owner, count, held, left, cleanups>>

----------------------------------------------------------------------------
\* The kernel gives f to p, and the instance counts it.
Locked(p, f) ==
  /\ owner' = [owner EXCEPT ![f] = p]
  /\ held' = [held EXCEPT ![p][f] = TRUE]
  /\ count' = [count EXCEPT ![p][f] = @ + 1]
  /\ Goto(p, "run")

\* Nothing refers to the instance on f: not the table, not a section.
Unreferenced(f, table, sections) ==
  table # f /\ \A i \in DOMAIN sections : sections[i] # f

\* __del__ closes an instance that is gone, with its lock and its count.
Collect(p, f, gone, own, cnt, hld) ==
  IF gone
    THEN /\ owner' = [own EXCEPT ![f] = IF @ = p THEN NoProc ELSE @]
         /\ count' = [cnt EXCEPT ![p][f] = 0]
         /\ held' = [hld EXCEPT ![p][f] = FALSE]
    ELSE owner' = own /\ count' = cnt /\ held' = hld

\* The innermost section was the last to refer to its instance.
LastRef(p) == Unreferenced(Last(refs[p]), cached[p], Pop(refs[p]))

\* Mutant: acquire waits although this instance holds the lock.
TryLockNotReentrant(p) ==
  LET f == Last(refs[p]) IN
  /\ pc[p] = "try"
  /\ \/ owner[f] = NoProc /\ Locked(p, f) /\ UNCHANGED refs
     \/ owner[f] # NoProc /\ Goto(p, "wait") /\ UNCHANGED <<owner, count, held, refs>>
  /\ UNCHANGED <<disk, tries, cached, notes>>

\* The first attempt of acquire, or the only one of acquireNoblock.
TryLock(p) ==
  LET f == Last(refs[p]) IN
  /\ pc[p] = "try"
  /\ \/ /\ held[p][f]
        /\ count' = [count EXCEPT ![p][f] = @ + 1] /\ Goto(p, "run")
        /\ UNCHANGED <<owner, held, refs>>
     \/ /\ ~held[p][f] /\ owner[f] \in {NoProc, p}
        /\ Locked(p, f) /\ UNCHANGED refs
     \/ /\ ~held[p][f] /\ owner[f] \notin {NoProc, p}
        /\ Goto(p, "wait") /\ UNCHANGED <<owner, count, held, refs>>
     \/ /\ ~held[p][f] /\ owner[f] \notin {NoProc, p}
        /\ Goto(p, "run") /\ refs' = [refs EXCEPT ![p] = Pop(@)]
        /\ Collect(p, f, LastRef(p), owner, count, held)
  /\ UNCHANGED <<disk, tries, cached, notes>>

\* Mutant: acquire does not look at what the kernel says.
WaitLockUnasked(p) ==
  LET f == Last(refs[p]) IN
  /\ pc[p] = "wait" /\ Locked(p, f)
  /\ UNCHANGED <<disk, tries, cached, refs, notes>>

\* F_SETLKW.
WaitLock(p) ==
  LET f == Last(refs[p]) IN
  /\ pc[p] = "wait" /\ owner[f] = NoProc
  /\ Locked(p, f)
  /\ UNCHANGED <<disk, tries, cached, refs, notes>>

\* Mutant: the lock is given up with the first release.
ReleaseAtOnce(p) ==
  LET f == Last(refs[p]) IN
  /\ pc[p] = "run" /\ refs[p] # <<>>
  /\ refs' = [refs EXCEPT ![p] = Pop(@)]
  /\ Collect(p, f, LastRef(p), [owner EXCEPT ![f] = NoProc], [count EXCEPT ![p][f] = @ - 1],
             [held EXCEPT ![p][f] = FALSE])
  /\ UNCHANGED <<disk, pc, tries, cached, notes>>

\* The end of a section: release, and its reference is gone.
Release(p) ==
  LET f == Last(refs[p]) IN
  /\ pc[p] = "run" /\ refs[p] # <<>>
  /\ refs' = [refs EXCEPT ![p] = Pop(@)]
  /\ IF count[p][f] > 1
       THEN Collect(p, f, LastRef(p), owner, [count EXCEPT ![p][f] = @ - 1], held)
       ELSE Collect(p, f, LastRef(p), [owner EXCEPT ![f] = NoProc], [count EXCEPT ![p][f] = 0],
                    [held EXCEPT ![p][f] = FALSE])
  /\ UNCHANGED <<disk, pc, tries, cached, notes>>

\* A section that raises where no finally clause releases: doexec_locked and
\* LVMCache.setReadonly.
LeaveLocked(p) ==
  LET f == Last(refs[p]) IN
  /\ pc[p] = "run" /\ refs[p] # <<>>
  /\ refs' = [refs EXCEPT ![p] = Pop(@)]
  /\ Collect(p, f, LastRef(p), owner, count, held)
  /\ UNCHANGED <<disk, pc, tries, cached, notes>>

----------------------------------------------------------------------------
\* Lock.cleanup: forget the instance and unlink the path.
Cleanup(p) ==
  /\ p \in Cleaners /\ pc[p] = "run" /\ cleanups < MaxCleanups
  /\ cleanups' = cleanups + 1
  /\ cached' = [cached EXCEPT ![p] = NoFile]
  /\ link' = NoFile
  /\ UNCHANGED refs
  /\ IF cached[p] # NoFile THEN Collect(p, cached[p], Unreferenced(cached[p], NoFile, refs[p]), owner, count, held)
                           ELSE UNCHANGED <<owner, count, held>>
  /\ UNCHANGED <<dir, made, pc, tries, left, removals, failed>>

\* Lock.cleanupAll: unlink the files of the namespace, forget no instance ...
CleanupAll(p) ==
  /\ p \in Cleaners /\ pc[p] = "run" /\ cleanups < MaxCleanups /\ dir
  /\ cleanups' = cleanups + 1
  /\ link' = NoFile
  /\ Goto(p, "rmdir")
  /\ UNCHANGED <<dir, made, owner, tries, insts, left, removals, failed>>

\* ... then remove the directory, which fails silently when a file is in it.
Rmdir(p) ==
  /\ pc[p] = "rmdir"
  /\ IF dir /\ link = NoFile
       THEN /\ dir' = FALSE
            /\ removals' = [q \in Proc |-> removals[q] + (IF pc[q] = "open" THEN 1 ELSE 0)]
       ELSE UNCHANGED <<dir, removals>>
  /\ Goto(p, "run")
  /\ UNCHANGED <<link, made, owner, tries, insts, left, cleanups, failed>>

\* The process ends or is killed; the kernel closes its files.
Die(p) ==
  /\ pc[p] # "dead"
  /\ Goto(p, "dead")
  /\ owner' = [f \in File |-> IF owner[f] = p THEN NoProc ELSE owner[f]]
  /\ cached' = [cached EXCEPT ![p] = NoFile]
  /\ refs' = [refs EXCEPT ![p] = <<>>]
  /\ count' = [count EXCEPT ![p] = [f \in File |-> 0]]
  /\ held' = [held EXCEPT ![p] = [f \in File |-> FALSE]]
  /\ UNCHANGED <<disk, tries, notes>>

Step(p) == \/ Mkdirs(p) \/ OpenLockfile(p) \/ TryLock(p) \/ WaitLock(p)
           \/ Release(p) \/ LeaveLocked(p) \/ Rmdir(p)

Finished == (\A p \in Proc : pc[p] = "dead") /\ UNCHANGED vars

Next == \/ \E p \in Proc : Begin(p) \/ Step(p) \/ Cleanup(p) \/ CleanupAll(p) \/ Die(p)
        \/ Finished

\* Calls return, sections end, and so do processes once they are outside of
\* all sections.
End(p)   == pc[p] = "run" /\ refs[p] = <<>> /\ Die(p)
Fairness == \A p \in Proc : WF_vars(Step(p)) /\ WF_vars(End(p))

Spec == Init /\ [][Next]_vars /\ Fairness

----------------------------------------------------------------------------
\* Properties.

Label == {"run", "mkdirs", "open", "try", "wait", "rmdir", "dead"}

DiskType == /\ dir \in BOOLEAN /\ link \in File \cup {NoFile}
            /\ made \in 0 .. MaxCleanups + 1
            /\ owner \in [File -> Proc \cup {NoProc}]
CodeType == /\ pc \in [Proc -> Label] /\ tries \in [Proc -> 0 .. Retries]
InstType == /\ cached \in [Proc -> File \cup {NoFile}]
            /\ refs \in [Proc -> Seq(File)]
            /\ count \in [Proc -> [File -> Nat]]
            /\ held \in [Proc -> [File -> BOOLEAN]]
NoteType == /\ left \in Nat /\ cleanups \in 0 .. MaxCleanups
            /\ removals \in [Proc -> Nat]
            /\ failed \in [Proc -> BOOLEAN]

\* Every variable has its type.
TypeOK == DiskType /\ CodeType /\ InstType /\ NoteType

\* _held, the "one bit of our own bookkeeping", never differs from what the
\* kernel says, and the count is positive exactly while it is set, whatever
\* instances a clean up dropped in the meantime.
BookkeepingIsTrue ==
  \A p \in Proc, f \in File : /\ held[p][f] <=> owner[f] = p
                              /\ held[p][f] <=> count[p][f] > 0

Inside(p) == \E f \in File : held[p][f]

\* At most one process is inside as long as nobody has cleaned up.
ExclusiveUntilCleanup ==
  cleanups = 0 => \A p, q \in Proc : Inside(p) /\ Inside(q) => p = q

\* "In this case we retry": an open gives up only after the directory was
\* removed under it once more often than there are retries.
OpenGivesUpLast ==
  [][\A p \in Proc : failed'[p] /\ ~failed[p] => removals[p] > Retries]_vars

\* A process that waits for the lock gets it, whatever sections raise, which
\* processes are killed, and whatever is cleaned up: a lock that was not
\* released is free when its process ends.
WaitersGetIn == \A p \in Proc : pc[p] = "wait" ~> pc[p] \in {"run", "dead"}

\* Every file is a lock in the sense of Serialization.
HolderOf(f) == IF \E p \in Proc : held[p][f] THEN CHOOSE p \in Proc : held[p][f]
                                              ELSE NoProc
Abstract == INSTANCE Serialization
              WITH Locks  <- File,
                   holder <- [f \in File |-> HolderOf(f)],
                   depth  <- [f \in File |-> IF HolderOf(f) = NoProc THEN 0
                                             ELSE count[HolderOf(f)][f]]

\* lock.py implements what its first line promises, file by file: nested
\* sections, leaks, dropped instances, clean ups and deaths included.
Serializes == Abstract!Spec
=============================================================================
