----------------------------- MODULE Activation -----------------------------
(***************************************************************************)
(* The activation of one logical volume on one host: LVMCache.activate and *)
(* deactivate and RefCounter of sm/lock.py, over the commands of           *)
(* sm/lvutil.py.  A call counts a reference in a file and activates the    *)
(* volume with the first or deactivates it with the last one, under the    *)
(* lock of the reference, for which Serialization stands here.             *)
(*                                                                         *)
(* A process is one of the short lived ones of the storage manager: it     *)
(* ends between two calls or is killed in one, and the references it took  *)
(* outlive it.  Whoever releases a reference does so with one call.        *)
(***************************************************************************)
EXTENDS Integers, FiniteSets

CONSTANTS
  Proc, NoProc,
  FailRetries,   \* LVM_FAIL_RETRIES
  MaxCalls,      \* bound: calls of activate and deactivate
  MaxFaults      \* bound: processes killed in a call, file operations that fail

ASSUME ProcAssumption  == NoProc \notin Proc /\ IsFiniteSet(Proc)
ASSUME BoundAssumption == /\ FailRetries \in Nat \ {0}
                          /\ MaxCalls \in Nat /\ MaxFaults \in Nat

VARIABLES
  holder, depth,           \* the lock of the reference
  normal, binary, torn,    \* the count file; torn: truncated, not written
  lv,                      \* "none", "made", "removed"
  node, link,              \* the device mapper device and its name in /dev
  opened,                  \* somebody has the device open
  cache,                   \* LVMCache of each process
  pc, call,                \* of each process
  target, tries, info,     \* locals of the call that has the lock
  held, flag,              \* references callers hold: normal ones, the binary one
  calls, faults,
  taken, stray,            \* history: see GivesBackAnothers; a count is nobody's
  troubled                 \* history: a call raised or warned

lock  == <<holder, depth>>
file  == <<normal, binary, torn>>
world == <<lv, node, link, opened>>
local == <<target, tries, info>>
owed  == <<held, flag>>
losses == <<taken, stray>>
notes == <<calls, faults, losses, troubled>>
vars  == <<lock, file, world, cache, pc, call, local, owed, notes>>

Ref  == "ref"
Lock == INSTANCE Serialization WITH Locks <- {Ref}
Free == holder[Ref] = NoProc

Cached == [init : BOOLEAN, has : BOOLEAN, active : BOOLEAN, open : BOOLEAN]
Empty  == [init |-> FALSE, has |-> FALSE, active |-> FALSE, open |-> FALSE]
\* What lvs says of the volume.
Lvs    == [init |-> TRUE, has |-> lv = "made", active |-> node, open |-> opened]

Goto(p, l) == pc' = [pc EXCEPT ![p] = l]
\* The finally clause, on the way out with an exception.
Raise(p) == Goto(p, "raise") /\ troubled' = TRUE

Init ==
  /\ Lock!Init
  /\ normal = 0 /\ binary = 0 /\ torn = FALSE
  /\ lv = "none" /\ node = FALSE /\ link = FALSE /\ opened = FALSE
  /\ cache = [p \in Proc |-> Empty]
  /\ pc = [p \in Proc |-> "idle"]
  /\ call = [p \in Proc |-> [up |-> TRUE, bin |-> FALSE, undo |-> FALSE]]
  /\ target = [normal |-> 0, binary |-> 0] /\ tries = 0 /\ info = Empty
  /\ held = 0 /\ flag = FALSE
  /\ calls = 0 /\ faults = 0
  /\ taken = FALSE /\ stray = FALSE /\ troubled = FALSE

----------------------------------------------------------------------------
\* The binary reference is one, whoever took it.
ReleasesBinary(p) == pc[p] # "idle" /\ ~call[p].up /\ call[p].bin

\* lazyInit, before the lock: a call whose lvs fails there has not begun.  A
\* reference is given up with the call that releases it.
Begin(p) ==
  /\ pc[p] = "idle" /\ calls < MaxCalls
  /\ calls' = calls + 1
  /\ cache' = [cache EXCEPT ![p] = IF @.init THEN @ ELSE Lvs]
  /\ \E up \in BOOLEAN, bin \in BOOLEAN :
       /\ call' = [call EXCEPT ![p] = [up |-> up, bin |-> bin, undo |-> FALSE]]
       /\ ~up => IF bin THEN flag /\ \A q \in Proc : ~ReleasesBinary(q) ELSE held > 0
       /\ held' = IF ~up /\ ~bin THEN held - 1 ELSE held
  /\ Goto(p, "acquire")
  /\ UNCHANGED <<lock, file, world, local, flag, faults, losses, troubled>>

AcquireLock(p) ==
  /\ pc[p] = "acquire"
  /\ Lock!Acquire(p, Ref)
  /\ Goto(p, "count")
  /\ UNCHANGED <<file, world, cache, call, local, owed, notes>>

\* The counter goes up in get, and in the put of activate's except clause
\* and its mirror image in deactivate the other way.
Up(p) == call[p].up # call[p].undo

\* Mutant: nothing caps the binary count.
AdjustedUncapped(p) ==
  LET d    == IF Up(p) THEN 1 ELSE -1
      at(k) == IF k < 0 THEN 0 ELSE k
  IN IF call[p].bin THEN [normal |-> normal, binary |-> at(binary + d)]
                    ELSE [normal |-> at(normal + d), binary |-> binary]

\* RefCounter._adjust: a count of zero is not decremented, the binary count
\* is not above one.
Adjusted(p) ==
  LET d == IF Up(p) THEN 1 ELSE -1
  IN IF call[p].bin
       THEN [normal |-> normal, binary |-> IF d = 1 THEN 1 ELSE 0]
       ELSE [normal |-> IF normal + d < 0 THEN 0 ELSE normal + d, binary |-> binary]

\* Mutant: the volume is released with the last reference of its kind.
AfterCountByKind(p, t) ==
  IF call[p].undo THEN Goto(p, "raise")
  ELSE Goto(p, IF call[p].up THEN IF t.normal + t.binary = 1 THEN "activate" ELSE "leave"
               ELSE IF (IF call[p].bin THEN t.binary ELSE t.normal) > 0 THEN "leave" ELSE "info")

\* What the new count means for the call.
AfterCount(p, t) ==
  IF call[p].undo THEN Goto(p, "raise")
  ELSE Goto(p, IF call[p].up THEN IF t.normal + t.binary = 1 THEN "activate" ELSE "leave"
               ELSE IF t.normal + t.binary > 0 THEN "leave" ELSE "info")

Released(p) == flag' = IF call[p].bin /\ ~Up(p) /\ ~call[p].undo THEN FALSE ELSE flag

\* The put in activate's except clause takes back the binary reference,
\* although somebody had it before.
GivesBackAnothers(p) == call[p].undo /\ call[p].up /\ call[p].bin /\ flag

\* RefCounter.get and put up to the truncation of the file: a file that an
\* earlier call left without its numbers is an IndexError, and counts of zero
\* are the absence of the file.
Count(p) ==
  /\ pc[p] = "count"
  /\ tries' = 0 /\ info' = Empty
  /\ IF torn
       THEN /\ Raise(p)
            /\ UNCHANGED <<file, target, flag, taken>>
       ELSE /\ target' = Adjusted(p)
            /\ IF target' = [normal |-> 0, binary |-> 0]
                 THEN /\ normal' = 0 /\ binary' = 0 /\ UNCHANGED torn
                      /\ AfterCount(p, target') /\ Released(p)
                 ELSE /\ torn' = TRUE /\ Goto(p, "write")
                      /\ UNCHANGED <<normal, binary, flag>>
            /\ taken' = (taken \/ GivesBackAnothers(p)) /\ UNCHANGED troubled
  /\ UNCHANGED <<lock, world, cache, call, held, calls, faults, stray>>

\* The rest of _writeCount.
Write(p) ==
  /\ pc[p] = "write"
  /\ normal' = target.normal /\ binary' = target.binary /\ torn' = FALSE
  /\ AfterCount(p, target) /\ Released(p)
  /\ UNCHANGED <<lock, world, cache, call, local, held, notes>>

\* An operation on the file fails: the open or the unlink, which leaves it as
\* it was, or on a full file system the write, which leaves it empty.  A
\* reference that activate's except clause cannot give back is nobody's.
WriteFails(p) ==
  /\ pc[p] \in {"count", "write"} /\ faults < MaxFaults
  /\ faults' = faults + 1
  /\ Raise(p)
  /\ stray' = (stray \/ (pc[p] = "count" /\ call[p].undo /\ call[p].up))
  /\ UNCHANGED <<lock, file, world, cache, call, local, owed, calls, taken>>

\* RefCounter.get or put in an except clause.
Undo(p) ==
  /\ call' = [call EXCEPT ![p].undo = TRUE]
  /\ Goto(p, "count")
  /\ troubled' = TRUE

----------------------------------------------------------------------------
\* Mutant: the count stays when lvchange fails.
ActivateKeepsCount(p) ==
  /\ pc[p] = "activate"
  /\ \/ /\ lv = "made" /\ node' = TRUE /\ link' = TRUE
        /\ IF cache[p].has THEN Goto(p, "leave") /\ UNCHANGED troubled ELSE Raise(p)
        /\ UNCHANGED <<cache, call>>
     \/ Raise(p) /\ UNCHANGED <<node, link, cache, call>>
  /\ UNCHANGED <<lock, file, lv, opened, local, owed, calls, faults, losses>>

\* lvchange succeeds, but neither name of the device appears; or an OSError,
\* of the symlink or of a command that cannot be started, which is no
\* CommandException: the count stays, and is nobody's.
CheckActiveFails(p) ==
  \/ /\ lv = "made" /\ ~node /\ node' = TRUE
     /\ Undo(p) /\ UNCHANGED <<link, cache, stray>>
  \/ /\ node' \in {node, node \/ lv = "made"} /\ stray' = TRUE
     /\ Raise(p) /\ UNCHANGED <<link, cache, call>>

\* activateNoRefcount: lvchange -ay, and _checkActive, which makes the name
\* when only that is missing.  The cache is written last; a volume younger
\* than the cache is a KeyError, which no clause takes for a failure.
Activate(p) ==
  /\ pc[p] = "activate"
  /\ \/ /\ lv = "made" /\ node' = TRUE /\ link' = TRUE
        /\ IF cache[p].has
             THEN /\ cache' = [cache EXCEPT ![p].active = TRUE]
                  /\ Goto(p, "leave") /\ UNCHANGED troubled
             ELSE Raise(p) /\ UNCHANGED cache
        /\ UNCHANGED <<call, stray>>
     \/ Undo(p) /\ UNCHANGED <<node, link, cache, stray>>
     \/ CheckActiveFails(p)
  /\ UNCHANGED <<lock, file, lv, opened, local, owed, calls, faults, taken>>

----------------------------------------------------------------------------
\* The loop of deactivate around getLVInfo; info keeps what it saw.  A
\* refresh that fails ends the call.
Info(p) ==
  /\ pc[p] = "info"
  /\ IF ~cache[p].has
       THEN Raise(p) /\ UNCHANGED <<cache, info>>
       ELSE /\ IF ~cache[p].open
                 THEN Goto(p, "deactivate") /\ UNCHANGED <<cache, troubled>>
                 ELSE IF info.open
                   THEN \* refreshed before: warn and return
                        Goto(p, "leave") /\ troubled' = TRUE /\ UNCHANGED cache
                   ELSE \/ cache' = [cache EXCEPT ![p] = Lvs] /\ UNCHANGED <<pc, troubled>>
                        \/ Raise(p) /\ UNCHANGED cache
            /\ info' = cache[p]
  /\ UNCHANGED <<lock, file, world, call, target, tries, owed, calls, faults, losses>>

\* The way out with an exception that is not of a failed command.
Escape(p) == Raise(p) /\ UNCHANGED <<cache, call>>

\* The except clause of deactivate: whether the count is reverted depends on
\* what was cached before the refresh, which may fail as well.
NotDeactivated(p) ==
  \/ /\ cache' = [cache EXCEPT ![p] = Lvs]
     /\ IF lv # "made"
          THEN Goto(p, "leave") /\ UNCHANGED <<call, troubled>>
          ELSE IF info.active THEN Undo(p) ELSE Raise(p) /\ UNCHANGED call
  \/ Escape(p)

\* Mutant: the success of lvchange is believed.
DeactivateTrusting(p) ==
  /\ pc[p] = "deactivate"
  /\ \/ /\ lv = "made" /\ ~opened /\ node' \in {FALSE, node} /\ link' = FALSE
        /\ Goto(p, "leave") /\ UNCHANGED <<cache, call, tries, troubled>>
     \/ /\ tries < FailRetries - 1 /\ tries' = tries + 1
        /\ UNCHANGED <<pc, cache, call, node, link, troubled>>
     \/ /\ tries = FailRetries - 1 /\ NotDeactivated(p)
        /\ UNCHANGED <<node, link, tries>>
  /\ UNCHANGED <<lock, file, lv, opened, target, info, owed, calls, faults, losses>>

\* An attempt of deactivateNoRefcount: lvchange -an does its work, or takes
\* away the name only and succeeds, or fails, as it does on an open device,
\* or cannot be started.
Deactivate(p) ==
  /\ pc[p] = "deactivate"
  /\ \/ /\ lv = "made" /\ ~opened /\ node' \in {FALSE, node} /\ link' = FALSE
        /\ tries' = 0 /\ Goto(p, "cleanup")
        /\ UNCHANGED <<cache, call, troubled>>
     \/ /\ tries < FailRetries - 1 /\ tries' = tries + 1
        /\ UNCHANGED <<pc, cache, call, node, link, troubled>>
     \/ /\ tries = FailRetries - 1 /\ NotDeactivated(p)
        /\ UNCHANGED <<node, link, tries>>
     \/ Escape(p) /\ UNCHANGED <<node, link, tries>>
  /\ UNCHANGED <<lock, file, lv, opened, target, info, owed, calls, faults, losses>>

\* An attempt of _lvmBugCleanup: dmsetup remove works, or fails and is
\* repeated by force, or fails for the last time, and the name is restored.
\* An OSError, of the symlink or of an unlink, ends the call where it is.
LvmBugCleanup(p) ==
  /\ pc[p] = "cleanup"
  /\ \/ /\ node' = FALSE /\ link' = FALSE
        /\ cache' = [cache EXCEPT ![p].active = FALSE]
        /\ Goto(p, "leave") /\ UNCHANGED <<call, tries, troubled>>
     \/ /\ node /\ tries < FailRetries - 1 /\ tries' = tries + 1
        /\ UNCHANGED <<pc, cache, call, node, link, troubled>>
     \/ /\ node /\ tries = FailRetries - 1
        /\ link' = TRUE /\ NotDeactivated(p)
        /\ UNCHANGED <<node, tries>>
     \/ node' \in {FALSE, node} /\ Escape(p) /\ UNCHANGED <<link, tries>>
  /\ UNCHANGED <<lock, file, lv, opened, target, info, owed, calls, faults, losses>>

----------------------------------------------------------------------------
\* Mutant: the lock is not released when the call raises.
LeaveWithoutFinally(p) ==
  /\ pc[p] \in {"leave", "raise"}
  /\ IF pc[p] = "leave" THEN Lock!Release(p, Ref) ELSE UNCHANGED lock
  /\ IF pc[p] = "leave" /\ call[p].up
       THEN IF call[p].bin THEN flag' = TRUE /\ UNCHANGED held
                           ELSE held' = held + 1 /\ UNCHANGED flag
       ELSE UNCHANGED owed
  /\ Goto(p, "idle")
  /\ UNCHANGED <<file, world, cache, call, local, notes>>

\* The call releases the lock and returns, or raises.
Leave(p) ==
  /\ pc[p] \in {"leave", "raise"}
  /\ Lock!Release(p, Ref)
  /\ IF pc[p] = "leave" /\ call[p].up
       THEN IF call[p].bin THEN flag' = TRUE /\ UNCHANGED held
                           ELSE held' = held + 1 /\ UNCHANGED flag
       ELSE UNCHANGED owed
  /\ Goto(p, "idle")
  /\ UNCHANGED <<file, world, cache, call, local, notes>>

\* The process ends between two calls, and its cache with it ...
EndProcess(p) ==
  /\ pc[p] = "idle" /\ cache[p].init
  /\ cache' = [cache EXCEPT ![p] = Empty]
  /\ UNCHANGED <<lock, file, world, pc, call, local, owed, notes>>

\* ... or is killed in one; the kernel drops the lock.
Kill(p) ==
  /\ pc[p] # "idle" /\ faults < MaxFaults
  /\ faults' = faults + 1 /\ stray' = TRUE /\ troubled' = TRUE
  /\ Lock!Abandon(p, {l \in {Ref} : holder[l] = p})
  /\ cache' = [cache EXCEPT ![p] = Empty]
  /\ Goto(p, "idle")
  /\ UNCHANGED <<file, world, call, local, owed, calls, taken>>

\* Others make the volume, open and close its device, and remove a volume
\* that nobody has a reference to.
Create == /\ lv = "none" /\ lv' = "made" /\ UNCHANGED <<node, link, opened>>
Open   == /\ node /\ link /\ ~opened /\ opened' = TRUE
          /\ UNCHANGED <<lv, node, link>>
Close  == /\ opened /\ opened' = FALSE /\ UNCHANGED <<lv, node, link>>
Remove == /\ lv = "made" /\ ~opened /\ held = 0 /\ ~flag
          /\ lv' = "removed" /\ node' = FALSE /\ link' = FALSE /\ UNCHANGED opened
Others == /\ Create \/ Open \/ Close \/ Remove
          /\ UNCHANGED <<lock, file, cache, pc, call, local, owed, notes>>

Step(p) == \/ AcquireLock(p) \/ Count(p) \/ Write(p) \/ Activate(p) \/ Info(p)
           \/ Deactivate(p) \/ LvmBugCleanup(p) \/ Leave(p)

Next == \/ \E p \in Proc : Begin(p) \/ Step(p) \/ WriteFails(p) \/ EndProcess(p) \/ Kill(p)
        \/ Others

Spec == Init /\ [][Next]_vars /\ \A p \in Proc : WF_vars(Step(p))

----------------------------------------------------------------------------
\* Properties.

Label == {"idle", "acquire", "count", "write", "activate", "info",
          "deactivate", "cleanup", "leave", "raise"}

\* Every variable has its type; the binary count is 0 or 1.
TypeOK ==
  /\ Lock!TypeOK
  /\ normal \in Nat /\ binary \in {0, 1} /\ torn \in BOOLEAN
  /\ lv \in {"none", "made", "removed"}
  /\ node \in BOOLEAN /\ link \in BOOLEAN /\ opened \in BOOLEAN
  /\ cache \in [Proc -> Cached]
  /\ pc \in [Proc -> Label]
  /\ call \in [Proc -> [up : BOOLEAN, bin : BOOLEAN, undo : BOOLEAN]]
  /\ target \in [normal : Nat, binary : {0, 1}]
  /\ tries \in 0 .. FailRetries - 1 /\ info \in Cached
  /\ held \in Nat /\ flag \in BOOLEAN
  /\ calls \in Nat /\ faults \in Nat
  /\ taken \in BOOLEAN /\ stray \in BOOLEAN /\ troubled \in BOOLEAN

\* A device is not taken away under a caller that holds a normal reference,
\* whatever fails and whoever is killed; under the one that holds the binary
\* reference neither, unless a failed second activation has taken that back.
HeldDeviceStays == [][node /\ ~node' => held' = 0 /\ (flag' => taken)]_vars

\* A caller that holds a reference to a volume that is there finds the device
\* and its name: a command that fails on the way leaves the count as it was,
\* or the device.  This is so until a count is nobody's, because a process was
\* killed in a call or an activation ended in an exception other than that of
\* a failed command and kept its count, or until a second activation of the
\* binary reference fails and takes back the first one's.
HeldIsActive == ~stray /\ ~taken /\ lv = "made" /\ (held > 0 \/ flag) => node /\ link

\* Between calls that all returned, the count, the callers' references and the
\* device agree: nothing stays active that nobody counts.
NothingLeaks ==
  ~troubled /\ lv # "removed" /\ (\A p \in Proc : pc[p] = "idle") =>
    /\ normal = held
    /\ binary = 1 <=> flag
    /\ node <=> normal + binary > 0

\* Every call ends, and so lets the others in.
EveryCallEnds == \A p \in Proc : pc[p] # "idle" ~> pc[p] = "idle"
=============================================================================
