-------------------------- MODULE ActivationProofs --------------------------
(***************************************************************************)
(* The reference count of a volume, for any number of processes and calls. *)
(* CountInv, that the count is never less than the references callers hold *)
(* and those that calls in progress have yet to give back, is what keeps   *)
(* the device under them; SoundInv says between which steps the device may *)
(* be missing although the count is positive, and LeakInv that nothing is  *)
(* counted or active beyond that as long as no call raises.                *)
(*                                                                         *)
(* The last part is about the files underneath: Decided ties the count a   *)
(* call is to write to the one it found, DirInv the directory to its       *)
(* files, and each step of RefCounts is one of Counters or none.           *)
(***************************************************************************)
EXTENDS Activation, RefCounts, FiniteSetTheorems, TLAPS

\* TypeOK in parts.
LockType == holder \in [{Ref} -> Proc \cup {NoProc}] /\ depth \in [{Ref} -> Nat]
FileType == normal \in Nat /\ binary \in {0, 1} /\ target \in [normal : Nat, binary : {0, 1}]
CallType ==
  /\ pc \in [Proc -> Label]
  /\ call \in [Proc -> [up : BOOLEAN, bin : BOOLEAN, undo : BOOLEAN]]
  /\ lv \in {"none", "made", "removed"}
CacheType == cache \in [Proc -> Cached] /\ info \in Cached
NumType  == /\ tries \in 0 .. FailRetries - 1
            /\ held \in Nat /\ calls \in Nat /\ faults \in Nat
FlagType == /\ torn \in BOOLEAN /\ node \in BOOLEAN /\ link \in BOOLEAN /\ opened \in BOOLEAN
            /\ flag \in BOOLEAN /\ taken \in BOOLEAN /\ stray \in BOOLEAN /\ troubled \in BOOLEAN

USE ProcAssumption, BoundAssumption DEF Ref

LEMMA TypeParts ==
  TypeOK <=> LockType /\ FileType /\ CallType /\ CacheType /\ NumType /\ FlagType
BY Zenon DEF TypeOK, Lock!TypeOK, LockType, FileType, CallType, CacheType, NumType, FlagType

LEMMA FlagStep ==
  ASSUME FlagType, [Next]_vars PROVE FlagType'
<1> USE DEF FlagType, file, world, owed, losses, notes, Raise, Undo
<1>1. ASSUME NEW p \in Proc, Begin(p) PROVE FlagType'
  BY <1>1, Zenon DEF Begin
<1>2. ASSUME NEW p \in Proc, AcquireLock(p) PROVE FlagType'
  BY <1>2, Zenon DEF AcquireLock
<1>3. ASSUME NEW p \in Proc, Count(p) PROVE FlagType'
  BY <1>3, Zenon DEF Count, Released
<1>4. ASSUME NEW p \in Proc, Write(p) PROVE FlagType'
  BY <1>4, Zenon DEF Write, Released
<1>5. ASSUME NEW p \in Proc, WriteFails(p) PROVE FlagType'
  BY <1>5, Zenon DEF WriteFails
<1>6. ASSUME NEW p \in Proc, Activate(p) PROVE FlagType'
  BY <1>6, Zenon DEF Activate, CheckActiveFails
<1>7. ASSUME NEW p \in Proc, Info(p) PROVE FlagType'
  BY <1>7, Zenon DEF Info
<1>8. ASSUME NEW p \in Proc, Deactivate(p) PROVE FlagType'
  BY <1>8, Zenon DEF Deactivate, NotDeactivated, Escape
<1>9. ASSUME NEW p \in Proc, LvmBugCleanup(p) PROVE FlagType'
  BY <1>9, Zenon DEF LvmBugCleanup, NotDeactivated, Escape
<1>10. ASSUME NEW p \in Proc, Leave(p) PROVE FlagType'
  BY <1>10, Zenon DEF Leave
<1>11. ASSUME NEW p \in Proc, EndProcess(p) \/ Kill(p) PROVE FlagType'
  BY <1>11, Zenon DEF EndProcess, Kill
<1>12. CASE Others
  BY <1>12, Zenon DEF Others, Create, Open, Close, Remove
<1>13. CASE UNCHANGED vars
  BY <1>13, Zenon DEF vars
<1> QED
  BY <1>1, <1>2, <1>3, <1>4, <1>5, <1>6, <1>7, <1>8, <1>9, <1>10, <1>11, <1>12, <1>13, Zenon
  DEF Next, Step

LEMMA FileStep ==
  ASSUME FileType, [Next]_vars PROVE FileType'
<1> USE DEF FileType
<1>1. ASSUME NEW p \in Proc, Count(p) PROVE FileType'
  <2>1. Adjusted(p) \in [normal : Nat, binary : {0, 1}]
    <3>1. CASE Up(p)
      BY <3>1, SMT DEF Adjusted
    <3>2. CASE ~Up(p)
      BY <3>2, SMT DEF Adjusted
    <3> QED BY <3>1, <3>2
  <2>2. target' \in {target, Adjusted(p)} /\ normal' \in {normal, 0} /\ binary' \in {binary, 0}
    BY <1>1, Zenon DEF Count, file
  <2> QED BY <2>1, <2>2
<1>2. ASSUME NEW p \in Proc, Write(p) PROVE FileType'
  BY <1>2 DEF Write, local
<1>3. CASE \E p \in Proc : \/ Begin(p) \/ AcquireLock(p) \/ WriteFails(p) \/ Activate(p) \/ Info(p)
                           \/ Deactivate(p) \/ LvmBugCleanup(p) \/ Leave(p) \/ EndProcess(p) \/ Kill(p)
  BY <1>3, Zenon DEF Begin, AcquireLock, WriteFails, Activate, CheckActiveFails, Info, Deactivate, LvmBugCleanup, Leave,
     EndProcess, Kill, file, local
<1>4. CASE Others \/ UNCHANGED vars
  BY <1>4, Zenon DEF Others, vars, file, local
<1> QED BY <1>1, <1>2, <1>3, <1>4, Zenon DEF Next, Step

LEMMA GotoType ==
  ASSUME CallType, NEW p \in Proc, NEW l \in Label, Goto(p, l)
  PROVE  pc' \in [Proc -> Label]
BY DEF CallType, Goto

LEMMA UndoType ==
  ASSUME CallType, NEW p \in Proc, Undo(p)
  PROVE  /\ pc' \in [Proc -> Label]
         /\ call' \in [Proc -> [up : BOOLEAN, bin : BOOLEAN, undo : BOOLEAN]]
<1>1. pc' \in [Proc -> Label]
  BY GotoType, Zenon DEF Undo, Label
<1> QED BY <1>1 DEF Undo, CallType

LEMMA NotDeactivatedType ==
  ASSUME CallType, NEW p \in Proc, NotDeactivated(p)
  PROVE  /\ pc' \in [Proc -> Label]
         /\ call' \in [Proc -> [up : BOOLEAN, bin : BOOLEAN, undo : BOOLEAN]]
<1>1. CASE Escape(p)
  BY <1>1, GotoType, Zenon DEF Escape, Raise, Label, CallType
<1>2. CASE ~Escape(p) /\ lv # "made"
  BY <1>2, GotoType, Zenon DEF NotDeactivated, Label, CallType
<1>3. CASE ~Escape(p) /\ lv = "made" /\ info.active
  BY <1>3, UndoType, Zenon DEF NotDeactivated
<1>4. CASE ~Escape(p) /\ lv = "made" /\ ~info.active
  BY <1>4, GotoType, Zenon DEF NotDeactivated, Raise, Label, CallType
<1> QED BY <1>1, <1>2, <1>3, <1>4

LEMMA CallStep ==
  ASSUME CallType, [Next]_vars PROVE CallType'
<1> USE DEF CallType, world
<1>1. ASSUME NEW p \in Proc, Begin(p) PROVE CallType'
  <2>1. pc' \in [Proc -> Label]
    BY <1>1, GotoType, Zenon DEF Begin, Label
  <2>2. PICK up \in BOOLEAN, bin \in BOOLEAN :
          call' = [call EXCEPT ![p] = [up |-> up, bin |-> bin, undo |-> FALSE]]
    BY <1>1, Zenon DEF Begin
  <2>3. call' \in [Proc -> [up : BOOLEAN, bin : BOOLEAN, undo : BOOLEAN]]
    BY <2>2
  <2>4. lv' = lv
    BY <1>1, Zenon DEF Begin
  <2> QED BY <2>1, <2>3, <2>4
<1>2. ASSUME NEW p \in Proc, AcquireLock(p) PROVE CallType'
  BY <1>2, GotoType, Zenon DEF AcquireLock, Label
<1>3. ASSUME NEW p \in Proc, Count(p) PROVE CallType'
  BY <1>3, GotoType, Zenon DEF Count, Raise, AfterCount, Label
<1>4. ASSUME NEW p \in Proc, Write(p) PROVE CallType'
  BY <1>4, GotoType, Zenon DEF Write, AfterCount, Label
<1>5. ASSUME NEW p \in Proc, WriteFails(p) PROVE CallType'
  BY <1>5, GotoType, Zenon DEF WriteFails, Raise, Label
<1>6. ASSUME NEW p \in Proc, Activate(p) PROVE CallType'
  BY <1>6, GotoType, UndoType, Zenon DEF Activate, CheckActiveFails, Raise, Label
<1>7. ASSUME NEW p \in Proc, Info(p) PROVE CallType'
  BY <1>7, GotoType, Zenon DEF Info, Raise, Label
<1>8. ASSUME NEW p \in Proc, Deactivate(p) PROVE CallType'
  BY <1>8, GotoType, NotDeactivatedType, Zenon DEF Deactivate, Escape, Raise, Label
<1>9. ASSUME NEW p \in Proc, LvmBugCleanup(p) PROVE CallType'
  BY <1>9, GotoType, NotDeactivatedType, Zenon DEF LvmBugCleanup, Escape, Raise, Label
<1>10. ASSUME NEW p \in Proc, Leave(p) PROVE CallType'
  BY <1>10, GotoType, Zenon DEF Leave, Label
<1>11. ASSUME NEW p \in Proc, EndProcess(p) \/ Kill(p) PROVE CallType'
  BY <1>11, GotoType, Zenon DEF EndProcess, Kill, Label
<1>12. CASE Others
  BY <1>12, Zenon DEF Others, Create, Open, Close, Remove
<1>13. CASE UNCHANGED vars
  BY <1>13, Zenon DEF vars
<1> QED
  BY <1>1, <1>2, <1>3, <1>4, <1>5, <1>6, <1>7, <1>8, <1>9, <1>10, <1>11, <1>12, <1>13, Zenon
  DEF Next, Step

LEMMA CacheStep ==
  ASSUME CacheType, FlagType, [Next]_vars PROVE CacheType'
<1>1. Lvs \in Cached /\ Empty \in Cached
  <2>1. (lv = "made") \in BOOLEAN /\ node \in BOOLEAN /\ opened \in BOOLEAN
    BY Zenon DEF FlagType
  <2> QED BY <2>1 DEF Lvs, Empty, Cached
<1>2. ASSUME NEW p \in Proc, NEW c \in Cached PROVE [cache EXCEPT ![p] = c] \in [Proc -> Cached]
  BY DEF CacheType
<1>3. ASSUME NEW p \in Proc, NEW b \in BOOLEAN
      PROVE [cache EXCEPT ![p].active = b] \in [Proc -> Cached]
  BY DEF CacheType, Cached
<1>4. ASSUME NEW p \in Proc PROVE cache[p] \in Cached
  BY DEF CacheType
<1>5. ASSUME NEW p \in Proc, Begin(p) PROVE CacheType'
  <2>1. cache' = [cache EXCEPT ![p] = IF cache[p].init THEN cache[p] ELSE Lvs]
    BY <1>5, Zenon DEF Begin
  <2>2. info' = info
    BY <1>5, Zenon DEF Begin, local
  <2> QED BY <1>1, <1>2, <1>4, <2>1, <2>2, Zenon DEF CacheType
<1>6. ASSUME NEW p \in Proc, Count(p) PROVE CacheType'
  BY <1>1, <1>6, Zenon DEF Count, CacheType
<1>7. ASSUME NEW p \in Proc, Activate(p) PROVE CacheType'
  BY <1>3, <1>7, Zenon DEF Activate, CheckActiveFails, CacheType, local
<1>8. ASSUME NEW p \in Proc, Info(p) PROVE CacheType'
  BY <1>1, <1>2, <1>4, <1>8, Zenon DEF Info, CacheType
<1>9. ASSUME NEW p \in Proc, Deactivate(p) \/ LvmBugCleanup(p) PROVE CacheType'
  <2>1. CASE Deactivate(p)
    BY <1>1, <1>2, <1>3, <2>1, ZenonT(60) DEF Deactivate, NotDeactivated, Escape, CacheType
  <2>2. CASE LvmBugCleanup(p)
    BY <1>1, <1>2, <1>3, <2>2, ZenonT(60) DEF LvmBugCleanup, NotDeactivated, Escape, CacheType
  <2> QED BY <1>9, <2>1, <2>2, Zenon
<1>10. ASSUME NEW p \in Proc, EndProcess(p) \/ Kill(p) PROVE CacheType'
  BY <1>1, <1>2, <1>10, Zenon DEF EndProcess, Kill, CacheType, local
<1>11. CASE \E p \in Proc : AcquireLock(p) \/ Write(p) \/ WriteFails(p) \/ Leave(p)
  BY <1>11, Zenon DEF AcquireLock, Write, WriteFails, Leave, CacheType, local
<1>12. CASE Others \/ UNCHANGED vars
  BY <1>12, Zenon DEF Others, vars, CacheType, local
<1> QED
  BY <1>5, <1>6, <1>7, <1>8, <1>9, <1>10, <1>11, <1>12, Zenon DEF Next, Step

LEMMA NumStep ==
  ASSUME NumType, [Next]_vars PROVE NumType'
<1> USE DEF NumType
<1>1. ASSUME NEW p \in Proc, Begin(p) PROVE NumType'
  <2>1. PICK up \in BOOLEAN, bin \in BOOLEAN :
          /\ ~up => IF bin THEN TRUE ELSE held > 0
          /\ held' = IF ~up /\ ~bin THEN held - 1 ELSE held
    BY <1>1, Zenon DEF Begin
  <2>2. held' \in Nat
    BY <2>1, SMT
  <2>3. calls' = calls + 1 /\ tries' = tries /\ faults' = faults
    BY <1>1, Zenon DEF Begin, local
  <2> QED BY <2>2, <2>3, SMT
<1>2. ASSUME NEW p \in Proc, Count(p) PROVE NumType'
  <2>1. tries' = 0 /\ held' = held /\ calls' = calls /\ faults' = faults
    BY <1>2, Zenon DEF Count
  <2> QED BY <2>1, SMT
<1>3. ASSUME NEW p \in Proc, WriteFails(p) \/ Kill(p) PROVE NumType'
  <2>1. tries' = tries /\ held' = held /\ calls' = calls /\ faults' = faults + 1
    BY <1>3, Zenon DEF WriteFails, Kill, local, owed
  <2> QED BY <2>1, SMT
<1>4. ASSUME NEW p \in Proc, Deactivate(p) \/ LvmBugCleanup(p) PROVE NumType'
  <2>1. held' = held /\ calls' = calls /\ faults' = faults
    BY <1>4, Zenon DEF Deactivate, LvmBugCleanup, owed
  <2>2. tries' \in {0, tries} \/ (tries < FailRetries - 1 /\ tries' = tries + 1)
    BY <1>4, Zenon DEF Deactivate, LvmBugCleanup
  <2> QED BY <2>1, <2>2, SMT
<1>5. ASSUME NEW p \in Proc, Leave(p) PROVE NumType'
  <2>1. tries' = tries /\ held' \in {held, held + 1} /\ calls' = calls /\ faults' = faults
    BY <1>5, Zenon DEF Leave, local, owed, notes
  <2> QED BY <2>1, SMT
<1>6. CASE \E p \in Proc : \/ AcquireLock(p) \/ Write(p) \/ Activate(p) \/ Info(p) \/ EndProcess(p)
  BY <1>6, Zenon DEF AcquireLock, Write, Activate, CheckActiveFails, Info, EndProcess, local, owed, notes
<1>7. CASE Others \/ UNCHANGED vars
  BY <1>7, Zenon DEF Others, vars, local, owed, notes
<1> QED BY <1>1, <1>2, <1>3, <1>4, <1>5, <1>6, <1>7, Zenon DEF Next, Step

\* The lock is held exactly while a call is between its acquisition and its
\* release, and once.
Serving(p) == pc[p] \notin {"idle", "acquire"}
LockInv ==
  /\ LockType
  /\ depth[Ref] = IF holder[Ref] = NoProc THEN 0 ELSE 1
  /\ \A p \in Proc : Serving(p) <=> holder[Ref] = p

LEMMA LockStep ==
  ASSUME LockInv, CallType, [Next]_vars PROVE LockInv'
<1> USE DEF LockInv, LockType
<1>1. ASSUME NEW p \in Proc, NEW l \in Label, Goto(p, l), UNCHANGED lock,
             Serving(p) <=> l \notin {"idle", "acquire"}
      PROVE LockInv'
  BY <1>1 DEF Goto, lock, Serving, CallType
<1>2. ASSUME NEW p \in Proc, Begin(p) PROVE LockInv'
  BY <1>1, <1>2, Zenon DEF Begin, Serving, Label
<1>3. ASSUME NEW p \in Proc, AcquireLock(p) PROVE LockInv'
  BY <1>3 DEF AcquireLock, Lock!Acquire, Serving, Goto, CallType
<1>4. ASSUME NEW p \in Proc, Leave(p) PROVE LockInv'
  <2>1. Lock!Release(p, Ref) /\ Goto(p, "idle") /\ pc[p] \in {"leave", "raise"}
    BY <1>4, Zenon DEF Leave
  <2> QED BY <2>1 DEF Lock!Release, Serving, Goto, CallType
<1>5. ASSUME NEW p \in Proc, Kill(p) PROVE LockInv'
  <2>1. Lock!Abandon(p, {l \in {Ref} : holder[l] = p}) /\ Goto(p, "idle")
    BY <1>5, Zenon DEF Kill
  <2> QED BY <2>1 DEF Lock!Abandon, Serving, Goto, CallType
<1>6. ASSUME NEW p \in Proc, Count(p) PROVE LockInv'
  <2>1. UNCHANGED lock /\ Serving(p)
    BY <1>6, Zenon DEF Count, Serving
  <2>2. \E l \in Label : Goto(p, l) /\ l \notin {"idle", "acquire"}
    BY <1>6, Zenon DEF Count, Raise, AfterCount, Label
  <2> QED BY <1>1, <2>1, <2>2, Zenon
<1>7. ASSUME NEW p \in Proc, Write(p) \/ WriteFails(p) PROVE LockInv'
  <2>1. UNCHANGED lock /\ Serving(p)
    BY <1>7, Zenon DEF Write, WriteFails, Serving
  <2>2. \E l \in Label : Goto(p, l) /\ l \notin {"idle", "acquire"}
    BY <1>7, Zenon DEF Write, WriteFails, Raise, AfterCount, Label
  <2> QED BY <1>1, <2>1, <2>2, Zenon
<1>8. ASSUME NEW p \in Proc, Activate(p) PROVE LockInv'
  <2>1. UNCHANGED lock /\ Serving(p)
    BY <1>8, Zenon DEF Activate, CheckActiveFails, Serving
  <2>2. \E l \in Label : Goto(p, l) /\ l \notin {"idle", "acquire"}
    BY <1>8, Zenon DEF Activate, CheckActiveFails, Undo, Raise, Label
  <2> QED BY <1>1, <2>1, <2>2, Zenon
<1>9. ASSUME NEW p \in Proc, Info(p) \/ Deactivate(p) \/ LvmBugCleanup(p) PROVE LockInv'
  <2>1. UNCHANGED lock /\ Serving(p)
    BY <1>9, Zenon DEF Info, Deactivate, LvmBugCleanup, Serving
  <2>2. pc' = pc \/ \E l \in Label : Goto(p, l) /\ l \notin {"idle", "acquire"}
    BY <1>9, Zenon DEF Info, Deactivate, LvmBugCleanup, NotDeactivated, Escape, Undo, Raise, Label
  <2>3. CASE pc' = pc
    BY <2>1, <2>3, Zenon DEF lock, Serving
  <2> QED BY <1>1, <2>1, <2>2, <2>3, Zenon
<1>10. CASE (\E p \in Proc : EndProcess(p)) \/ Others \/ UNCHANGED vars
  BY <1>10, Zenon DEF EndProcess, Others, vars, lock, Serving
<1> QED
  BY <1>2, <1>3, <1>4, <1>5, <1>6, <1>7, <1>8, <1>9, <1>10, Zenon DEF Next, Step

----------------------------------------------------------------------------
\* What the steps of a call mean for the counts and for itself.
Counts(p) ==
  /\ normal' = Adjusted(p).normal /\ binary' = Adjusted(p).binary /\ ~torn'
  /\ AfterCount(p, Adjusted(p)) /\ Released(p)
  /\ UNCHANGED <<lock, world, cache, call, held>>

\* The last release of all, which has emptied the file.
Emptied(p) == \/ pc[p] \in {"info", "deactivate", "cleanup"}
              \/ pc[p] \in {"count", "write"} /\ call[p].undo /\ ~call[p].up

Phase(p) ==
  /\ pc[p] \in {"acquire", "activate", "info", "deactivate", "cleanup", "leave"} => ~call[p].undo
  /\ pc[p] = "activate" => call[p].up
  /\ pc[p] \in {"info", "deactivate", "cleanup"} => ~call[p].up
  /\ pc[p] = "write" => torn /\ target = Adjusted(p) /\ target # Zero
  /\ pc[p] \in {"activate", "info", "deactivate", "cleanup", "leave"} => ~torn
  /\ pc[p] = "count" /\ call[p].undo => ~torn
  /\ Emptied(p) => normal = 0 /\ binary = 0
PhaseInv == \A p \in Proc : Phase(p)

LEMMA AdjustedType ==
  ASSUME FileType, NEW p \in Proc
  PROVE  /\ Adjusted(p) \in [normal : Nat, binary : {0, 1}]
         /\ Adjusted(p) = [normal |-> Adjusted(p).normal, binary |-> Adjusted(p).binary]
<1>1. CASE Up(p)
  BY <1>1, SMT DEF Adjusted, FileType
<1>2. CASE ~Up(p)
  BY <1>2, SMT DEF Adjusted, FileType
<1> QED BY <1>1, <1>2

\* Count and Write in terms of Counts.
LEMMA CountCases ==
  ASSUME FileType, NEW p \in Proc, Count(p)
  PROVE  \/ torn /\ Goto(p, "raise") /\ UNCHANGED <<file, flag, call, held>>
         \/ ~torn /\ torn' /\ Goto(p, "write") /\ target' = Adjusted(p) /\ Adjusted(p) # Zero
            /\ UNCHANGED <<normal, binary, flag, call, held>>
         \/ ~torn /\ Counts(p)
<1>1. CASE torn
  BY <1>1, Zenon DEF Count, Raise
<1>2. CASE ~torn /\ Adjusted(p) # Zero
  BY <1>2, Zenon DEF Count, Zero
<1>3. CASE ~torn /\ Adjusted(p) = Zero
  <2>1. Adjusted(p).normal = 0 /\ Adjusted(p).binary = 0
    BY <1>3 DEF Zero
  <2>2. /\ normal' = 0 /\ binary' = 0 /\ torn' = torn /\ target' = Adjusted(p)
        /\ AfterCount(p, target') /\ Released(p)
        /\ UNCHANGED <<lock, world, cache, call, held>>
    BY <1>3, Zenon DEF Count, Zero
  <2> QED BY <1>3, <2>1, <2>2, Zenon DEF Counts
<1> QED BY <1>1, <1>2, <1>3

LEMMA WriteCounts ==
  ASSUME NEW p \in Proc, Phase(p), Write(p) PROVE Counts(p)
BY Zenon DEF Phase, Write, Counts

LEMMA AfterCountCases ==
  ASSUME FileType, NEW p \in Proc, NEW t \in [normal : Nat, binary : {0, 1}], AfterCount(p, t)
  PROVE  \/ call[p].undo /\ Goto(p, "raise")
         \/ ~call[p].undo /\ call[p].up /\ Goto(p, "activate") /\ t.normal + t.binary = 1
         \/ ~call[p].undo /\ call[p].up /\ Goto(p, "leave") /\ t.normal + t.binary # 1
         \/ ~call[p].undo /\ ~call[p].up /\ Goto(p, "leave") /\ t.normal + t.binary > 0
         \/ ~call[p].undo /\ ~call[p].up /\ Goto(p, "info") /\ t.normal = 0 /\ t.binary = 0
<1>1. ~(t.normal + t.binary > 0) => t.normal = 0 /\ t.binary = 0
  BY SMT
<1> QED BY <1>1, Zenon DEF AfterCount

\* A step of p says nothing of the others.
Acts(p) == Begin(p) \/ Step(p) \/ WriteFails(p) \/ EndProcess(p) \/ Kill(p)

LEMMA OthersKept ==
  ASSUME CallType, NEW p \in Proc, Acts(p), NEW q \in Proc, q # p
  PROVE  pc'[q] = pc[q] /\ call'[q] = call[q]
<1>1. ASSUME NEW l, Goto(p, l) PROVE pc'[q] = pc[q]
  BY <1>1 DEF Goto, CallType
<1>2. ASSUME Undo(p) PROVE pc'[q] = pc[q] /\ call'[q] = call[q]
  BY <1>2 DEF Goto, Undo, CallType
<1>3. CASE Begin(p)
  <2>1. PICK c : call' = [call EXCEPT ![p] = c]
    BY <1>3, Zenon DEF Begin
  <2>2. call'[q] = call[q]
    BY <2>1 DEF CallType
  <2> QED BY <1>1, <1>3, <2>2, Zenon DEF Begin
<1>4. CASE AcquireLock(p) \/ Leave(p) \/ EndProcess(p) \/ Kill(p)
  BY <1>1, <1>4, Zenon DEF AcquireLock, Leave, EndProcess, Kill
<1>5. CASE Count(p) \/ Write(p) \/ WriteFails(p)
  BY <1>1, <1>5, Zenon DEF Count, Write, WriteFails, AfterCount, Raise
<1>6. CASE Activate(p)
  BY <1>1, <1>2, <1>6, Zenon DEF Activate, CheckActiveFails, Raise
<1>7. CASE Info(p)
  BY <1>1, <1>7, Zenon DEF Info, Raise
<1>8. CASE Deactivate(p) \/ LvmBugCleanup(p)
  BY <1>1, <1>2, <1>8, Zenon DEF Deactivate, LvmBugCleanup, NotDeactivated, Escape, Raise
<1> QED BY <1>3, <1>4, <1>5, <1>6, <1>7, <1>8, Zenon DEF Acts, Step

\* While q has the lock, nobody else changes what it works on.
LEMMA Undisturbed ==
  ASSUME LockInv, NEW p \in Proc, Acts(p), NEW q \in Proc, q # p, Serving(q)
  PROVE  UNCHANGED <<file, world, local>>
<1>1. ~Serving(p) /\ holder[Ref] = q
  BY Zenon DEF LockInv
<1>2. ~AcquireLock(p)
  <2>1. holder[Ref] \notin {NoProc, p}
    BY <1>1
  <2> QED BY <2>1, Zenon DEF AcquireLock, Lock!Acquire
<1>3. CASE Begin(p) \/ EndProcess(p) \/ Kill(p)
  BY <1>3, Zenon DEF Begin, EndProcess, Kill
<1> QED
  BY <1>1, <1>2, <1>3, Zenon
  DEF Acts, Step, Serving, Count, Write, WriteFails, Activate, CheckActiveFails, Info, Deactivate, LvmBugCleanup, Leave

----------------------------------------------------------------------------
\* A call owes a count from when it gives up a reference to when it has
\* counted that, and from when it counts one until it hands it out.
Owes(p) ==
  ~call[p].bin /\ \/ ~call[p].up /\ ~call[p].undo /\ pc[p] \in {"acquire", "count", "write"}
                  \/ call[p].up /\ ~call[p].undo /\ pc[p] \in {"activate", "leave"}
                  \/ call[p].up /\ call[p].undo /\ pc[p] \in {"count", "write"}
Owing    == {p \in Proc : Owes(p)}
Due(p)   == IF Owes(p) THEN 1 ELSE 0
CountInv == held + Cardinality(Owing) =< normal

LEMMA OwingStep ==
  ASSUME NEW p \in Proc, \A q \in Proc \ {p} : Owes(q)' <=> Owes(q)
  PROVE  /\ Cardinality(Owing) \in Nat /\ Cardinality(Owing)' \in Nat
         /\ Cardinality(Owing)' + Due(p) = Cardinality(Owing) + Due(p)'
<1>1. IsFiniteSet(Owing) /\ IsFiniteSet(Owing') /\ IsFiniteSet(Proc)
  <2>1. Owing \subseteq Proc /\ Owing' \subseteq Proc
    BY Zenon DEF Owing
  <2> QED BY <2>1, FS_Subset
<1>2. Cardinality(Owing) \in Nat /\ Cardinality(Owing') \in Nat
  BY <1>1, FS_CardinalityType
<1>3. CASE Owes(p) /\ Owes(p)'
  <2>1. Owing' = Owing
    BY <1>3 DEF Owing
  <2> QED BY <1>2, <1>3, <2>1 DEF Due
<1>4. CASE ~Owes(p) /\ ~Owes(p)'
  <2>1. Owing' = Owing
    BY <1>4 DEF Owing
  <2> QED BY <1>2, <1>4, <2>1 DEF Due
<1>5. CASE Owes(p) /\ ~Owes(p)'
  <2>1. Owing' = Owing \ {p} /\ p \in Owing
    BY <1>5 DEF Owing
  <2>2. Cardinality(Owing') = Cardinality(Owing) - 1
    BY <1>1, <2>1, FS_RemoveElement
  <2> QED BY <1>2, <1>5, <2>2 DEF Due
<1>6. CASE ~Owes(p) /\ Owes(p)'
  <2>1. Owing' = Owing \cup {p} /\ p \notin Owing
    BY <1>6 DEF Owing
  <2>2. Cardinality(Owing') = Cardinality(Owing) + 1
    BY <1>1, <2>1, FS_AddElement
  <2> QED BY <1>2, <1>6, <2>2 DEF Due
<1> QED BY <1>3, <1>4, <1>5, <1>6

LEMMA Balance ==
  ASSUME NEW n \in Nat, NEW m \in Nat, NEW x \in Nat, NEW y \in Nat,
         NEW C \in Nat, NEW D \in Nat, NEW H \in Nat, NEW G \in Nat,
         x + C =< n, D + H = C + G, y + G + n =< x + H + m
  PROVE  y + D =< m
BY SMT

\* It is enough to look at the process that acts.
LEMMA CountOwn ==
  ASSUME CallType, FileType, FileType', NumType, NumType', CountInv, NEW p \in Proc, Acts(p),
         held' + Due(p)' + normal =< held + Due(p) + normal'
  PROVE  CountInv'
<1>1. ASSUME NEW q \in Proc \ {p} PROVE Owes(q)' <=> Owes(q)
  <2>1. pc'[q] = pc[q] /\ call'[q] = call[q]
    BY OthersKept
  <2> QED BY <2>1, Zenon DEF Owes
<1>2. /\ Cardinality(Owing) \in Nat /\ Cardinality(Owing)' \in Nat
      /\ Cardinality(Owing)' + Due(p) = Cardinality(Owing) + Due(p)'
  BY <1>1, OwingStep, Zenon
<1>3. Due(p) \in Nat /\ Due(p)' \in Nat
  BY DEF Due
<1>4. normal \in Nat /\ normal' \in Nat /\ held \in Nat /\ held' \in Nat
  BY Zenon DEF FileType, NumType
<1>5. held + Cardinality(Owing) =< normal
  BY Zenon DEF CountInv
<1>6. SUFFICES held' + Cardinality(Owing)' =< normal'
  BY <1>6, Zenon DEF CountInv
<1>7. \A C, D, H, G \in Nat :
         held + C =< normal /\ D + H = C + G /\ held' + G + normal =< held + H + normal'
           => held' + D =< normal'
  BY <1>4, Balance, Zenon
<1> QED BY <1>2, <1>3, <1>5, <1>7, Zenon

LEMMA MovesKeepCall ==
  ASSUME CallType, NEW p \in Proc, NEW l \in Label, Goto(p, l)
  PROVE  pc'[p] = l
BY DEF Goto, CallType

LEMMA UndoMoves ==
  ASSUME CallType, NEW p \in Proc, Undo(p)
  PROVE  /\ pc'[p] = "count" /\ call'[p].undo /\ call'[p].up = call[p].up
         /\ call'[p].bin = call[p].bin
<1>1. pc'[p] = "count" /\ call'[p] = [call[p] EXCEPT !.undo = TRUE] 
  BY DEF Undo, Goto, CallType
<1>2. call[p] \in [up : BOOLEAN, bin : BOOLEAN, undo : BOOLEAN]
  BY DEF CallType
<1>3. call'[p].undo = TRUE /\ call'[p].up = call[p].up /\ call'[p].bin = call[p].bin
  BY <1>1, <1>2
<1> QED BY <1>1, <1>3, Zenon

LEMMA CountsCount ==
  ASSUME FileType, FileType', NumType, CallType, NEW p \in Proc, Counts(p), pc[p] \in {"count", "write"}
  PROVE  held' + Due(p)' + normal =< held + Due(p) + normal'
<1>1. held' = held /\ call' = call /\ normal' = Adjusted(p).normal
  BY Zenon DEF Counts
<1>2. \/ call[p].undo /\ pc'[p] = "raise"
      \/ ~call[p].undo /\ call[p].up /\ pc'[p] \in {"activate", "leave"}
      \/ ~call[p].undo /\ ~call[p].up /\ pc'[p] \in {"leave", "info"}
  BY AdjustedType, AfterCountCases, MovesKeepCall, Zenon DEF Counts, Label
<1>3. Due(p) \in {0, 1} /\ Due(p)' \in {0, 1}
  BY Zenon DEF Due
<1>4. CASE call[p].bin
  <2>1. normal' = normal
    BY <1>1, <1>4 DEF Adjusted
  <2>2. Due(p) = 0 /\ Due(p)' = 0
    BY <1>1, <1>4, Zenon DEF Due, Owes
  <2> QED BY <1>1, <2>1, <2>2, SMT DEF FileType, NumType
<1>5. CASE ~call[p].bin /\ Up(p)
  <2>1. normal' = normal + 1
    BY <1>1, <1>5, SMT DEF Adjusted, FileType
  <2> QED BY <1>1, <1>3, <2>1, SMT DEF FileType, NumType
<1>6. CASE ~call[p].bin /\ ~Up(p)
  <2>1. normal' + 1 >= normal
    BY <1>1, <1>6, SMT DEF Adjusted, FileType
  <2>2. call[p].up <=> call[p].undo
    <3>1. call[p].up = call[p].undo
      BY <1>6, Zenon DEF Up
    <3> QED BY <3>1, Zenon
  <2>3. Owes(p) /\ ~Owes(p)'
    <3>1. Owes(p)
      BY <1>6, <2>2, Zenon DEF Owes
    <3>2. ~Owes(p)'
      BY <1>1, <1>2, <1>6, <2>2, Zenon DEF Owes
    <3> QED BY <3>1, <3>2
  <2>4. Due(p) = 1 /\ Due(p)' = 0
    BY <2>3, Zenon DEF Due
  <2> QED BY <1>1, <2>1, <2>4, SMT DEF FileType, NumType
<1> QED BY <1>4, <1>5, <1>6

LEMMA CountInvStep ==
  ASSUME CountInv, PhaseInv, LockInv, CallType, FileType, FileType', NumType, NumType', [Next]_vars
  PROVE  CountInv'
<1>1. ASSUME NEW p \in Proc, Acts(p), normal' = normal, held' = held, Owes(p)' => Owes(p)
      PROVE  CountInv'
  <2>1. Due(p)' =< Due(p)
    BY <1>1 DEF Due
  <2>2. held' + Due(p)' + normal =< held + Due(p) + normal'
    BY <1>1, <2>1, SMT DEF Due, FileType, NumType
  <2> QED BY <1>1, <2>2, CountOwn, Zenon
<1>2. ASSUME NEW p \in Proc, Begin(p) PROVE CountInv'
  <2>1. PICK up \in BOOLEAN, bin \in BOOLEAN :
          /\ call' = [call EXCEPT ![p] = [up |-> up, bin |-> bin, undo |-> FALSE]]
          /\ ~up => IF bin THEN TRUE ELSE held > 0
          /\ held' = IF ~up /\ ~bin THEN held - 1 ELSE held
    BY <1>2, Zenon DEF Begin
  <2>2. call'[p] = [up |-> up, bin |-> bin, undo |-> FALSE]
    BY <2>1 DEF CallType
  <2>3. call'[p].up = up /\ call'[p].bin = bin /\ call'[p].undo = FALSE
    BY <2>2
  <2>4. normal' = normal /\ pc'[p] = "acquire" /\ pc[p] = "idle"
    BY <1>2, MovesKeepCall, Zenon DEF Begin, Label, file
  <2>5. ~Owes(p)
    BY <2>4, Zenon DEF Owes
  <2>6. Owes(p)' <=> ~up /\ ~bin
    BY <2>3, <2>4, Zenon DEF Owes
  <2>7. held' + Due(p)' + normal =< held + Due(p) + normal'
    <3>1. CASE ~up /\ ~bin
      <4>1. held' = held - 1 /\ Due(p)' = 1 /\ Due(p) = 0
        BY <2>1, <2>5, <2>6, <3>1, Zenon DEF Due
      <4> QED BY <2>4, <4>1, SMT DEF FileType, NumType
    <3>2. CASE up \/ bin
      <4>1. held' = held /\ Due(p)' = 0 /\ Due(p) = 0
        BY <2>1, <2>5, <2>6, <3>2, Zenon DEF Due
      <4> QED BY <2>4, <4>1, SMT DEF FileType, NumType
    <3> QED BY <3>1, <3>2
  <2> QED BY <1>2, <2>7, CountOwn, Zenon DEF Acts
<1>3. ASSUME NEW p \in Proc, AcquireLock(p) PROVE CountInv'
  <2>1. pc[p] = "acquire" /\ pc'[p] = "count" /\ call' = call /\ normal' = normal /\ held' = held
    BY <1>3, MovesKeepCall, Zenon DEF AcquireLock, Label, file, owed
  <2>2. ~call[p].undo
    BY <2>1, Zenon DEF PhaseInv, Phase
  <2> QED BY <1>1, <1>3, <2>1, <2>2, Zenon DEF Owes, Acts, Step
<1>4. ASSUME NEW p \in Proc, Count(p) PROVE CountInv'
  <2>1. pc[p] = "count"
    BY <1>4, Zenon DEF Count
  <2>2. CASE torn /\ Goto(p, "raise") /\ UNCHANGED <<file, flag, call, held>>
    <3>1. pc'[p] = "raise" /\ call' = call
      BY <2>2, MovesKeepCall, Zenon DEF Label
    <3> QED BY <1>1, <1>4, <2>2, <3>1, Zenon DEF Owes, Acts, Step, file
  <2>3. CASE Goto(p, "write") /\ UNCHANGED <<normal, binary, flag, call, held>>
    <3>1. pc'[p] = "write" /\ call' = call
      BY <2>3, MovesKeepCall, Zenon DEF Label
    <3> QED BY <1>1, <1>4, <2>1, <2>3, <3>1, Zenon DEF Owes, Acts, Step
  <2>4. CASE Counts(p)
    BY <1>4, <2>1, <2>4, CountsCount, CountOwn, Zenon DEF Acts, Step
  <2> QED BY <1>4, <2>2, <2>3, <2>4, CountCases, Zenon
<1>5. ASSUME NEW p \in Proc, Write(p) PROVE CountInv'
  BY <1>5, WriteCounts, CountsCount, CountOwn, Zenon DEF Acts, Step, PhaseInv, Write
<1>6. ASSUME NEW p \in Proc, Acts(p), pc'[p] \in {"raise", "idle"}, UNCHANGED <<file, held>>
      PROVE  CountInv'
  BY <1>1, <1>6, Zenon DEF Owes, file
<1>7. ASSUME NEW p \in Proc, WriteFails(p) \/ Kill(p) PROVE CountInv'
  BY <1>6, <1>7, MovesKeepCall, Zenon DEF WriteFails, Kill, Raise, Acts, Label, owed
<1>8. ASSUME NEW p \in Proc, Activate(p) PROVE CountInv'
  <2>1. pc[p] = "activate" /\ normal' = normal /\ held' = held
    BY <1>8, Zenon DEF Activate, CheckActiveFails, file, owed
  <2>2. call[p].up /\ ~call[p].undo
    BY <2>1, Zenon DEF PhaseInv, Phase
  <2>3. CASE pc'[p] \in {"leave", "raise"} /\ call' = call
    BY <1>1, <1>8, <2>1, <2>2, <2>3, Zenon DEF Owes, Acts, Step
  <2>4. CASE Undo(p)
    BY <1>1, <1>8, <2>1, <2>2, <2>4, UndoMoves, Zenon DEF Owes, Acts, Step
  <2> QED BY <1>8, <2>3, <2>4, MovesKeepCall, Zenon DEF Activate, CheckActiveFails, Raise, Label
<1>9. ASSUME NEW p \in Proc, Info(p) \/ Deactivate(p) \/ LvmBugCleanup(p) PROVE CountInv'
  <2>1. pc[p] \in {"info", "deactivate", "cleanup"} /\ normal' = normal /\ held' = held
    BY <1>9, Zenon DEF Info, Deactivate, LvmBugCleanup, file, owed
  <2>2. ~call[p].up /\ ~call[p].undo
    BY <2>1, Zenon DEF PhaseInv, Phase
  <2>3. CASE pc'[p] \in {"info", "deactivate", "cleanup", "leave", "raise"} /\ call' = call
    BY <1>1, <1>9, <2>1, <2>2, <2>3, Zenon DEF Owes, Acts, Step
  <2>4. CASE Undo(p)
    <3>1. ~call'[p].up /\ call'[p].undo
      <4>1. call'[p].up = call[p].up /\ call'[p].undo
        BY <2>4, UndoMoves, Zenon
      <4> QED BY <2>2, <4>1, Zenon
    <3> QED BY <1>1, <1>9, <2>1, <3>1, Zenon DEF Owes, Acts, Step
  <2>5. ASSUME pc' = pc, call' = call PROVE CountInv'
    BY <2>1, <2>3, <2>5, Zenon
  <2> QED
    BY <1>9, <2>3, <2>4, <2>5, MovesKeepCall, Zenon
    DEF Info, Deactivate, LvmBugCleanup, NotDeactivated, Escape, Raise, Label
<1>10. ASSUME NEW p \in Proc, Leave(p) PROVE CountInv'
  <2>1. pc[p] \in {"leave", "raise"} /\ pc'[p] = "idle" /\ normal' = normal
    BY <1>10, MovesKeepCall, Zenon DEF Leave, Label, file
  <2>2. CASE pc[p] = "leave" /\ call[p].up /\ ~call[p].bin
    <3>1. held' = held + 1
      BY <1>10, <2>2, Zenon DEF Leave
    <3>2. ~call[p].undo
      BY <2>2, Zenon DEF PhaseInv, Phase
    <3>3. Owes(p) /\ ~Owes(p)'
      BY <2>1, <2>2, <3>2, Zenon DEF Owes
    <3>4. Due(p) = 1 /\ Due(p)' = 0
      BY <3>3, Zenon DEF Due
    <3>5. held' + Due(p)' + normal =< held + Due(p) + normal'
      BY <2>1, <3>1, <3>4, SMT DEF FileType, NumType
    <3> QED BY <1>10, <3>5, CountOwn, Zenon DEF Acts, Step
  <2>3. CASE ~(pc[p] = "leave" /\ call[p].up /\ ~call[p].bin)
    <3>1. held' = held
      BY <1>10, <2>3, Zenon DEF Leave, owed
    <3> QED BY <1>6, <1>10, <2>1, <3>1, Zenon DEF Acts, Step, Leave
  <2> QED BY <2>2, <2>3
<1>11. ASSUME NEW p \in Proc, EndProcess(p) PROVE CountInv'
  BY <1>1, <1>11, Zenon DEF EndProcess, Acts, Owes, file, owed
<1>12. CASE Others \/ UNCHANGED vars
  <2>1. normal' = normal /\ held' = held /\ pc' = pc /\ call' = call
    BY <1>12, Zenon DEF Others, vars, file, owed
  <2>2. Owing' = Owing
    BY <2>1, Zenon DEF Owing, Owes
  <2> QED BY <2>1, <2>2, Zenon DEF CountInv
<1> QED
  BY <1>2, <1>3, <1>4, <1>5, <1>7, <1>8, <1>9, <1>10, <1>11, <1>12, Zenon DEF Next, Step

----------------------------------------------------------------------------
LEMMA PhaseOther ==
  ASSUME LockInv, CallType, NEW p \in Proc, Acts(p), NEW q \in Proc, q # p, Phase(q)
  PROVE  Phase(q)'
<1>1. pc'[q] = pc[q] /\ call'[q] = call[q]
  BY OthersKept
<1>2. CASE Serving(q)
  <2>1. normal' = normal /\ binary' = binary /\ torn' = torn /\ target' = target
    BY <1>2, Undisturbed, Zenon DEF file, local
  <2>2. Adjusted(q)' = Adjusted(q)
    BY <1>1, <2>1, Zenon DEF Adjusted, Up
  <2> QED BY <1>1, <2>1, <2>2, Zenon DEF Phase, Emptied
<1>3. CASE ~Serving(q)
  BY <1>1, <1>3, Zenon DEF Phase, Emptied, Serving
<1> QED BY <1>2, <1>3

LEMMA PhaseCounts ==
  ASSUME CallType, FileType, FileType', NEW p \in Proc, Counts(p)
  PROVE  Phase(p)'
<1>1. call'[p] = call[p] /\ ~torn'
  BY Zenon DEF Counts
<1>2. \/ call[p].undo /\ pc'[p] = "raise"
      \/ ~call[p].undo /\ call[p].up /\ pc'[p] = "activate"
      \/ ~call[p].undo /\ pc'[p] = "leave"
      \/ ~call[p].undo /\ ~call[p].up /\ pc'[p] = "info" /\ normal' = 0 /\ binary' = 0
  BY AdjustedType, AfterCountCases, MovesKeepCall, Zenon DEF Counts, Label
<1> QED BY <1>1, <1>2, Zenon DEF Phase, Emptied

LEMMA PhaseOwn ==
  ASSUME CallType, FileType, FileType', NEW p \in Proc, Acts(p), Phase(p)
  PROVE  Phase(p)'
<1>1. ASSUME pc'[p] \in {"idle", "raise"} PROVE Phase(p)'
  BY <1>1, Zenon DEF Phase, Emptied
<1>2. CASE Begin(p)
  <2>1. PICK up \in BOOLEAN, bin \in BOOLEAN :
          call' = [call EXCEPT ![p] = [up |-> up, bin |-> bin, undo |-> FALSE]]
    BY <1>2, Zenon DEF Begin
  <2>2. call'[p].undo = FALSE
    BY <2>1 DEF CallType
  <2>3. pc'[p] = "acquire"
    BY <1>2, MovesKeepCall, Zenon DEF Begin, Label
  <2> QED BY <2>2, <2>3, Zenon DEF Phase, Emptied
<1>3. CASE AcquireLock(p)
  <2>1. pc[p] = "acquire" /\ pc'[p] = "count" /\ call' = call
    BY <1>3, MovesKeepCall, Zenon DEF AcquireLock, Label
  <2> QED BY <2>1, Zenon DEF Phase, Emptied
<1>4. CASE Count(p)
  <2>1. pc[p] = "count"
    BY <1>4, Zenon DEF Count
  <2>2. CASE Goto(p, "raise")
    BY <1>1, <2>2, MovesKeepCall, Zenon DEF Label
  <2>3. CASE /\ torn' /\ Goto(p, "write") /\ target' = Adjusted(p) /\ Adjusted(p) # Zero
             /\ UNCHANGED <<normal, binary, flag, call, held>>
    <3>1. pc'[p] = "write" /\ call' = call /\ normal' = normal /\ binary' = binary
      BY <2>3, MovesKeepCall, Zenon DEF Label
    <3>2. Adjusted(p)' = Adjusted(p)
      BY <3>1, Zenon DEF Adjusted, Up
    <3> QED BY <2>1, <2>3, <3>1, <3>2, Zenon DEF Phase, Emptied, Zero
  <2>4. CASE Counts(p)
    BY <2>4, PhaseCounts
  <2> QED BY <1>4, <2>2, <2>3, <2>4, CountCases, Zenon
<1>5. CASE Write(p)
  BY <1>5, WriteCounts, PhaseCounts, Zenon
<1>6. CASE WriteFails(p) \/ Kill(p) \/ Leave(p)
  BY <1>1, <1>6, MovesKeepCall, Zenon DEF WriteFails, Kill, Leave, Raise, Label
<1>7. CASE Activate(p)
  <2>1. pc[p] = "activate" /\ torn' = torn /\ ~torn /\ call[p].up /\ ~call[p].undo
    BY <1>7, Zenon DEF Activate, CheckActiveFails, file, Phase
  <2>2. CASE pc'[p] = "leave" /\ call' = call
    BY <2>1, <2>2, Zenon DEF Phase, Emptied
  <2>3. CASE Undo(p)
    <3>1. pc'[p] = "count" /\ call'[p].up /\ call'[p].undo
      <4>1. pc'[p] = "count" /\ call'[p].up = call[p].up /\ call'[p].undo
        BY <2>3, UndoMoves, Zenon
      <4> QED BY <2>1, <4>1, Zenon
    <3> QED BY <2>1, <3>1, Zenon DEF Phase, Emptied
  <2> QED BY <1>1, <1>7, <2>2, <2>3, MovesKeepCall, Zenon DEF Activate, CheckActiveFails, Raise, Label
<1>8. CASE Info(p) \/ Deactivate(p) \/ LvmBugCleanup(p)
  <2>1. /\ pc[p] \in {"info", "deactivate", "cleanup"}
        /\ torn' = torn /\ normal' = normal /\ binary' = binary
    BY <1>8, Zenon DEF Info, Deactivate, LvmBugCleanup, file
  <2>2. ~torn /\ normal = 0 /\ binary = 0 /\ ~call[p].up /\ ~call[p].undo
    BY <2>1, Zenon DEF Phase, Emptied
  <2>3. CASE pc'[p] \in {"info", "deactivate", "cleanup", "leave"} /\ call' = call
    BY <2>1, <2>2, <2>3, Zenon DEF Phase, Emptied
  <2>4. CASE Undo(p)
    <3>1. pc'[p] = "count"
      BY <2>4, UndoMoves, Zenon
    <3> QED BY <2>1, <2>2, <3>1, Zenon DEF Phase, Emptied
  <2>5. ASSUME pc' = pc, call' = call PROVE Phase(p)'
    BY <2>1, <2>3, <2>5, Zenon
  <2> QED
    BY <1>1, <1>8, <2>3, <2>4, <2>5, MovesKeepCall, Zenon
    DEF Info, Deactivate, LvmBugCleanup, NotDeactivated, Escape, Raise, Label
<1>9. CASE EndProcess(p)
  <2>1. pc' = pc /\ pc[p] = "idle"
    BY <1>9, Zenon DEF EndProcess
  <2> QED BY <1>1, <2>1, Zenon
<1> QED
  BY <1>2, <1>3, <1>4, <1>5, <1>6, <1>7, <1>8, <1>9, Zenon DEF Acts, Step

LEMMA PhaseStep ==
  ASSUME LockInv, CallType, FileType, FileType', PhaseInv, [Next]_vars
  PROVE  PhaseInv'
<1>1. ASSUME NEW p \in Proc, Acts(p) PROVE PhaseInv'
  BY <1>1, PhaseOwn, PhaseOther, Zenon DEF PhaseInv
<1>2. CASE Others \/ UNCHANGED vars
  <2>1. pc' = pc /\ call' = call /\ UNCHANGED <<file, local>>
    BY <1>2, Zenon DEF Others, vars
  <2>2. ASSUME NEW p \in Proc, Phase(p) PROVE Phase(p)'
    <3>1. normal' = normal /\ binary' = binary /\ torn' = torn /\ target' = target
      BY <2>1, Zenon DEF file, local
    <3>2. Adjusted(p)' = Adjusted(p)
      BY <2>1, <3>1, Zenon DEF Adjusted, Up
    <3> QED BY <2>1, <2>2, <3>1, <3>2, Zenon DEF Phase, Emptied
  <2> QED BY <2>2, Zenon DEF PhaseInv
<1> QED BY <1>1, <1>2, Zenon DEF Next, Acts

TypeInv == LockInv /\ FileType /\ CallType /\ CacheType /\ NumType /\ FlagType
IInv == TypeInv /\ PhaseInv /\ CountInv

LEMMA Initially == Init => IInv
<1> SUFFICES ASSUME Init PROVE IInv
  OBVIOUS
<1> USE DEF Init
<1>1. LockInv
  BY DEF LockInv, LockType, Serving, Lock!Init
<1>2. FileType /\ NumType
  BY DEF FileType, NumType
<1>3. CallType
  BY DEF CallType, Label
<1>4. CacheType
  BY DEF CacheType, Cached, Empty
<1>5. FlagType
  BY Zenon DEF FlagType
<1>6. PhaseInv
  BY DEF PhaseInv, Phase, Emptied
<1>7. Owing = {}
  BY DEF Owing, Owes
<1>8. CountInv
  BY <1>7, FS_EmptySet DEF CountInv
<1> QED BY <1>1, <1>2, <1>3, <1>4, <1>5, <1>6, <1>8 DEF IInv, TypeInv

LEMMA Invariance == Spec => []IInv
<1>1. IInv /\ [Next]_vars => IInv'
  BY LockStep, FileStep, CallStep, CacheStep, NumStep, FlagStep, PhaseStep, CountInvStep, Zenon
  DEF IInv, TypeInv
<1> QED BY <1>1, Initially, PTL DEF Spec

\* The types of the lock, the counts and the calls.
THEOREM TypeCorrect == Spec => []TypeOK
<1>1. IInv => TypeOK
  BY TypeParts, Zenon DEF IInv, TypeInv, LockInv
<1> QED BY <1>1, Invariance, PTL

----------------------------------------------------------------------------
\* HeldIsActive.  While a call tries the device, after it has counted the
\* first reference, the device may be missing although the count is positive;
\* otherwise it is there, or the volume is gone: SoundInv, as long as no count
\* is nobody's.  FlagsInv is about the binary reference and holds until that
\* is taken back.
Sound     == lv # "none" /\ (lv = "made" => node /\ link)
Trying(p) == \/ pc[p] = "activate"
             \/ pc[p] \in {"count", "write"} /\ call[p].undo /\ call[p].up
Steady == /\ \A p \in Proc : ~Trying(p)
          /\ torn => \E p \in Proc : pc[p] = "write"

\* The binary reference, the file and those who are about to change it.
HeldBinary == flag => binary = 1
Releaser   == \A p, q \in Proc : ReleasesBinary(p) /\ ReleasesBinary(q) => p = q
BinaryInv(p) ==
  /\ pc[p] = "leave" /\ call[p].up /\ call[p].bin => binary = 1
  /\ ReleasesBinary(p) /\ pc[p] \in {"acquire", "count", "write"} /\ ~call[p].undo => flag
  /\ pc[p] = "write" /\ call[p].up /\ call[p].undo /\ call[p].bin => ~flag
  /\ Trying(p) /\ call[p].bin => normal = 0 /\ binary = 1
  /\ Trying(p) /\ ~call[p].bin => normal = 1 /\ binary = 0

SoundOf(p) == Emptied(p) => Sound \/ (pc[p] = "cleanup" /\ lv # "none")
Counted == normal # 0 \/ binary # 0
SoundInv ==
  /\ Steady /\ Counted => Sound
  /\ \A p \in Proc : SoundOf(p)
  /\ held # 0 \/ flag => Sound
FlagsInv == HeldBinary /\ Releaser /\ \A p \in Proc : BinaryInv(p)

LEMMA CountsEffects ==
  ASSUME FileType, CallType, NEW p \in Proc, Counts(p)
  PROVE  /\ call' = call /\ ~torn'
         /\ call[p].bin => normal' = normal /\ binary' = IF Up(p) THEN 1 ELSE 0
         /\ ~call[p].bin => /\ binary' = binary
                            /\ Up(p) => normal' = normal + 1
                            /\ ~Up(p) /\ normal \in {0, 1} => normal' = 0
         /\ \/ call[p].undo /\ pc'[p] = "raise"
            \/ ~call[p].undo /\ call[p].up /\ pc'[p] = "activate" /\ normal' + binary' = 1
            \/ ~call[p].undo /\ call[p].up /\ pc'[p] = "leave" /\ normal' + binary' # 1
            \/ ~call[p].undo /\ ~call[p].up /\ pc'[p] \in {"leave", "info"}
<1>1. normal' = Adjusted(p).normal /\ binary' = Adjusted(p).binary /\ call' = call /\ ~torn'
  BY Zenon DEF Counts
<1>2. CASE call[p].bin
  <2>1. normal' = normal /\ binary' = IF Up(p) THEN 1 ELSE 0
    BY <1>1, <1>2 DEF Adjusted, FileType
  <2> QED
    BY <1>1, <1>2, <2>1, AdjustedType, AfterCountCases, MovesKeepCall, Zenon DEF Counts, Label
<1>3. CASE ~call[p].bin
  <2>1. /\ binary' = binary
        /\ Up(p) => normal' = normal + 1
        /\ ~Up(p) /\ normal \in {0, 1} => normal' = 0
    BY <1>1, <1>3, SMT DEF Adjusted, FileType
  <2> QED
    BY <1>1, <1>3, <2>1, AdjustedType, AfterCountCases, MovesKeepCall, Zenon DEF Counts, Label
<1> QED BY <1>2, <1>3

LEMMA OneReference ==
  ASSUME NEW n \in Nat, NEW m \in Nat, NEW b \in {0, 1}, m + b = 1
  PROVE  (b = 1 => m = 0) /\ (m = n + 1 => m = 1 /\ b = 0)
BY SMT

LEMMA UpWhich ==
  ASSUME CallType, NEW p \in Proc
  PROVE  Up(p) <=> ~(call[p].up <=> call[p].undo)
<1>1. call[p].up \in BOOLEAN /\ call[p].undo \in BOOLEAN
  BY DEF CallType
<1> QED BY <1>1, Zenon DEF Up

LEMMA FlagMoves ==
  ASSUME FileType, CallType, PhaseInv, NEW p \in Proc, Acts(p)
  PROVE  \/ flag' = flag
         \/ Serving(p) /\ ReleasesBinary(p) /\ ~flag' /\ pc'[p] \in {"leave", "info"}
         \/ Leave(p)
<1>1. ASSUME Counts(p), Serving(p) PROVE flag' = flag \/ (ReleasesBinary(p) /\ ~flag' /\ pc'[p] \in {"leave", "info"})
  <2>1. CASE call[p].bin /\ ~Up(p) /\ ~call[p].undo
    <3>1. ~call[p].up /\ ~flag'
      BY <1>1, <2>1, UpWhich, Zenon DEF Counts, Released
    <3> QED BY <1>1, <2>1, <3>1, CountsEffects, Zenon DEF ReleasesBinary, Serving
  <2>2. CASE ~(call[p].bin /\ ~Up(p) /\ ~call[p].undo)
    BY <1>1, <2>2, Zenon DEF Counts, Released
  <2> QED BY <2>1, <2>2
<1>2. CASE Count(p)
  BY <1>1, <1>2, CountCases, Zenon DEF Count, Serving
<1>3. CASE Write(p)
  BY <1>1, <1>3, WriteCounts, Zenon DEF Write, Serving, PhaseInv
<1>4. CASE Begin(p) \/ AcquireLock(p) \/ WriteFails(p) \/ Activate(p) \/ Info(p)
  BY <1>4, Zenon DEF Begin, AcquireLock, WriteFails, Activate, CheckActiveFails, Info, owed
<1>5. CASE Deactivate(p) \/ LvmBugCleanup(p) \/ EndProcess(p) \/ Kill(p)
  BY <1>5, Zenon DEF Deactivate, LvmBugCleanup, EndProcess, Kill, owed
<1> QED BY <1>2, <1>3, <1>4, <1>5, Zenon DEF Acts, Step

LEMMA BinaryOther ==
  ASSUME LockInv, FileType, CallType, PhaseInv, Releaser,
         NEW p \in Proc, Acts(p), NEW q \in Proc, q # p, BinaryInv(q)
  PROVE  BinaryInv(q)'
<1>1. pc'[q] = pc[q] /\ call'[q] = call[q]
  BY OthersKept
<1>2. CASE Serving(q)
  <2>1. ~Serving(p)
    BY <1>2, Zenon DEF LockInv
  <2>2. flag' = flag
    BY <2>1, FlagMoves, Zenon DEF Leave, Serving
  <2>3. normal' = normal /\ binary' = binary
    BY <1>2, Undisturbed, Zenon DEF file
  <2> QED BY <1>1, <2>2, <2>3, Zenon DEF BinaryInv, Trying, ReleasesBinary
<1>3. CASE ~Serving(q)
  <2>1. ReleasesBinary(q) => (flag => flag')
    BY FlagMoves, Zenon DEF Releaser, Leave, owed
  <2> QED BY <1>1, <1>3, <2>1, Zenon DEF BinaryInv, Trying, ReleasesBinary, Serving
<1> QED BY <1>2, <1>3

LEMMA TakenStays ==
  ASSUME [Next]_vars, ~taken' PROVE ~taken
<1>1. ASSUME NEW p \in Proc, Count(p) PROVE ~taken
  <2>1. CASE torn
    BY <1>1, <2>1, Zenon DEF Count
  <2>2. CASE ~torn
    BY <1>1, <2>2, Zenon DEF Count
  <2> QED BY <2>1, <2>2
<1>2. CASE \E p \in Proc : \/ Begin(p) \/ AcquireLock(p) \/ Write(p) \/ WriteFails(p) \/ Activate(p)
                           \/ Info(p) \/ Deactivate(p) \/ LvmBugCleanup(p) \/ Leave(p) \/ EndProcess(p) \/ Kill(p)
  BY <1>2, Zenon DEF Begin, AcquireLock, Write, WriteFails, Activate, CheckActiveFails, Info, Deactivate, LvmBugCleanup, Leave,
     EndProcess, Kill, notes, losses
<1>3. CASE Others \/ UNCHANGED vars
  BY <1>3, Zenon DEF Others, vars, notes, losses
<1> QED BY <1>1, <1>2, <1>3, Zenon DEF Next, Step

LEMMA StrayStays ==
  ASSUME [Next]_vars, ~stray'
  PROVE  ~stray /\ \A p \in Proc : ~Kill(p) /\ (WriteFails(p) => ~(pc[p] = "count" /\ call[p].undo /\ call[p].up))
<1>1. \A p \in Proc : ~Kill(p) /\ (WriteFails(p) => ~(pc[p] = "count" /\ call[p].undo /\ call[p].up))
  BY Zenon DEF Kill, WriteFails
<1>2. ASSUME NEW p \in Proc, WriteFails(p) PROVE ~stray
  BY <1>2, Zenon DEF WriteFails
<1>3. ASSUME NEW p \in Proc, Activate(p) PROVE ~stray
  <2>1. stray' = stray \/ stray' = TRUE
    BY <1>3, Zenon DEF Activate, CheckActiveFails
  <2> QED BY <2>1, Zenon
<1>4. CASE \E p \in Proc : \/ Begin(p) \/ AcquireLock(p) \/ Count(p) \/ Write(p) \/ Info(p) \/ Deactivate(p)
                           \/ LvmBugCleanup(p) \/ Leave(p) \/ EndProcess(p)
  <2>1. stray' = stray
    BY <1>4, Zenon DEF Begin, AcquireLock, Count, Write, Info, Deactivate, LvmBugCleanup, Leave, EndProcess,
       notes, losses
  <2> QED BY <1>1, <2>1, Zenon
<1>5. CASE Others \/ UNCHANGED vars
  <2>1. stray' = stray
    BY <1>5, Zenon DEF Others, vars, notes, losses
  <2> QED BY <1>1, <2>1, Zenon
<1> QED BY <1>1, <1>2, <1>3, <1>4, <1>5, Zenon DEF Next, Step

LEMMA ReleaserStep ==
  ASSUME CallType, Releaser, NEW p \in Proc, Acts(p)
  PROVE  Releaser'
<1>1. ASSUME NEW q \in Proc, q # p PROVE ReleasesBinary(q)' <=> ReleasesBinary(q)
  BY <1>1, OthersKept, Zenon DEF ReleasesBinary
<1>2. CASE Begin(p)
  <2>1. PICK up \in BOOLEAN, bin \in BOOLEAN :
          /\ call' = [call EXCEPT ![p] = [up |-> up, bin |-> bin, undo |-> FALSE]]
          /\ ~up => IF bin THEN flag /\ \A q \in Proc : ~ReleasesBinary(q) ELSE held > 0
    BY <1>2, Zenon DEF Begin
  <2>2. call'[p].up = up /\ call'[p].bin = bin
    BY <2>1 DEF CallType
  <2>3. ReleasesBinary(p)' => \A q \in Proc : ~ReleasesBinary(q)
    BY <2>1, <2>2, Zenon DEF ReleasesBinary
  <2> QED BY <1>1, <2>3, Zenon DEF Releaser
<1>3. CASE ~Begin(p)
  <2>1. ASSUME ReleasesBinary(p)' PROVE ReleasesBinary(p)
    <3>1. CASE call' = call
      <4>1. pc[p] # "idle"
        <5>1. CASE EndProcess(p)
          BY <2>1, <5>1, Zenon DEF EndProcess, ReleasesBinary
        <5> QED
          BY <1>3, <5>1, Zenon DEF Acts, Step, AcquireLock, Count, Write, WriteFails, Activate, CheckActiveFails, Info,
             Deactivate, LvmBugCleanup, Leave, Kill
      <4> QED BY <2>1, <3>1, <4>1, Zenon DEF ReleasesBinary
    <3>2. CASE Undo(p)
      <4>1. call'[p].up = call[p].up /\ call'[p].bin = call[p].bin
        BY <3>2, UndoMoves, Zenon
      <4>2. pc[p] # "idle"
        <5>1. CASE EndProcess(p)
          BY <3>2, <5>1, MovesKeepCall, Zenon DEF EndProcess, Undo, Label
        <5> QED
          BY <1>3, <5>1, Zenon DEF Acts, Step, AcquireLock, Count, Write, WriteFails, Activate, CheckActiveFails, Info,
             Deactivate, LvmBugCleanup, Leave, Kill
      <4> QED BY <2>1, <4>1, <4>2, Zenon DEF ReleasesBinary
    <3> QED
      BY <1>3, <3>1, <3>2, Zenon DEF Acts, Step, AcquireLock, Count, Write, WriteFails, Activate, CheckActiveFails, Info,
         Deactivate, LvmBugCleanup, NotDeactivated, Escape, Leave, EndProcess, Kill, Raise
  <2> QED BY <1>1, <2>1, Zenon DEF Releaser
<1> QED BY <1>2, <1>3

\* The binary count and the flag of the callers, changed by one process.
LEMMA BinaryOwn ==
  ASSUME TypeInv, FileType', PhaseInv, FlagsInv, NEW p \in Proc, Acts(p), ~taken', ~taken
  PROVE  HeldBinary' /\ BinaryInv(p)'
<1> USE DEF TypeInv
<1>0. BinaryInv(p) /\ HeldBinary
  BY DEF FlagsInv
<1>1. ASSUME pc'[p] \in {"idle", "raise"} PROVE BinaryInv(p)'
  BY <1>1, Zenon DEF BinaryInv, Trying, ReleasesBinary
<1>2. ASSUME flag' = flag, binary' = binary PROVE HeldBinary'
  BY <1>0, <1>2, Zenon DEF HeldBinary
<1>3. CASE Begin(p)
  <2>1. PICK up \in BOOLEAN, bin \in BOOLEAN :
          /\ call' = [call EXCEPT ![p] = [up |-> up, bin |-> bin, undo |-> FALSE]]
          /\ ~up => IF bin THEN flag /\ \A q \in Proc : ~ReleasesBinary(q) ELSE held > 0
    BY <1>3, Zenon DEF Begin
  <2>2. call'[p].up = up /\ call'[p].bin = bin
    BY <2>1 DEF CallType
  <2>3. pc'[p] = "acquire" /\ flag' = flag /\ binary' = binary
    BY <1>3, MovesKeepCall, Zenon DEF Begin, Label, file
  <2> QED BY <1>2, <2>1, <2>2, <2>3, Zenon DEF BinaryInv, Trying, ReleasesBinary
<1>4. CASE AcquireLock(p)
  <2>1. pc[p] = "acquire" /\ pc'[p] = "count" /\ call' = call /\ flag' = flag /\ binary' = binary
    BY <1>4, MovesKeepCall, Zenon DEF AcquireLock, Label, file, owed
  <2>2. ~call[p].undo
    BY <2>1, Zenon DEF PhaseInv, Phase
  <2> QED BY <1>0, <1>2, <2>1, <2>2, Zenon DEF BinaryInv, Trying, ReleasesBinary
<1>5. ASSUME Counts(p), pc[p] \in {"count", "write"},
             call[p].undo /\ call[p].up /\ call[p].bin => ~flag
      PROVE  HeldBinary' /\ BinaryInv(p)'
  <2>1. flag' = IF call[p].bin /\ ~Up(p) /\ ~call[p].undo THEN FALSE ELSE flag
    BY <1>5, Zenon DEF Counts, Released
  <2>2. HeldBinary'
    <3>1. CASE ~call[p].bin
      <4>1. binary' = binary /\ flag' = flag
        BY <1>5, <2>1, <3>1, CountsEffects, Zenon
      <4> QED BY <1>2, <4>1
    <3>2. CASE call[p].bin /\ Up(p)
      BY <1>5, <3>2, CountsEffects, Zenon DEF HeldBinary
    <3>3. CASE call[p].bin /\ ~Up(p)
      <4>1. ~flag'
        BY <1>5, <2>1, <3>3, UpWhich, Zenon
      <4> QED BY <4>1, Zenon DEF HeldBinary
    <3> QED BY <3>1, <3>2, <3>3
  <2>3. CASE pc'[p] = "raise"
    BY <1>1, <2>2, <2>3
  <2>4. CASE ~call[p].undo /\ call[p].up /\ call[p].bin
    <3>1. Up(p) /\ call' = call
      BY <1>5, <2>4, UpWhich, CountsEffects, Zenon
    <3>2. binary' = 1 /\ pc'[p] \in {"activate", "leave"} /\ (pc'[p] = "activate" => normal' + binary' = 1)
      BY <1>5, <2>4, <3>1, CountsEffects, Zenon
    <3>3. pc'[p] = "activate" => normal' = 0
      <4>1. normal' \in Nat /\ (binary' = 1 => binary' \in {0, 1})
        BY Zenon DEF FileType
      <4>2. binary' = 1 /\ normal' + binary' = 1 => normal' = 0
        BY <4>1, OneReference, Zenon
      <4> QED BY <3>2, <4>2, Zenon
    <3> QED BY <2>2, <2>4, <3>1, <3>2, <3>3, Zenon DEF BinaryInv, Trying, ReleasesBinary
  <2>5. CASE ~call[p].undo /\ call[p].up /\ ~call[p].bin
    <3>1. Up(p) /\ call' = call
      BY <1>5, <2>5, UpWhich, CountsEffects, Zenon
    <3>2. normal' = normal + 1 /\ pc'[p] \in {"activate", "leave"} /\ (pc'[p] = "activate" => normal' + binary' = 1)
      BY <1>5, <2>5, <3>1, CountsEffects, Zenon
    <3>3. pc'[p] = "activate" => normal' = 1 /\ binary' = 0
      <4>1. normal \in Nat /\ normal' \in Nat /\ binary' \in {0, 1}
        BY Zenon DEF FileType
      <4>2. normal' = normal + 1 /\ normal' + binary' = 1 => normal' = 1 /\ binary' = 0
        BY <4>1, OneReference, Zenon
      <4> QED BY <3>2, <4>2, Zenon
    <3> QED BY <2>2, <2>5, <3>1, <3>2, <3>3, Zenon DEF BinaryInv, Trying, ReleasesBinary
  <2>6. CASE ~call[p].undo /\ ~call[p].up /\ pc'[p] \in {"leave", "info"}
    <3>1. call' = call
      BY <1>5, CountsEffects, Zenon
    <3> QED BY <2>2, <2>6, <3>1, Zenon DEF BinaryInv, Trying, ReleasesBinary
  <2> QED BY <1>5, <2>3, <2>4, <2>5, <2>6, CountsEffects, Zenon
<1>6. CASE Count(p)
  <2>1. pc[p] = "count" /\ (~GivesBackAnothers(p) \/ torn)
    BY <1>6, Zenon DEF Count
  <2>2. CASE torn /\ Goto(p, "raise") /\ UNCHANGED <<file, flag, call, held>>
    BY <1>1, <1>2, <2>2, MovesKeepCall, Zenon DEF Label, file
  <2>3. CASE ~torn /\ Goto(p, "write") /\ UNCHANGED <<normal, binary, flag, call, held>>
    <3>1. pc'[p] = "write" /\ pc[p] = "count"
      BY <1>6, <2>3, MovesKeepCall, Zenon DEF Label, Count
    <3>2. call[p].undo /\ call[p].up /\ call[p].bin => ~flag
      BY <2>1, <2>3, Zenon DEF GivesBackAnothers
    <3> QED BY <1>0, <1>2, <2>3, <3>1, <3>2, Zenon DEF BinaryInv, Trying, ReleasesBinary
  <2>4. CASE ~torn /\ Counts(p)
    <3>1. call[p].undo /\ call[p].up /\ call[p].bin => ~flag
      BY <2>1, <2>4, Zenon DEF GivesBackAnothers
    <3> QED BY <1>5, <1>6, <2>4, <3>1, Zenon DEF Count
  <2> QED BY <1>6, <2>2, <2>3, <2>4, CountCases, Zenon
<1>7. CASE Write(p)
  <2>1. call[p].undo /\ call[p].up /\ call[p].bin => ~flag
    BY <1>0, <1>7, Zenon DEF Write, BinaryInv
  <2> QED BY <1>5, <1>7, <2>1, WriteCounts, Zenon DEF PhaseInv, Write
<1>8. CASE WriteFails(p)
  BY <1>1, <1>2, <1>8, MovesKeepCall, Zenon DEF WriteFails, Raise, Label, file, owed
<1>9. CASE Activate(p)
  <2>1. pc[p] = "activate" /\ UNCHANGED <<flag, normal, binary>> /\ call[p].up
    BY <1>9, Zenon DEF Activate, CheckActiveFails, file, owed, PhaseInv, Phase
  <2>2. CASE pc'[p] = "leave" /\ call' = call
    BY <1>0, <1>2, <2>1, <2>2, Zenon DEF BinaryInv, Trying, ReleasesBinary
  <2>3. CASE Undo(p)
    <3>1. pc'[p] = "count" /\ call'[p].up = call[p].up /\ call'[p].bin = call[p].bin
      BY <2>3, UndoMoves, Zenon
    <3> QED BY <1>0, <1>2, <2>1, <3>1, Zenon DEF BinaryInv, Trying, ReleasesBinary
  <2> QED BY <1>1, <1>2, <1>9, <2>1, <2>2, <2>3, MovesKeepCall, Zenon DEF Activate, CheckActiveFails, Raise, Label
<1>10. CASE Info(p) \/ Deactivate(p) \/ LvmBugCleanup(p)
  <2>1. /\ pc[p] \in {"info", "deactivate", "cleanup"} /\ UNCHANGED <<flag, normal, binary>>
        /\ ~call[p].up
    BY <1>10, Zenon DEF Info, Deactivate, LvmBugCleanup, file, owed, PhaseInv, Phase
  <2>2. CASE pc'[p] \in {"info", "deactivate", "cleanup", "leave"} /\ call' = call
    BY <1>2, <2>1, <2>2, Zenon DEF BinaryInv, Trying, ReleasesBinary
  <2>3. CASE Undo(p)
    <3>1. pc'[p] = "count" /\ call'[p].undo /\ call'[p].up = call[p].up
      BY <2>3, UndoMoves, Zenon
    <3>2. ~call'[p].up
      BY <2>1, <3>1, Zenon
    <3> QED BY <1>2, <2>1, <3>1, <3>2, Zenon DEF BinaryInv, Trying, ReleasesBinary
  <2>4. ASSUME pc' = pc, call' = call PROVE HeldBinary' /\ BinaryInv(p)'
    BY <2>1, <2>2, <2>4, Zenon
  <2> QED
    BY <1>1, <1>2, <1>10, <2>1, <2>2, <2>3, <2>4, MovesKeepCall, Zenon
    DEF Info, Deactivate, LvmBugCleanup, NotDeactivated, Escape, Raise, Label
<1>11. CASE Leave(p)
  <2>1. pc'[p] = "idle" /\ binary' = binary
    BY <1>11, MovesKeepCall, Zenon DEF Leave, Label, file
  <2>2. flag' = flag \/ (pc[p] = "leave" /\ call[p].up /\ call[p].bin)
    BY <1>11, Zenon DEF Leave, owed
  <2> QED BY <1>0, <1>1, <1>2, <2>1, <2>2, Zenon DEF BinaryInv, HeldBinary
<1>12. CASE EndProcess(p) \/ Kill(p)
  BY <1>1, <1>2, <1>12, MovesKeepCall, Zenon DEF EndProcess, Kill, Label, file, owed
<1> QED
  BY <1>3, <1>4, <1>6, <1>7, <1>8, <1>9, <1>10, <1>11, <1>12, Zenon DEF Acts, Step

LEMMA FlagsStep ==
  ASSUME TypeInv, FileType', PhaseInv, FlagsInv, NEW p \in Proc, Acts(p), ~taken', ~taken
  PROVE  FlagsInv'
<1>1. HeldBinary' /\ BinaryInv(p)'
  BY BinaryOwn
<1>2. \A q \in Proc : q # p => BinaryInv(q)'
  BY BinaryOther, Zenon DEF FlagsInv, TypeInv
<1>3. Releaser'
  BY ReleaserStep, Zenon DEF FlagsInv, TypeInv
<1> QED BY <1>1, <1>2, <1>3, Zenon DEF FlagsInv

LEMMA FlagsInvStep ==
  ASSUME IInv, IInv', [Next]_vars, ~taken => FlagsInv, ~taken'
  PROVE  FlagsInv'
<1>1. ~taken /\ FlagsInv /\ TypeInv /\ FileType' /\ PhaseInv
  BY TakenStays, Zenon DEF IInv, TypeInv
<1>2. ASSUME NEW p \in Proc, Acts(p) PROVE FlagsInv'
  BY <1>1, <1>2, FlagsStep, Zenon
<1>3. CASE Others \/ UNCHANGED vars
  <2>1. pc' = pc /\ call' = call /\ UNCHANGED file /\ flag' = flag
    BY <1>3, Zenon DEF Others, vars, owed
  <2> QED
    BY <1>1, <2>1, Zenon
    DEF FlagsInv, HeldBinary, Releaser, BinaryInv, Trying, ReleasesBinary, file
<1> QED BY <1>2, <1>3, Zenon DEF Next, Acts

LEMMA FlagsInitially == Init => FlagsInv
<1> SUFFICES ASSUME Init PROVE FlagsInv
  OBVIOUS
<1>1. pc = [p \in Proc |-> "idle"] /\ flag = FALSE
  BY Zenon DEF Init
<1>2. ASSUME NEW p \in Proc PROVE pc[p] = "idle"
  BY <1>1
<1> QED BY <1>1, <1>2, Zenon DEF FlagsInv, HeldBinary, Releaser, BinaryInv, Trying, ReleasesBinary

LEMMA FlagsInvariance == Spec => [](~taken => FlagsInv)
<1>1. Init => (~taken => FlagsInv)
  BY FlagsInitially
<1>2. ASSUME IInv, IInv', [Next]_vars, ~taken => FlagsInv PROVE (~taken => FlagsInv)'
  BY <1>2, FlagsInvStep, Zenon
<1> QED BY <1>1, <1>2, Invariance, PTL DEF Spec

\* Only a process that found no reference at all takes the device away, and
\* the volume is removed by who has checked the same: CountInv for the normal
\* references, HeldBinary for the binary one.
LEMMA DeviceStep ==
  ASSUME IInv, ~taken => FlagsInv, [Next]_vars, node, ~node' PROVE held' = 0 /\ (flag' => taken)
<1>1. ASSUME NEW p \in Proc, Deactivate(p) \/ LvmBugCleanup(p) PROVE held' = 0 /\ (flag' => taken)
  <2>1. pc[p] \in {"deactivate", "cleanup"} /\ held' = held /\ flag' = flag
    BY <1>1, Zenon DEF Deactivate, LvmBugCleanup, owed
  <2>2. normal = 0 /\ binary = 0
    BY <2>1, Zenon DEF IInv, PhaseInv, Phase, Emptied
  <2>3. Cardinality(Owing) \in Nat /\ held \in Nat /\ held + Cardinality(Owing) =< normal
    <3>1. IsFiniteSet(Owing)
      BY FS_Subset DEF Owing
    <3> QED BY <3>1, FS_CardinalityType, Zenon DEF IInv, TypeInv, NumType, CountInv
  <2>4. held = 0
    BY <2>2, <2>3, SMT
  <2>5. ~taken => ~flag
    BY <2>2 DEF FlagsInv, HeldBinary
  <2> QED BY <2>1, <2>4, <2>5, Zenon
<1>2. CASE Others
  BY <1>2, Zenon DEF Others, Create, Open, Close, Remove, owed
<1>3. ASSUME NEW p \in Proc, Activate(p) PROVE FALSE
  <2>1. node' = node \/ node' = (node \/ lv = "made") \/ node' = TRUE
    BY <1>3, Zenon DEF Activate, CheckActiveFails
  <2> QED BY <2>1, Zenon
<1>4. ASSUME NEW p \in Proc, \/ Begin(p) \/ AcquireLock(p) \/ Count(p) \/ Write(p) \/ WriteFails(p)
                             \/ Info(p) \/ Leave(p) \/ EndProcess(p) \/ Kill(p) PROVE FALSE
  BY <1>4, Zenon
  DEF Begin, AcquireLock, Count, Write, WriteFails, Info, Leave, EndProcess, Kill, world
<1>5. CASE UNCHANGED vars
  BY <1>5, Zenon DEF vars, world
<1> QED BY <1>1, <1>2, <1>3, <1>4, <1>5, Zenon DEF Next, Step

\* However many processes count at once, and whoever is killed, the device
\* stays while a caller holds a normal reference, and while one holds the
\* binary reference that no failed second activation has taken back.
THEOREM HeldDeviceCorrect == Spec => HeldDeviceStays
<1>1. IInv /\ (~taken => FlagsInv) /\ [Next]_vars => [node /\ ~node' => held' = 0 /\ (flag' => taken)]_vars
  BY DeviceStep, Zenon
<1> QED BY <1>1, Invariance, FlagsInvariance, PTL DEF Spec, HeldDeviceStays

----------------------------------------------------------------------------
\* Who has the lock decides whether the count is steady.
LEMMA SteadyServer ==
  ASSUME LockInv, CallType, NEW p \in Proc, Acts(p), Serving(p)
  PROVE  /\ Steady <=> ~Trying(p) /\ (torn => pc[p] = "write")
         /\ Steady' <=> ~Trying(p)' /\ (torn' => pc'[p] = "write")
<1>1. ASSUME NEW q \in Proc, q # p
      PROVE  ~Trying(q) /\ ~Trying(q)' /\ pc[q] # "write" /\ pc'[q] # "write"
  <2>1. ~Serving(q)
    BY <1>1, Zenon DEF LockInv
  <2>2. pc'[q] = pc[q]
    BY <1>1, OthersKept
  <2> QED BY <2>1, <2>2, Zenon DEF Serving, Trying
<1> QED BY <1>1, Zenon DEF Steady

LEMMA SteadySame ==
  ASSUME CallType, NEW p \in Proc, Acts(p), torn' = torn, ~Trying(p), ~Trying(p)',
         pc[p] # "write", pc'[p] # "write"
  PROVE  Steady' <=> Steady
<1>1. ASSUME NEW q \in Proc
      PROVE  (Trying(q)' <=> Trying(q)) /\ (pc'[q] = "write" <=> pc[q] = "write")
  BY <1>1, OthersKept, Zenon DEF Trying
<1> QED BY <1>1, Zenon DEF Steady

LEMMA OwingCounts ==
  ASSUME TypeInv, CountInv
  PROVE  /\ normal = 0 => held = 0
         /\ \A p \in Proc : Owes(p) => normal # 0
<1>1. Cardinality(Owing) \in Nat /\ (Owing # {} => Cardinality(Owing) # 0)
  <2>1. IsFiniteSet(Owing)
    BY FS_Subset DEF Owing
  <2> QED BY <2>1, FS_CardinalityType, FS_EmptySet
<1>2. held \in Nat /\ normal \in Nat /\ held + Cardinality(Owing) =< normal
  BY Zenon DEF TypeInv, NumType, FileType, CountInv
<1>3. (normal = 0 => held = 0) /\ (Cardinality(Owing) # 0 => normal # 0)
  BY <1>1, <1>2, SMT
<1>4. ASSUME NEW p \in Proc, Owes(p) PROVE Owing # {}
  BY <1>4 DEF Owing
<1> QED BY <1>1, <1>3, <1>4, Zenon

\* A call that counts finds a count that is steady, unless it tries.
LEMMA SoundCounts ==
  ASSUME TypeInv, FileType', CountInv, PhaseInv, FlagsInv, SoundInv, NEW p \in Proc, Acts(p), Counts(p),
         pc[p] \in {"count", "write"}, torn => pc[p] = "write"
  PROVE  (Steady' /\ Counted' => Sound') /\ SoundOf(p)' /\ (held' # 0 \/ flag' => Sound')
<1> USE DEF TypeInv
<1>1. (Sound' <=> Sound) /\ held' = held /\ call' = call
  BY Zenon DEF Counts, world, Sound
<1>2. Serving(p)
  BY Zenon DEF Serving
<1>3. (Steady <=> ~Trying(p)) /\ (Steady' => ~Trying(p)')
  BY <1>2, SteadyServer, Zenon
<1>4. BinaryInv(p) /\ HeldBinary /\ SoundOf(p) /\ Phase(p)
  BY DEF FlagsInv, SoundInv, PhaseInv
<1>5. held' # 0 \/ flag' => Sound'
  <2>1. flag' => flag
    BY Zenon DEF Counts, Released
  <2> QED BY <1>1, <2>1, Zenon DEF SoundInv
<1>6. CASE call[p].undo /\ call[p].up
  <2>1. Trying(p) /\ ~Up(p) /\ pc'[p] = "raise"
    BY <1>6, UpWhich, CountsEffects, Zenon DEF Trying
  <2>2. normal' = 0 /\ binary' = 0
    <3>1. CASE call[p].bin
      BY <1>4, <2>1, <3>1, CountsEffects, Zenon DEF BinaryInv
    <3>2. CASE ~call[p].bin
      <4>1. normal = 1 /\ binary = 0
        BY <1>4, <2>1, <3>2, Zenon DEF BinaryInv
      <4> QED BY <2>1, <3>2, <4>1, CountsEffects, Zenon
    <3> QED BY <3>1, <3>2
  <2> QED BY <1>5, <2>1, <2>2, Zenon DEF Counted, SoundOf, Emptied
<1>7. CASE call[p].undo /\ ~call[p].up
  <2>1. Sound
    BY <1>4, <1>7, Zenon DEF SoundOf, Emptied
  <2> QED BY <1>1, <1>5, <2>1, Zenon DEF SoundOf
<1>8. CASE ~call[p].undo /\ call[p].up
  <2>1. pc'[p] = "activate" => Trying(p)'
    BY Zenon DEF Trying
  <2>2. Steady
    BY <1>3, <1>8, Zenon DEF Trying
  <2>3. ASSUME pc'[p] = "leave" PROVE Counted
    <3>1. Up(p) /\ normal' + binary' # 1
      BY <1>8, <2>3, UpWhich, CountsEffects, Zenon
    <3>2. normal \in Nat /\ binary \in {0, 1}
      BY Zenon DEF FileType
    <3>3. CASE call[p].bin
      <4>1. normal' = normal /\ binary' = 1
        BY <3>1, <3>3, CountsEffects, Zenon
      <4>2. normal # 0
        BY <3>1, <4>1, SMT
      <4> QED BY <4>2 DEF Counted
    <3>4. CASE ~call[p].bin
      <4>1. normal' = normal + 1 /\ binary' = binary
        BY <3>1, <3>4, CountsEffects, Zenon
      <4>2. normal # 0 \/ binary # 0
        BY <3>1, <4>1, SMT
      <4> QED BY <4>2 DEF Counted
    <3> QED BY <3>3, <3>4
  <2>4. pc'[p] \in {"activate", "leave"}
    BY <1>8, CountsEffects, Zenon
  <2>5. SoundOf(p)'
    BY <1>1, <1>8, <2>4, Zenon DEF SoundOf, Emptied
  <2> QED BY <1>1, <1>3, <1>5, <2>1, <2>2, <2>3, <2>4, <2>5, Zenon DEF SoundInv
<1>9. CASE ~call[p].undo /\ ~call[p].up
  <2>1. Counted
    <3>1. CASE call[p].bin
      <4>1. binary = 1
        BY <1>4, <1>9, <3>1, Zenon DEF BinaryInv, HeldBinary, ReleasesBinary
      <4> QED BY <4>1 DEF Counted
    <3>2. CASE ~call[p].bin
      BY <1>9, <3>2, OwingCounts, Zenon DEF Owes, Counted
    <3> QED BY <3>1, <3>2
  <2>2. Sound
    BY <1>3, <1>9, <2>1, Zenon DEF Trying, SoundInv
  <2> QED BY <1>1, <1>5, <2>2, Zenon DEF SoundOf
<1> QED BY <1>6, <1>7, <1>8, <1>9

\* SoundInv after a step of a process, by action.
LEMMA SoundOwn ==
  ASSUME TypeInv, FileType', CountInv, PhaseInv, FlagsInv, SoundInv, NEW p \in Proc, Acts(p), ~Kill(p), ~stray',
         WriteFails(p) => ~(pc[p] = "count" /\ call[p].undo /\ call[p].up)
  PROVE  (Steady' /\ Counted' => Sound') /\ SoundOf(p)' /\ (held' # 0 \/ flag' => Sound')
<1> USE DEF TypeInv
<1>0. Phase(p) /\ SoundOf(p)
  BY DEF PhaseInv, SoundInv
<1>1. ASSUME UNCHANGED world PROVE Sound' <=> Sound
  BY <1>1, Zenon DEF world, Sound
<1>2. ASSUME normal' = normal, binary' = binary PROVE Counted' <=> Counted
  BY <1>2, Zenon DEF Counted
<1>3. ASSUME pc'[p] \in {"idle", "acquire", "raise", "leave"} PROVE SoundOf(p)'
  BY <1>3, Zenon DEF SoundOf, Emptied
<1>4. CASE Begin(p)
  <2>1. pc[p] = "idle" /\ pc'[p] = "acquire" /\ UNCHANGED <<file, world>> /\ flag' = flag
    BY <1>4, MovesKeepCall, Zenon DEF Begin, Label
  <2>2. Steady' <=> Steady
    BY <2>1, SteadySame, Zenon DEF Trying, file
  <2>3. held' # 0 => held # 0
    <3>1. held' = held \/ (held \in Nat /\ held > 0)
      BY <1>4, Zenon DEF Begin, NumType
    <3>2. held \in Nat /\ held > 0 => held # 0
      BY SMT
    <3> QED BY <3>1, <3>2, Zenon
  <2> QED BY <1>1, <1>2, <1>3, <2>1, <2>2, <2>3, Zenon DEF SoundInv, file
<1>5. CASE AcquireLock(p)
  <2>1. /\ pc[p] = "acquire" /\ pc'[p] = "count" /\ call' = call /\ held' = held /\ flag' = flag
        /\ UNCHANGED <<file, world>>
    BY <1>5, MovesKeepCall, Zenon DEF AcquireLock, Label, owed
  <2>2. ~call[p].undo
    BY <1>0, <2>1, Zenon DEF Phase
  <2>3. Steady' <=> Steady
    BY <2>1, <2>2, SteadySame, Zenon DEF Trying, file
  <2>4. SoundOf(p)'
    BY <2>1, <2>2, Zenon DEF SoundOf, Emptied
  <2> QED BY <1>1, <1>2, <2>1, <2>3, <2>4, Zenon DEF SoundInv, file
<1>6. CASE Count(p)
  <2>1. pc[p] = "count" /\ Serving(p) /\ world' = world
    BY <1>6, Zenon DEF Count, Serving
  <2>2. CASE torn /\ Goto(p, "raise") /\ UNCHANGED <<file, flag, call, held>>
    <3>1. pc'[p] = "raise" /\ torn' = torn
      BY <2>2, MovesKeepCall, Zenon DEF Label, file
    <3>2. ~Steady'
      BY <2>1, <2>2, <3>1, SteadyServer, Zenon
    <3> QED BY <1>1, <1>3, <2>1, <2>2, <3>1, <3>2, Zenon DEF SoundInv
  <2>3. CASE ~torn /\ Goto(p, "write") /\ UNCHANGED <<normal, binary, flag, call, held>>
    <3>1. pc'[p] = "write"
      BY <2>3, MovesKeepCall, Zenon DEF Label
    <3>2. Steady' => Steady
      BY <2>1, <2>3, <3>1, SteadyServer, Zenon DEF Trying
    <3>3. Emptied(p)' <=> Emptied(p)
      BY <2>1, <2>3, <3>1, Zenon DEF Emptied
    <3>4. SoundOf(p)'
      BY <1>0, <1>1, <2>1, <3>3, Zenon DEF SoundOf
    <3> QED BY <1>1, <1>2, <2>1, <2>3, <3>2, <3>4, Zenon DEF SoundInv
  <2>4. CASE ~torn /\ Counts(p)
    BY <2>1, <2>4, SoundCounts, Zenon
  <2> QED BY <1>6, <2>2, <2>3, <2>4, CountCases, Zenon
<1>7. CASE Write(p)
  BY <1>0, <1>7, WriteCounts, SoundCounts, Zenon DEF Write
<1>8. CASE WriteFails(p)
  <2>1. /\ pc[p] \in {"count", "write"} /\ pc'[p] = "raise" /\ UNCHANGED <<file, world>>
        /\ held' = held /\ flag' = flag
    BY <1>8, MovesKeepCall, Zenon DEF WriteFails, Raise, Label, owed
  <2>2. Serving(p)
    BY <2>1, Zenon DEF Serving
  <2>3. CASE torn
    <3>1. ~Steady'
      BY <2>1, <2>2, <2>3, SteadyServer, Zenon DEF file
    <3> QED BY <1>1, <1>3, <2>1, <3>1, Zenon DEF SoundInv
  <2>4. CASE ~torn
    <3>1. pc[p] = "count"
      BY <1>0, <2>1, <2>4, Zenon DEF Phase
    <3>2. ~Trying(p)
      BY <1>8, <3>1, Zenon DEF Trying
    <3>3. Steady
      BY <2>2, <2>4, <3>2, SteadyServer, Zenon
    <3> QED BY <1>1, <1>2, <1>3, <2>1, <3>3, Zenon DEF SoundInv, file
  <2> QED BY <2>3, <2>4
<1>9. CASE Activate(p)
  <2>1. pc[p] = "activate" /\ held' = held /\ flag' = flag /\ lv' = lv /\ call[p].up
    BY <1>0, <1>9, Zenon DEF Activate, CheckActiveFails, Phase, owed
  <2>2. CASE Sound' /\ pc'[p] \in {"leave", "raise"}
    BY <1>3, <2>2, Zenon
  <2>3. CASE Undo(p) /\ (Sound => Sound')
    <3>1. pc'[p] = "count" /\ call'[p].undo /\ call'[p].up = call[p].up
      BY <2>3, UndoMoves, Zenon
    <3>2. Trying(p)' /\ ~Emptied(p)'
      <4>1. call'[p].up
        BY <2>1, <3>1, Zenon
      <4> QED BY <3>1, <4>1, Zenon DEF Trying, Emptied
    <3>3. ~Steady'
      BY <3>2, Zenon DEF Steady
    <3> QED BY <2>1, <2>3, <3>2, <3>3, Zenon DEF SoundOf, SoundInv
  <2>4. ASSUME lv = "made", node', link', Goto(p, "leave") \/ Goto(p, "raise")
        PROVE  Sound' /\ pc'[p] \in {"leave", "raise"}
    BY <2>1, <2>4, MovesKeepCall, Zenon DEF Sound, Label
  <2>5. ASSUME link' = link, node => node' PROVE Sound => Sound'
    BY <2>1, <2>5, Zenon DEF Sound
  <2>6. \/ lv = "made" /\ node' /\ link' /\ Goto(p, "leave")
        \/ lv = "made" /\ node' /\ link' /\ Goto(p, "raise")
        \/ Undo(p) /\ link' = link /\ (node => node')
    BY <1>9, Zenon DEF Activate, CheckActiveFails, Raise
  <2> QED BY <2>2, <2>3, <2>4, <2>5, <2>6, Zenon
<1>10. ASSUME pc[p] \in {"info", "deactivate", "cleanup"}, UNCHANGED file, held' = held, flag' = flag
       PROVE  (Steady' /\ Counted' => Sound') /\ (held' # 0 \/ flag' => Sound')
  <2>1. normal = 0 /\ binary = 0
    BY <1>0, <1>10, Zenon DEF Phase, Emptied
  <2>2. held = 0 /\ ~Counted
    BY <2>1, OwingCounts, Zenon DEF Counted
  <2>3. ~flag
    BY <2>1 DEF FlagsInv, HeldBinary
  <2> QED BY <1>2, <1>10, <2>2, <2>3, Zenon DEF file
<1>11. CASE Info(p)
  <2>1. pc[p] = "info" /\ UNCHANGED <<file, world>> /\ held' = held /\ flag' = flag
    BY <1>11, Zenon DEF Info, owed
  <2>2. Sound
    BY <1>0, <2>1, Zenon DEF SoundOf, Emptied
  <2>3. SoundOf(p)'
    BY <1>1, <2>1, <2>2, Zenon DEF SoundOf
  <2> QED BY <1>10, <2>1, <2>3, Zenon
<1>12. CASE Deactivate(p)
  <2>1. pc[p] = "deactivate" /\ UNCHANGED file /\ held' = held /\ flag' = flag /\ lv' = lv
    BY <1>12, Zenon DEF Deactivate, owed
  <2>2. Sound
    BY <1>0, <2>1, Zenon DEF SoundOf, Emptied
  <2>3. SoundOf(p)'
    <3>1. CASE lv = "made" /\ Goto(p, "cleanup")
      <4>1. pc'[p] = "cleanup" /\ lv' # "none"
        BY <2>1, <3>1, MovesKeepCall, Zenon DEF Label
      <4> QED BY <4>1, Zenon DEF SoundOf
    <3>2. CASE UNCHANGED <<node, link>>
      <4>1. Sound'
        BY <2>1, <2>2, <3>2, Zenon DEF Sound
      <4> QED BY <4>1, Zenon DEF SoundOf
    <3> QED BY <1>12, <3>1, <3>2, Zenon DEF Deactivate
  <2> QED BY <1>10, <2>1, <2>3, Zenon
<1>13. CASE LvmBugCleanup(p)
  <2>1. pc[p] = "cleanup" /\ UNCHANGED file /\ held' = held /\ flag' = flag /\ lv' = lv
    BY <1>13, Zenon DEF LvmBugCleanup, owed
  <2>2. lv' # "none"
    BY <1>0, <2>1, Zenon DEF SoundOf, Emptied, Sound
  <2>3. SoundOf(p)'
    <3>1. CASE pc' = pc
      BY <2>1, <2>2, <3>1, Zenon DEF SoundOf
    <3>2. CASE Goto(p, "leave")
      BY <1>3, <3>2, MovesKeepCall, Zenon DEF Label
    <3>3. CASE node /\ link' = TRUE /\ node' = node
      BY <2>1, <2>2, <3>3, Zenon DEF SoundOf, Sound
    <3>4. CASE Goto(p, "raise")
      BY <1>3, <3>4, MovesKeepCall, Zenon DEF Label
    <3> QED BY <1>13, <3>1, <3>2, <3>3, <3>4, Zenon DEF LvmBugCleanup, Escape, Raise
  <2> QED BY <1>10, <2>1, <2>3, Zenon
<1>14. CASE Leave(p)
  <2>1. pc[p] \in {"leave", "raise"} /\ pc'[p] = "idle" /\ UNCHANGED <<file, world>>
    BY <1>14, MovesKeepCall, Zenon DEF Leave, Label
  <2>2. Steady' <=> Steady
    BY <2>1, SteadySame, Zenon DEF Trying, file
  <2>3. held' # 0 \/ flag' => Sound'
    <3>1. CASE pc[p] = "leave" /\ call[p].up
      <4>1. ~torn /\ ~call[p].undo
        BY <1>0, <3>1, Zenon DEF Phase
      <4>2. Counted
        <5>1. CASE call[p].bin
          <6>1. binary = 1
            BY <3>1, <5>1, Zenon DEF FlagsInv, BinaryInv
          <6> QED BY <6>1 DEF Counted
        <5>2. CASE ~call[p].bin
          BY <3>1, <4>1, <5>2, OwingCounts, Zenon DEF Owes, Counted
        <5> QED BY <5>1, <5>2
      <4>3. Steady
        BY <3>1, <4>1, SteadyServer, Zenon DEF Trying, Serving
      <4> QED BY <1>1, <2>1, <4>2, <4>3, Zenon DEF SoundInv
    <3>2. CASE ~(pc[p] = "leave" /\ call[p].up)
      <4>1. held' = held /\ flag' = flag
        BY <1>14, <3>2, Zenon DEF Leave, owed
      <4> QED BY <1>1, <2>1, <4>1, Zenon DEF SoundInv
    <3> QED BY <3>1, <3>2
  <2> QED BY <1>1, <1>2, <1>3, <2>1, <2>2, <2>3, Zenon DEF SoundInv, file
<1>15. CASE EndProcess(p)
  <2>1. pc' = pc /\ pc[p] = "idle" /\ UNCHANGED <<file, world>> /\ held' = held /\ flag' = flag
    BY <1>15, Zenon DEF EndProcess, owed
  <2>2. pc'[p] = "idle"
    BY <2>1, Zenon
  <2>3. Steady' <=> Steady
    BY <2>1, <2>2, SteadySame, Zenon DEF Trying, file
  <2> QED BY <1>1, <1>2, <1>3, <2>1, <2>2, <2>3, Zenon DEF SoundInv, file
<1> QED
  BY <1>4, <1>5, <1>6, <1>7, <1>8, <1>9, <1>11, <1>12, <1>13, <1>14, <1>15, Zenon DEF Acts, Step

LEMMA SoundOther ==
  ASSUME LockInv, CallType, NEW p \in Proc, Acts(p), NEW q \in Proc, q # p, SoundOf(q)
  PROVE  SoundOf(q)'
<1>1. pc'[q] = pc[q] /\ call'[q] = call[q]
  BY OthersKept
<1>2. CASE Serving(q)
  <2>1. UNCHANGED world
    BY <1>2, Undisturbed
  <2> QED BY <1>1, <2>1, Zenon DEF SoundOf, Emptied, Sound, world
<1>3. CASE ~Serving(q)
  BY <1>1, <1>3, Zenon DEF SoundOf, Emptied, Serving
<1> QED BY <1>2, <1>3

\* What others do to the volume and its device.
LEMMA SoundOthers ==
  ASSUME SoundInv, Others \/ UNCHANGED vars
  PROVE  SoundInv'
<1>1. pc' = pc /\ call' = call /\ UNCHANGED file /\ held' = held /\ flag' = flag
  BY Zenon DEF Others, vars, owed
<1>2. Sound => Sound'
  <2>1. CASE Create
    BY <2>1, Zenon DEF Create, Sound
  <2>2. CASE Open \/ Close
    BY <2>2, Zenon DEF Open, Close, Sound
  <2>3. CASE Remove
    BY <2>3, Zenon DEF Remove, Sound
  <2>4. CASE UNCHANGED vars
    BY <2>4, Zenon DEF vars, world, Sound
  <2> QED BY <2>1, <2>2, <2>3, <2>4, Zenon DEF Others
<1>3. lv # "none" => lv' # "none"
  BY Zenon DEF Others, Create, Open, Close, Remove, vars, world
<1>4. (Steady' <=> Steady) /\ (Counted' <=> Counted)
  BY <1>1, Zenon DEF file, Steady, Trying, Counted
<1>5. ASSUME NEW p \in Proc PROVE SoundOf(p)'
  BY <1>1, <1>2, <1>3, Zenon DEF SoundInv, SoundOf, Emptied
<1> QED BY <1>1, <1>2, <1>4, <1>5, Zenon DEF SoundInv

LEMMA SoundStep ==
  ASSUME IInv, IInv', [Next]_vars, ~taken => FlagsInv, ~taken /\ ~stray => SoundInv, ~taken', ~stray'
  PROVE  SoundInv'
<1> USE DEF IInv
<1>1. /\ ~taken /\ ~stray
      /\ \A p \in Proc : ~Kill(p) /\ (WriteFails(p) => ~(pc[p] = "count" /\ call[p].undo /\ call[p].up))
  BY TakenStays, StrayStays
<1>2. FlagsInv /\ SoundInv /\ FileType'
  BY <1>1, Zenon DEF TypeInv
<1>3. ASSUME NEW p \in Proc, Acts(p) PROVE SoundInv'
  <2>1. (Steady' /\ Counted' => Sound') /\ SoundOf(p)' /\ (held' # 0 \/ flag' => Sound')
    BY <1>1, <1>2, <1>3, SoundOwn, Zenon
  <2>2. ASSUME NEW q \in Proc, q # p PROVE SoundOf(q)'
    BY <1>2, <1>3, <2>2, SoundOther, Zenon DEF SoundInv, TypeInv
  <2> QED BY <2>1, <2>2, Zenon DEF SoundInv
<1>4. CASE Others \/ UNCHANGED vars
  BY <1>2, <1>4, SoundOthers
<1> QED BY <1>3, <1>4, Zenon DEF Next, Acts

LEMMA SoundInitially == Init => SoundInv
<1> SUFFICES ASSUME Init PROVE SoundInv
  OBVIOUS
<1>1. pc = [p \in Proc |-> "idle"] /\ normal = 0 /\ binary = 0 /\ held = 0 /\ flag = FALSE
  BY Zenon DEF Init
<1>2. ASSUME NEW p \in Proc PROVE pc[p] = "idle"
  BY <1>1
<1> QED BY <1>1, <1>2, Zenon DEF SoundInv, SoundOf, Emptied, Counted

\* Whatever commands fail, a caller that holds a reference to a volume that is
\* there has its device and its name, as long as no count is nobody's and the
\* binary reference was not taken back: SoundInv, on CountInv and FlagsInv.
THEOREM HeldIsActiveCorrect == Spec => []HeldIsActive
<1> DEFINE Inv == ~taken /\ ~stray => SoundInv
<1>1. Init => Inv
  BY SoundInitially
<1>2. ASSUME IInv, IInv', [Next]_vars, ~taken => FlagsInv, Inv PROVE Inv'
  BY <1>2, SoundStep, Zenon
<1>3. IInv /\ Inv => HeldIsActive
  <2>1. IInv => (held > 0 => held # 0)
    <3>1. IInv => held \in Nat
      BY Zenon DEF IInv, TypeInv, NumType
    <3> QED BY <3>1, SMT
  <2> QED BY <2>1, Zenon DEF SoundInv, Sound, HeldIsActive
<1> QED BY <1>1, <1>2, <1>3, Invariance, FlagsInvariance, PTL DEF Spec

----------------------------------------------------------------------------
\* NothingLeaks.  As long as no call raised or warned, what is counted is
\* exactly what callers hold and what calls on their way count, and the device
\* differs from that only while a call works on it.
Calm == \A p \in Proc : ~call[p].undo /\ pc[p] # "raise"
Adds(p)  == call[p].up /\ call[p].bin /\ pc[p] \in {"activate", "leave"}
Works(p) == pc[p] \in {"activate", "info", "deactivate", "cleanup"}
NoSurplus   == normal =< held + Cardinality(Owing)
BinaryOwed  == binary = 1 <=> flag \/ \E p \in Proc : Adds(p)
DeviceIs    == /\ lv = "none" => ~node
               /\ lv # "removed" /\ (\A p \in Proc : ~Works(p)) => (node <=> Counted)
LeakInv == Calm /\ NoSurplus /\ BinaryOwed /\ DeviceIs

LEMMA TroubleStays ==
  ASSUME [Next]_vars, ~troubled' PROVE ~troubled /\ \A p \in Proc : ~Kill(p) /\ ~WriteFails(p)
<1>1. \A p \in Proc : ~Kill(p) /\ ~WriteFails(p)
  BY Zenon DEF Kill, WriteFails, Raise
<1>2. ASSUME NEW p \in Proc, Count(p) PROVE troubled' = troubled
  <2>1. CASE torn
    BY <1>2, <2>1, Zenon DEF Count, Raise
  <2>2. CASE ~torn
    BY <1>2, <2>2, Zenon DEF Count
  <2> QED BY <2>1, <2>2
<1>3. ASSUME NEW p \in Proc, Begin(p) \/ AcquireLock(p) \/ Write(p) \/ Leave(p) \/ EndProcess(p)
      PROVE  troubled' = troubled
  BY <1>3, Zenon DEF Begin, AcquireLock, Write, Leave, EndProcess, notes
<1>4. ASSUME NEW p \in Proc, Activate(p) PROVE troubled' = troubled
  BY <1>4, Zenon DEF Activate, CheckActiveFails, Undo, Raise
<1>5. ASSUME NEW p \in Proc, Info(p) PROVE troubled' = troubled
  BY <1>5, Zenon DEF Info, Raise
<1>6. ASSUME NEW p \in Proc, Deactivate(p) \/ LvmBugCleanup(p) PROVE troubled' = troubled
  BY <1>6, Zenon DEF Deactivate, LvmBugCleanup, NotDeactivated, Escape, Undo, Raise
<1>7. ASSUME Others \/ UNCHANGED vars PROVE troubled' = troubled
  BY <1>7, Zenon DEF Others, vars, notes
<1>8. troubled' = troubled
  BY <1>1, <1>2, <1>3, <1>4, <1>5, <1>6, <1>7, Zenon DEF Next, Step
<1>9. ~troubled
  BY <1>8
<1> QED BY <1>1, <1>9

\* What a step is that causes no trouble.
Kept == UNCHANGED <<normal, binary, held, flag, call, lv>>
Before == {"idle", "acquire", "count", "write"}

LEMMA CalmCases ==
  ASSUME CallType, FileType, PhaseInv, Calm, NEW p \in Proc, Acts(p), ~troubled', ~Kill(p), ~WriteFails(p)
  PROVE  \/ Begin(p)
         \/ Leave(p)
         \/ Counts(p) /\ pc[p] \in {"count", "write"}
         \/ Kept /\ pc[p] \in Before /\ pc'[p] \in Before /\ node' = node
                 /\ (pc'[p] = "idle" => pc[p] = "idle")
         \/ Kept /\ pc[p] = "activate" /\ pc'[p] = "leave" /\ lv = "made" /\ node'
         \/ Kept /\ pc[p] \in {"info", "deactivate", "cleanup"}
                 /\ pc'[p] \in {"info", "deactivate", "cleanup"} /\ (node' => node)
         \/ Kept /\ pc[p] \in {"deactivate", "cleanup"} /\ pc'[p] = "leave"
                 /\ (~node' \/ (lv # "made" /\ node' = node))
<1>1. CASE AcquireLock(p)
  BY <1>1, MovesKeepCall, Zenon DEF AcquireLock, Label, Kept, Before, file, world, owed
<1>2. CASE EndProcess(p)
  BY <1>2, Zenon DEF EndProcess, Kept, Before, file, world, owed
<1>3. CASE Count(p)
  <2>1. pc[p] = "count" /\ lv' = lv /\ node' = node
    BY <1>3, Zenon DEF Count, world
  <2>2. CASE torn /\ Goto(p, "raise")
    <3>1. CASE torn
      BY <1>3, <3>1, Zenon DEF Count, Raise
    <3> QED BY <2>2, <3>1
  <2>3. CASE Goto(p, "write") /\ UNCHANGED <<normal, binary, flag, call, held>>
    <3>1. pc'[p] = "write"
      BY <2>3, MovesKeepCall, Zenon DEF Label
    <3> QED BY <2>1, <2>3, <3>1, Zenon DEF Kept, Before
  <2>4. CASE Counts(p)
    BY <2>1, <2>4
  <2> QED BY <1>3, <2>2, <2>3, <2>4, CountCases, Zenon
<1>4. CASE Write(p)
  BY <1>4, WriteCounts, Zenon DEF PhaseInv, Write
<1>5. CASE Activate(p)
  <2>1. pc[p] = "activate" /\ UNCHANGED <<normal, binary, held, flag, lv>>
    BY <1>5, Zenon DEF Activate, CheckActiveFails, file, owed
  <2>2. ~Undo(p) /\ ~Raise(p)
    BY Zenon DEF Undo, Raise
  <2>3. lv = "made" /\ node' /\ Goto(p, "leave") /\ call' = call
    BY <1>5, <2>2, Zenon DEF Activate, CheckActiveFails
  <2> QED BY <2>1, <2>3, MovesKeepCall, Zenon DEF Label, Kept
<1>6. CASE Info(p)
  <2>1. pc[p] = "info" /\ Kept /\ node' = node
    BY <1>6, Zenon DEF Info, file, owed, world, Kept
  <2>2. Goto(p, "deactivate") \/ pc' = pc
    BY <1>6, Zenon DEF Info, Raise
  <2> QED BY <2>1, <2>2, MovesKeepCall, Zenon DEF Label
<1>7. ASSUME NotDeactivated(p) PROVE lv # "made" /\ Goto(p, "leave") /\ call' = call
  BY <1>7, Zenon DEF NotDeactivated, Escape, Undo, Raise
<1>8. CASE Deactivate(p)
  <2>1. pc[p] = "deactivate" /\ UNCHANGED <<normal, binary, held, flag, lv>>
    BY <1>8, Zenon DEF Deactivate, file, owed
  <2>2. \/ Goto(p, "cleanup") /\ call' = call /\ node' \in {FALSE, node}
        \/ pc' = pc /\ call' = call /\ node' = node
        \/ NotDeactivated(p) /\ node' = node
    BY <1>8, Zenon DEF Deactivate, Escape, Raise
  <2> QED BY <1>7, <2>1, <2>2, MovesKeepCall, Zenon DEF Label, Kept
<1>9. CASE LvmBugCleanup(p)
  <2>1. pc[p] = "cleanup" /\ UNCHANGED <<normal, binary, held, flag, lv>>
    BY <1>9, Zenon DEF LvmBugCleanup, file, owed
  <2>2. \/ Goto(p, "leave") /\ call' = call /\ ~node'
        \/ pc' = pc /\ call' = call /\ node' = node
        \/ NotDeactivated(p) /\ node' = node
    BY <1>9, Zenon DEF LvmBugCleanup, Escape, Raise
  <2> QED BY <1>7, <2>1, <2>2, MovesKeepCall, Zenon DEF Label, Kept
<1> QED BY <1>1, <1>2, <1>3, <1>4, <1>5, <1>6, <1>8, <1>9, Zenon DEF Acts, Step

\* A surplus that was none before is none after a step that does not add to it.
NoneAdded(n, m, x, y) ==
  \A C, D, H, G \in Nat :
     n =< x + C /\ D + H = C + G /\ x + H + m =< y + G + n => m =< y + D

LEMMA Surplus == \A n, m, x, y \in Nat : NoneAdded(n, m, x, y)
BY SMT DEF NoneAdded

LEMMA SurplusOwn ==
  ASSUME CallType, FileType, FileType', NumType, NumType', NoSurplus, NEW p \in Proc, Acts(p),
         held + Due(p) + normal' =< held' + Due(p)' + normal
  PROVE  NoSurplus'
<1>1. ASSUME NEW q \in Proc \ {p} PROVE Owes(q)' <=> Owes(q)
  <2>1. pc'[q] = pc[q] /\ call'[q] = call[q]
    BY OthersKept
  <2> QED BY <2>1, Zenon DEF Owes
<1>2. /\ Cardinality(Owing) \in Nat /\ Cardinality(Owing)' \in Nat
      /\ Cardinality(Owing)' + Due(p) = Cardinality(Owing) + Due(p)'
  BY <1>1, OwingStep, Zenon
<1>3. Due(p) \in Nat /\ Due(p)' \in Nat
  BY DEF Due
<1>4. normal \in Nat /\ normal' \in Nat /\ held \in Nat /\ held' \in Nat
  BY Zenon DEF FileType, NumType
<1>5. normal =< held + Cardinality(Owing)
  BY Zenon DEF NoSurplus
<1>6. NoneAdded(normal, normal', held, held')
  BY <1>4, Surplus, Zenon
<1>7. normal' =< held' + Cardinality(Owing)'
  BY <1>2, <1>3, <1>5, <1>6, Zenon DEF NoneAdded
<1> QED BY <1>7, Zenon DEF NoSurplus

\* What it does to the surplus.
LEMMA SurplusStep ==
  ASSUME TypeInv, FileType', NumType', PhaseInv, CountInv, LeakInv, NEW p \in Proc, Acts(p),
         ~troubled', ~Kill(p), ~WriteFails(p)
  PROVE  NoSurplus'
<1> USE DEF TypeInv
<1>0. NoSurplus /\ ~call[p].undo /\ Phase(p)
  BY Zenon DEF LeakInv, Calm, PhaseInv
<1>1. ASSUME normal' = normal, held' = held, Owes(p) => Owes(p)' PROVE NoSurplus'
  <2>1. Due(p) =< Due(p)'
    BY <1>1 DEF Due
  <2>2. held + Due(p) + normal' =< held' + Due(p)' + normal
    BY <1>1, <2>1, SMT DEF Due, FileType, NumType
  <2> QED BY <1>0, <2>2, SurplusOwn, Zenon
<1>2. CASE Begin(p)
  <2>1. PICK up \in BOOLEAN, bin \in BOOLEAN :
          /\ call' = [call EXCEPT ![p] = [up |-> up, bin |-> bin, undo |-> FALSE]]
          /\ ~up => IF bin THEN TRUE ELSE held > 0
          /\ held' = IF ~up /\ ~bin THEN held - 1 ELSE held
    BY <1>2, Zenon DEF Begin
  <2>2. call'[p] = [up |-> up, bin |-> bin, undo |-> FALSE]
    BY <2>1 DEF CallType
  <2>3. call'[p].up = up /\ call'[p].bin = bin /\ call'[p].undo = FALSE
    BY <2>2
  <2>4. normal' = normal /\ pc'[p] = "acquire" /\ pc[p] = "idle"
    BY <1>2, MovesKeepCall, Zenon DEF Begin, Label, file
  <2>5. ~Owes(p)
    BY <2>4, Zenon DEF Owes
  <2>6. CASE ~up /\ ~bin
    <3>1. Owes(p)'
      BY <2>3, <2>4, <2>6, Zenon DEF Owes
    <3>2. held' = held - 1 /\ held > 0 /\ Due(p)' = 1 /\ Due(p) = 0
      BY <2>1, <2>5, <2>6, <3>1, Zenon DEF Due
    <3>3. held + Due(p) + normal' =< held' + Due(p)' + normal
      BY <2>4, <3>2, SMT DEF FileType, NumType
    <3> QED BY <1>0, <3>3, SurplusOwn, Zenon
  <2>7. CASE up \/ bin
    BY <1>1, <2>1, <2>4, <2>5, <2>7, Zenon
  <2> QED BY <2>6, <2>7
<1>3. CASE Leave(p)
  <2>1. pc[p] = "leave" /\ pc'[p] = "idle" /\ normal' = normal /\ call' = call
    BY <1>3, MovesKeepCall, Zenon DEF Leave, Label, file, LeakInv, Calm
  <2>2. CASE call[p].up /\ ~call[p].bin
    <3>1. held' = held + 1
      BY <1>3, <2>1, <2>2, Zenon DEF Leave
    <3>2. Due(p)' = 0 /\ Due(p) = 1
      BY <1>0, <2>1, <2>2, Zenon DEF Due, Owes
    <3>3. held + Due(p) + normal' =< held' + Due(p)' + normal
      BY <2>1, <3>1, <3>2, SMT DEF FileType, NumType
    <3> QED BY <1>0, <3>3, SurplusOwn, Zenon
  <2>3. CASE ~(call[p].up /\ ~call[p].bin)
    <3>1. held' = held /\ ~Owes(p)
      BY <1>3, <2>1, <2>3, Zenon DEF Leave, Owes, owed
    <3> QED BY <1>1, <2>1, <3>1
  <2> QED BY <2>2, <2>3
<1>4. CASE Counts(p) /\ pc[p] \in {"count", "write"}
  <2>1. held' = held /\ call' = call /\ normal' = Adjusted(p).normal
    BY <1>4, Zenon DEF Counts
  <2>2. \/ call[p].up /\ pc'[p] \in {"activate", "leave"}
        \/ ~call[p].up /\ pc'[p] \in {"leave", "info"}
    BY <1>0, <1>4, AdjustedType, AfterCountCases, MovesKeepCall, Zenon DEF Counts, Label
  <2>3. Up(p) <=> call[p].up
    BY <1>0, UpWhich, Zenon
  <2>4. CASE call[p].bin
    <3>1. normal' = normal
      BY <2>1, <2>4 DEF Adjusted
    <3>2. ~Owes(p)
      BY <2>4, Zenon DEF Owes
    <3> QED BY <1>1, <2>1, <3>1, <3>2
  <2>5. CASE ~call[p].bin /\ call[p].up
    <3>1. normal' = normal + 1
      <4>1. Up(p)
        BY <2>3, <2>5
      <4> QED BY <2>1, <2>5, <4>1, SMT DEF Adjusted, FileType
    <3>2. Due(p)' = 1 /\ Due(p) = 0
      BY <1>0, <1>4, <2>1, <2>2, <2>5, Zenon DEF Due, Owes
    <3>3. held + Due(p) + normal' =< held' + Due(p)' + normal
      BY <2>1, <3>1, <3>2, SMT DEF FileType, NumType
    <3> QED BY <1>0, <3>3, SurplusOwn, Zenon
  <2>6. CASE ~call[p].bin /\ ~call[p].up
    <3>1. Owes(p) /\ ~Owes(p)'
      BY <1>0, <1>4, <2>1, <2>2, <2>6, Zenon DEF Owes
    <3>2. Due(p)' = 0 /\ Due(p) = 1 /\ normal # 0
      BY <3>1, OwingCounts, Zenon DEF Due
    <3>3. normal' = normal - 1
      <4>1. ~Up(p)
        BY <2>3, <2>6, Zenon
      <4> QED BY <2>1, <2>6, <3>2, <4>1, SMT DEF Adjusted, FileType
    <3>4. held + Due(p) + normal' =< held' + Due(p)' + normal
      BY <2>1, <3>2, <3>3, SMT DEF FileType, NumType
    <3> QED BY <1>0, <3>4, SurplusOwn, Zenon
  <2> QED BY <2>4, <2>5, <2>6
<1>5. CASE Kept /\ pc[p] \in Before /\ pc'[p] \in Before /\ (pc'[p] = "idle" => pc[p] = "idle")
  <2>1. Owes(p) => Owes(p)'
    BY <1>0, <1>5, Zenon DEF Owes, Kept, Before
  <2> QED BY <1>1, <1>5, <2>1, Zenon DEF Kept
<1>6. CASE Kept /\ pc[p] = "activate" /\ pc'[p] = "leave"
  <2>1. Owes(p) => Owes(p)'
    BY <1>0, <1>6, Zenon DEF Owes, Kept
  <2> QED BY <1>1, <1>6, <2>1, Zenon DEF Kept
<1>7. CASE Kept /\ pc[p] \in {"info", "deactivate", "cleanup"}
  <2>1. ~Owes(p)
    BY <1>7, Zenon DEF Owes
  <2> QED BY <1>1, <1>7, <2>1, Zenon DEF Kept
<1>8. Calm
  BY DEF LeakInv
<1>9. \/ Begin(p)
      \/ Leave(p)
      \/ Counts(p) /\ pc[p] \in {"count", "write"}
      \/ Kept /\ pc[p] \in Before /\ pc'[p] \in Before /\ (pc'[p] = "idle" => pc[p] = "idle")
      \/ Kept /\ pc[p] = "activate" /\ pc'[p] = "leave"
      \/ Kept /\ pc[p] \in {"info", "deactivate", "cleanup"}
  BY <1>8, CalmCases, Zenon
<1> QED BY <1>2, <1>3, <1>4, <1>5, <1>6, <1>7, <1>9, Zenon

LEMMA CalmOwn ==
  ASSUME TypeInv, PhaseInv, LeakInv, NEW p \in Proc, Acts(p), ~troubled', ~Kill(p), ~WriteFails(p)
  PROVE  Calm'
<1> USE DEF TypeInv
<1>1. Calm
  BY DEF LeakInv
<1>2. ASSUME NEW q \in Proc, q # p PROVE ~call'[q].undo /\ pc'[q] # "raise"
  BY <1>1, <1>2, OthersKept, Zenon DEF Calm
<1>3. ~call'[p].undo /\ pc'[p] # "raise"
  <2>1. CASE Begin(p)
    <3>1. PICK up \in BOOLEAN, bin \in BOOLEAN :
            call' = [call EXCEPT ![p] = [up |-> up, bin |-> bin, undo |-> FALSE]]
      BY <2>1, Zenon DEF Begin
    <3>2. call'[p].undo = FALSE
      BY <3>1 DEF CallType
    <3>3. pc'[p] = "acquire"
      BY <2>1, MovesKeepCall, Zenon DEF Begin, Label
    <3> QED BY <3>2, <3>3, Zenon
  <2>2. CASE Leave(p)
    BY <1>1, <2>2, MovesKeepCall, Zenon DEF Leave, Label, Calm
  <2>3. CASE Counts(p)
    BY <1>1, <2>3, CountsEffects, Zenon DEF Calm
  <2>4. CASE Kept /\ pc'[p] \in Before \cup {"leave", "info", "deactivate", "cleanup"}
    BY <1>1, <2>4, Zenon DEF Calm, Kept, Before
  <2> QED BY <1>1, <2>1, <2>2, <2>3, <2>4, CalmCases, Zenon
<1> QED BY <1>2, <1>3, Zenon DEF Calm

LEMMA BinaryOwedOwn ==
  ASSUME TypeInv, PhaseInv, LeakInv, NEW p \in Proc, Acts(p), ~troubled', ~Kill(p), ~WriteFails(p)
  PROVE  BinaryOwed'
<1> USE DEF TypeInv
<1>0. Calm /\ BinaryOwed /\ Phase(p) /\ ~call[p].undo
  BY Zenon DEF LeakInv, PhaseInv, Calm
<1>1. ASSUME NEW q \in Proc, q # p PROVE Adds(q)' <=> Adds(q)
  BY <1>1, OthersKept, Zenon DEF Adds
<1>2. ASSUME Serving(p), NEW q \in Proc, q # p PROVE ~Adds(q)
  BY <1>2, Zenon DEF LockInv, Adds, Serving
<1>3. ASSUME binary' = binary, flag' = flag, Adds(p)' <=> Adds(p) PROVE BinaryOwed'
  BY <1>0, <1>1, <1>3, Zenon DEF BinaryOwed
<1>4. CASE Begin(p)
  <2>1. pc[p] = "idle" /\ pc'[p] = "acquire" /\ binary' = binary /\ flag' = flag
    BY <1>4, MovesKeepCall, Zenon DEF Begin, Label, file
  <2> QED BY <1>3, <2>1, Zenon DEF Adds
<1>5. CASE Leave(p)
  <2>1. pc[p] = "leave" /\ pc'[p] = "idle" /\ binary' = binary /\ call' = call
    BY <1>0, <1>5, MovesKeepCall, Zenon DEF Leave, Label, file, Calm
  <2>2. (flag' <=> flag \/ Adds(p)) /\ ~Adds(p)'
    <3>1. CASE call[p].up /\ call[p].bin
      BY <1>5, <2>1, <3>1, Zenon DEF Leave, Adds
    <3>2. CASE ~(call[p].up /\ call[p].bin)
      <4>1. flag' = flag
        BY <1>5, <3>2, Zenon DEF Leave, owed
      <4> QED BY <2>1, <3>2, <4>1, Zenon DEF Adds
    <3> QED BY <3>1, <3>2
  <2>3. Serving(p)
    BY <2>1, Zenon DEF Serving
  <2> QED BY <1>0, <1>1, <1>2, <2>1, <2>2, <2>3, Zenon DEF BinaryOwed
<1>6. CASE Counts(p) /\ pc[p] \in {"count", "write"}
  <2>1. /\ call' = call /\ ~Adds(p) /\ Serving(p)
        /\ flag' = IF call[p].bin /\ ~Up(p) /\ ~call[p].undo THEN FALSE ELSE flag
    BY <1>6, Zenon DEF Counts, Released, Adds, Serving
  <2>2. (Up(p) <=> call[p].up) /\ pc'[p] \in {"activate", "leave", "info"}
    BY <1>0, <1>6, UpWhich, CountsEffects, Zenon
  <2>3. CASE ~call[p].bin
    <3>1. binary' = binary /\ flag' = flag /\ ~Adds(p)'
      BY <1>6, <2>1, <2>3, CountsEffects, Zenon DEF Adds
    <3> QED BY <1>3, <2>1, <3>1, Zenon
  <2>4. CASE call[p].bin /\ call[p].up
    <3>1. Adds(p)' /\ binary' = 1
      BY <1>0, <1>6, <2>1, <2>2, <2>4, CountsEffects, Zenon DEF Adds
    <3> QED BY <3>1, Zenon DEF BinaryOwed
  <2>5. CASE call[p].bin /\ ~call[p].up
    <3>1. binary' = 0 /\ ~flag' /\ ~Adds(p)'
      BY <1>0, <1>6, <2>1, <2>2, <2>5, CountsEffects, Zenon DEF Adds
    <3>2. \A q \in Proc : ~Adds(q)'
      BY <1>1, <1>2, <2>1, <3>1, Zenon
    <3> QED BY <3>1, <3>2 DEF BinaryOwed
  <2> QED BY <2>3, <2>4, <2>5
<1>7. CASE Kept /\ pc[p] \in Before /\ pc'[p] \in Before
  BY <1>3, <1>7, Zenon DEF Kept, Adds, Before
<1>8. CASE Kept /\ pc[p] = "activate" /\ pc'[p] = "leave"
  BY <1>3, <1>8, Zenon DEF Kept, Adds
<1>9. CASE Kept /\ pc[p] \in {"info", "deactivate", "cleanup"}
  BY <1>0, <1>3, <1>9, Zenon DEF Kept, Adds, Phase
<1> QED BY <1>0, <1>4, <1>5, <1>6, <1>7, <1>8, <1>9, CalmCases, Zenon

LEMMA PositiveSum ==
  ASSUME NEW n \in Nat, NEW b \in {0, 1}, n + b > 0
  PROVE  n # 0 \/ b # 0
BY SMT

LEMMA DeviceIsOwn ==
  ASSUME TypeInv, FileType', PhaseInv, CountInv, LeakInv, NEW p \in Proc, Acts(p),
         ~troubled', ~Kill(p), ~WriteFails(p)
  PROVE  DeviceIs'
<1> USE DEF TypeInv
<1>0. Calm /\ DeviceIs /\ BinaryOwed /\ Phase(p) /\ ~call[p].undo
  BY Zenon DEF LeakInv, PhaseInv, Calm
<1>1. ASSUME NEW q \in Proc, q # p PROVE Works(q)' <=> Works(q)
  BY <1>1, OthersKept, Zenon DEF Works
<1>2. ASSUME lv' = lv, node' = node, ~Works(p),
             ~Works(p)' => (Counted' <=> Counted)
      PROVE  DeviceIs'
  BY <1>0, <1>1, <1>2, Zenon DEF DeviceIs
<1>3. CASE Begin(p) \/ Leave(p)
  <2>1. ~Works(p) /\ lv' = lv /\ node' = node /\ normal' = normal /\ binary' = binary
    BY <1>3, Zenon DEF Begin, Leave, Works, world, file
  <2> QED BY <1>2, <2>1, Zenon DEF Counted
<1>4. CASE Counts(p) /\ pc[p] \in {"count", "write"}
  <2>1. lv' = lv /\ node' = node /\ ~Works(p)
    BY <1>4, Zenon DEF Counts, world, Works
  <2>2. normal \in Nat /\ normal' \in Nat /\ binary \in {0, 1} /\ binary' \in {0, 1}
    BY Zenon DEF FileType
  <2>3. Up(p) <=> call[p].up
    BY <1>0, UpWhich, Zenon
  <2>4. CASE call[p].up
    <3>1. pc'[p] = "activate" \/ normal' + binary' # 1
      BY <1>0, <1>4, <2>4, CountsEffects, Zenon
    <3>2. CASE pc'[p] = "activate"
      BY <1>2, <2>1, <3>2, Zenon DEF Works
    <3>3. CASE normal' + binary' # 1 /\ call[p].bin
      <4>1. normal' = normal /\ binary' = 1
        BY <1>4, <2>3, <2>4, <3>3, CountsEffects, Zenon
      <4>2. normal # 0
        BY <2>2, <3>3, <4>1, SMT
      <4> QED BY <1>2, <2>1, <4>1, <4>2, Zenon DEF Counted
    <3>4. CASE normal' + binary' # 1 /\ ~call[p].bin
      <4>1. normal' = normal + 1 /\ binary' = binary
        BY <1>4, <2>3, <2>4, <3>4, CountsEffects, Zenon
      <4>2. normal' # 0 /\ (normal # 0 \/ binary # 0)
        BY <2>2, <3>4, <4>1, SMT
      <4> QED BY <1>2, <2>1, <4>2, Zenon DEF Counted
    <3> QED BY <3>1, <3>2, <3>3, <3>4
  <2>5. CASE ~call[p].up
    <3>1. \/ pc'[p] = "info"
          \/ normal' + binary' > 0
      BY <1>0, <1>4, <2>5, AdjustedType, AfterCountCases, MovesKeepCall, Zenon DEF Counts, Label
    <3>2. CASE pc'[p] = "info"
      BY <1>2, <2>1, <3>2, Zenon DEF Works
    <3>3. CASE normal' + binary' > 0
      <4>1. normal' # 0 \/ binary' # 0
        BY <2>2, <3>3, PositiveSum, Zenon
      <4>2. CASE call[p].bin
        <5>1. normal' = normal /\ binary' = 0
          BY <1>4, <2>3, <2>5, <4>2, CountsEffects, Zenon
        <5>2. normal # 0
          BY <4>1, <5>1
        <5> QED BY <1>2, <2>1, <4>1, <5>2, Zenon DEF Counted
      <4>3. CASE ~call[p].bin
        <5>1. Owes(p)
          BY <1>0, <1>4, <2>5, <4>3, Zenon DEF Owes
        <5>2. normal # 0
          BY <5>1, OwingCounts
        <5> QED BY <1>2, <2>1, <4>1, <5>2, Zenon DEF Counted
      <4> QED BY <4>2, <4>3
    <3> QED BY <3>1, <3>2, <3>3
  <2> QED BY <2>4, <2>5
<1>5. CASE Kept /\ pc[p] \in Before /\ node' = node
  <2>1. ~Works(p) /\ lv' = lv /\ normal' = normal /\ binary' = binary
    BY <1>5, Zenon DEF Works, Before, Kept
  <2> QED BY <1>2, <1>5, <2>1, Zenon DEF Counted
<1>6. CASE Kept /\ pc[p] = "activate" /\ lv = "made" /\ node'
  <2>1. normal # 0 \/ binary # 0
    <3>1. CASE call[p].bin
      <4>1. Adds(p)
        BY <1>0, <1>6, <3>1, Zenon DEF Adds, Phase
      <4>2. binary = 1
        BY <1>0, <4>1, Zenon DEF BinaryOwed
      <4> QED BY <4>2
    <3>2. CASE ~call[p].bin
      <4>1. Owes(p)
        BY <1>0, <1>6, <3>2, Zenon DEF Owes, Phase
      <4> QED BY <4>1, OwingCounts
    <3> QED BY <3>1, <3>2
  <2>2. lv' = "made" /\ Counted'
    BY <1>6, <2>1, Zenon DEF Kept, Counted
  <2> QED BY <1>6, <2>2 DEF DeviceIs
<1>7. CASE Kept /\ pc[p] \in {"info", "deactivate", "cleanup"}
  <2>1. lv' = lv /\ normal' = 0 /\ binary' = 0
    BY <1>0, <1>7, Zenon DEF Kept, Phase, Emptied
  <2>2. ~Counted'
    BY <2>1 DEF Counted
  <2>3. CASE pc'[p] \in {"info", "deactivate", "cleanup"} /\ (node' => node)
    <3>1. Works(p)'
      BY <2>3, Zenon DEF Works
    <3> QED BY <1>0, <2>1, <2>3, <3>1, Zenon DEF DeviceIs
  <2>4. CASE ~node'
    BY <2>2, <2>4, Zenon DEF DeviceIs
  <2>5. CASE lv # "made" /\ node' = node
    <3>1. lv # "removed" => lv = "none"
      BY <2>5, Zenon DEF CallType
    <3> QED BY <1>0, <2>1, <2>2, <2>5, <3>1, Zenon DEF DeviceIs
  <2>6. \/ pc'[p] \in {"info", "deactivate", "cleanup"} /\ (node' => node)
        \/ ~node'
        \/ lv # "made" /\ node' = node
    <3>1. pc[p] \notin Before \cup {"activate", "count", "write"}
      BY <1>7 DEF Before
    <3>2. ~Begin(p) /\ ~Leave(p)
      BY <1>7, Zenon DEF Begin, Leave
    <3> QED BY <1>0, <3>1, <3>2, CalmCases, Zenon
  <2> QED BY <2>3, <2>4, <2>5, <2>6
<1> QED BY <1>0, <1>3, <1>4, <1>5, <1>6, <1>7, CalmCases, Zenon

LEMMA LeakStep ==
  ASSUME IInv, IInv', [Next]_vars, ~troubled => LeakInv, ~troubled'
  PROVE  LeakInv'
<1> USE DEF IInv
<1>1. ~troubled /\ \A p \in Proc : ~Kill(p) /\ ~WriteFails(p)
  BY TroubleStays
<1>2. LeakInv /\ FileType' /\ NumType'
  BY <1>1, Zenon DEF TypeInv
<1>3. ASSUME NEW p \in Proc, Acts(p) PROVE LeakInv'
  BY <1>1, <1>2, <1>3, CalmOwn, SurplusStep, BinaryOwedOwn, DeviceIsOwn, Zenon DEF LeakInv
<1>4. CASE Others \/ UNCHANGED vars
  <2>1. /\ pc' = pc /\ call' = call /\ held' = held /\ flag' = flag
        /\ normal' = normal /\ binary' = binary
    BY <1>4, Zenon DEF Others, vars, owed, file
  <2>2. Calm' /\ BinaryOwed'
    BY <1>2, <2>1, Zenon DEF LeakInv, Calm, BinaryOwed, Adds
  <2>3. NoSurplus'
    <3>1. Owing' = Owing
      BY <2>1, Zenon DEF Owing, Owes
    <3> QED BY <1>2, <2>1, <3>1, Zenon DEF LeakInv, NoSurplus
  <2>4. (Counted' <=> Counted) /\ \A p \in Proc : Works(p)' <=> Works(p)
    BY <2>1, Zenon DEF Counted, Works
  <2>5. \/ lv' = "removed"
        \/ lv = "none" /\ lv' = "made" /\ node' = node
        \/ lv' = lv /\ node' = node
    BY <1>4, Zenon DEF Others, Create, Open, Close, Remove, vars, world
  <2>6. DeviceIs'
    <3>1. CASE lv' = "removed"
      BY <3>1 DEF DeviceIs
    <3>2. CASE lv = "none" /\ lv' = "made" /\ node' = node
      <4>1. lv # "removed" /\ lv' # "none"
        BY <3>2
      <4> QED BY <1>2, <2>4, <3>2, <4>1, Zenon DEF LeakInv, DeviceIs
    <3>3. CASE lv' = lv /\ node' = node
      BY <1>2, <2>4, <3>3, Zenon DEF LeakInv, DeviceIs
    <3> QED BY <2>5, <3>1, <3>2, <3>3
  <2> QED BY <2>2, <2>3, <2>6, Zenon DEF LeakInv
<1> QED BY <1>3, <1>4, Zenon DEF Next, Acts

\* When calls all returned without an error, the count is what callers hold and
\* the device is there exactly if that is not nothing: LeakInv with nobody on
\* the way.
THEOREM NothingLeaksCorrect == Spec => []NothingLeaks
<1> DEFINE Inv == IInv /\ (~troubled => LeakInv)
<1>1. Init => (~troubled => LeakInv)
  <2> SUFFICES ASSUME Init PROVE LeakInv
    OBVIOUS
  <2>1. /\ normal = 0 /\ binary = 0 /\ held = 0 /\ flag = FALSE /\ node = FALSE
        /\ \A p \in Proc : pc[p] = "idle" /\ ~call[p].undo
    BY DEF Init
  <2>2. Calm /\ BinaryOwed /\ DeviceIs
    BY <2>1 DEF Calm, BinaryOwed, DeviceIs, Adds, Counted
  <2>3. Owing = {}
    BY <2>1 DEF Owing, Owes
  <2>4. NoSurplus
    BY <2>1, <2>3, FS_EmptySet DEF NoSurplus
  <2> QED BY <2>2, <2>4 DEF LeakInv
<1>2. ASSUME IInv, IInv', [Next]_vars, ~troubled => LeakInv PROVE (~troubled => LeakInv)'
  BY <1>2, LeakStep, Zenon
<1>3. IInv /\ (~troubled => LeakInv) => NothingLeaks
  <2> SUFFICES ASSUME IInv, LeakInv, lv # "removed", \A p \in Proc : pc[p] = "idle"
               PROVE  /\ normal = held
                      /\ binary = 1 <=> flag
                      /\ node <=> normal + binary > 0
    BY DEF NothingLeaks
  <2>1. normal \in Nat /\ binary \in {0, 1} /\ held \in Nat
    BY Zenon DEF IInv, TypeInv, FileType, NumType
  <2>2. Owing = {}
    BY DEF Owing, Owes
  <2>3. Cardinality(Owing) = 0
    BY <2>2, FS_EmptySet
  <2>4. held + 0 =< normal /\ normal =< held + 0
    BY <2>3, Zenon DEF IInv, CountInv, LeakInv, NoSurplus
  <2>5. normal = held
    BY <2>1, <2>4, SMT
  <2>6. binary = 1 <=> flag
    BY Zenon DEF LeakInv, BinaryOwed, Adds
  <2>7. node <=> Counted
    BY Zenon DEF LeakInv, DeviceIs, Works
  <2>8. normal + binary > 0 <=> Counted
    BY <2>1, SMT DEF Counted
  <2> QED BY <2>5, <2>6, <2>7, <2>8, Zenon
<1> QED BY <1>1, <1>2, <1>3, Invariance, PTL DEF Spec

----------------------------------------------------------------------------
\* The files of RefCounter.

\* What get and put set is a count, and the one that Counters promises.
LEMMA ZeroIsNum == Zero \in Num
BY DEF Zero, Num

LEMMA SumIsPromised ==
  ASSUME NEW c \in Op, NEW n \in Num
  PROVE  /\ Summed(c, n) \in Num
         /\ c.kind \in {"get", "put"} => Summed(c, n) = Promise!Counted(c, n)
<1>1. n.normal \in Nat /\ n.binary \in {0, 1} /\ n = [normal |-> n.normal, binary |-> n.binary]
  BY DEF Num
<1>2. c.kind \in {"get", "put", "reset", "check", "set"} /\ c.bin \in BOOLEAN
  BY DEF Op
<1>3. CASE c.kind = "get"
  <2>1. CASE c.bin
    <3>1. Summed(c, n) = [normal |-> n.normal, binary |-> 1]
      BY <1>1, <1>3, <2>1 DEF Summed, Delta, Cut
    <3>2. Promise!Counted(c, n) = [normal |-> n.normal, binary |-> 1]
      BY <1>1, <1>3, <2>1 DEF Promise!Counted
    <3> QED BY <1>1, <3>1, <3>2 DEF Num
  <2>2. CASE ~c.bin
    <3>1. Summed(c, n) = [normal |-> n.normal + 1, binary |-> n.binary]
      BY <1>1, <1>3, <2>2 DEF Summed, Delta, Cut
    <3>2. Promise!Counted(c, n) = [normal |-> n.normal + 1, binary |-> n.binary]
      BY <1>1, <1>3, <2>2 DEF Promise!Counted
    <3> QED BY <1>1, <3>1, <3>2 DEF Num
  <2> QED BY <2>1, <2>2
<1>4. CASE c.kind = "put"
  <2>1. CASE c.bin
    <3>1. Summed(c, n) = [normal |-> n.normal, binary |-> 0]
      BY <1>1, <1>4, <2>1 DEF Summed, Delta, Cut
    <3>2. Promise!Counted(c, n) = [normal |-> n.normal, binary |-> 0]
      BY <1>1, <1>4, <2>1 DEF Promise!Counted
    <3> QED BY <1>1, <3>1, <3>2 DEF Num
  <2>2. CASE ~c.bin
    <3> DEFINE less == IF n.normal > 0 THEN n.normal - 1 ELSE 0
    <3>1. Summed(c, n) = [normal |-> less, binary |-> n.binary]
      BY <1>1, <1>4, <2>2 DEF Summed, Delta, Cut
    <3>2. Promise!Counted(c, n) = [normal |-> less, binary |-> n.binary]
      BY <1>1, <1>4, <2>2 DEF Promise!Counted
    <3>3. less \in Nat
      BY <1>1
    <3> QED BY <1>1, <3>1, <3>2, <3>3 DEF Num
  <2> QED BY <2>1, <2>2
<1>5. CASE c.kind \notin {"get", "put"}
  BY <1>1, <1>5 DEF Summed, Delta, Cut, Num
<1> QED BY <1>3, <1>4, <1>5

\* The call of set gives a count.
LEMMA OpParts ==
  ASSUME NEW c \in Op
  PROVE  c.kind \in {"get", "put", "set", "reset", "check"} /\ c.bin \in BOOLEAN /\ c.num \in Num
BY ValuesAssumption, ZeroIsNum DEF Op

\* CountsTypeOK in parts.
FilesType == /\ dir \in BOOLEAN /\ there \in [Obj -> {"none", "torn", "full"}] /\ count \in [Obj -> Num]
             /\ ops \in Nat /\ accidents \in Nat
CallsType == /\ at \in [Obj -> Places] /\ op \in [Obj -> Op] /\ goal \in [Obj -> Num]
             /\ was \in [Obj -> [num : Num, torn : BOOLEAN]]

LEMMA CountsTypeParts == CountsTypeOK <=> FilesType /\ CallsType
BY DEF CountsTypeOK, FilesType, CallsType

\* The places a call goes on to.
LEMMA NextPlace ==
  ASSUME NEW n PROVE ToSet(n) \in {"unlink", "open"}
BY DEF ToSet

LEMMA GotType ==
  ASSUME CallsType, NEW o \in Obj, NEW n \in Num, Got(o, n)
  PROVE  at' \in [Obj -> Places] /\ goal' \in [Obj -> Num]
<1> DEFINE m == IF op[o].kind = "check" THEN n ELSE Summed(op[o], n)
<1>1. m \in Num
  BY SumIsPromised DEF CallsType
<1>2. ToSet(m) \in Places
  BY NextPlace DEF Places
<1>3. "return" \in Places
  BY DEF Places
<1> HIDE DEF m
<1>4. goal' = [goal EXCEPT ![o] = m]
  BY Zenon DEF Got, m
<1>5. at' = [at EXCEPT ![o] = IF op[o].kind = "check" THEN "return" ELSE ToSet(m)]
  BY Zenon DEF Got, m
<1> QED BY <1>1, <1>2, <1>3, <1>4, <1>5, Zenon DEF CallsType

LEMMA ContentType ==
  ASSUME FilesType, NEW o \in Obj
  PROVE  Content(o) \in [num : Num, torn : BOOLEAN]
<1>1. (IF there[o] = "full" THEN count[o] ELSE Zero) \in Num
  BY ZeroIsNum DEF FilesType
<1> QED BY <1>1 DEF Content

LEMMA CountsTypeStep ==
  ASSUME FilesType, CallsType, [CountsNext]_countVars
  PROVE  FilesType' /\ CallsType'
<1> USE OpsAssumption
<1>1. ASSUME NEW o \in Obj, BeginCount(o) PROVE FilesType' /\ CallsType'
  <2>1. PICK c \in Op : 
          /\ op' = [op EXCEPT ![o] = c]
          /\ LET n == IF c.kind = "set" THEN c.num ELSE Zero
             IN /\ goal' = [goal EXCEPT ![o] = n]
                /\ at' = [at EXCEPT ![o] = IF c.kind \in {"set", "reset"} THEN ToSet(n) ELSE "look"]
    BY <1>1, Zenon DEF BeginCount
  <2> DEFINE n == IF c.kind = "set" THEN c.num ELSE Zero
             l == IF c.kind \in {"set", "reset"} THEN ToSet(n) ELSE "look"
  <2>2. n \in Num
    BY OpParts, ZeroIsNum
  <2>3. l \in Places
    BY NextPlace DEF Places
  <2>4. UNCHANGED <<dir, there, count, was, accidents>> /\ ops' = ops + 1
    BY <1>1, Zenon DEF BeginCount, onDisk
  <2>5. goal' = [goal EXCEPT ![o] = n] /\ at' = [at EXCEPT ![o] = l]
    BY <2>1
  <2> HIDE DEF n, l
  <2>6. FilesType'
    BY <2>4 DEF FilesType
  <2>7. op' \in [Obj -> Op]
    BY <2>1, Zenon DEF CallsType
  <2>8. goal' \in [Obj -> Num]
    BY <2>2, <2>5, Zenon DEF CallsType
  <2>9. at' \in [Obj -> Places]
    BY <2>3, <2>5, Zenon DEF CallsType
  <2>10. CallsType'
    BY <2>4, <2>7, <2>8, <2>9 DEF CallsType
  <2> QED BY <2>6, <2>10
<1>2. ASSUME NEW o \in Obj, Look(o) \/ ReadCount(o) PROVE FilesType' /\ CallsType'
  <2>1. UNCHANGED <<dir, there, count, op, was, ops, accidents>>
    BY <1>2, Zenon DEF Look, ReadCount, onDisk, tallies
  <2>2. \/ Got(o, Zero) \/ Got(o, count[o])
        \/ (\E l \in Places : at' = [at EXCEPT ![o] = l]) /\ goal' = goal
    BY <1>2 DEF Look, ReadCount, Places
  <2>3. count[o] \in Num
    BY DEF FilesType
  <2>4. at' \in [Obj -> Places] /\ goal' \in [Obj -> Num]
    <3>1. CASE Got(o, Zero) \/ Got(o, count[o])
      BY <2>3, <3>1, ZeroIsNum, GotType
    <3>2. CASE (\E l \in Places : at' = [at EXCEPT ![o] = l]) /\ goal' = goal
      BY <3>2, Zenon DEF CallsType
    <3> QED BY <2>2, <3>1, <3>2
  <2> QED BY <2>1, <2>4 DEF FilesType, CallsType
<1>3. ASSUME NEW o \in Obj, OpenFile(o) PROVE FilesType' /\ CallsType'
  <2>1. UNCHANGED <<dir, count, op, goal, ops, accidents>>
    BY <1>3, Zenon DEF OpenFile, tallies
  <2>2. \/ at' = [at EXCEPT ![o] = "write"] /\ there' = [there EXCEPT ![o] = "torn"] /\ was' = [was EXCEPT ![o] = Content(o)]
        \/ at' = [at EXCEPT ![o] = "makedirs"] /\ UNCHANGED <<there, was>>
    BY <1>3, Zenon DEF OpenFile
  <2>3. at' \in [Obj -> Places]
    BY <2>2 DEF CallsType, Places
  <2>4. there' \in [Obj -> {"none", "torn", "full"}]
    BY <2>2 DEF FilesType
  <2>5. was' \in [Obj -> [num : Num, torn : BOOLEAN]]
    <3>1. Content(o) \in [num : Num, torn : BOOLEAN]
      BY ContentType
    <3>2. CASE was' = [was EXCEPT ![o] = Content(o)]
      BY <3>1, <3>2, Zenon DEF CallsType
    <3>3. CASE was' = was
      BY <3>3, Zenon DEF CallsType
    <3> QED BY <2>2, <3>2, <3>3
  <2> QED BY <2>1, <2>3, <2>4, <2>5 DEF FilesType, CallsType
<1>4. ASSUME NEW o \in Obj,
             \/ CreateNamespace(o) \/ Unlink(o) \/ RmdirNamespace(o) \/ EndCount(o)
             \/ WriteCountFails(o) \/ KillCaller(o)
      PROVE  FilesType' /\ CallsType'
  <2>1. UNCHANGED <<count, op, goal, was, ops>>
    BY <1>4, Zenon DEF CreateNamespace, Unlink, RmdirNamespace, EndCount, WriteCountFails, KillCaller, onDisk, tallies
  <2>2. \E l \in Places : at' = [at EXCEPT ![o] = l]
    BY <1>4 DEF CreateNamespace, Unlink, RmdirNamespace, EndCount, WriteCountFails, KillCaller, Move, Places
  <2>3. at' \in [Obj -> Places]
    BY <2>2, Zenon DEF CallsType
  <2>4. dir' \in BOOLEAN
    BY <1>4, Zenon DEF CreateNamespace, Unlink, RmdirNamespace, EndCount, WriteCountFails, KillCaller, onDisk, tallies, FilesType
  <2>5. there' = there \/ there' = [there EXCEPT ![o] = "none"]
    BY <1>4, Zenon DEF CreateNamespace, Unlink, RmdirNamespace, EndCount, WriteCountFails, KillCaller, onDisk, tallies
  <2>6. there' \in [Obj -> {"none", "torn", "full"}]
    BY <2>5 DEF FilesType
  <2>7. accidents' = accidents \/ accidents' = accidents + 1
    BY <1>4, Zenon DEF CreateNamespace, Unlink, RmdirNamespace, EndCount, WriteCountFails, KillCaller, onDisk, tallies
  <2>8. FilesType'
    BY <2>1, <2>4, <2>6, <2>7 DEF FilesType
  <2> QED BY <2>1, <2>3, <2>8 DEF CallsType
<1>5. ASSUME NEW o \in Obj, WriteCount(o) PROVE FilesType' /\ CallsType'
  <2>1. /\ UNCHANGED <<dir, op, goal, was, ops, accidents>> /\ at' = [at EXCEPT ![o] = "return"]
        /\ there' = [there EXCEPT ![o] = "full"] /\ count' = [count EXCEPT ![o] = goal[o]]
    BY <1>5, Zenon DEF WriteCount, Move, tallies
  <2>2. goal[o] \in Num
    BY DEF CallsType
  <2>3. count' \in [Obj -> Num]
    BY <2>1, <2>2, Zenon DEF FilesType
  <2>4. at' \in [Obj -> Places]
    BY <2>1 DEF CallsType, Places
  <2>5. there' \in [Obj -> {"none", "torn", "full"}]
    BY <2>1 DEF FilesType
  <2> QED BY <2>1, <2>3, <2>4, <2>5 DEF FilesType, CallsType
<1>6. CASE UNCHANGED countVars
  BY <1>6 DEF countVars, onDisk, tallies, FilesType, CallsType
<1> QED
  BY <1>1, <1>2, <1>3, <1>4, <1>5, <1>6 DEF CountsNext, CountStep, CountsDone

----------------------------------------------------------------------------
\* The call on o, started over the content c, is to make the count goal[o],
\* and Counters lets it.
Fits(o, c) == (c.torn => Promise!Blind(op[o])) /\ goal[o] = Promise!Counted(op[o], c.num)

\* A call that changes the count knows what it is to be, and a call that
\* reads it is none of those that do not look.
Decided(o) ==
  /\ at[o] \in {"look", "read"} => op[o].kind \in {"get", "put", "check"}
  /\ at[o] = "read" => there[o] # "none"
  /\ at[o] \in {"open", "makedirs", "unlink"} => Fits(o, Content(o))
  /\ at[o] = "unlink" => goal[o] = Zero
  /\ at[o] = "write" => there[o] = "torn" /\ Fits(o, was[o])

\* While nothing went wrong, somebody is about to remove a directory without
\* files or to fill it.
Deserted == \A o \in Obj : there[o] = "none" /\ at[o] \notin {"open", "rmdir"}
DirInv ==
  /\ \A o \in Obj : there[o] # "none" => dir
  /\ accidents = 0 /\ dir => ~Deserted
  /\ accidents = 0 => \A o \in Obj : there[o] = "torn" => at[o] = "write"
CountsInv == FilesType /\ CallsType /\ (\A o \in Obj : Decided(o)) /\ DirInv

\* A call on o leaves the files and the calls of the other objects alone.
Only(o) ==
  \A q \in Obj \ {o} : /\ there'[q] = there[q] /\ count'[q] = count[q] /\ at'[q] = at[q]
                       /\ op'[q] = op[q] /\ goal'[q] = goal[q] /\ was'[q] = was[q]

CountMove(o) == BeginCount(o) \/ CountStep(o) \/ WriteCountFails(o) \/ KillCaller(o)

LEMMA OneAtATime ==
  ASSUME FilesType, CallsType, NEW o \in Obj, CountMove(o)
  PROVE  Only(o)
<1> USE DEF Only, FilesType, CallsType
<1>1. CASE BeginCount(o)
  BY <1>1, Zenon DEF BeginCount, onDisk
<1>2. CASE Look(o) \/ ReadCount(o)
  <2>1. at'= [at EXCEPT ![o] = at'[o]] /\ goal' = [goal EXCEPT ![o] = goal'[o]]
    BY <1>2 DEF Look, ReadCount, Got
  <2> QED BY <1>2, <2>1, Zenon DEF Look, ReadCount, onDisk
<1>3. CASE OpenFile(o)
  <2>1. UNCHANGED <<count, op, goal>>
    BY <1>3, Zenon DEF OpenFile
  <2>2. \E l : at' = [at EXCEPT ![o] = l]
    BY <1>3, Zenon DEF OpenFile
  <2>3. there' = there \/ there' = [there EXCEPT ![o] = "torn"]
    BY <1>3, Zenon DEF OpenFile
  <2>4. was' = was \/ was' = [was EXCEPT ![o] = Content(o)]
    BY <1>3, Zenon DEF OpenFile
  <2> QED BY <2>1, <2>2, <2>3, <2>4, Zenon
<1>4. CASE CreateNamespace(o) \/ WriteCount(o) \/ Unlink(o)
  BY <1>4, Zenon DEF CreateNamespace, WriteCount, Unlink, Move
<1>5. CASE RmdirNamespace(o) \/ EndCount(o) \/ WriteCountFails(o) \/ KillCaller(o)
  BY <1>5, Zenon DEF RmdirNamespace, EndCount, WriteCountFails, KillCaller, Move, onDisk
<1> QED BY <1>1, <1>2, <1>3, <1>4, <1>5 DEF CountMove, CountStep

\* What the steps do to the object itself.
LEMMA BeginMoves ==
  ASSUME CallsType, NEW o \in Obj, BeginCount(o)
  PROVE  /\ there' = there /\ count' = count /\ dir' = dir /\ accidents' = accidents /\ was' = was
         /\ at[o] = "idle" /\ at'[o] \in {"look", "open", "unlink"}
         /\ at'[o] = "look" => op'[o].kind \in {"get", "put", "check"}
         /\ at'[o] # "look" => /\ op'[o].kind \in {"set", "reset"}
                               /\ goal'[o] = Promise!Counted(op'[o], Zero)
         /\ at'[o] = "unlink" => goal'[o] = Zero
         /\ op'[o] \in Op
<1>1. PICK c \in Op :
        /\ op' = [op EXCEPT ![o] = c]
        /\ LET n == IF c.kind = "set" THEN c.num ELSE Zero
           IN /\ goal' = [goal EXCEPT ![o] = n]
              /\ at' = [at EXCEPT ![o] = IF c.kind \in {"set", "reset"} THEN ToSet(n) ELSE "look"]
  BY Zenon DEF BeginCount
<1>2. /\ op'[o] = c /\ goal'[o] = (IF c.kind = "set" THEN c.num ELSE Zero)
      /\ at'[o] = IF c.kind \in {"set", "reset"} THEN ToSet(goal'[o]) ELSE "look"
  BY <1>1 DEF CallsType
<1>3. c.kind \in {"get", "put", "set", "reset", "check"}
  BY OpParts
<1>4. c.kind \in {"set", "reset"} => goal'[o] = Promise!Counted(c, Zero)
  BY <1>2 DEF Promise!Counted, Promise!Zero, Zero
<1>5. UNCHANGED <<dir, there, count, was, accidents>> /\ at[o] = "idle"
  BY Zenon DEF BeginCount, onDisk
<1> QED BY <1>2, <1>3, <1>4, <1>5 DEF ToSet

\* Counting over what was read.
LEMMA GotMoves ==
  ASSUME CallsType, NEW o \in Obj, NEW n \in Num, Got(o, n), op[o].kind \in {"get", "put", "check"}
  PROVE  /\ goal'[o] = Promise!Counted(op[o], n)
         /\ at'[o] = IF op[o].kind = "check" THEN "return" ELSE ToSet(goal'[o])
         /\ op[o].kind = "check" => goal'[o] = n
<1>1. op[o] \in Op
  BY DEF CallsType
<1>2. /\ goal'[o] = IF op[o].kind = "check" THEN n ELSE Summed(op[o], n)
      /\ at'[o] = IF op[o].kind = "check" THEN "return" ELSE ToSet(goal'[o])
  BY DEF CallsType, Got
<1>3. op[o].kind = "check" => Promise!Counted(op[o], n) = n
  BY DEF Promise!Counted
<1> QED BY <1>1, <1>2, <1>3, SumIsPromised

LEMMA DecidedStep ==
  ASSUME FilesType, CallsType, CallsType', \A o \in Obj : Decided(o), NEW o \in Obj, CountMove(o)
  PROVE  Decided(o)'
<1>1. Decided(o)
  OBVIOUS
<1>2. ASSUME at'[o] \in {"idle", "return", "rmdir", "raise"} PROVE Decided(o)'
  BY <1>2 DEF Decided
<1>3. CASE BeginCount(o)
  <2>1. /\ there' = there /\ was' = was /\ at[o] = "idle" /\ at'[o] \in {"look", "open", "unlink"}
        /\ at'[o] = "look" => op'[o].kind \in {"get", "put", "check"}
        /\ at'[o] # "look" => op'[o].kind \in {"set", "reset"} /\ goal'[o] = Promise!Counted(op'[o], Zero)
        /\ at'[o] = "unlink" => goal'[o] = Zero
    BY <1>3, BeginMoves
  <2>2. op'[o].kind \in {"set", "reset"} => Promise!Counted(op'[o], Zero) = Promise!Counted(op'[o], Content(o)'.num)
    BY DEF Promise!Counted
  <2>3. op'[o].kind \in {"set", "reset"} => Promise!Blind(op'[o])
    BY DEF Promise!Blind
  <2> QED BY <2>1, <2>2, <2>3 DEF Decided, Fits
<1>4. CASE Look(o) \/ ReadCount(o)
  <2>1. op' = op /\ there' = there /\ count' = count /\ at[o] \in {"look", "read"}
    BY <1>4, Zenon DEF Look, ReadCount, onDisk
  <2>2. \/ at'[o] \in {"read", "raise"} /\ (at'[o] = "read" => there[o] # "none")
        \/ there[o] = "none" /\ Got(o, Zero)
        \/ there[o] = "full" /\ Got(o, count[o])
    BY <1>4 DEF Look, ReadCount, CallsType
  <2>3. Content(o)' = Content(o) /\ op[o].kind \in {"get", "put", "check"}
    BY <1>1, <2>1 DEF Decided, Content
  <2>4. CASE at'[o] \in {"read", "raise"} /\ (at'[o] = "read" => there[o] # "none")
    BY <2>1, <2>3, <2>4 DEF Decided
  <2>5. ASSUME NEW n \in Num, Got(o, n), Content(o) = [num |-> n, torn |-> FALSE] PROVE Decided(o)'
    <3>1. /\ goal'[o] = Promise!Counted(op[o], n) /\ at'[o] \in {"return", "open", "unlink"}
          /\ at'[o] = "unlink" => goal'[o] = Zero
      BY <2>3, <2>5, GotMoves DEF ToSet
    <3> QED BY <2>1, <2>3, <2>5, <3>1 DEF Decided, Fits
  <2>6. count[o] \in Num
    BY DEF FilesType
  <2>7. /\ there[o] = "none" => Content(o) = [num |-> Zero, torn |-> FALSE]
        /\ there[o] = "full" => Content(o) = [num |-> count[o], torn |-> FALSE]
    BY DEF Content
  <2> QED BY <2>2, <2>4, <2>5, <2>6, <2>7, ZeroIsNum
<1>5. CASE OpenFile(o)
  <2>1. /\ op' = op /\ goal' = goal /\ count' = count /\ at[o] = "open"
        /\ \/ at'[o] = "write" /\ there'[o] = "torn" /\ was'[o] = Content(o)
           \/ at'[o] = "makedirs" /\ there' = there
    BY <1>5 DEF OpenFile, FilesType, CallsType
  <2>2. Fits(o, Content(o))
    BY <1>1, <2>1 DEF Decided
  <2>3. at'[o] = "makedirs" => Content(o)' = Content(o)
    BY <2>1 DEF Content
  <2> QED BY <2>1, <2>2, <2>3 DEF Decided, Fits
<1>6. CASE CreateNamespace(o)
  <2>1. /\ op' = op /\ goal' = goal /\ count' = count /\ there' = there 
        /\ at[o] = "makedirs" /\ at'[o] = "open"
    BY <1>6 DEF CreateNamespace, Move, CallsType
  <2>2. Fits(o, Content(o)) /\ Content(o)' = Content(o)
    BY <1>1, <2>1 DEF Decided, Content
  <2> QED BY <2>1, <2>2 DEF Decided, Fits
<1>7. CASE WriteCount(o) \/ Unlink(o) \/ RmdirNamespace(o) \/ EndCount(o) \/ WriteCountFails(o) \/ KillCaller(o)
  <2>1. at'[o] \in {"idle", "return", "rmdir", "raise"}
    BY <1>7 DEF WriteCount, Unlink, RmdirNamespace, EndCount, WriteCountFails, KillCaller, Move, CallsType
  <2> QED BY <1>2, <2>1
<1> QED BY <1>3, <1>4, <1>5, <1>6, <1>7 DEF CountMove, CountStep

LEMMA OthersDecided ==
  ASSUME FilesType, CallsType, NEW o \in Obj, NEW q \in Obj \ {o}, Only(o), Decided(q)
  PROVE  Decided(q)'
<1>1. /\ there'[q] = there[q] /\ count'[q] = count[q] /\ at'[q] = at[q]
      /\ op'[q] = op[q] /\ goal'[q] = goal[q] /\ was'[q] = was[q]
  BY DEF Only
<1>2. Content(q)' = Content(q)
  BY <1>1 DEF Content
<1> QED BY <1>1, <1>2 DEF Decided, Fits

LEMMA DirStep ==
  ASSUME FilesType, CallsType, \A o \in Obj : Decided(o), DirInv, NEW o \in Obj, CountMove(o)
  PROVE  DirInv'
<1> USE OpsAssumption
<1>1. Only(o)
  BY OneAtATime
<1>2. \A q \in Obj \ {o} : there'[q] = there[q] /\ at'[q] = at[q]
  BY <1>1 DEF Only
<1>3. ASSUME there' = there, dir' = dir, accidents' = accidents, at[o] \notin {"open", "write", "rmdir"}
      PROVE  DirInv'
  BY <1>2, <1>3 DEF DirInv, Deserted
<1>4. CASE BeginCount(o)
  BY <1>3, <1>4, BeginMoves
<1>5. CASE Look(o) \/ ReadCount(o) \/ EndCount(o)
  BY <1>3, <1>5 DEF Look, ReadCount, EndCount, Move, onDisk, tallies
<1>6. CASE OpenFile(o)
  <2>1. /\ dir' = dir /\ accidents' = accidents
        /\ \/ dir /\ at'[o] = "write" /\ there'[o] = "torn"
           \/ ~dir /\ there' = there
    BY <1>6 DEF OpenFile, tallies, FilesType, CallsType
  <2> QED BY <1>2, <2>1 DEF DirInv, Deserted
<1>7. CASE CreateNamespace(o)
  <2>1. dir' /\ accidents' = accidents /\ there' = there /\ at[o] = "makedirs" /\ at'[o] = "open"
    BY <1>7 DEF CreateNamespace, Move, tallies, CallsType
  <2> QED BY <1>2, <2>1 DEF DirInv, Deserted
<1>8. CASE WriteCount(o)
  <2>1. dir' = dir /\ accidents' = accidents /\ there'[o] = "full" /\ at[o] = "write"
    BY <1>8 DEF WriteCount, Move, tallies, FilesType
  <2>2. there[o] = "torn"
    BY <2>1 DEF Decided
  <2> QED BY <1>2, <2>1, <2>2 DEF DirInv, Deserted
<1>9. CASE Unlink(o)
  <2>1. /\ dir' = dir /\ accidents' = accidents /\ there'[o] = "none" /\ at[o] = "unlink"
        /\ there[o] # "none" => at'[o] = "rmdir"
    BY <1>9 DEF Unlink, tallies, FilesType, CallsType
  <2> QED BY <1>2, <2>1 DEF DirInv, Deserted
<1>10. CASE RmdirNamespace(o)
  <2>1. /\ dir' = (dir /\ \E q \in Obj : there[q] # "none") /\ there' = there /\ accidents' = accidents
        /\ at[o] = "rmdir"
    BY <1>10 DEF RmdirNamespace, Move, tallies
  <2> QED BY <1>2, <2>1 DEF DirInv, Deserted
<1>11. CASE WriteCountFails(o) \/ KillCaller(o)
  <2>1. accidents' = accidents + 1 /\ there' = there /\ dir' = dir
    BY <1>11, Zenon DEF WriteCountFails, KillCaller, onDisk
  <2>2. accidents' # 0
    BY <2>1 DEF FilesType
  <2> QED BY <2>1, <2>2 DEF DirInv
<1> QED BY <1>4, <1>5, <1>6, <1>7, <1>8, <1>9, <1>10, <1>11 DEF CountMove, CountStep

LEMMA CountsInvariance == CountsSpec => []CountsInv
<1>1. CountsInit => CountsInv
  <2> SUFFICES ASSUME CountsInit PROVE CountsInv
    OBVIOUS
  <2> USE ZeroIsNum, OpsAssumption
  <2>1. FilesType
    BY DEF CountsInit, FilesType
  <2>2. Check \in Op /\ [num |-> Zero, torn |-> FALSE] \in [num : Num, torn : BOOLEAN]
    BY DEF Check, Op
  <2>3. CallsType
    BY <2>2 DEF CountsInit, CallsType, Places
  <2>4. (\A o \in Obj : Decided(o)) /\ DirInv
    BY DEF CountsInit, Decided, DirInv
  <2> QED BY <2>1, <2>3, <2>4 DEF CountsInv
<1>2. CountsInv /\ [CountsNext]_countVars => CountsInv'
  <2> SUFFICES ASSUME CountsInv, [CountsNext]_countVars PROVE CountsInv'
    OBVIOUS
  <2> USE DEF CountsInv
  <2>1. FilesType' /\ CallsType'
    BY CountsTypeStep
  <2>2. ASSUME NEW o \in Obj, CountMove(o) PROVE CountsInv'
    <3>1. ASSUME NEW q \in Obj PROVE Decided(q)'
      BY <2>1, <2>2, OneAtATime, DecidedStep, OthersDecided
    <3>2. DirInv'
      BY <2>2, DirStep
    <3> QED BY <2>1, <3>1, <3>2
  <2>3. CASE UNCHANGED countVars
    BY <2>1, <2>3 DEF countVars, onDisk, tallies, Decided, DirInv, Fits, Content, Deserted
  <2> QED BY <2>2, <2>3 DEF CountsNext, CountsDone, CountMove
<1> QED BY <1>1, <1>2, PTL DEF CountsSpec

\* Counts and calls keep their types, for any number of objects and calls.
THEOREM CountsTypeCorrect == CountsSpec => []CountsTypeOK
<1>1. CountsInv => CountsTypeOK
  BY CountsTypeParts DEF CountsInv
<1> QED BY <1>1, CountsInvariance, PTL

\* However many objects come and go, a file has its directory, and a directory
\* without a file does not stay behind calls that none was killed in.
THEOREM NamespaceCorrect == CountsSpec => []NamespaceIsItsFiles
<1>1. CountsInv => NamespaceIsItsFiles
  <2> SUFFICES ASSUME CountsInv PROVE NamespaceIsItsFiles
    OBVIOUS
  <2>1. ASSUME dir, accidents = 0, \A o \in Obj : at[o] = "idle"
        PROVE  \E o \in Obj : there[o] = "full"
    <3>1. PICK o \in Obj : there[o] # "none"
      BY <2>1 DEF CountsInv, DirInv, Deserted
    <3>2. there[o] # "torn"
      BY <2>1 DEF CountsInv, DirInv
    <3> QED BY <3>1, <3>2 DEF CountsInv, FilesType
  <2> QED BY <2>1 DEF NamespaceIsItsFiles, CountsInv, DirInv
<1> QED BY <1>1, CountsInvariance, PTL

----------------------------------------------------------------------------
\* Each step is one of Counters or none.  Of the object that acts it is
\* enough to know what Counters sees of it.
LEMMA Shows ==
  ASSUME FilesType, CallsType, NEW o \in Obj, Only(o)
  PROVE  /\ shown' = [shown EXCEPT ![o] = shown'[o]]
         /\ stages' = [stages EXCEPT ![o] = Stage(at'[o])] /\ stages[o] = Stage(at[o])
         /\ given' = [given EXCEPT ![o] = given'[o]]
<1>1. ASSUME NEW q \in Obj \ {o}
      PROVE  shown'[q] = shown[q] /\ stages'[q] = stages[q] /\ given'[q] = given[q]
  <2>1. /\ there'[q] = there[q] /\ count'[q] = count[q] /\ at'[q] = at[q]
        /\ goal'[q] = goal[q] /\ was'[q] = was[q] /\ op'[q] = op[q]
    BY DEF Only
  <2> QED BY <2>1 DEF shown, stages, given, Returned, Content, Stage
<1>2. stages'[o] = Stage(at'[o]) /\ stages[o] = Stage(at[o])
  BY DEF stages
<1>3. /\ DOMAIN shown' = Obj /\ DOMAIN stages' = Obj /\ DOMAIN given' = Obj
      /\ DOMAIN shown = Obj /\ DOMAIN stages = Obj /\ DOMAIN given = Obj
  BY DEF shown, stages, given
<1>4. shown' = [q \in Obj |-> shown'[q]] /\ stages' = [q \in Obj |-> stages'[q]] /\ given' = [q \in Obj |-> given'[q]]
  BY DEF shown, stages, given
<1> QED BY <1>1, <1>2, <1>3, <1>4

\* What Counters sees of an object.
LEMMA Seen ==
  ASSUME FilesType, CallsType, NEW o \in Obj
  PROVE  /\ shown[o] = IF at[o] = "write" THEN was[o] ELSE Content(o)
         /\ given[o] = IF at[o] \in {"rmdir", "return"} THEN Returned(o) ELSE <<>>
BY DEF shown, given, Stage

LEMMA SeenNext ==
  ASSUME FilesType', CallsType', NEW o \in Obj
  PROVE  /\ shown'[o] = IF at'[o] = "write" THEN was'[o] ELSE Content(o)'
         /\ given'[o] = IF at'[o] \in {"rmdir", "return"} THEN Returned(o)' ELSE <<>>
BY DEF shown, given, Stage

\* What the code returns is what Counters says of such a call.
LEMMA Results ==
  ASSUME CallsType, NEW o \in Obj
  PROVE  Returned(o) = Promise!Result(op[o], goal[o])
<1>1. op[o].kind \in {"get", "put", "set", "reset", "check"}
  BY DEF CallsType, Op
<1> QED BY <1>1 DEF Returned, Promise!Result

LEMMA Stutters ==
  ASSUME FilesType, CallsType, NEW o \in Obj, Only(o), op' = op, Stage(at'[o]) = Stage(at[o]),
         shown'[o] = shown[o], given'[o] = given[o]
  PROVE  UNCHANGED Promise!vars
<1>1. shown' = shown
  <2>1. shown' = [shown EXCEPT ![o] = shown[o]]
    BY Shows
  <2> QED BY <2>1 DEF shown
<1>2. stages' = stages
  <2>1. stages' = [stages EXCEPT ![o] = stages[o]]
    BY Shows
  <2> QED BY <2>1 DEF stages
<1>3. given' = given
  <2>1. given' = [given EXCEPT ![o] = given[o]]
    BY Shows
  <2> QED BY <2>1 DEF given
<1> QED BY <1>1, <1>2, <1>3 DEF Promise!vars

LEMMA Effects ==
  ASSUME FilesType, CallsType, NEW o \in Obj, Only(o), op' = op,
         Stage(at[o]) = "asked", Stage(at'[o]) = "done", Fits(o, shown[o]), goal'[o] = goal[o],
         shown'[o] = [num |-> goal[o], torn |-> FALSE], given'[o] = Returned(o)
  PROVE  Promise!Effect(o)
<1>1. Promise!Move(o, "asked", "done")
  BY Shows, Zenon DEF Promise!Move
<1>2. /\ shown' = [shown EXCEPT ![o] = [num |-> goal[o], torn |-> FALSE]]
      /\ given' = [given EXCEPT ![o] = Promise!Result(op[o], goal[o])]
  BY Shows, Results, Zenon
<1>3. goal[o] = Promise!Counted(op[o], shown[o].num) /\ (shown[o].torn => Promise!Blind(op[o]))
  BY DEF Fits
<1> QED BY <1>1, <1>2, <1>3 DEF Promise!Effect

LEMMA BeginRefines ==
  ASSUME FilesType, CallsType, FilesType', CallsType', NEW o \in Obj, Only(o), BeginCount(o)
  PROVE  Promise!Begin(o)
<1>1. there' = there /\ count' = count /\ at[o] = "idle" /\ at'[o] \in {"look", "open", "unlink"}
  BY BeginMoves
<1>2. shown'[o] = shown[o] /\ given'[o] = given[o]
  BY <1>1, Seen, SeenNext DEF Content
<1>3. shown' = shown /\ given' = given
  <2>1. shown' = [shown EXCEPT ![o] = shown[o]] /\ given' = [given EXCEPT ![o] = given[o]]
    BY <1>2, Shows
  <2> QED BY <2>1 DEF shown, given
<1>4. Promise!Move(o, "idle", "asked")
  <2>1. Stage(at[o]) = "idle" /\ Stage(at'[o]) = "asked"
    BY <1>1 DEF Stage
  <2> QED BY <2>1, Shows DEF Promise!Move
<1>5. \E c \in Promise!Call : op' = [op EXCEPT ![o] = c]
  <2>1. Op = Promise!Call
    BY DEF Op, Promise!Call, Zero, Promise!Zero
  <2> QED BY <2>1, Zenon DEF BeginCount
<1> QED BY <1>3, <1>4, <1>5 DEF Promise!Begin

LEMMA ReadRefines ==
  ASSUME FilesType, CallsType, FilesType', CallsType', NEW o \in Obj, Only(o), Decided(o), Decided(o)',
         Look(o) \/ ReadCount(o)
  PROVE  Promise!Effect(o) \/ Promise!Refuse(o) \/ UNCHANGED Promise!vars
<1>1. op' = op /\ there' = there /\ count' = count /\ at[o] \in {"look", "read"} /\ Content(o)' = Content(o)
  <2>1. op' = op /\ there' = there /\ count' = count /\ at[o] \in {"look", "read"}
    BY Zenon DEF Look, ReadCount, onDisk
  <2> QED BY <2>1 DEF Content
<1>2. \/ at'[o] = "read"
      \/ at'[o] = "raise" /\ Content(o).torn
      \/ Got(o, Content(o).num) /\ ~Content(o).torn
  <2>1. Content(o).num = (IF there[o] = "full" THEN count[o] ELSE Zero) /\ Content(o).torn = (there[o] = "torn")
    BY DEF Content
  <2>2. \/ at' = [at EXCEPT ![o] = "read"]
        \/ at' = [at EXCEPT ![o] = "raise"] /\ there[o] # "full" /\ at[o] = "read"
        \/ there[o] = "none" /\ Got(o, Zero)
        \/ there[o] = "full" /\ Got(o, count[o])
    BY Zenon DEF Look, ReadCount
  <2>3. CASE at' = [at EXCEPT ![o] = "read"]
    BY <2>3 DEF CallsType
  <2>4. CASE at' = [at EXCEPT ![o] = "raise"] /\ there[o] # "full" /\ at[o] = "read"
    <3>1. there[o] = "torn"
      <4>1. there[o] # "none"
        BY <2>4 DEF Decided
      <4>2. there[o] \in {"none", "torn", "full"}
        BY DEF FilesType
      <4> QED BY <2>4, <4>1, <4>2
    <3>2. Content(o).torn
      BY <3>1 DEF Content
    <3> QED BY <2>4, <3>2 DEF CallsType
  <2>5. CASE there[o] = "none" /\ Got(o, Zero)
    <3>1. Content(o).num = Zero /\ ~Content(o).torn
      BY <2>1, <2>5
    <3> QED BY <2>5, <3>1, Zenon
  <2>6. CASE there[o] = "full" /\ Got(o, count[o])
    <3>1. Content(o).num = count[o] /\ ~Content(o).torn
      BY <2>1, <2>6
    <3> QED BY <2>6, <3>1, Zenon
  <2> QED BY <2>2, <2>3, <2>4, <2>5, <2>6
<1>3. op[o].kind \in {"get", "put", "check"}
  BY <1>1 DEF Decided
<1>4. CASE at'[o] = "read"
  BY <1>1, <1>4, Seen, SeenNext, Stutters DEF Stage
<1>5. CASE at'[o] = "raise" /\ Content(o).torn
  <2>1. shown'[o] = shown[o] /\ given'[o] = given[o] /\ shown[o] = Content(o)
    BY <1>1, <1>5, Seen, SeenNext
  <2>2. shown' = shown /\ given' = given
    <3>1. shown' = [shown EXCEPT ![o] = shown[o]] /\ given' = [given EXCEPT ![o] = given[o]]
      BY <2>1, Shows
    <3> QED BY <3>1 DEF shown, given
  <2>3. Promise!Move(o, "asked", "failed")
    <3>1. Stage(at[o]) = "asked" /\ Stage(at'[o]) = "failed"
      BY <1>1, <1>5 DEF Stage
    <3> QED BY <3>1, Shows DEF Promise!Move
  <2> QED BY <1>1, <1>3, <1>5, <2>1, <2>2, <2>3 DEF Promise!Refuse, Promise!Blind
<1>6. CASE Got(o, Content(o).num) /\ ~Content(o).torn
  <2>1. Content(o) \in [num : Num, torn : BOOLEAN]
    BY ContentType
  <2>2. /\ goal'[o] = Promise!Counted(op[o], Content(o).num)
        /\ at'[o] = IF op[o].kind = "check" THEN "return" ELSE ToSet(goal'[o])
        /\ op[o].kind = "check" => goal'[o] = Content(o).num
    BY <1>3, <1>6, <2>1, GotMoves
  <2>3. CASE op[o].kind # "check"
    <3>1. at'[o] \in {"unlink", "open"}
      BY <2>2, <2>3 DEF ToSet
    <3> QED BY <1>1, <3>1, Seen, SeenNext, Stutters DEF Stage
  <2>4. CASE op[o].kind = "check"
    <3>1. shown[o] = Content(o) /\ shown'[o] = Content(o) /\ given'[o] = Returned(o)'
      BY <1>1, <2>2, <2>4, Seen, SeenNext
    <3>2. Content(o) = [num |-> goal'[o], torn |-> FALSE]
      BY <1>6, <2>1, <2>2, <2>4
    <3>3. Promise!Move(o, "asked", "done")
      <4>1. Stage(at[o]) = "asked" /\ Stage(at'[o]) = "done"
        BY <1>1, <2>2, <2>4 DEF Stage
      <4> QED BY <4>1, Shows DEF Promise!Move
    <3>4. /\ shown' = [shown EXCEPT ![o] = [num |-> goal'[o], torn |-> FALSE]]
          /\ given' = [given EXCEPT ![o] = Promise!Result(op[o], goal'[o])]
      <4>1. Returned(o)' = Promise!Result(op'[o], goal'[o])
        <5>1. op'[o].kind \in {"get", "put", "set", "reset", "check"}
          BY DEF CallsType, Op
        <5> QED BY <5>1 DEF Returned, Promise!Result
      <4> QED BY <1>1, <3>1, <3>2, <4>1, Shows
    <3> QED BY <1>1, <1>6, <2>2, <3>1, <3>3, <3>4 DEF Promise!Effect
  <2> QED BY <2>3, <2>4
<1> QED BY <1>2, <1>4, <1>5, <1>6

LEMMA ChangeRefines ==
  ASSUME FilesType, CallsType, FilesType', CallsType', NEW o \in Obj, Only(o), Decided(o),
         OpenFile(o) \/ CreateNamespace(o) \/ WriteCount(o) \/ Unlink(o) \/ RmdirNamespace(o)
  PROVE  Promise!Effect(o) \/ UNCHANGED Promise!vars
<1>1. CASE OpenFile(o)
  <2>1. /\ op' = op /\ goal' = goal /\ count' = count /\ at[o] = "open"
        /\ \/ at'[o] = "write" /\ was'[o] = Content(o)
           \/ at'[o] = "makedirs" /\ there' = there
    BY <1>1 DEF OpenFile, CallsType
  <2>2. shown'[o] = shown[o] /\ given'[o] = given[o]
    BY <2>1, Seen, SeenNext DEF Content
  <2> QED BY <2>1, <2>2, Stutters DEF Stage
<1>2. CASE CreateNamespace(o) \/ RmdirNamespace(o)
  <2>1. /\ op' = op /\ goal' = goal /\ count' = count /\ there' = there
        /\ \/ at[o] = "makedirs" /\ at'[o] = "open"
           \/ at[o] = "rmdir" /\ at'[o] = "return"
    BY <1>2 DEF CreateNamespace, RmdirNamespace, Move, CallsType
  <2>2. shown'[o] = shown[o] /\ given'[o] = given[o]
    BY <2>1, Seen, SeenNext DEF Content, Returned
  <2> QED BY <2>1, <2>2, Stutters DEF Stage
<1>3. CASE WriteCount(o)
  <2>1. /\ op' = op /\ goal' = goal /\ count'[o] = goal[o] /\ there'[o] = "full"
        /\ at[o] = "write" /\ at'[o] = "return"
    BY <1>3 DEF WriteCount, Move, FilesType, CallsType
  <2>2. shown[o] = was[o] /\ given'[o] = Returned(o) /\ shown'[o] = [num |-> goal[o], torn |-> FALSE]
    BY <2>1, Seen, SeenNext DEF Content, Returned
  <2>3. Fits(o, shown[o])
    BY <2>1, <2>2 DEF Decided
  <2> QED BY <2>1, <2>2, <2>3, Effects DEF Stage
<1>4. CASE Unlink(o)
  <2>1. /\ op' = op /\ goal' = goal /\ there'[o] = "none" /\ at[o] = "unlink" /\ at'[o] \in {"return", "rmdir"}
    BY <1>4 DEF Unlink, FilesType, CallsType
  <2>2. goal[o] = Zero /\ Fits(o, Content(o))
    BY <2>1 DEF Decided
  <2>3. shown[o] = Content(o) /\ given'[o] = Returned(o) /\ shown'[o] = [num |-> goal[o], torn |-> FALSE]
    BY <2>1, <2>2, Seen, SeenNext DEF Content, Returned
  <2> QED BY <2>1, <2>2, <2>3, Effects DEF Stage
<1> QED BY <1>1, <1>2, <1>3, <1>4

LEMMA EndRefines ==
  ASSUME FilesType, CallsType, FilesType', CallsType', NEW o \in Obj, Only(o), Decided(o),
         EndCount(o) \/ WriteCountFails(o) \/ KillCaller(o)
  PROVE  Promise!Return(o) \/ Promise!Spoil(o) \/ Promise!Vanish(o)
<1>1. op' = op /\ there' = there /\ count' = count /\ goal' = goal /\ was' = was
      /\ at[o] # "idle" /\ at'[o] \in {"idle", "raise"} /\ (at'[o] = "raise" => at[o] = "write")
  BY DEF EndCount, WriteCountFails, KillCaller, Move, onDisk, CallsType
<1>2. Content(o)' = Content(o) /\ Stage(at'[o]) \in {"idle", "failed"}
  BY <1>1 DEF Content, Stage
<1>3. given'[o] = <<>> /\ shown'[o] = Content(o)
  BY <1>1, <1>2, SeenNext
<1>4. Promise!Move(o, Stage(at[o]), Stage(at'[o]))
  BY Shows DEF Promise!Move
<1>5. shown[o] = Content(o) => shown' = shown
  <2>1. shown' = [shown EXCEPT ![o] = Content(o)]
    BY <1>3, Shows
  <2> QED BY <2>1 DEF shown
<1>6. given' = [given EXCEPT ![o] = <<>>] /\ (given[o] = <<>> => given' = given)
  <2>1. given' = [given EXCEPT ![o] = <<>>]
    BY <1>3, Shows
  <2> QED BY <2>1 DEF given
<1>7. CASE at[o] = "write"
  <2>1. Content(o) = [num |-> Zero, torn |-> TRUE] /\ given[o] = <<>>
    BY <1>7, Seen DEF Decided, Content
  <2>2. shown' = [shown EXCEPT ![o] = [num |-> Zero, torn |-> TRUE]]
    BY <1>3, <2>1, Shows
  <2>3. Stage(at[o]) = "asked" /\ (Stage(at'[o]) = "failed" \/ Stage(at'[o]) = "idle")
    BY <1>2, <1>7 DEF Stage
  <2>4. Promise!Move(o, "asked", "failed") \/ Promise!Move(o, "asked", "idle")
    BY <1>4, <2>3
  <2> QED BY <1>1, <1>6, <2>1, <2>2, <2>4 DEF Promise!Spoil, Promise!Zero, Zero
<1>8. CASE at[o] # "write"
  <2>1. shown' = shown /\ Stage(at'[o]) = "idle"
    BY <1>1, <1>5, <1>8, Seen DEF Stage
  <2>2. Stage(at[o]) \in {"asked", "failed", "done"}
    BY <1>1 DEF Stage
  <2>3. CASE Stage(at[o]) = "asked"
    <3>1. given[o] = <<>>
      BY <2>3, Seen DEF Stage
    <3> QED BY <1>1, <1>4, <1>6, <2>1, <2>3, <3>1 DEF Promise!Vanish
  <2>4. CASE Stage(at[o]) \in {"failed", "done"}
    BY <1>1, <1>4, <1>6, <2>1, <2>4 DEF Promise!Return
  <2> QED BY <2>2, <2>3, <2>4
<1> QED BY <1>7, <1>8

\* The calls of RefCounter are atomic, whatever becomes of the directory
\* under them: RefCounts implements Counters.
THEOREM CountsRefinement == CountsSpec => KeepsCounts
<1>1. CountsInit => Promise!Init
  BY DEF CountsInit, Promise!Init, shown, stages, given, Returned, Content, Stage, Check, Zero, Promise!Zero
<1>2. CountsInv /\ CountsInv' /\ [CountsNext]_countVars => [Promise!Next]_(Promise!vars)
  <2> SUFFICES ASSUME CountsInv, CountsInv', [CountsNext]_countVars
               PROVE  Promise!Next \/ UNCHANGED Promise!vars
    OBVIOUS
  <2> USE DEF CountsInv
  <2>1. ASSUME NEW o \in Obj, CountMove(o)
        PROVE  \/ Promise!Begin(o) \/ Promise!Effect(o) \/ Promise!Refuse(o) \/ Promise!Return(o)
               \/ Promise!Spoil(o) \/ Promise!Vanish(o) \/ UNCHANGED Promise!vars
    <3>1. Only(o) /\ Decided(o) /\ Decided(o)'
      BY <2>1, OneAtATime
    <3>2. CASE BeginCount(o)
      BY <3>1, <3>2, BeginRefines
    <3>3. CASE Look(o) \/ ReadCount(o)
      BY <3>1, <3>3, ReadRefines
    <3>4. CASE OpenFile(o) \/ CreateNamespace(o) \/ WriteCount(o) \/ Unlink(o) \/ RmdirNamespace(o)
      BY <3>1, <3>4, ChangeRefines
    <3>5. CASE EndCount(o) \/ WriteCountFails(o) \/ KillCaller(o)
      BY <3>1, <3>5, EndRefines
    <3> QED BY <2>1, <3>2, <3>3, <3>4, <3>5 DEF CountMove, CountStep
  <2>2. CASE UNCHANGED countVars
    BY <2>2 DEF countVars, onDisk, shown, stages, given, Returned, Content, Stage, Promise!vars
  <2> QED BY <2>1, <2>2, Zenon DEF CountsNext, CountsDone, CountMove, Promise!Next
<1> QED BY <1>1, <1>2, CountsInvariance, PTL DEF CountsSpec, KeepsCounts, Promise!Spec
=============================================================================
