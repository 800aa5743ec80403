----------------------------- MODULE RefCounts -----------------------------
(***************************************************************************)
(* The files of RefCounter (sm/lock.py) in one namespace: a directory that *)
(* is made when it is missing and removed with its last file, and a file   *)
(* with two numbers for each object whose count is not zero.               *)
(*                                                                         *)
(* Calls on one object exclude each other by the lock of the object, which *)
(* their callers hold (LVMCache.activate and deactivate); calls on         *)
(* different objects of the namespace meet in the directory.  at[o] is     *)
(* where the call on o is, whichever process makes it.                     *)
(***************************************************************************)
EXTENDS Integers

CONSTANTS
  Obj,
  Values,         \* what set is called with
  MaxOps,         \* bound: calls
  MaxAccidents    \* bound: processes killed in a call and writes that fail

Num  == [normal : Nat, binary : {0, 1}]
Zero == [normal |-> 0, binary |-> 0]

ASSUME ValuesAssumption == Values \subseteq Num /\ Values # {}
ASSUME OpsAssumption    == MaxOps \in Nat /\ MaxAccidents \in Nat

Op == [kind : {"get", "put"}, bin : BOOLEAN, num : {Zero}]
      \cup [kind : {"reset", "check"}, bin : {FALSE}, num : {Zero}]
      \cup [kind : {"set"}, bin : {FALSE}, num : Values]
Check == [kind |-> "check", bin |-> FALSE, num |-> Zero]

VARIABLES
  dir,        \* the directory of the namespace exists
  there,      \* each file: "none", "torn" (truncated, not written), "full"
  count,      \* the numbers of a full file
  at, op,     \* the call on each object
  goal,       \* its newCount and newBinaryCount
  was,        \* history: what OpenFile found
  ops, accidents

onDisk    == <<dir, there, count>>
tallies   == <<ops, accidents>>
countVars == <<onDisk, at, op, goal, was, tallies>>

\* What the file of o says.
Content(o) == [num |-> IF there[o] = "full" THEN count[o] ELSE Zero, torn |-> there[o] = "torn"]

Move(o, from, to) == at[o] = from /\ at' = [at EXCEPT ![o] = to]

CountsInit ==
  /\ dir = FALSE
  /\ there = [o \in Obj |-> "none"] /\ count = [o \in Obj |-> Zero]
  /\ at = [o \in Obj |-> "idle"]
  /\ op = [o \in Obj |-> Check] /\ goal = [o \in Obj |-> Zero]
  /\ was = [o \in Obj |-> [num |-> Zero, torn |-> FALSE]]
  /\ ops = 0 /\ accidents = 0

----------------------------------------------------------------------------
\* _set: a count of zero is the absence of the file.
ToSet(n) == IF n = Zero THEN "unlink" ELSE "open"

BeginCount(o) ==
  /\ at[o] = "idle" /\ ops < MaxOps
  /\ ops' = ops + 1
  /\ \E c \in Op :
       /\ op' = [op EXCEPT ![o] = c]
       /\ LET n == IF c.kind = "set" THEN c.num ELSE Zero
          IN /\ goal' = [goal EXCEPT ![o] = n]
             /\ at' = [at EXCEPT ![o] = IF c.kind \in {"set", "reset"} THEN ToSet(n) ELSE "look"]
  /\ UNCHANGED <<onDisk, was, accidents>>

\* The deltas of get and put.
Delta(c)  == IF c.kind = "get" THEN 1 ELSE -1
Cut(n)    == IF n < 0 THEN 0 ELSE n

\* _adjust
Summed(c, n) ==
  IF c.bin
    THEN [n EXCEPT !.binary = IF @ + Delta(c) > 1 THEN 1 ELSE Cut(@ + Delta(c))]
    ELSE [n EXCEPT !.normal = Cut(@ + Delta(c))]

\* _get has the count n: check returns it, get and put go on to set the sum.
Got(o, n) ==
  LET m == IF op[o].kind = "check" THEN n ELSE Summed(op[o], n)
  IN /\ goal' = [goal EXCEPT ![o] = m]
     /\ at' = [at EXCEPT ![o] = IF op[o].kind = "check" THEN "return" ELSE ToSet(m)]

\* pathexists in _get
Look(o) ==
  /\ at[o] = "look"
  /\ IF there[o] = "none"
       THEN Got(o, Zero)
       ELSE at' = [at EXCEPT ![o] = "read"] /\ UNCHANGED goal
  /\ UNCHANGED <<onDisk, op, was, tallies>>

\* _readCount: a file without its numbers is an IndexError.
ReadCount(o) ==
  /\ at[o] = "read"
  /\ IF there[o] = "full"
       THEN Got(o, count[o])
       ELSE at' = [at EXCEPT ![o] = "raise"] /\ UNCHANGED goal
  /\ UNCHANGED <<onDisk, op, was, tallies>>

\* The open of _writeCount makes or truncates the file; without a directory
\* it fails, and the directory is made.
OpenFile(o) ==
  /\ at[o] = "open"
  /\ IF dir
       THEN /\ at' = [at EXCEPT ![o] = "write"]
            /\ there' = [there EXCEPT ![o] = "torn"] /\ was' = [was EXCEPT ![o] = Content(o)]
       ELSE at' = [at EXCEPT ![o] = "makedirs"] /\ UNCHANGED <<there, was>>
  /\ UNCHANGED <<dir, count, op, goal, tallies>>

\* Also when somebody else made it meanwhile.
CreateNamespace(o) ==
  /\ Move(o, "makedirs", "open")
  /\ dir' = TRUE
  /\ UNCHANGED <<there, count, op, goal, was, tallies>>

WriteCount(o) ==
  /\ Move(o, "write", "return")
  /\ there' = [there EXCEPT ![o] = "full"] /\ count' = [count EXCEPT ![o] = goal[o]]
  /\ UNCHANGED <<dir, op, goal, was, tallies>>

\* _removeObject, up to the directory
Unlink(o) ==
  /\ at[o] = "unlink"
  /\ at' = [at EXCEPT ![o] = IF there[o] = "none" THEN "return" ELSE "rmdir"]
  /\ there' = [there EXCEPT ![o] = "none"]
  /\ UNCHANGED <<dir, count, op, goal, was, tallies>>

\* Mutant: only a directory that is gone is nothing to raise about.
RmdirRaises(o) ==
  /\ at[o] = "rmdir"
  /\ LET empty == \A q \in Obj : there[q] = "none"
     IN /\ dir' = (dir /\ ~empty)
        /\ at' = [at EXCEPT ![o] = IF dir /\ ~empty THEN "raise" ELSE "return"]
  /\ UNCHANGED <<there, count, op, goal, was, tallies>>

\* Mutant: the directory is left to the next one.
RmdirNever(o) == Move(o, "rmdir", "return") /\ UNCHANGED <<onDisk, op, goal, was, tallies>>

\* A directory that is gone or that has got a file again stays so.
RmdirNamespace(o) ==
  /\ Move(o, "rmdir", "return")
  /\ dir' = (dir /\ \E q \in Obj : there[q] # "none")
  /\ UNCHANGED <<there, count, op, goal, was, tallies>>

\* _adjust returns the sum of what it set, _get the pair; set and reset have
\* no return statement.
Returned(o) ==
  IF op[o].kind \in {"set", "reset"} THEN <<>>
  ELSE IF op[o].kind = "check" THEN <<goal[o].normal, goal[o].binary>>
  ELSE <<goal[o].normal + goal[o].binary>>

\* The call returns, or raises, and its caller releases the lock.
EndCount(o) ==
  /\ Move(o, "return", "idle") \/ Move(o, "raise", "idle")
  /\ UNCHANGED <<onDisk, op, goal, was, tallies>>

----------------------------------------------------------------------------
\* The file system is full: the file stays without its numbers.
WriteCountFails(o) ==
  /\ accidents < MaxAccidents /\ accidents' = accidents + 1
  /\ Move(o, "write", "raise")
  /\ UNCHANGED <<onDisk, op, goal, was, ops>>

KillCaller(o) ==
  /\ at[o] # "idle"
  /\ accidents < MaxAccidents /\ accidents' = accidents + 1
  /\ at' = [at EXCEPT ![o] = "idle"]
  /\ UNCHANGED <<onDisk, op, goal, was, ops>>

CountStep(o) == \/ Look(o) \/ ReadCount(o) \/ OpenFile(o) \/ CreateNamespace(o) \/ WriteCount(o)
                \/ Unlink(o) \/ RmdirNamespace(o) \/ EndCount(o)
CountsDone   == ops = MaxOps /\ (\A o \in Obj : at[o] = "idle") /\ UNCHANGED countVars

CountsNext == \/ \E o \in Obj : BeginCount(o) \/ CountStep(o) \/ WriteCountFails(o) \/ KillCaller(o)
              \/ CountsDone
CountsSpec == CountsInit /\ [][CountsNext]_countVars

----------------------------------------------------------------------------
\* Properties.

Places == {"idle", "look", "read", "open", "makedirs", "write", "unlink", "rmdir", "return", "raise"}

\* Every variable has its type; what is in a file is a count, and the binary
\* part is 0 or 1.
CountsTypeOK ==
  /\ dir \in BOOLEAN /\ there \in [Obj -> {"none", "torn", "full"}] /\ count \in [Obj -> Num]
  /\ at \in [Obj -> Places] /\ op \in [Obj -> Op] /\ goal \in [Obj -> Num]
  /\ was \in [Obj -> [num : Num, torn : BOOLEAN]]
  /\ ops \in Nat /\ accidents \in Nat

\* A file is in a directory; and when the calls have ended and none was
\* killed, the directory is there only for a file: whoever takes the last file
\* away removes it, also if it was made for a file that is not written yet.
NamespaceIsItsFiles ==
  /\ \A o \in Obj : there[o] # "none" => dir
  /\ dir /\ accidents = 0 /\ (\A o \in Obj : at[o] = "idle") => \E o \in Obj : there[o] = "full"

\* RefCounter keeps the promise of Counters.  The truncation of a file does
\* not change its count; the write, or the unlink, does.
Stage(l) == IF l = "idle" THEN "idle" ELSE IF l = "raise" THEN "failed"
            ELSE IF l \in {"rmdir", "return"} THEN "done" ELSE "asked"
shown  == [o \in Obj |-> IF at[o] = "write" THEN was[o] ELSE Content(o)]
stages == [o \in Obj |-> Stage(at[o])]
given  == [o \in Obj |-> IF Stage(at[o]) = "done" THEN Returned(o) ELSE <<>>]
Promise == INSTANCE Counters WITH content <- shown, stage <- stages, asked <- op, answer <- given
KeepsCounts == Promise!Spec
=============================================================================
