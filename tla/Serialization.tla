--------------------------- MODULE Serialization ---------------------------
(***************************************************************************)
(* What sm/lock.py promises in its first line, "serialization for          *)
(* concurrent operations": a lock is held by one process at a time, which  *)
(* may acquire it again and gives it up with its last release, or when it  *)
(* ends or drops the lock.  FileLock implements this; Activation is built  *)
(* on it.                                                                  *)
(***************************************************************************)
EXTENDS Naturals

CONSTANTS Proc, Locks, NoProc

VARIABLES
  holder,   \* of each lock, a process or NoProc
  depth     \* how often the holder has acquired it

TypeOK == /\ holder \in [Locks -> Proc \cup {NoProc}]
          /\ depth \in [Locks -> Nat]

Init == /\ holder = [l \in Locks |-> NoProc]
        /\ depth = [l \in Locks |-> 0]

Acquire(p, l) ==
  /\ holder[l] \in {NoProc, p}
  /\ holder' = [holder EXCEPT ![l] = p]
  /\ depth' = [depth EXCEPT ![l] = @ + 1]

Release(p, l) ==
  /\ holder[l] = p
  /\ depth[l] > 0
  /\ depth' = [depth EXCEPT ![l] = @ - 1]
  /\ holder' = [holder EXCEPT ![l] = IF depth[l] = 1 THEN NoProc ELSE p]

\* A process that ends, or drops its lock, gives up all its acquisitions.
Abandon(p, ls) ==
  /\ \A l \in ls : holder[l] = p
  /\ holder' = [l \in Locks |-> IF l \in ls THEN NoProc ELSE holder[l]]
  /\ depth' = [l \in Locks |-> IF l \in ls THEN 0 ELSE depth[l]]

Next == \E p \in Proc :
          \/ \E l \in Locks : Acquire(p, l) \/ Release(p, l)
          \/ \E ls \in SUBSET Locks : Abandon(p, ls)

Spec == Init /\ [][Next]_<<holder, depth>>
=============================================================================
