---------------------------- MODULE MCMultipath ----------------------------
(***************************************************************************)
(* Instances of Multipath for TLC.  Four paths; in the iSCSI setups every  *)
(* path has a target address of its own, in the HBA setup two switch ports *)
(* carry two paths each, and the manual setup uses the same cabling.       *)
(***************************************************************************)
EXTENDS Multipath, TLC
CONSTANTS p1, p2, p3, p4, a, b, c, d

FourPaths  == {p1, p2, p3, p4}
FourPorts  == {a, b, c, d}
OneEach    == p1 :> a @@ p2 :> b @@ p3 :> c @@ p4 :> d
TwoEach    == p1 :> a @@ p2 :> a @@ p3 :> b @@ p4 :> b

ISCSI(count)  == [handler |-> "iscsi", portOf |-> OneEach, ports |-> {}, count |-> count, mpOn |-> FALSE]
HBA(count)    == [handler |-> "hba", portOf |-> TwoEach, ports |-> {a, b}, count |-> count, mpOn |-> TRUE]
Manual(count) == [handler |-> "manual", portOf |-> TwoEach, ports |-> {}, count |-> count, mpOn |-> TRUE]

\* Two failover iterations each: -g 3, and the default of the instance.
TestedSetups == {ISCSI(3), HBA(3), Manual(3), HBA(NoCount)}
NoneDown     == {{}}
============================================================================
