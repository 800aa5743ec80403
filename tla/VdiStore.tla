------------------------------ MODULE VdiStore ------------------------------
(***************************************************************************)
(* What the metadata volume of an SR is for: a store with a record for     *)
(* each VDI, in which an operation takes effect at once or not at all.     *)
(* SRMetadata implements it.                                               *)
(***************************************************************************)
CONSTANTS Uuid, Value

VARIABLE vdis   \* the records, a set of [uuid, val]

Init == vdis = {}

Has(u)     == \E r \in vdis : r.uuid = u
Without(u) == {r \in vdis : r.uuid # u}

Add(u, v)    == ~Has(u) /\ vdis' = vdis \cup {[uuid |-> u, val |-> v]}
Update(u, v) == Has(u) /\ vdis' = Without(u) \cup {[uuid |-> u, val |-> v]}
Delete(u)    == Has(u) /\ vdis' = Without(u)

Next == \E u \in Uuid : Delete(u) \/ \E v \in Value : Add(u, v) \/ Update(u, v)

Spec == Init /\ [][Next]_vdis
=============================================================================
