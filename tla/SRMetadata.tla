----------------------------- MODULE SRMetadata -----------------------------
(***************************************************************************)
(* The metadata volume of an SR, sm/srmetadata.py: a header with a length  *)
(* and behind it a record of two sectors for each VDI.  An operation opens *)
(* the volume, reads it as far as the length says, writes a record and     *)
(* then the header, and closes it.  The file is buffered: what was written *)
(* reaches the disk in order, at some later seek or with the close, and is *)
(* lost when the process is killed before.  The lock of the SR lets one    *)
(* operation run at a time.                                                *)
(***************************************************************************)
EXTENDS Naturals, Sequences

CONSTANTS
  Uuid, Value,
  TooLong,      \* \in Value: a name that has to be truncated
  NoRecord,     \* what was never written
  NoOp,
  Capacity,     \* records that fit in the volume
  MaxKills      \* bound: processes killed in an operation

ASSUME ValueAssumption    == TooLong \in Value
ASSUME CapacityAssumption == Capacity \in Nat /\ MaxKills \in Nat

Slot   == 1 .. Capacity
Vdi    == [uuid : Uuid, val : Value]
Record == [uuid : Uuid, val : Value, deleted : BOOLEAN]
Image  == [slot : [Slot -> Record \cup {NoRecord}], len : 0 .. Capacity]

Op == [kind : {"add", "update", "delete", "space"}, uuid : Uuid, val : Value]

ASSUME NoRecordAssumption == NoRecord \notin Record /\ NoOp \notin Op

VARIABLES
  disk,      \* an Image
  pending,   \* Images after each write that is still in the buffer
  pc, op,    \* the operation, or NoOp
  at,        \* the slot it writes
  raised, before,   \* it raised; the records when it began
  used,      \* uuids that have been given to a VDI
  kills

vars == <<disk, pending, pc, op, at, raised, before, used, kills>>


Live(d)    == {i \in 1 .. d.len : ~d.slot[i].deleted}
Visible(d) == {[uuid |-> d.slot[i].uuid, val |-> d.slot[i].val] : i \in Live(d)}

\* What a read returns: the buffer before the disk.
View == IF pending = <<>> THEN disk ELSE pending[Len(pending)]

Init ==
  /\ disk = [slot |-> [i \in Slot |-> NoRecord], len |-> 0]
  /\ pending = <<>>
  /\ pc = "idle" /\ at = 0 /\ raised = FALSE /\ before = {}
  /\ op = NoOp
  /\ used = {} /\ kills = 0

----------------------------------------------------------------------------
\* A new handler.  Every VDI is added once, under a uuid of its own, and so
\* is the dummy of spaceAvailableForVdis.
Open ==
  /\ pc = "idle"
  /\ op' \in Op
  /\ IF op'.kind \in {"add", "space"}
       THEN op'.uuid \notin used /\ used' = used \cup {op'.uuid}
       ELSE UNCHANGED used
  /\ op'.kind = "space" => op'.val # TooLong
  /\ pc' = IF op'.kind = "space" THEN "add" ELSE op'.kind
  /\ raised' = FALSE /\ before' = Visible(disk)
  /\ UNCHANGED <<disk, pending, at, kills>>

\* file_write_wrapper: a record; updateLengthInHeader: the header.  Callers give
\* all values of a VDI; a tag that they leave out would be that of the record
\* found there, which is left out of the model.
WriteRecord(i, r) == pending' = Append(pending, [View EXCEPT !.slot[i] = r])
WriteLength(n)    == pending' = Append(pending, [View EXCEPT !.len = n])

Raise == pc' = "close" /\ raised' = TRUE /\ UNCHANGED <<pending, at>>

\* getMetadataInternal({firstDeleted}).
FirstDeleted(d) == {i \in 1 .. d.len : d.slot[i].deleted
                                       /\ \A j \in 1 .. i - 1 : ~d.slot[j].deleted}

\* getMetadataInternal({vdi_uuid}): the first record with the uuid that is
\* not deleted.
Found(d, u) == {i \in Live(d) : d.slot[i].uuid = u
                                /\ \A j \in Live(d) : d.slot[j].uuid = u => i <= j}

Added == [uuid |-> op.uuid, val |-> op.val, deleted |-> FALSE]

\* Mutant: the header goes before the record.
AddHeaderFirst ==
  /\ pc = "add"
  /\ \/ op.val = TooLong /\ Raise
     \/ /\ op.val # TooLong
        /\ \/ \E i \in FirstDeleted(View) :
                at' = i /\ WriteRecord(i, Added) /\ pc' = "header" /\ UNCHANGED raised
           \/ /\ FirstDeleted(View) = {} /\ View.len < Capacity
              /\ at' = View.len + 1
              /\ pending' = pending \o <<[View EXCEPT !.len = at'],
                                         [View EXCEPT !.len = at', !.slot[at'] = Added]>>
              /\ pc' = "header" /\ UNCHANGED raised
           \/ FirstDeleted(View) = {} /\ View.len = Capacity /\ Raise
  /\ UNCHANGED <<disk, op, before, used, kills>>

\* Mutant: nothing says that the volume is full.
AddUnbounded ==
  /\ pc = "add"
  /\ \/ op.val = TooLong /\ Raise
     \/ /\ op.val # TooLong
        /\ \/ \E i \in FirstDeleted(View) :
                at' = i /\ WriteRecord(i, Added) /\ pc' = "header" /\ UNCHANGED raised
           \/ /\ FirstDeleted(View) = {}
              /\ at' = View.len + 1 /\ WriteRecord(at', Added)
              /\ pc' = "header" /\ UNCHANGED raised
  /\ UNCHANGED <<disk, op, before, used, kills>>

\* addVdiInternal writes over the first deleted record or behind the last
\* one.  A name that is too long raises in unictrunc, which decodes a str; a
\* record behind the end of the volume raises when it is written out.
AddRecord ==
  /\ pc = "add"
  /\ \/ op.val = TooLong /\ Raise
     \/ /\ op.val # TooLong
        /\ \/ \E i \in FirstDeleted(View) :
                at' = i /\ WriteRecord(i, Added) /\ pc' = "header" /\ UNCHANGED raised
           \/ /\ FirstDeleted(View) = {} /\ View.len < Capacity
              /\ at' = View.len + 1 /\ WriteRecord(at', Added)
              /\ pc' = "header" /\ UNCHANGED raised
           \/ FirstDeleted(View) = {} /\ View.len = Capacity /\ Raise
  /\ UNCHANGED <<disk, op, before, used, kills>>

\* ... and then the header.  spaceAvailableForVdis goes on to delete its dummy.
AddHeader ==
  /\ pc = "header"
  /\ WriteLength(IF at > View.len THEN at ELSE View.len)
  /\ pc' = IF op.kind = "space" THEN "delete" ELSE "close"
  /\ UNCHANGED <<disk, op, at, raised, before, used, kills>>

\* updateVdi: no such VDI is a KeyError.
UpdateVdi ==
  /\ pc = "update"
  /\ \/ /\ op.val # TooLong
        /\ \E i \in Found(View, op.uuid) :
             WriteRecord(i, Added) /\ pc' = "close" /\ UNCHANGED <<at, raised>>
     \/ (op.val = TooLong \/ Found(View, op.uuid) = {}) /\ Raise
  /\ UNCHANGED <<disk, op, before, used, kills>>

\* Mutant: the length shrinks without a look at where the record is.
DeleteShrinking ==
  /\ pc = "delete"
  /\ \/ \E i \in Found(View, op.uuid) :
          /\ at' = View.len /\ WriteRecord(i, [View.slot[i] EXCEPT !.deleted = TRUE])
          /\ pc' = "shrink"
     \/ Found(View, op.uuid) = {} /\ pc' = "close" /\ UNCHANGED <<pending, at>>
  /\ UNCHANGED <<disk, op, raised, before, used, kills>>

\* deleteVdi marks the record; there may be none ...
DeleteRecord ==
  /\ pc = "delete"
  /\ \/ \E i \in Found(View, op.uuid) :
          /\ at' = i /\ WriteRecord(i, [View.slot[i] EXCEPT !.deleted = TRUE])
          /\ pc' = "shrink"
     \/ Found(View, op.uuid) = {} /\ pc' = "close" /\ UNCHANGED <<pending, at>>
  /\ UNCHANGED <<disk, op, raised, before, used, kills>>

\* ... and takes it off the length if it is the last one.
Shrink ==
  /\ pc = "shrink"
  /\ IF at = View.len THEN WriteLength(View.len - 1) ELSE UNCHANGED pending
  /\ pc' = "close"
  /\ UNCHANGED <<disk, op, at, raised, before, used, kills>>

----------------------------------------------------------------------------
\* The first n writes of the buffer reach the disk.
FlushTo(n) == disk' = pending[n] /\ pending' = SubSeq(pending, n + 1, Len(pending))

Flush ==
  /\ \E n \in 1 .. Len(pending) : FlushTo(n)
  /\ UNCHANGED <<pc, op, at, raised, before, used, kills>>

Idle == pc' = "idle" /\ op' = NoOp /\ at' = 0 /\ raised' = FALSE /\ before' = {}

\* Mutant: the file is not closed.
CloseUnflushed ==
  /\ pc = "close" /\ Idle
  /\ pending' = <<>>
  /\ UNCHANGED <<disk, used, kills>>

\* __del__ closes the file.
Close ==
  /\ pc = "close" /\ Idle
  /\ disk' = View /\ pending' = <<>>
  /\ UNCHANGED <<used, kills>>

Kill ==
  /\ pc # "idle" /\ kills < MaxKills
  /\ kills' = kills + 1
  /\ pending' = <<>> /\ Idle
  /\ UNCHANGED <<disk, used>>

Next == \/ Open \/ AddRecord \/ AddHeader \/ UpdateVdi \/ DeleteRecord \/ Shrink
        \/ Flush \/ Close \/ Kill

Spec == Init /\ [][Next]_vars

----------------------------------------------------------------------------
\* Properties.

\* Every variable has its type.
TypeOK ==
  /\ disk \in Image /\ pending \in Seq(Image)
  /\ pc \in {"idle", "add", "header", "update", "delete", "shrink", "close"}
  /\ op \in Op \cup {NoOp}
  /\ at \in 0 .. Capacity /\ raised \in BOOLEAN
  /\ before \in SUBSET Vdi /\ used \in SUBSET Uuid /\ kills \in Nat

\* The length never covers what no record was written to: whenever the
\* process is killed, the next one can read the volume.
LengthCoversRecords == \A i \in 1 .. disk.len : disk.slot[i] # NoRecord

\* What the records are once the operation is done.
Effect ==
  LET others == {r \in before : r.uuid # op.uuid}
      record == [uuid |-> op.uuid, val |-> op.val]
  IN CASE op.kind = "add"    -> before \cup {record}
       [] op.kind = "update" -> others \cup {record}
       [] op.kind = "delete" -> others
       [] op.kind = "space"  -> before

\* An operation whose handler was closed has had its effect and no other, also
\* on the records around it, and one that raised has had none.
ClosedIsDone ==
  [][pc = "close" /\ pc' = "idle" /\ kills' = kills
       => Visible(disk') = IF raised THEN before ELSE Effect]_vars

\* On disk, operations take effect at once or not at all, wherever the process
\* is killed and in whichever portions the buffer is written out.
Store == INSTANCE VdiStore WITH vdis <- Visible(disk)
Implements == Store!Spec
=============================================================================
