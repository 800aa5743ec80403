-------------------------- MODULE SRMetadataProofs --------------------------
(***************************************************************************)
(* SRMetadata implements VdiStore, for every volume and every set of VDIs. *)
(* The argument: every image, on the disk or in the buffer, shows either   *)
(* the records from before the operation or those after it (Between), and  *)
(* each of the two is one step of the store away from the other.  Why the  *)
(* images are so is in ImageInv, what a volume looks like whenever the     *)
(* process is killed, and in ViewInv, what the operation has done so far.  *)
(***************************************************************************)
EXTENDS SRMetadata, TLAPS

Named(r) == [uuid |-> r.uuid, val |-> r.val]
Unique(S) == \A r, s \in S : r.uuid = s.uuid => r = s

\* A volume that can be read, and holds a record once.
InOrder(d, uuids) ==
  /\ \A i \in 1 .. d.len : d.slot[i] \in Record
  /\ \A i, j \in Live(d) : d.slot[i].uuid = d.slot[j].uuid => i = j
  /\ \A i \in Slot : d.slot[i] # NoRecord => d.slot[i].uuid \in uuids

ImageInv(d) == InOrder(d, used)

ImagesInv == ImageInv(disk) /\ \A k \in 1 .. Len(pending) : ImageInv(pending[k])

\* The records after the first half of the operation.
Others   == {r \in before : r.uuid # op.uuid}
Half     == [uuid |-> op.uuid, val |-> op.val]
After    == IF op.kind = "delete" THEN Others
            ELSE IF op.kind = "update" THEN Others \cup {Half} ELSE before \cup {Half}
Between  == {before, After}

StoreInv ==
  /\ pc = "idle" => pending = <<>>
  /\ pc # "idle" =>
       /\ op.kind \in {"add", "space"} => op.uuid \in used
       /\ op \in Op /\ before \in SUBSET Vdi /\ Unique(before)
       /\ op.kind \in {"add", "space"} => Others = before
       /\ Visible(disk) \in Between
       /\ \A k \in 1 .. Len(pending) : Visible(pending[k]) \in Between

Failed == raised = TRUE
Fine   == raised = FALSE

\* No record but that of slot i has the uuid of the operation.
Only(d, i) == \A j \in Slot \ {i} : d.slot[j] # NoRecord => d.slot[j].uuid # op.uuid

ViewInv ==
  /\ pc \in {"add", "header"} => op.kind \in {"add", "space"}
  /\ pc = "update" => op.kind = "update"
  /\ pc = "delete" => op.kind \in {"delete", "space"}
  /\ pc \in {"add", "update"} => Visible(View) = before
  /\ pc = "add" => Only(View, 0)
  /\ pc = "header" =>
       /\ at \in Slot /\ View.slot[at] = Added /\ Only(View, at)
       /\ at <= View.len => Visible(View) = before \cup {Half}
       /\ at > View.len => at = View.len + 1 /\ Visible(View) = before
  /\ pc = "delete" => Visible(View) = IF op.kind = "space" THEN before \cup {Half} ELSE before
  /\ pc = "shrink" =>
       /\ at \in 1 .. View.len /\ View.slot[at].deleted
       /\ Visible(View) = Effect
  /\ pc \in {"add", "header", "update", "delete", "shrink"} => Fine
  /\ pc = "close" /\ Failed => Visible(View) = before
  /\ pc = "close" /\ Fine => Visible(View) = Effect

\* TypeOK without the flag.
RestType ==
  /\ disk \in Image /\ pending \in Seq(Image)
  /\ pc \in {"idle", "add", "header", "update", "delete", "shrink", "close"}
  /\ op \in Op \cup {NoOp}
  /\ at \in 0 .. Capacity
  /\ before \in SUBSET Vdi /\ used \in SUBSET Uuid /\ kills \in Nat

IInv == raised \in BOOLEAN /\ RestType /\ ImagesInv /\ StoreInv /\ ViewInv

USE ValueAssumption, CapacityAssumption, NoRecordAssumption

----------------------------------------------------------------------------
\* One write, and what it does to the records that are visible.

LEMMA ImageType ==
  ASSUME NEW d \in Image
  PROVE  d.len \in 0 .. Capacity /\ d.slot \in [Slot -> Record \cup {NoRecord}]
BY DEF Image

\* e is d with the record r in slot i.
Wrote(e, d, i, r) ==
  /\ e \in Image /\ e.len = d.len /\ e.slot[i] = r
  /\ \A j \in Slot \ {i} : e.slot[j] = d.slot[j]

LEMMA WriteType ==
  ASSUME NEW d \in Image, NEW i \in Slot, NEW r \in Record
  PROVE  Wrote([d EXCEPT !.slot[i] = r], d, i, r)
BY DEF Image, Wrote

LEMMA LengthType ==
  ASSUME NEW d \in Image, NEW n \in 0 .. Capacity
  PROVE  LET e == [d EXCEPT !.len = n]
         IN e \in Image /\ e.len = n /\ e.slot = d.slot
BY DEF Image

LEMMA LiveSlots ==
  ASSUME NEW d \in Image
  PROVE  Live(d) \subseteq 1 .. d.len /\ Live(d) \subseteq Slot
BY ImageType DEF Live, Slot

LEMMA VisibleNamed == ASSUME NEW d PROVE Visible(d) = {Named(d.slot[i]) : i \in Live(d)}
BY DEF Visible, Named

\* A record behind the last one is not seen.
LEMMA WriteBehind ==
  ASSUME NEW d \in Image, NEW i \in Slot, i > d.len, NEW r \in Record
  PROVE  LET e == [d EXCEPT !.slot[i] = r]
         IN Live(e) = Live(d) /\ Visible(e) = Visible(d)
<1> DEFINE e == [d EXCEPT !.slot[i] = r]
<1>1. e.len = d.len /\ \A j \in Slot \ {i} : e.slot[j] = d.slot[j]
  <2>1. Wrote(e, d, i, r)
    BY WriteType, Zenon
  <2> QED BY <2>1, Zenon DEF Wrote
<1>2. \A j \in 1 .. d.len : j \in Slot \ {i}
  BY ImageType DEF Slot
<1>3. Live(e) = Live(d)
  BY <1>1, <1>2 DEF Live
<1>4. \A j \in Live(d) : Named(e.slot[j]) = Named(d.slot[j])
  BY <1>1, <1>2, LiveSlots
<1> HIDE DEF e
<1>5. Visible(e) = Visible(d)
  BY <1>3, <1>4, VisibleNamed
<1> QED
  BY <1>3, <1>5 DEF e

\* A record over a deleted one is one more.
LEMMA WriteOverDeleted ==
  ASSUME NEW d \in Image, NEW i \in 1 .. d.len, d.slot[i].deleted,
         NEW r \in Record, ~r.deleted
  PROVE  LET e == [d EXCEPT !.slot[i] = r]
         IN Live(e) = Live(d) \cup {i} /\ Visible(e) = Visible(d) \cup {Named(r)}
<1> DEFINE e == [d EXCEPT !.slot[i] = r]
<1>0. i \in Slot
  BY ImageType DEF Slot
<1>1. e.len = d.len /\ e.slot[i] = r /\ \A j \in Slot \ {i} : e.slot[j] = d.slot[j]
  <2>1. Wrote(e, d, i, r)
    BY <1>0, WriteType, Zenon
  <2> QED BY <2>1, Zenon DEF Wrote
<1>2. \A j \in 1 .. d.len : j \in Slot
  BY ImageType DEF Slot
<1>3. i \notin Live(d)
  BY DEF Live
<1> HIDE DEF e
<1>4. Live(e) = Live(d) \cup {i}
  BY <1>1, <1>2 DEF Live
<1>5. \A j \in Live(d) : Named(e.slot[j]) = Named(d.slot[j])
  BY <1>1, <1>3, LiveSlots
<1>6. Visible(e) = Visible(d) \cup {Named(r)}
  BY <1>1, <1>4, <1>5, VisibleNamed
<1> QED
  BY <1>4, <1>6 DEF e

\* A record that takes the place of the one with its uuid replaces it, or
\* takes it away if it is marked deleted.
LEMMA WriteOverLive ==
  ASSUME NEW d \in Image, ImageInv(d), NEW i \in Live(d), NEW r \in Record,
         r.uuid = d.slot[i].uuid
  PROVE  LET e == [d EXCEPT !.slot[i] = r]
             others == {x \in Visible(d) : x.uuid # r.uuid}
         IN /\ Live(e) = IF r.deleted THEN Live(d) \ {i} ELSE Live(d)
            /\ Visible(e) = IF r.deleted THEN others ELSE others \cup {Named(r)}
<1> DEFINE e == [d EXCEPT !.slot[i] = r]
           others == {x \in Visible(d) : x.uuid # r.uuid}
<1>0. i \in Slot /\ i \in 1 .. d.len
  BY LiveSlots
<1>1. e.len = d.len /\ e.slot[i] = r /\ \A j \in Slot \ {i} : e.slot[j] = d.slot[j]
  <2>1. Wrote(e, d, i, r)
    BY <1>0, WriteType, Zenon
  <2> QED BY <2>1, Zenon DEF Wrote
<1>2. \A j \in 1 .. d.len : j \in Slot
  BY ImageType DEF Slot
<1> HIDE DEF e
<1>3. Live(e) = IF r.deleted THEN Live(d) \ {i} ELSE Live(d)
  BY <1>0, <1>1, <1>2 DEF Live
<1>4. \A j \in Live(d) \ {i} : e.slot[j] = d.slot[j] /\ d.slot[j].uuid # r.uuid
  BY <1>1, LiveSlots DEF ImageInv, InOrder
<1>5. {Named(e.slot[j]) : j \in Live(d) \ {i}} = others
  <2>1. ASSUME NEW j \in Live(d) \ {i} PROVE Named(e.slot[j]) \in others
    BY <2>1, <1>4, VisibleNamed DEF Named
  <2>2. ASSUME NEW x \in others PROVE x \in {Named(e.slot[j]) : j \in Live(d) \ {i}}
    <3>1. PICK j \in Live(d) : x = Named(d.slot[j])
      BY <2>2, VisibleNamed
    <3>2. j # i
      BY <2>2, <3>1 DEF Named
    <3> QED
      BY <3>1, <3>2, <1>4
  <2> QED
    BY <2>1, <2>2
<1>6. CASE r.deleted
  BY <1>3, <1>5, <1>6, VisibleNamed DEF e
<1>7. CASE ~r.deleted
  <2>1. Live(e) = (Live(d) \ {i}) \cup {i}
    BY <1>3, <1>7
  <2>2. Visible(e) = {Named(e.slot[j]) : j \in Live(d) \ {i}} \cup {Named(e.slot[i])}
    BY <2>1, VisibleNamed
  <2> QED
    BY <1>1, <1>3, <1>5, <1>7, <2>2 DEF e
<1> QED
  BY <1>6, <1>7

\* The length takes one record more, or one deleted record less.
LEMMA Lengthen ==
  ASSUME NEW d \in Image, d.len < Capacity, ~d.slot[d.len + 1].deleted
  PROVE  LET e == [d EXCEPT !.len = d.len + 1]
         IN /\ Live(e) = Live(d) \cup {d.len + 1}
            /\ Visible(e) = Visible(d) \cup {Named(d.slot[d.len + 1])}
<1> DEFINE n == d.len + 1
           e == [d EXCEPT !.len = n]
<1>0. n \in 0 .. Capacity /\ 1 .. n = (1 .. d.len) \cup {n}
  BY ImageType
<1>1. e.len = n /\ e.slot = d.slot
  BY <1>0, LengthType
<1> HIDE DEF e
<1>2. Live(e) = Live(d) \cup {n}
  BY <1>0, <1>1 DEF Live
<1>3. Visible(e) = Visible(d) \cup {Named(d.slot[n])}
  BY <1>1, <1>2, VisibleNamed
<1> QED
  BY <1>2, <1>3 DEF e

LEMMA Shorten ==
  ASSUME NEW d \in Image, d.len > 0, d.slot[d.len].deleted
  PROVE  LET e == [d EXCEPT !.len = d.len - 1]
         IN Live(e) = Live(d) /\ Visible(e) = Visible(d)
<1> DEFINE n == d.len - 1
           e == [d EXCEPT !.len = n]
<1>0. n \in 0 .. Capacity /\ 1 .. d.len = (1 .. n) \cup {d.len}
  BY ImageType
<1>1. e.len = n /\ e.slot = d.slot
  BY <1>0, LengthType
<1> HIDE DEF e
<1>2. Live(e) = Live(d)
  BY <1>0, <1>1 DEF Live
<1>3. Visible(e) = Visible(d)
  BY <1>1, <1>2, VisibleNamed
<1> QED
  BY <1>2, <1>3 DEF e

----------------------------------------------------------------------------
\* The buffer.

LEMMA ViewImage ==
  ASSUME RestType, ImagesInv
  PROVE  View \in Image /\ ImageInv(View)
<1>1. CASE pending = <<>>
  BY <1>1 DEF View, RestType, ImagesInv
<1>2. CASE pending # <<>>
  <2>1. Len(pending) \in 1 .. Len(pending) /\ pending[Len(pending)] \in Image
    BY <1>2 DEF RestType
  <2> QED
    BY <1>2, <2>1 DEF View, ImagesInv
<1> QED
  BY <1>1, <1>2

LEMMA ViewBetween ==
  ASSUME RestType, StoreInv, pc # "idle"
  PROVE  Visible(View) \in Between
<1>1. CASE pending = <<>>
  BY <1>1 DEF View, StoreInv
<1>2. CASE pending # <<>>
  <2>1. Len(pending) \in 1 .. Len(pending)
    BY <1>2 DEF RestType
  <2> QED
    BY <1>2, <2>1 DEF View, StoreInv
<1> QED
  BY <1>1, <1>2

LEMMA Written ==
  ASSUME RestType, NEW e \in Image, pending' = Append(pending, e)
  PROVE  /\ View' = e /\ pending' \in Seq(Image)
         /\ Len(pending') = Len(pending) + 1 /\ pending'[Len(pending) + 1] = e
         /\ \A k \in 1 .. Len(pending) : pending'[k] = pending[k]
<1>1. /\ pending' \in Seq(Image)
      /\ Len(pending') = Len(pending) + 1 /\ pending'[Len(pending) + 1] = e
      /\ \A k \in 1 .. Len(pending) : pending'[k] = pending[k]
  BY DEF RestType
<1>2. pending' # <<>>
  BY <1>1 DEF RestType
<1> QED
  BY <1>1, <1>2 DEF View

LEMMA NotEmpty == ASSUME NEW S, NEW s \in Seq(S), Len(s) # 0 PROVE s # <<>>
OBVIOUS

LEMMA Flushed ==
  ASSUME RestType, NEW n \in 1 .. Len(pending), FlushTo(n)
  PROVE  /\ View' = View /\ disk' \in Image /\ pending' \in Seq(Image)
         /\ \A k \in 1 .. Len(pending') : /\ k + n \in 1 .. Len(pending)
                                          /\ pending'[k] = pending[k + n]
<1> USE DEF RestType, FlushTo
<1>1. /\ disk' \in Image /\ pending' \in Seq(Image)
      /\ Len(pending') = Len(pending) - n
      /\ \A k \in 1 .. Len(pending') : pending'[k] = pending[k + n]
  OBVIOUS
<1>2. \A k \in 1 .. Len(pending') : k + n \in 1 .. Len(pending)
  BY <1>1
<1>3. pending # <<>>
  OBVIOUS
<1>4. CASE n = Len(pending)
  <2>1. pending' = <<>>
    BY <1>1, <1>4
  <2> QED
    BY <1>1, <1>2, <1>3, <1>4, <2>1 DEF View
<1>5. CASE n # Len(pending)
  <2>1. Len(pending) \in Nat /\ n \in 1 .. Len(pending)
    OBVIOUS
  <2>2. Len(pending') = Len(pending) - n
    BY <1>1
  <2>3. Len(pending') \in 1 .. Len(pending') /\ Len(pending') + n = Len(pending)
    BY <2>1, <2>2, <1>5
  <2>4. pending' # <<>>
    <3>1. Len(pending') # 0
      BY <2>3
    <3> HIDE DEF FlushTo
    <3> QED
      BY <1>1, <3>1, NotEmpty
  <2>5. pending'[Len(pending')] = pending[Len(pending)]
    BY <1>1, <2>3
  <2>6. View' = View
    BY <1>3, <2>4, <2>5 DEF View
  <2> QED
    BY <1>1, <1>2, <2>6
<1> QED
  BY <1>4, <1>5

\* A record with a uuid no other visible record has keeps a volume in order.
LEMMA WriteKeepsImage ==
  ASSUME NEW d \in Image, ImageInv(d), NEW i \in Slot, NEW r \in Record, r.uuid \in used,
         \A j \in Live(d) \ {i} : d.slot[j].uuid # r.uuid
  PROVE  ImageInv([d EXCEPT !.slot[i] = r])
<1> DEFINE e == [d EXCEPT !.slot[i] = r]
<1>1. e.len = d.len /\ e.slot[i] = r /\ \A j \in Slot \ {i} : e.slot[j] = d.slot[j]
  <2>1. Wrote(e, d, i, r)
    BY WriteType, Zenon
  <2> QED BY <2>1, Zenon DEF Wrote
<1>2. \A j \in 1 .. d.len : j \in Slot
  BY ImageType DEF Slot
<1> HIDE DEF e
<1>3. Live(e) \subseteq Live(d) \cup {i}
  BY <1>1, <1>2 DEF Live
<1>4. ImageInv(e)
  <2>1. \A j \in 1 .. e.len : e.slot[j] \in Record
    BY <1>1, <1>2 DEF ImageInv, InOrder
  <2>2. \A j \in Slot : e.slot[j] # NoRecord => e.slot[j].uuid \in used
    BY <1>1 DEF ImageInv, InOrder
  <2>3. \A j \in Live(e) \ {i} : /\ j \in Live(d) \ {i} /\ e.slot[j] = d.slot[j]
    BY <1>1, <1>3, LiveSlots
  <2>4. \A j, k \in Live(e) : e.slot[j].uuid = e.slot[k].uuid => j = k
    BY <1>1, <2>3 DEF ImageInv, InOrder
  <2> QED
    BY <2>1, <2>2, <2>4 DEF ImageInv, InOrder
<1> QED
  BY <1>4 DEF e

\* A write whose image is in order and shows what it may keeps the buffer so.
LEMMA WriteStep ==
  ASSUME IInv, pc # "idle", pc' # "idle", NEW e \in Image, ImageInv(e), Visible(e) \in Between,
         pending' = Append(pending, e), UNCHANGED <<disk, op, before, used>>
  PROVE  View' = e /\ pending' \in Seq(Image) /\ ImagesInv' /\ StoreInv'
<1>1. /\ View' = e /\ pending' \in Seq(Image)
      /\ Len(pending') = Len(pending) + 1 /\ pending'[Len(pending) + 1] = e
      /\ \A k \in 1 .. Len(pending) : pending'[k] = pending[k]
  BY Written DEF IInv
<1>2. \A k \in 1 .. Len(pending') : k \in 1 .. Len(pending) \/ k = Len(pending) + 1
  BY <1>1 DEF IInv, RestType
<1>3. InOrder(disk', used')
  BY DEF IInv, ImagesInv, ImageInv
<1>4. \A k \in 1 .. Len(pending') : InOrder(pending'[k], used')
  BY <1>1, <1>2 DEF IInv, ImagesInv, ImageInv
<1>6. ImagesInv'
  BY <1>3, <1>4 DEF ImagesInv, ImageInv
<1>7. Between' = Between /\ Others' = Others
  BY DEF Between, After, Others, Half
<1>8. Visible(disk') \in Between
  BY DEF IInv, StoreInv
<1>9. \A k \in 1 .. Len(pending') : Visible(pending'[k]) \in Between
  BY <1>1, <1>2 DEF IInv, StoreInv
<1>10. StoreInv'
  BY <1>7, <1>8, <1>9 DEF IInv, StoreInv, Visible, Live, Unique
<1> QED
  BY <1>1, <1>6, <1>10

LEMMA NoWriteStep ==
  ASSUME IInv, pc # "idle", pc' # "idle", UNCHANGED <<disk, pending, op, before, used>>
  PROVE  View' = View /\ ImagesInv' /\ StoreInv'
<1>1. View' = View
  BY DEF View
<1>2. ImagesInv'
  BY DEF IInv, ImagesInv, ImageInv
<1>3. Between' = Between /\ Others' = Others
  BY DEF Between, After, Others, Half
<1>4. StoreInv'
  BY <1>3 DEF IInv, StoreInv, Visible, Live, Unique
<1> QED
  BY <1>1, <1>2, <1>4

LEMMA SameFlag == raised' = raised => (Failed' <=> Failed) /\ (Fine' <=> Fine)
BY Zenon DEF Failed, Fine

LEMMA FlagSet == raised' = TRUE => raised' \in BOOLEAN /\ Failed' /\ ~Fine'
BY Zenon DEF Failed, Fine

LEMMA FlagClear == raised' = FALSE => raised' \in BOOLEAN /\ Fine' /\ ~Failed'
BY Zenon DEF Failed, Fine

LEMMA FlagExclusive == ~(Fine /\ Failed)
BY Zenon DEF Failed, Fine

LEMMA SameType == raised' = raised /\ raised \in BOOLEAN => raised' \in BOOLEAN
OBVIOUS

----------------------------------------------------------------------------
\* The steps of an operation.

\* What the View and the operation are, in all of them.
LEMMA Working ==
  ASSUME IInv, pc # "idle"
  PROVE  /\ View \in Image /\ ImageInv(View) /\ Visible(View) \in Between
         /\ op \in Op /\ before \in SUBSET Vdi /\ Unique(before)
         /\ Added \in Record /\ ~Added.deleted /\ Named(Added) = Half
<1>1. View \in Image /\ ImageInv(View) /\ Visible(View) \in Between
  BY ViewImage, ViewBetween DEF IInv
<1>2. op \in Op /\ before \in SUBSET Vdi /\ Unique(before)
  BY DEF IInv, StoreInv
<1> QED
  BY <1>1, <1>2 DEF Added, Named, Half, Record, Op

LEMMA RaiseStep ==
  ASSUME IInv, pc \in {"add", "update"}, Raise, UNCHANGED <<disk, op, before, used, kills>>
  PROVE  IInv'
<1>1. pc' = "close" /\ UNCHANGED <<pending, at>>
  BY DEF Raise
<1>2. raised' \in BOOLEAN /\ Failed' /\ ~Fine'
  BY FlagSet DEF Raise
<1>3. View' = View /\ ImagesInv' /\ StoreInv'
  BY <1>1, NoWriteStep
<1>4. RestType'
  BY <1>1 DEF IInv, RestType
<1>5. ViewInv'
  BY <1>1, <1>2, <1>3 DEF IInv, ViewInv, Visible, Live
<1> QED
  BY <1>2, <1>3, <1>4, <1>5 DEF IInv

LEMMA AddRecordStep ==
  ASSUME IInv, AddRecord PROVE IInv'
<1>0. pc = "add" /\ UNCHANGED <<disk, op, before, used, kills>>
  BY DEF AddRecord
<1>1. /\ op.kind \in {"add", "space"} /\ op.uuid \in used
      /\ Visible(View) = before /\ Only(View, 0) /\ Fine
  BY <1>0 DEF IInv, StoreInv, ViewInv
<1>2. After = before \cup {Half}
  BY <1>1 DEF After
<1>3. \A j \in Slot : View.slot[j] # NoRecord => View.slot[j].uuid # op.uuid
  BY <1>1 DEF Only, Slot
<1>4. \A j \in Live(View) : View.slot[j].uuid # op.uuid
  BY <1>0, <1>3, Working, LiveSlots DEF ImageInv, InOrder
<1>5. CASE op.val = TooLong /\ Raise
  BY <1>0, <1>5, RaiseStep
<1>6. CASE FirstDeleted(View) = {} /\ View.len = Capacity /\ Raise
  BY <1>0, <1>6, RaiseStep
<1>7. ASSUME NEW i \in Slot, at' = i, WriteRecord(i, Added), pc' = "header", UNCHANGED raised,
             LET e == [View EXCEPT !.slot[i] = Added]
             IN \/ i <= View.len /\ Visible(e) = before \cup {Half}
                \/ i = View.len + 1 /\ Visible(e) = before
      PROVE  IInv'
  <2> DEFINE e == [View EXCEPT !.slot[i] = Added]
  <2>1. /\ e \in Image /\ e.len = View.len /\ e.slot[i] = Added
        /\ \A j \in Slot \ {i} : e.slot[j] = View.slot[j]
    <3>1. Wrote(e, View, i, Added)
      BY <1>0, Working, WriteType, Zenon
    <3> QED BY <3>1, Zenon DEF Wrote
  <2>2. Added.uuid \in used /\ Added.uuid = op.uuid
    BY <1>1 DEF Added
  <2>3. ImageInv(e)
    BY <1>0, <1>4, <2>2, Working, WriteKeepsImage
  <2>4. Visible(e) \in Between
    BY <1>2, <1>7 DEF Between
  <2>5. pending' = Append(pending, e)
    BY <1>7 DEF WriteRecord
  <2> HIDE DEF e
  <2>6. View' = e /\ pending' \in Seq(Image) /\ ImagesInv' /\ StoreInv'
    BY <1>0, <1>7, <2>1, <2>3, <2>4, <2>5, WriteStep
  <2>7. RestType'
    BY <1>0, <1>7, <2>6 DEF IInv, RestType, Slot
  <2>8. raised' \in BOOLEAN /\ Fine'
    BY <1>1, <1>7, SameFlag, SameType DEF IInv
  <2>9. Visible(View)' = Visible(e) /\ Added' = Added /\ Half' = Half
    BY <1>0, <2>6 DEF Visible, Live, Added, Half
  <2>10. \A j \in Slot \ {i} : e.slot[j] # NoRecord => e.slot[j].uuid # op.uuid
    BY <1>3, <2>1
  <2>11. Only(View, at)'
    BY <1>0, <1>7, <2>6, <2>10 DEF Only
  <2>12. e.len \in Nat /\ i \in Nat
    BY <2>1, ImageType DEF Slot
  <2>13. ViewInv'
    BY <1>0, <1>1, <1>7, <2>1, <2>6, <2>8, <2>9, <2>11, <2>12 DEF ViewInv, e
  <2> QED
    BY <2>6, <2>7, <2>8, <2>13 DEF IInv
<1>8. ASSUME NEW i \in FirstDeleted(View), at' = i, WriteRecord(i, Added), pc' = "header",
             UNCHANGED raised
      PROVE  IInv'
  <2>1. i \in 1 .. View.len /\ View.slot[i].deleted /\ i \in Slot
    BY <1>0, Working, ImageType DEF FirstDeleted, Slot
  <2>2. Visible([View EXCEPT !.slot[i] = Added]) = before \cup {Half}
    BY <1>0, <1>1, <2>1, Working, WriteOverDeleted
  <2> QED
    BY <1>7, <1>8, <2>1, <2>2
<1>9. ASSUME View.len < Capacity, at' = View.len + 1, WriteRecord(at', Added), pc' = "header",
             UNCHANGED raised
      PROVE  IInv'
  <2>1. View.len + 1 \in Slot /\ View.len + 1 > View.len
    BY <1>0, <1>9, Working, ImageType DEF Slot
  <2>2. Visible([View EXCEPT !.slot[View.len + 1] = Added]) = before
    BY <1>0, <1>1, <2>1, Working, WriteBehind
  <2> QED
    BY <1>7, <1>9, <2>1, <2>2
<1> QED
  BY <1>5, <1>6, <1>8, <1>9 DEF AddRecord

LEMMA AddHeaderStep ==
  ASSUME IInv, AddHeader PROVE IInv'
<1> DEFINE n == IF at > View.len THEN at ELSE View.len
           e == [View EXCEPT !.len = n]
<1>0. /\ pc = "header" /\ UNCHANGED <<disk, op, at, raised, before, used, kills>>
      /\ pending' = Append(pending, e)
      /\ pc' = IF op.kind = "space" THEN "delete" ELSE "close"
  BY DEF AddHeader, WriteLength
<1>1. /\ op.kind \in {"add", "space"} /\ at \in Slot /\ View.slot[at] = Added /\ Only(View, at)
      /\ at <= View.len => Visible(View) = before \cup {Half}
      /\ at > View.len => at = View.len + 1 /\ Visible(View) = before
      /\ Fine
  BY <1>0 DEF IInv, ViewInv
<1>2. /\ View \in Image /\ ImageInv(View) /\ Added \in Record /\ ~Added.deleted
      /\ Named(Added) = Half
  BY <1>0, Working
<1>3. View.len \in 0 .. Capacity /\ at \in 1 .. Capacity
  BY <1>1, <1>2, ImageType DEF Slot
<1>4. n \in 0 .. Capacity
  BY <1>3
<1>5. e \in Image /\ e.len = n /\ e.slot = View.slot
  BY <1>2, <1>4, LengthType
<1>6. ImageInv(e) /\ Visible(e) = before \cup {Half}
  <2>1. CASE at > View.len
    <3>1. n = View.len + 1 /\ at = View.len + 1 /\ View.len < Capacity
      BY <1>1, <1>3, <2>1
    <3>2. ~View.slot[View.len + 1].deleted
      BY <1>1, <1>2, <3>1
    <3>3. Live(e) = Live(View) \cup {at} /\ Visible(e) = before \cup {Half}
      BY <1>1, <1>2, <3>1, <3>2, <2>1, Lengthen
    <3>4. \A j \in Live(View) : j \in Slot \ {at} /\ View.slot[j] # NoRecord
      BY <1>2, <1>3, <3>1, LiveSlots DEF ImageInv, InOrder
    <3>5. \A j \in Live(View) : View.slot[j].uuid # op.uuid
      BY <1>1, <3>4 DEF Only
    <3>6. Added.uuid = op.uuid
      BY DEF Added
    <3> HIDE DEF e, n
    <3>7. \A j, k \in Live(e) : e.slot[j].uuid = e.slot[k].uuid => j = k
      BY <1>1, <1>2, <1>5, <3>3, <3>5, <3>6 DEF ImageInv, InOrder
    <3>8. \A j \in 1 .. e.len : j \in 1 .. View.len \/ j = at
      BY <1>3, <1>5, <3>1
    <3>9. ImageInv(e)
      BY <1>1, <1>2, <1>5, <3>7, <3>8 DEF ImageInv, InOrder
    <3> QED
      BY <3>3, <3>9
  <2>2. CASE ~(at > View.len)
    <3>1. n = View.len
      BY <2>2
    <3> HIDE DEF e, n
    <3>2. Live(e) = Live(View)
      BY <1>5, <3>1 DEF Live
    <3>3. Visible(e) = Visible(View)
      BY <1>5, <3>2 DEF Visible
    <3>4. ImageInv(e)
      BY <1>2, <1>5, <3>1, <3>2 DEF ImageInv, InOrder
    <3>5. at <= View.len
      BY <1>3, <2>2
    <3> QED
      BY <1>1, <3>3, <3>4, <3>5
  <2> QED
    BY <2>1, <2>2
<1> HIDE DEF e, n
<1>7. Visible(e) \in Between
  BY <1>1, <1>6 DEF Between, After
<1>8. View' = e /\ pending' \in Seq(Image) /\ ImagesInv' /\ StoreInv'
  BY <1>0, <1>5, <1>6, <1>7, WriteStep
<1>9. RestType'
  BY <1>0, <1>8 DEF IInv, RestType
<1>10. raised' \in BOOLEAN /\ Fine' /\ ~Failed'
  BY <1>0, <1>1, SameFlag, SameType, FlagExclusive DEF IInv
<1>11. Visible(View)' = before \cup {Half} /\ Half' = Half /\ Effect' = Effect
  BY <1>0, <1>6, <1>8 DEF Visible, Live, Half, Effect
<1>12. op.kind = "add" => Effect = before \cup {Half}
  BY DEF Effect, Half
<1>13. ViewInv'
  BY <1>0, <1>1, <1>10, <1>11, <1>12 DEF ViewInv
<1> QED
  BY <1>8, <1>9, <1>10, <1>13 DEF IInv

LEMMA UpdateVdiStep ==
  ASSUME IInv, UpdateVdi PROVE IInv'
<1>0. pc = "update" /\ UNCHANGED <<disk, op, before, used, kills>>
  BY DEF UpdateVdi
<1>1. op.kind = "update" /\ Visible(View) = before /\ Fine
  BY <1>0 DEF IInv, ViewInv
<1>2. CASE Raise
  BY <1>0, <1>2, RaiseStep
<1>3. ASSUME NEW i \in Found(View, op.uuid), WriteRecord(i, Added), pc' = "close",
             UNCHANGED <<at, raised>>
      PROVE  IInv'
  <2> DEFINE e == [View EXCEPT !.slot[i] = Added]
  <2>1. i \in Live(View) /\ View.slot[i].uuid = op.uuid /\ Added.uuid = op.uuid
    BY <1>3 DEF Found, Added
  <2>2. i \in Slot
    BY <1>0, <2>1, Working, LiveSlots
  <2>3. e \in Image
    <3>1. Wrote(e, View, i, Added)
      BY <1>0, <2>2, Working, WriteType, Zenon
    <3> QED BY <3>1, Zenon DEF Wrote
  <2>4. Visible(e) = {x \in Visible(View) : x.uuid # op.uuid} \cup {Half}
    <3>1. /\ View \in Image /\ ImageInv(View) /\ Added \in Record /\ ~Added.deleted
          /\ Named(Added) = Half
      BY <1>0, Working
    <3>2. Added.uuid = View.slot[i].uuid
      BY <2>1
    <3>3. Visible(e) = {x \in Visible(View) : x.uuid # Added.uuid} \cup {Named(Added)}
      BY <2>1, <3>1, <3>2, WriteOverLive
    <3> QED
      BY <2>1, <3>1, <3>3
  <2>5. \A j \in Live(View) \ {i} : View.slot[j].uuid # Added.uuid
    BY <1>0, <2>1, Working DEF ImageInv, InOrder
  <2>6. Added.uuid \in used
    BY <1>0, <2>1, Working, LiveSlots DEF ImageInv, InOrder
  <2>7. ImageInv(e)
    BY <1>0, <2>2, <2>5, <2>6, Working, WriteKeepsImage
  <2>8. pending' = Append(pending, e)
    BY <1>3 DEF WriteRecord
  <2> HIDE DEF e
  <2>9. Visible(e) = Others \cup {Half}
    BY <1>1, <2>4 DEF Others
  <2>10. Visible(e) \in Between /\ Visible(e) = Effect
    BY <1>1, <2>9 DEF Between, After, Effect, Others, Half
  <2>11. View' = e /\ pending' \in Seq(Image) /\ ImagesInv' /\ StoreInv'
    BY <1>0, <1>3, <2>3, <2>7, <2>8, <2>10, WriteStep
  <2>12. RestType'
    BY <1>0, <1>3, <2>11 DEF IInv, RestType
  <2>13. raised' \in BOOLEAN /\ Fine' /\ ~Failed'
    BY <1>1, <1>3, SameFlag, SameType, FlagExclusive DEF IInv
  <2>14. Visible(View)' = Effect'
    BY <1>0, <2>10, <2>11 DEF Visible, Live, Effect
  <2>15. ViewInv'
    BY <1>3, <2>13, <2>14 DEF ViewInv
  <2> QED
    BY <2>11, <2>12, <2>13, <2>15 DEF IInv
<1> QED
  BY <1>2, <1>3 DEF UpdateVdi

LEMMA DeleteRecordStep ==
  ASSUME IInv, DeleteRecord PROVE IInv'
<1>0. pc = "delete" /\ UNCHANGED <<disk, op, raised, before, used, kills>>
  BY DEF DeleteRecord
<1>1. /\ op.kind \in {"delete", "space"} /\ Fine
      /\ Visible(View) = IF op.kind = "space" THEN before \cup {Half} ELSE before
      /\ op.kind = "space" => Others = before
  BY <1>0 DEF IInv, ViewInv, StoreInv
<1>2. {x \in Visible(View) : x.uuid # op.uuid} = Others
  BY <1>1 DEF Others, Half
<1>3. Others = Effect /\ Others \in Between
  BY <1>1 DEF Effect, Others, Between, After
<1>4. raised' \in BOOLEAN /\ Fine' /\ ~Failed'
  BY <1>0, <1>1, SameFlag, SameType, FlagExclusive DEF IInv
<1>5. Effect' = Effect
  BY <1>0 DEF Effect
<1>6. ASSUME NEW i \in Found(View, op.uuid), at' = i, pc' = "shrink",
             WriteRecord(i, [View.slot[i] EXCEPT !.deleted = TRUE])
      PROVE  IInv'
  <2> DEFINE r == [View.slot[i] EXCEPT !.deleted = TRUE]
             e == [View EXCEPT !.slot[i] = r]
  <2>1. i \in Live(View) /\ View.slot[i].uuid = op.uuid
    BY <1>6 DEF Found
  <2>2. i \in Slot /\ i \in 1 .. View.len
    BY <1>0, <2>1, Working, LiveSlots
  <2>3. View.slot[i] \in Record
    BY <1>0, <2>2, Working DEF ImageInv, InOrder
  <2>4. r \in Record /\ r.uuid = op.uuid /\ r.deleted
    BY <2>1, <2>3 DEF Record
  <2> HIDE DEF r
  <2>5. e \in Image /\ e.len = View.len /\ e.slot[i] = r
    <3>1. Wrote(e, View, i, r)
      BY <1>0, <2>2, <2>4, Working, WriteType, Zenon
    <3> QED BY <3>1, Zenon DEF Wrote
  <2>6. Visible(e) = Others
    <3>1. r.uuid = View.slot[i].uuid
      BY <2>1, <2>4
    <3>2. Visible(e) = {x \in Visible(View) : x.uuid # r.uuid}
      BY <1>0, <2>1, <2>4, <3>1, Working, WriteOverLive
    <3> QED
      BY <1>2, <2>4, <3>2
  <2>7. \A j \in Live(View) \ {i} : View.slot[j].uuid # r.uuid
    BY <1>0, <2>1, <2>4, Working DEF ImageInv, InOrder
  <2>8. r.uuid \in used
    BY <1>0, <2>1, <2>2, <2>3, <2>4, Working DEF ImageInv, InOrder
  <2>9. ImageInv(e)
    BY <1>0, <2>2, <2>4, <2>7, <2>8, Working, WriteKeepsImage
  <2>10. pending' = Append(pending, e)
    BY <1>6 DEF WriteRecord, r
  <2> HIDE DEF e
  <2>11. View' = e /\ pending' \in Seq(Image) /\ ImagesInv' /\ StoreInv'
    BY <1>0, <1>3, <1>6, <2>5, <2>6, <2>9, <2>10, WriteStep
  <2>12. RestType'
    BY <1>0, <1>6, <2>2, <2>11 DEF IInv, RestType, Slot
  <2>13. Visible(View)' = Effect'
    BY <1>3, <1>5, <2>6, <2>11 DEF Visible, Live
  <2>14. ViewInv'
    BY <1>4, <1>6, <2>2, <2>4, <2>5, <2>11, <2>13 DEF ViewInv
  <2> QED
    BY <1>4, <2>11, <2>12, <2>14 DEF IInv
<1>7. ASSUME Found(View, op.uuid) = {}, pc' = "close", UNCHANGED <<pending, at>>
      PROVE  IInv'
  <2>1. \A i \in Live(View) : View.slot[i].uuid # op.uuid
    <3> SUFFICES ASSUME NEW i \in Live(View), View.slot[i].uuid = op.uuid PROVE FALSE
      OBVIOUS
    <3>1. \A j \in Live(View) : View.slot[j].uuid = op.uuid => j = i
      BY <1>0, Working DEF ImageInv, InOrder
    <3>2. i \in Nat
      <4>1. i \in Slot
        BY <1>0, Working, LiveSlots
      <4> QED
        BY <4>1 DEF Slot
    <3>3. \A j \in Live(View) : View.slot[j].uuid = op.uuid => i <= j
      BY <3>1, <3>2
    <3>4. i \in Found(View, op.uuid)
      BY <3>3 DEF Found
    <3> QED
      BY <1>7, <3>4
  <2>2. \A x \in Visible(View) : x.uuid # op.uuid
    BY <2>1 DEF Visible
  <2>3. Visible(View) = Effect
    BY <1>2, <1>3, <2>2
  <2>4. View' = View /\ ImagesInv' /\ StoreInv'
    BY <1>0, <1>7, NoWriteStep
  <2>5. RestType'
    BY <1>0, <1>7 DEF IInv, RestType
  <2>6. Visible(View)' = Effect'
    BY <1>5, <2>3, <2>4 DEF Visible, Live
  <2>7. ViewInv'
    BY <1>4, <1>7, <2>6 DEF ViewInv
  <2> QED
    BY <1>4, <2>4, <2>5, <2>7 DEF IInv
<1> QED
  BY <1>6, <1>7 DEF DeleteRecord

LEMMA ShrinkStep ==
  ASSUME IInv, Shrink PROVE IInv'
<1>0. pc = "shrink" /\ pc' = "close" /\ UNCHANGED <<disk, op, at, raised, before, used, kills>>
  BY DEF Shrink
<1>1. at \in 1 .. View.len /\ View.slot[at].deleted /\ Visible(View) = Effect /\ Fine
  BY <1>0 DEF IInv, ViewInv
<1>2. raised' \in BOOLEAN /\ Fine' /\ ~Failed'
  BY <1>0, <1>1, SameFlag, SameType, FlagExclusive DEF IInv
<1>3. Effect' = Effect
  BY <1>0 DEF Effect
<1>4. CASE at = View.len
  <2> DEFINE e == [View EXCEPT !.len = View.len - 1]
  <2>1. View.len \in 0 .. Capacity /\ View.len > 0 /\ View.len - 1 \in 0 .. Capacity
    BY <1>0, <1>1, <1>4, Working, ImageType
  <2>2. e \in Image /\ e.len = View.len - 1 /\ e.slot = View.slot
    BY <1>0, <2>1, Working, LengthType
  <2>3. Live(e) = Live(View) /\ Visible(e) = Visible(View)
    BY <1>0, <1>1, <1>4, <2>1, Working, Shorten
  <2>4. pending' = Append(pending, e)
    BY <1>4 DEF Shrink, WriteLength
  <2> HIDE DEF e
  <2>5. \A j \in 1 .. e.len : j \in 1 .. View.len
    BY <2>1, <2>2
  <2>6. ImageInv(e)
    BY <1>0, <2>2, <2>3, <2>5, Working DEF ImageInv, InOrder
  <2>7. View' = e /\ pending' \in Seq(Image) /\ ImagesInv' /\ StoreInv'
    BY <1>0, <2>2, <2>3, <2>4, <2>6, Working, WriteStep
  <2>8. RestType'
    BY <1>0, <2>7 DEF IInv, RestType
  <2>9. Visible(View)' = Effect'
    BY <1>1, <1>3, <2>3, <2>7 DEF Visible, Live
  <2>10. ViewInv'
    BY <1>0, <1>2, <2>9 DEF ViewInv
  <2> QED
    BY <1>2, <2>7, <2>8, <2>10 DEF IInv
<1>5. CASE at # View.len
  <2>1. UNCHANGED pending
    BY <1>5 DEF Shrink
  <2>2. View' = View /\ ImagesInv' /\ StoreInv'
    BY <1>0, <2>1, NoWriteStep
  <2>3. RestType'
    BY <1>0, <2>1 DEF IInv, RestType
  <2>4. Visible(View)' = Effect'
    BY <1>1, <1>3, <2>2 DEF Visible, Live
  <2>5. ViewInv'
    BY <1>0, <1>2, <2>4 DEF ViewInv
  <2> QED
    BY <1>2, <2>2, <2>3, <2>5 DEF IInv
<1> QED
  BY <1>4, <1>5

----------------------------------------------------------------------------
\* The other steps.

LEMMA OpenStep ==
  ASSUME IInv, Open PROVE IInv'
<1>0. /\ pc = "idle" /\ op' \in Op /\ raised' = FALSE /\ before' = Visible(disk)
      /\ pc' = IF op'.kind = "space" THEN "add" ELSE op'.kind
      /\ UNCHANGED <<disk, pending, at, kills>>
  BY DEF Open
<1>1. /\ op'.kind \in {"add", "space"} => op'.uuid \notin used /\ op'.uuid \in used'
      /\ used \subseteq used' /\ used' \in SUBSET Uuid
  BY <1>0 DEF Open, Op, IInv, RestType
<1>2. pending = <<>> /\ View = disk /\ View' = View
  BY <1>0 DEF IInv, StoreInv, View
<1>3. disk \in Image /\ InOrder(disk, used)
  BY DEF IInv, RestType, ImagesInv, ImageInv
<1>4. pc' \in {"add", "update", "delete"}
  BY <1>0 DEF Op
<1>5. RestType'
  <2>1. before' \in SUBSET Vdi
    BY <1>0, <1>3 DEF Visible, Live, InOrder, Record, Vdi
  <2> QED
    BY <1>0, <1>1, <1>4, <2>1 DEF IInv, RestType
<1>6. ImagesInv'
  <2>1. InOrder(disk, used')
    BY <1>1, <1>3 DEF InOrder
  <2>2. Len(pending) = 0
    BY <1>2
  <2> QED
    BY <1>0, <2>1, <2>2 DEF ImagesInv, ImageInv
<1>7. StoreInv'
  <2>1. \A x \in Visible(disk) : \E i \in Live(disk) : x = Named(disk.slot[i])
    BY VisibleNamed
  <2>2. Unique(Visible(disk))
    BY <1>3, <2>1 DEF Unique, InOrder, Named
  <2>3. \A x \in Visible(disk) : x.uuid \in used
    BY <1>3, <2>1, LiveSlots DEF InOrder, Named, Live
  <2>4. op'.kind \in {"add", "space"} => {x \in before' : x.uuid # op'.uuid} = before'
    BY <1>0, <1>1, <2>3
  <2>5. Visible(disk)' \in Between'
    BY <1>0 DEF Between, Visible, Live
  <2>6. Len(pending') = 0
    BY <1>0, <1>2
  <2>7. before' \in SUBSET Vdi /\ Unique(before)'
    BY <1>0, <1>5, <2>2 DEF RestType, Unique
  <2> QED
    BY <1>0, <1>1, <1>4, <2>4, <2>5, <2>6, <2>7 DEF StoreInv, Others
<1>8. raised' \in BOOLEAN /\ Fine'
  BY <1>0, FlagClear
<1>9. ViewInv'
  <2>1. Visible(View)' = before'
    BY <1>0, <1>2 DEF Visible, Live
  <2>2. pc' = "add" => op'.kind \in {"add", "space"}
    BY <1>0 DEF Op
  <2>3. pc' = "add" => Only(View, 0)'
    BY <1>0, <1>1, <1>2, <1>3, <2>2 DEF Only, InOrder
  <2>4. pc' = "update" => op'.kind = "update"
    BY <1>0 DEF Op
  <2>5. pc' = "delete" => op'.kind = "delete"
    BY <1>0 DEF Op
  <2> QED
    BY <1>4, <1>8, <2>1, <2>2, <2>3, <2>4, <2>5 DEF ViewInv
<1> QED
  BY <1>5, <1>6, <1>7, <1>8, <1>9 DEF IInv

LEMMA FlushStep ==
  ASSUME IInv, Flush PROVE IInv' /\ pc # "idle" /\ Visible(disk') \in Between
<1>0. UNCHANGED <<pc, op, at, raised, before, used, kills>>
  BY DEF Flush
<1>1. PICK n \in 1 .. Len(pending) : FlushTo(n)
  BY DEF Flush
<1>2. /\ View' = View /\ disk' \in Image /\ pending' \in Seq(Image) /\ disk' = pending[n]
      /\ \A k \in 1 .. Len(pending') : /\ k + n \in 1 .. Len(pending)
                                       /\ pending'[k] = pending[k + n]
  BY <1>1, Flushed DEF IInv, FlushTo
<1>3. pc # "idle"
  BY <1>1 DEF IInv, StoreInv
<1>4. ImagesInv'
  BY <1>0, <1>2 DEF IInv, ImagesInv, ImageInv
<1>5. Between' = Between /\ Others' = Others
  BY <1>0 DEF Between, After, Others, Half
<1>6. Visible(disk') \in Between
  BY <1>2, <1>3 DEF IInv, StoreInv
<1>7. \A k \in 1 .. Len(pending') : Visible(pending'[k]) \in Between
  BY <1>2, <1>3 DEF IInv, StoreInv
<1>8. StoreInv'
  BY <1>0, <1>3, <1>5, <1>6, <1>7 DEF IInv, StoreInv, Visible, Live, Unique
<1>9. (Fine' <=> Fine) /\ (Failed' <=> Failed) /\ raised' \in BOOLEAN
  BY <1>0, SameFlag, SameType DEF IInv
<1>10. /\ Visible(View)' = Visible(View) /\ Half' = Half /\ Added' = Added /\ Effect' = Effect
       /\ Only(View, 0)' <=> Only(View, 0)
       /\ Only(View, at)' <=> Only(View, at)
  BY <1>0, <1>2 DEF Visible, Live, Half, Added, Effect, Only
<1>11. ViewInv'
  BY <1>0, <1>2, <1>9, <1>10 DEF IInv, ViewInv
<1>12. RestType'
  BY <1>0, <1>2 DEF IInv, RestType
<1> QED
  BY <1>3, <1>4, <1>6, <1>8, <1>9, <1>11, <1>12 DEF IInv

\* The volume is closed, or left as it is.
LEMMA IdleStep ==
  ASSUME IInv, pc # "idle", Idle, pending' = <<>>, disk' \in {disk, View}, used' = used,
         kills' \in Nat
  PROVE  IInv' /\ Visible(disk') \in Between
<1>1. disk' \in Image /\ InOrder(disk', used)
  BY Working DEF IInv, RestType, ImagesInv, ImageInv
<1>2. Len(pending') = 0 /\ pending' \in Seq(Image)
  OBVIOUS
<1>3. ImagesInv'
  BY <1>1, <1>2 DEF ImagesInv, ImageInv
<1>4. pc' = "idle" /\ op' = NoOp /\ at' = 0 /\ before' = {}
  BY DEF Idle
<1>5. raised' \in BOOLEAN
  BY FlagClear DEF Idle
<1>6. RestType'
  BY <1>1, <1>2, <1>4 DEF IInv, RestType
<1>7. StoreInv' /\ ViewInv'
  BY <1>4 DEF StoreInv, ViewInv
<1>8. Visible(disk') \in Between
  BY Working DEF IInv, StoreInv
<1> QED
  BY <1>3, <1>5, <1>6, <1>7, <1>8 DEF IInv

LEMMA CloseStep ==
  ASSUME IInv, Close \/ Kill
  PROVE  IInv' /\ pc # "idle" /\ Visible(disk') \in Between
<1>1. pc # "idle" /\ Idle /\ pending' = <<>> /\ disk' \in {disk, View} /\ used' = used
  BY DEF Close, Kill
<1>2. kills' \in Nat
  BY DEF Close, Kill, IInv, RestType
<1> QED
  BY <1>1, <1>2, IdleStep

LEMMA Initially == Init => IInv
<1> SUFFICES ASSUME Init PROVE IInv
  OBVIOUS
<1>1. disk \in Image /\ disk.len = 0 /\ \A i \in Slot : disk.slot[i] = NoRecord
  BY DEF Init, Image
<1>2. pending = <<>> /\ Len(pending) = 0 /\ pending \in Seq(Image)
  BY DEF Init
<1>3. RestType
  BY <1>1, <1>2 DEF Init, RestType
<1>4. ImagesInv
  BY <1>1, <1>2 DEF ImagesInv, ImageInv, InOrder, Live
<1>5. StoreInv /\ ViewInv
  BY <1>2 DEF Init, StoreInv, ViewInv
<1>6. raised \in BOOLEAN
  BY Zenon DEF Init
<1> QED
  BY <1>3, <1>4, <1>5, <1>6 DEF IInv

LEMMA IdleStutter == IInv /\ UNCHANGED vars => IInv'
<1> SUFFICES ASSUME IInv, UNCHANGED vars PROVE IInv'
  OBVIOUS
<1>0. UNCHANGED <<disk, pending, pc, op, at, raised, before, used, kills>>
  BY DEF vars
<1>1. View' = View
  BY <1>0 DEF View
<1>2. ImagesInv'
  BY <1>0 DEF IInv, ImagesInv, ImageInv
<1>3. Between' = Between /\ Others' = Others
  BY <1>0 DEF Between, After, Others, Half
<1>4. StoreInv'
  BY <1>0, <1>3 DEF IInv, StoreInv, Visible, Live, Unique
<1>5. (Fine' <=> Fine) /\ (Failed' <=> Failed) /\ raised' \in BOOLEAN
  BY <1>0, SameFlag, SameType DEF IInv
<1>6. /\ Visible(View)' = Visible(View) /\ Half' = Half /\ Added' = Added /\ Effect' = Effect
      /\ Only(View, 0)' <=> Only(View, 0)
      /\ Only(View, at)' <=> Only(View, at)
  BY <1>0, <1>1 DEF Visible, Live, Half, Added, Effect, Only
<1>7. ViewInv'
  BY <1>0, <1>1, <1>5, <1>6 DEF IInv, ViewInv
<1>8. RestType'
  BY <1>0 DEF IInv, RestType
<1> QED
  BY <1>2, <1>4, <1>5, <1>7, <1>8 DEF IInv

----------------------------------------------------------------------------
\* IInv is inductive.
THEOREM Invariance == Spec => []IInv
<1>1. IInv /\ [Next]_vars => IInv'
  BY OpenStep, AddRecordStep, AddHeaderStep, UpdateVdiStep, DeleteRecordStep, ShrinkStep,
     FlushStep, CloseStep, IdleStutter DEF Next
<1> QED
  BY Initially, <1>1, PTL DEF Spec

\* Every variable keeps its type.
THEOREM TypeCorrect == Spec => []TypeOK
<1>1. IInv => TypeOK
  BY Zenon DEF IInv, RestType, TypeOK
<1> QED
  BY Invariance, <1>1, PTL

\* Whenever the process is killed, in whatever portions the buffer reaches the
\* disk, the header's length covers written records only.
THEOREM LengthCorrect == Spec => []LengthCoversRecords
<1>1. IInv => LengthCoversRecords
  BY DEF IInv, ImagesInv, ImageInv, InOrder, LengthCoversRecords
<1> QED
  BY Invariance, <1>1, PTL

\* An operation whose handler was closed has had its effect on the records and
\* no other, or none if it raised.
THEOREM ClosedCorrect == Spec => ClosedIsDone
<1>1. ASSUME IInv, Next, pc = "close", pc' = "idle", kills' = kills
      PROVE  Visible(disk') = IF raised THEN before ELSE Effect
  <2>1. Close
    <3>1. ~Kill
      BY <1>1 DEF Kill, IInv, RestType
    <3> QED
      BY <1>1, <3>1 DEF Next, Open, AddRecord, AddHeader, UpdateVdi, DeleteRecord, Shrink, Flush
  <2>2. disk' = View
    BY <2>1 DEF Close
  <2>3. raised => Failed
    BY <1>1, Zenon DEF Failed, IInv
  <2>4. ~raised => Fine
    BY <1>1, Zenon DEF Fine, IInv
  <2>5. (Failed => Visible(View) = before) /\ (Fine => Visible(View) = Effect)
    BY <1>1 DEF IInv, ViewInv
  <2> QED
    BY <2>2, <2>3, <2>4, <2>5, Zenon
<1> QED
  BY Invariance, <1>1, PTL DEF Spec, ClosedIsDone

----------------------------------------------------------------------------
\* The refinement.

\* Before and after differ in the record of the operation's VDI only.
LEMMA Shape ==
  ASSUME IInv, pc # "idle", NEW S \in Between
  PROVE  S = Others \/ \E v \in Value : S = Others \cup {[uuid |-> op.uuid, val |-> v]}
<1>0. /\ op \in Op /\ before \in SUBSET Vdi /\ Unique(before)
      /\ op.kind \in {"add", "space"} => Others = before
  BY DEF IInv, StoreInv
<1>1. op.val \in Value /\ op.kind \in {"add", "update", "delete", "space"}
  BY <1>0 DEF Op
<1>2. CASE S = before
  <2>1. CASE before = Others
    BY <1>2, <2>1
  <2>2. CASE before # Others
    <3>1. PICK r \in before : r.uuid = op.uuid
      BY <2>2 DEF Others
    <3>2. before = Others \cup {r}
      BY <1>0, <3>1 DEF Others, Unique
    <3>3. r.val \in Value /\ r = [uuid |-> op.uuid, val |-> r.val]
      BY <1>0, <3>1 DEF Vdi
    <3> QED
      BY <1>2, <3>2, <3>3
  <2> QED
    BY <2>1, <2>2
<1>3. CASE S = After
  BY <1>0, <1>1, <1>3 DEF After, Half
<1> QED
  BY <1>2, <1>3 DEF Between

LEMMA StoreMove ==
  ASSUME IInv, pc # "idle", Visible(disk') \in Between
  PROVE  Store!Next \/ Visible(disk') = Visible(disk)
<1> DEFINE u == op.uuid
           rec(v) == [uuid |-> u, val |-> v]
<1>0. Visible(disk) \in Between /\ u \in Uuid
  BY DEF IInv, StoreInv, Op
<1>1. \A r \in Others : r.uuid # u
  BY DEF Others
<1> DEFINE old == Visible(disk)
           new == Visible(disk')
<1>2. Visible(disk)' = new
  BY DEF Visible, Live
<1>3. old = Others \/ \E v \in Value : old = Others \cup {rec(v)}
  BY <1>0, Shape
<1>4. new = Others \/ \E v \in Value : new = Others \cup {rec(v)}
  BY Shape
<1> HIDE DEF old, new, u
<1>5. ASSUME NEW v \in Value, old = Others, new = Others \cup {rec(v)}
      PROVE  Store!Next
  <2>1. Store!Add(u, v)
    BY <1>1, <1>2, <1>5 DEF Store!Add, Store!Has, old
  <2> QED
    BY <1>0, <2>1 DEF Store!Next
<1>6. ASSUME NEW v \in Value, old = Others \cup {rec(v)}, new = Others
      PROVE  Store!Next
  <2>1. rec(v) \in old /\ rec(v).uuid = u
    BY <1>6
  <2>2. {r \in old : r.uuid # u} = Others
    BY <1>1, <1>6, <2>1
  <2>3. Store!Has(u) /\ Store!Without(u) = Others
    BY <2>1, <2>2 DEF Store!Has, Store!Without, old
  <2>4. Store!Delete(u)
    BY <1>2, <1>6, <2>3 DEF Store!Delete
  <2> QED
    BY <1>0, <2>4 DEF Store!Next
<1>7. ASSUME NEW v \in Value, NEW w \in Value,
             old = Others \cup {rec(v)}, new = Others \cup {rec(w)}
      PROVE  Store!Next
  <2>1. rec(v) \in old /\ rec(v).uuid = u
    BY <1>7
  <2>2. {r \in old : r.uuid # u} = Others
    BY <1>1, <1>7, <2>1
  <2>3. Store!Has(u) /\ Store!Without(u) = Others
    BY <2>1, <2>2 DEF Store!Has, Store!Without, old
  <2>4. Store!Update(u, w)
    BY <1>2, <1>7, <2>3 DEF Store!Update
  <2> QED
    BY <1>0, <2>4 DEF Store!Next
<1>8. Store!Next \/ new = old
  BY <1>3, <1>4, <1>5, <1>6, <1>7
<1> QED
  BY <1>8 DEF old, new

\* Operations take effect on the disk at once or not at all, for every volume:
\* the metadata volume implements the store of VDIs.
THEOREM Refinement == Spec => Implements
<1>1. Init => Store!Init
  BY DEF Init, Store!Init, Visible, Live
<1>2. IInv /\ [Next]_vars => [Store!Next]_(Visible(disk))
  <2> SUFFICES ASSUME IInv, [Next]_vars
               PROVE  Store!Next \/ Visible(disk)' = Visible(disk)
    OBVIOUS
  <2>1. Visible(disk)' = Visible(disk')
    BY DEF Visible, Live
  <2>2. CASE Flush
    BY <2>1, <2>2, FlushStep, StoreMove
  <2>3. CASE Close \/ Kill
    BY <2>1, <2>3, CloseStep, StoreMove
  <2>4. CASE UNCHANGED disk
    BY <2>4 DEF Visible, Live
  <2>5. Open \/ AddRecord \/ AddHeader \/ UpdateVdi \/ DeleteRecord \/ Shrink \/ UNCHANGED vars
          => UNCHANGED disk
    BY DEF Open, AddRecord, AddHeader, UpdateVdi, DeleteRecord, Shrink, vars
  <2> QED
    BY <2>2, <2>3, <2>4, <2>5 DEF Next
<1> QED
  BY Invariance, <1>1, <1>2, PTL DEF Spec, Implements, Store!Spec
=============================================================================
