-------------------------- MODULE PoolTestsProofs --------------------------
(***************************************************************************)
(* What the pool test leaves behind, for every pool.  HostInv follows each *)
(* host through the two loops: which of them still finds it as it was,     *)
(* which one has it in hand, and what the list of hosts to disable says of *)
(* it.  MarksInv ties the checkpoints to the place of the test.            *)
(***************************************************************************)
EXTENDS PoolTests, TLAPS

Passing == retval = TRUE

\* TypeOK in two parts, as the provers want them.
FlagType == sr \in BOOLEAN /\ ref \in BOOLEAN /\ retval \in BOOLEAN
RestType ==
  /\ mp \in [Host -> {"none", "true", "false"}] /\ handle \in [Host -> BOOLEAN]
  /\ plugged \in SUBSET Host /\ config \in [Host -> SUBSET Key]
  /\ pc \in Label /\ todo \in SUBSET Host /\ at \in Host \cup {NoHost} /\ step \in 0 .. 4
  /\ list \in SUBSET Host /\ checkpoint \in 0 .. Total
  /\ found \in [Host -> BOOLEAN] /\ broken \in SUBSET Host

\* The checkpoints at each place, and what all of them so far mean.
MarksInv ==
  /\ pc \in {"hosts", "enable"} => checkpoint = 0 /\ Passing
  /\ pc = "create" => checkpoint = 1 /\ Passing
  /\ pc \in {"mine", "others"} => checkpoint = 2 /\ Passing /\ ref = TRUE
  /\ pc = "destroy" => checkpoint <= 3 /\ (checkpoint = 3 => Passing /\ ref = TRUE)
  /\ pc \in {"disable", "done"} =>
       (checkpoint = 4 => Passing /\ sr = FALSE /\ plugged = {})

\* The hosts the loops have in hand and on their lists.
LoopInv ==
  /\ pc \notin {"enable", "disable"} => at = NoHost
  /\ pc = "hosts" => list = {}
  /\ pc = "enable" => todo \cap list = {} /\ at \notin todo \cup list
  /\ pc = "disable" => todo \subseteq list /\ at \in list \cup {NoHost}
  /\ pc = "done" => todo = {}

AsFound(h)  == Enabled(h) <=> found[h]
Switched(h) == Enabled(h) /\ (h \in list <=> ~found[h])

\* A host none of whose calls failed.
HostInv(h) ==
  /\ pc = "hosts" => AsFound(h)
  /\ pc = "enable" =>
       /\ h \in todo => AsFound(h)
       /\ h = at => ~found[h] /\ (step = 4 => mp[h] = "true")
       /\ h \notin todo /\ h # at => Switched(h)
  /\ pc \in {"create", "mine", "others"} => Switched(h)
  /\ pc \in {"destroy", "disable"} =>
       /\ h \in list => ~found[h]
       /\ h \notin list => AsFound(h)
  /\ pc = "disable" /\ h \in list /\ h \notin todo /\ h # at => ~Enabled(h)
  /\ pc = "done" => AsFound(h)

IInv == TypeOK /\ MarksInv /\ LoopInv /\ \A h \in Host \ broken : HostInv(h)

USE PoolAssumption DEF Label, Total

LEMMA SamePassing == retval' = retval => (Passing' <=> Passing)
BY Zenon DEF Passing

LEMMA TypeParts == TypeOK <=> FlagType /\ RestType
BY Zenon DEF TypeOK, FlagType, RestType

LEMMA Initially == Init => IInv
<1> SUFFICES ASSUME Init PROVE IInv
  OBVIOUS
<1>2. found \in [Host -> BOOLEAN]
  BY DEF Init, Enabled
<1>3. TypeOK
  <2>1. FlagType
    BY Zenon DEF Init, FlagType
  <2>2. RestType
    BY <1>2 DEF Init, RestType
  <2> QED
    BY <2>1, <2>2, TypeParts
<1>4. MarksInv /\ LoopInv
  BY DEF Init, MarksInv, LoopInv, Passing
<1>5. \A h \in Host : AsFound(h)
  BY DEF Init, AsFound, Enabled
<1>6. \A h \in Host : HostInv(h)
  BY <1>5 DEF HostInv, Init
<1> QED
  BY <1>3, <1>4, <1>6 DEF IInv

LEMMA FlagStep ==
  ASSUME FlagType, [Next]_vars PROVE FlagType'
<1> USE DEF FlagType, hosts, store, loop, marks, notes, vars, Raise
<1>1. CASE GetHosts \/ QueryHost \/ EnableStep
  BY <1>1, Zenon DEF GetHosts, QueryHost, EnableStep
<1>2. CASE AllVisited \/ OwnPbd \/ OtherPbd \/ OthersShown
  BY <1>2, Zenon DEF AllVisited, OwnPbd, OtherPbd, OthersShown
<1>3. CASE CreateSr
  BY <1>3, Zenon DEF CreateSr
<1>4. CASE DestroySr
  BY <1>4, Zenon DEF DestroySr
<1>5. CASE DisableNext \/ DisableStep
  BY <1>5, Zenon DEF DisableNext, DisableStep
<1>6. CASE Done \/ UNCHANGED vars
  BY <1>6, Zenon DEF Done
<1> QED
  BY <1>1, <1>2, <1>3, <1>4, <1>5, <1>6, Zenon DEF Next

LEMMA ModesStep ==
  ASSUME RestType, NEW h \in Host, EnableCall(h) \/ DisableCall(h) \/ UNCHANGED hosts
  PROVE  /\ mp' \in [Host -> {"none", "true", "false"}]
         /\ handle' \in [Host -> BOOLEAN]
<1> USE DEF RestType, hosts
<1>1. CASE Remove(h)
  BY <1>1 DEF Remove
<1>2. CASE EnableCall(h)
  BY <1>1, <1>2 DEF EnableCall
<1>3. CASE DisableCall(h)
  BY <1>1, <1>3 DEF DisableCall
<1>4. CASE UNCHANGED hosts
  BY <1>4
<1> QED
  BY <1>2, <1>3, <1>4

LEMMA RestStep ==
  ASSUME IInv, [Next]_vars PROVE RestType'
<1>0. RestType /\ MarksInv
  BY TypeParts DEF IInv
<1> USE <1>0 DEF RestType, hosts, store, loop, marks, notes, vars, Raise, Breaks
<1>1. CASE GetHosts
  BY <1>1 DEF GetHosts
<1>2. CASE QueryHost
  BY <1>2 DEF QueryHost
<1>3. CASE EnableStep
  <2>1. at \in Host /\ (EnableCall(at) \/ UNCHANGED hosts)
    BY <1>3 DEF EnableStep
  <2>2. mp' \in [Host -> {"none", "true", "false"}] /\ handle' \in [Host -> BOOLEAN]
    BY <2>1, ModesStep
  <2> QED
    BY <1>3, <2>1, <2>2 DEF EnableStep, Listed
<1>4. CASE AllVisited
  BY <1>4 DEF AllVisited, MarksInv
<1>5. CASE CreateSr
  BY <1>5 DEF CreateSr, MarksInv
<1>6. CASE OwnPbd
  BY <1>6 DEF OwnPbd
<1>7. CASE OtherPbd
  BY <1>7 DEF OtherPbd
<1>8. CASE OthersShown
  BY <1>8 DEF OthersShown, MarksInv
<1>9. CASE DestroySr
  BY <1>9 DEF DestroySr, MarksInv
<1>10. CASE DisableNext
  BY <1>10 DEF DisableNext
<1>11. CASE DisableStep
  <2>1. at \in Host /\ (DisableCall(at) \/ UNCHANGED hosts)
    BY <1>11 DEF DisableStep
  <2>2. mp' \in [Host -> {"none", "true", "false"}] /\ handle' \in [Host -> BOOLEAN]
    BY <2>1, ModesStep
  <2> QED
    BY <1>11, <2>1, <2>2 DEF DisableStep
<1>12. CASE Done \/ UNCHANGED vars
  BY <1>12 DEF Done
<1> QED
  BY <1>1, <1>2, <1>3, <1>4, <1>5, <1>6, <1>7, <1>8, <1>9, <1>10, <1>11, <1>12 DEF Next

LEMMA TypeStep ==
  ASSUME IInv, [Next]_vars PROVE TypeOK'
<1>1. FlagType
  BY TypeParts DEF IInv
<1> QED
  BY <1>1, FlagStep, RestStep, Zenon DEF TypeOK, FlagType, RestType

LEMMA MarksStep ==
  ASSUME IInv, [Next]_vars PROVE MarksInv'
<1> USE SamePassing DEF IInv, TypeOK, MarksInv, hosts, store, loop, marks, notes, vars, Raise
<1>1. CASE GetHosts
  BY <1>1 DEF GetHosts
<1>2. CASE QueryHost \/ EnableStep
  BY <1>2 DEF QueryHost, EnableStep
<1>3. CASE AllVisited
  BY <1>3 DEF AllVisited
<1>4. CASE CreateSr
  BY <1>4 DEF CreateSr
<1>5. CASE OwnPbd \/ OtherPbd
  BY <1>5 DEF OwnPbd, OtherPbd
<1>6. CASE OthersShown
  BY <1>6 DEF OthersShown
<1>7. CASE DestroySr
  BY <1>7 DEF DestroySr
<1>8. CASE DisableNext \/ DisableStep
  BY <1>8 DEF DisableNext, DisableStep
<1>9. CASE Done \/ UNCHANGED vars
  BY <1>9 DEF Done
<1> QED
  BY <1>1, <1>2, <1>3, <1>4, <1>5, <1>6, <1>7, <1>8, <1>9 DEF Next

LEMMA LoopStep ==
  ASSUME IInv, [Next]_vars PROVE LoopInv'
<1> USE DEF IInv, TypeOK, LoopInv, hosts, store, loop, marks, notes, vars, Raise
<1>1. CASE GetHosts
  BY <1>1 DEF GetHosts
<1>2. CASE QueryHost
  BY <1>2 DEF QueryHost
<1>3. CASE EnableStep
  BY <1>3 DEF EnableStep, Listed
<1>4. CASE AllVisited \/ CreateSr
  BY <1>4 DEF AllVisited, CreateSr
<1>5. CASE OwnPbd \/ OtherPbd \/ OthersShown
  BY <1>5 DEF OwnPbd, OtherPbd, OthersShown
<1>6. CASE DestroySr
  BY <1>6 DEF DestroySr
<1>7. CASE DisableNext
  BY <1>7 DEF DisableNext
<1>8. CASE DisableStep
  BY <1>8 DEF DisableStep
<1>9. CASE Done \/ UNCHANGED vars
  BY <1>9 DEF Done
<1> QED
  BY <1>1, <1>2, <1>3, <1>4, <1>5, <1>6, <1>7, <1>8, <1>9 DEF Next

LEMMA HostStep ==
  ASSUME IInv, [Next]_vars, NEW h \in Host \ broken' PROVE HostInv(h)'
<1> USE DEF IInv, TypeOK, LoopInv, HostInv, AsFound, Switched, Enabled,
            hosts, store, loop, marks, notes, vars, Raise
<1>0. h \in Host \ broken
  <2>1. broken \subseteq broken'
    BY DEF Next, GetHosts, QueryHost, EnableStep, AllVisited, CreateSr, OwnPbd, OtherPbd,
           OthersShown, DestroySr, DisableNext, DisableStep, Done, Breaks
  <2> QED
    BY <2>1
<1>1. CASE GetHosts
  BY <1>0, <1>1 DEF GetHosts
<1>2. CASE QueryHost
  BY <1>0, <1>2 DEF QueryHost, Breaks
<1>3. CASE EnableStep
  BY <1>0, <1>3 DEF EnableStep, EnableCall, Remove, Listed, Breaks
<1>4. CASE AllVisited \/ CreateSr
  BY <1>0, <1>4 DEF AllVisited, CreateSr
<1>5. CASE OwnPbd \/ OtherPbd \/ OthersShown
  BY <1>0, <1>5 DEF OwnPbd, OtherPbd, OthersShown
<1>6. CASE DestroySr
  BY <1>0, <1>6 DEF DestroySr
<1>7. CASE DisableNext
  BY <1>0, <1>7 DEF DisableNext
<1>8. CASE DisableStep
  BY <1>0, <1>8 DEF DisableStep, DisableCall, Remove, Breaks
<1>9. CASE Done \/ UNCHANGED vars
  BY <1>0, <1>9 DEF Done
<1> QED
  BY <1>1, <1>2, <1>3, <1>4, <1>5, <1>6, <1>7, <1>8, <1>9 DEF Next

\* IInv is inductive.
THEOREM Invariance == Spec => []IInv
<1>1. IInv /\ [Next]_vars => IInv'
  BY TypeStep, MarksStep, LoopStep, HostStep DEF IInv
<1> QED
  BY Initially, <1>1, PTL DEF Spec

\* Every variable keeps its type, and the test gives at most four checkpoints,
\* for every pool.
THEOREM TypeCorrect == Spec => []TypeOK
<1>1. IInv => TypeOK
  BY DEF IInv
<1> QED
  BY Invariance, <1>1, PTL

\* A host whose calls all succeed is multipathed while the paths are shown and
\* gets its own mode back, for every pool.
THEOREM HostsCorrect == Spec => []HostsAsFound
<1>1. IInv => HostsAsFound
  BY DEF IInv, HostsAsFound, HostInv, AsFound, Switched
<1> QED
  BY Invariance, <1>1, PTL

\* All four checkpoints mean a pass and no SR left, for every pool.
THEOREM MarksCorrect == Spec => []FullMarksLeaveNoSr
<1>1. IInv => FullMarksLeaveNoSr
  BY DEF IInv, MarksInv, Passing, FullMarksLeaveNoSr
<1> QED
  BY Invariance, <1>1, PTL
=============================================================================
