--------------------------- MODULE FileLockProofs ---------------------------
(***************************************************************************)
(* The lock, for any number of processes, sections and clean ups.          *)
(* SectionOf, that the count of an instance is at least the number of      *)
(* sections that are inside it, is what makes a release give up a lock     *)
(* that is one's own.  From that follow the bookkeeping and, file by file, *)
(* the refinement of Serialization.                                        *)
(***************************************************************************)
EXTENDS FileLock, FiniteSetTheorems, SequenceTheorems, TLAPS

USE ProcAssumption, BoundAssumption

----------------------------------------------------------------------------
\* Functions of two arguments.
LEMMA PutTwo ==
  ASSUME NEW S, NEW F \in [Proc -> [File -> S]], NEW p \in Proc, NEW f \in File, NEW v \in S
  PROVE  /\ [F EXCEPT ![p][f] = v] \in [Proc -> [File -> S]]
         /\ \A q \in Proc, g \in File :
              [F EXCEPT ![p][f] = v][q][g] = IF q = p /\ g = f THEN v ELSE F[q][g]
OBVIOUS

LEMMA PutTwice ==
  ASSUME NEW S, NEW F \in [Proc -> [File -> S]], NEW p \in Proc, NEW f \in File, NEW v \in S, NEW w \in S
  PROVE  [[F EXCEPT ![p][f] = v] EXCEPT ![p][f] = w] = [F EXCEPT ![p][f] = w]
OBVIOUS

LEMMA PutSame ==
  ASSUME NEW S, NEW F \in [Proc -> [File -> S]], NEW p \in Proc, NEW f \in File
  PROVE  [F EXCEPT ![p][f] = F[p][f]] = F
OBVIOUS

LEMMA PutEqual ==
  ASSUME NEW S, NEW F \in [Proc -> [File -> S]], NEW p \in Proc, NEW f \in File, NEW v, v = F[p][f]
  PROVE  [F EXCEPT ![p][f] = v] = F
BY PutSame

LEMMA OneTwice ==
  ASSUME NEW S, NEW F \in [File -> S], NEW f \in File, NEW v \in S, NEW w \in S
  PROVE  /\ [[F EXCEPT ![f] = v] EXCEPT ![f] = w] = [F EXCEPT ![f] = w]
         /\ [F EXCEPT ![f] = F[f]] = F
         /\ [F EXCEPT ![f] = v][f] = v
OBVIOUS

LEMMA PopType ==
  ASSUME NEW s \in Seq(File), s # <<>>
  PROVE  /\ Pop(s) \in Seq(File) /\ Last(s) \in File
         /\ Len(Pop(s)) = Len(s) - 1 /\ Len(s) \in Nat \ {0}
         /\ \A i \in 1 .. Len(s) - 1 : Pop(s)[i] = s[i]
<1>1. Len(s) \in Nat \ {0} /\ s \in [1 .. Len(s) -> File]
  BY EmptySeq
<1>2. Last(s) \in File
  BY <1>1 DEF Last
<1>3. Pop(s) \in Seq(File) /\ Len(Pop(s)) = Len(s) - 1 /\ \A i \in 1 .. Len(s) - 1 : Pop(s)[i] = s[i]
  BY <1>1 DEF Pop
<1> QED BY <1>1, <1>2, <1>3

LEMMA PushType ==
  ASSUME NEW s \in Seq(File), NEW f \in File
  PROVE  /\ Append(s, f) \in Seq(File) /\ Append(s, f) # <<>>
         /\ Len(Append(s, f)) = Len(s) + 1 /\ Last(Append(s, f)) = f
         /\ \A i \in 1 .. Len(s) : Append(s, f)[i] = s[i]
<1>1. s \in [1 .. Len(s) -> File] /\ Len(s) \in Nat
  OBVIOUS
<1>2. Append(s, f) \in Seq(File) /\ Len(Append(s, f)) = Len(s) + 1
  OBVIOUS
<1>3. \A i \in 1 .. Len(s) : Append(s, f)[i] = s[i]
  OBVIOUS
<1>4. Last(Append(s, f)) = f
  BY <1>2 DEF Last
<1>5. Append(s, f) # <<>>
  <2>1. Len(Append(s, f)) # 0
    BY <1>1, <1>2
  <2>2. Len(<<>>) = 0
    BY EmptySeq, Zenon
  <2> QED BY <2>1, <2>2, Zenon
<1> QED BY <1>2, <1>3, <1>4, <1>5

\* The types that matter to the lock.
OwnType == /\ owner \in [File -> Proc \cup {NoProc}]
           /\ count \in [Proc -> [File -> Nat]] /\ held \in [Proc -> [File -> BOOLEAN]]
RefType == /\ cached \in [Proc -> File \cup {NoFile}] /\ refs \in [Proc -> Seq(File)]
           /\ pc \in [Proc -> Label]

\* What a step of p does to the lock on f.
Sets(p, f, o, h, c) ==
  /\ owner' = [owner EXCEPT ![f] = o]
  /\ held' = [held EXCEPT ![p][f] = h]
  /\ count' = [count EXCEPT ![p][f] = c]

LEMMA OwnerTwice ==
  ASSUME OwnType, NEW f \in File, NEW v \in Proc \cup {NoProc}
  PROVE  \A w \in Proc \cup {NoProc} : [[owner EXCEPT ![f] = v] EXCEPT ![f] = w] = [owner EXCEPT ![f] = w]
BY DEF OwnType

LEMMA CollectSets ==
  ASSUME OwnType, NEW p \in Proc, NEW f \in File, NEW gone,
         NEW o \in Proc \cup {NoProc}, NEW h \in BOOLEAN, NEW c \in Nat,
         Collect(p, f, gone, [owner EXCEPT ![f] = o], [count EXCEPT ![p][f] = c], [held EXCEPT ![p][f] = h])
  PROVE  IF gone THEN Sets(p, f, IF o = p THEN NoProc ELSE o, FALSE, 0)
                 ELSE Sets(p, f, o, h, c)
<1>1. CASE gone
  <2>1. [owner EXCEPT ![f] = o][f] = o
    BY OneTwice, Zenon DEF OwnType
  <2>2. owner' = [[owner EXCEPT ![f] = o] EXCEPT ![f] = IF o = p THEN NoProc ELSE o]
    BY <1>1, <2>1, Zenon DEF Collect
  <2>3. owner' = [owner EXCEPT ![f] = IF o = p THEN NoProc ELSE o]
    <3>1. (IF o = p THEN NoProc ELSE o) \in Proc \cup {NoProc}
      OBVIOUS
    <3>2. \A w \in Proc \cup {NoProc} : [[owner EXCEPT ![f] = o] EXCEPT ![f] = w] = [owner EXCEPT ![f] = w]
      BY OwnerTwice, Zenon
    <3> QED BY <2>2, <3>1, <3>2, Zenon
  <2>4. held' = [held EXCEPT ![p][f] = FALSE]
    <3>1. held' = [[held EXCEPT ![p][f] = h] EXCEPT ![p][f] = FALSE]
      BY <1>1, Zenon DEF Collect
    <3> QED BY <3>1 DEF OwnType
  <2>5. count' = [count EXCEPT ![p][f] = 0]
    <3>1. count' = [[count EXCEPT ![p][f] = c] EXCEPT ![p][f] = 0]
      BY <1>1, Zenon DEF Collect
    <3> QED BY <3>1 DEF OwnType
  <2> QED BY <1>1, <2>3, <2>4, <2>5, Zenon DEF Sets
<1>2. CASE ~gone
  BY <1>2, Zenon DEF Collect, Sets
<1> QED BY <1>1, <1>2

LEMMA CollectKept ==
  ASSUME OwnType, NEW p \in Proc, NEW f \in File, NEW gone, Collect(p, f, gone, owner, count, held)
  PROVE  IF gone THEN Sets(p, f, IF owner[f] = p THEN NoProc ELSE owner[f], FALSE, 0)
                 ELSE owner' = owner /\ count' = count /\ held' = held
<1>1. CASE gone
  BY <1>1, Zenon DEF Collect, Sets
<1>2. CASE ~gone
  BY <1>2, Zenon DEF Collect
<1> QED BY <1>1, <1>2

----------------------------------------------------------------------------
\* The sections of a process that are inside an instance.
At(s, n, f) == {i \in 1 .. n : s[i] = f}
Entering(p) == pc[p] \in {"try", "wait"}
Entered(p)  == IF Entering(p) THEN Len(refs[p]) - 1 ELSE Len(refs[p])
Sections(p, f) == Cardinality(At(refs[p], Entered(p), f))

Book(p, f) == (held[p][f] <=> owner[f] = p) /\ (held[p][f] <=> count[p][f] > 0)
SectionOf(p) == /\ Entering(p) => refs[p] # <<>>
                /\ \A f \in File : Sections(p, f) =< count[p][f]

LEMMA AtType ==
  ASSUME NEW s, NEW n \in Nat, NEW f
  PROVE  IsFiniteSet(At(s, n, f)) /\ Cardinality(At(s, n, f)) \in Nat
<1>1. IsFiniteSet(1 .. n)
  BY FS_Interval
<1>2. At(s, n, f) \subseteq 1 .. n
  BY DEF At
<1> QED BY <1>1, <1>2, FS_Subset, FS_CardinalityType

LEMMA AtOneMore ==
  ASSUME NEW s, NEW n \in Nat, NEW f
  PROVE  Cardinality(At(s, n + 1, f)) = Cardinality(At(s, n, f)) + IF s[n + 1] = f THEN 1 ELSE 0
<1>1. CASE s[n + 1] = f
  <2>1. At(s, n + 1, f) = At(s, n, f) \cup {n + 1} /\ n + 1 \notin At(s, n, f)
    BY <1>1 DEF At
  <2> QED BY <1>1, <2>1, AtType, FS_AddElement
<1>2. CASE s[n + 1] # f
  <2>1. At(s, n + 1, f) = At(s, n, f)
    BY <1>2 DEF At
  <2> QED BY <1>2, <2>1, AtType
<1> QED BY <1>1, <1>2

LEMMA AtSame ==
  ASSUME NEW s, NEW t, NEW n \in Nat, NEW f, \A i \in 1 .. n : s[i] = t[i]
  PROVE  At(s, n, f) = At(t, n, f)
BY DEF At

LEMMA AtNone ==
  ASSUME NEW s \in Seq(File), NEW n \in 0 .. Len(s), NEW f, NEW table, Unreferenced(f, table, s)
  PROVE  Cardinality(At(s, n, f)) = 0
<1>1. At(s, n, f) = {}
  BY DEF At, Unreferenced
<1> QED BY <1>1, FS_EmptySet

\* What a process does to the locks.
Gets(p, f)     == owner[f] \in {NoProc, p} /\ Sets(p, f, p, TRUE, count[p][f] + 1)
GivesOne(p, f) == owner[f] = p /\ count[p][f] > 1 /\ Sets(p, f, p, TRUE, count[p][f] - 1)
GivesUp(p, f)  == owner[f] = p /\ Sets(p, f, NoProc, FALSE, 0)
Kept           == owner' = owner /\ count' = count /\ held' = held

LEMMA SetsSame ==
  ASSUME OwnType, NEW p \in Proc, NEW f \in File
  PROVE  /\ Sets(p, f, owner[f], held[p][f], count[p][f]) => Kept
         /\ [owner EXCEPT ![f] = owner[f]] = owner
         /\ [held EXCEPT ![p][f] = held[p][f]] = held
         /\ [count EXCEPT ![p][f] = count[p][f]] = count
<1>1. [owner EXCEPT ![f] = owner[f]] = owner
  BY DEF OwnType
<1>2. [held EXCEPT ![p][f] = held[p][f]] = held
  BY DEF OwnType
<1>3. [count EXCEPT ![p][f] = count[p][f]] = count
  BY DEF OwnType
<1> QED BY <1>1, <1>2, <1>3, Zenon DEF Sets, Kept

LEMMA BookFacts ==
  ASSUME OwnType, NEW p \in Proc, NEW f \in File, Book(p, f)
  PROVE  /\ owner[f] = p => held[p][f] = TRUE /\ count[p][f] > 0
         /\ owner[f] # p => held[p][f] = FALSE /\ count[p][f] = 0
         /\ count[p][f] \in Nat /\ held[p][f] \in BOOLEAN
<1>1. count[p][f] \in Nat /\ held[p][f] \in BOOLEAN
  BY DEF OwnType
<1>2. ~(count[p][f] > 0) => count[p][f] = 0
  BY <1>1, SMT
<1> QED BY <1>1, <1>2, Zenon DEF Book

\* A dropped instance: the lock goes if it was held.
LEMMA DropEffect ==
  ASSUME OwnType, NEW p \in Proc, NEW f \in File, Book(p, f), NEW gone,
         Collect(p, f, gone, owner, count, held)
  PROVE  IF gone /\ owner[f] = p THEN GivesUp(p, f) ELSE Kept
<1>1. CASE gone /\ owner[f] = p
  <2>1. Sets(p, f, NoProc, FALSE, 0)
    BY <1>1, CollectKept, Zenon
  <2> QED BY <1>1, <2>1, Zenon DEF GivesUp
<1>2. CASE gone /\ owner[f] # p
  <2>1. Sets(p, f, owner[f], FALSE, 0)
    BY <1>2, CollectKept, Zenon
  <2>2. held[p][f] = FALSE /\ count[p][f] = 0
    BY <1>2, BookFacts, Zenon
  <2>3. owner' = owner
    BY <2>1, SetsSame, Zenon DEF Sets
  <2>4. held' = held
    <3>1. held' = [held EXCEPT ![p][f] = FALSE]
      BY <2>1, Zenon DEF Sets
    <3>2. [held EXCEPT ![p][f] = FALSE] = held
      <4>1. held \in [Proc -> [File -> BOOLEAN]] /\ FALSE = held[p][f]
        BY <2>2, Zenon DEF OwnType
      <4>2. \A v : v = held[p][f] => [held EXCEPT ![p][f] = v] = held
        BY <4>1, PutEqual
      <4> QED BY <4>1, <4>2
    <3> QED BY <3>1, <3>2, Zenon
  <2>5. count' = count
    <3>1. count' = [count EXCEPT ![p][f] = 0]
      BY <2>1, Zenon DEF Sets
    <3>2. [count EXCEPT ![p][f] = 0] = count
      BY <2>2 DEF OwnType
    <3> QED BY <3>1, <3>2, Zenon
  <2>6. Kept
    BY <2>3, <2>4, <2>5, Zenon DEF Kept
  <2> QED BY <1>2, <2>6, Zenon
<1>3. CASE ~gone
  <2>1. owner' = owner /\ count' = count /\ held' = held
    BY <1>3, Zenon DEF Collect
  <2>2. Kept
    BY <2>1, Zenon DEF Kept
  <2> QED BY <1>3, <2>2, Zenon
<1> QED BY <1>1, <1>2, <1>3

\* A release, by a process that has the lock.
LEMMA ReleaseEffect ==
  ASSUME OwnType, RefType, NEW p \in Proc, Release(p), Last(refs[p]) \in File,
         Book(p, Last(refs[p])), owner[Last(refs[p])] = p
  PROVE  LET f == Last(refs[p])
         IN IF count[p][f] = 1 \/ LastRef(p) THEN GivesUp(p, f) ELSE GivesOne(p, f)
<1> DEFINE f == Last(refs[p])
<1>1. f \in File /\ owner[f] = p /\ held[p][f] = TRUE /\ count[p][f] \in Nat /\ count[p][f] > 0
  BY BookFacts, Zenon
<1>2. /\ f \in File
      /\ IF count[p][f] > 1
           THEN Collect(p, f, LastRef(p), owner, [count EXCEPT ![p][f] = count[p][f] - 1], held)
           ELSE Collect(p, f, LastRef(p), [owner EXCEPT ![f] = NoProc], [count EXCEPT ![p][f] = 0],
                        [held EXCEPT ![p][f] = FALSE])
  BY <1>1, Zenon DEF Release
<1> HIDE DEF f
<1>3. CASE count[p][f] > 1
  <2>1. count[p][f] - 1 \in Nat /\ count[p][f] # 1
    BY <1>1, <1>3, SMT
  <2>2. [owner EXCEPT ![f] = p] = owner /\ [held EXCEPT ![p][f] = TRUE] = held
    BY <1>1, <1>2, SetsSame, Zenon
  <2>3. Collect(p, f, LastRef(p), [owner EXCEPT ![f] = p], [count EXCEPT ![p][f] = count[p][f] - 1],
                [held EXCEPT ![p][f] = TRUE])
    BY <1>2, <1>3, <2>2, Zenon
  <2>4. IF LastRef(p) THEN Sets(p, f, NoProc, FALSE, 0) ELSE Sets(p, f, p, TRUE, count[p][f] - 1)
    BY <1>2, <2>1, <2>3, CollectSets, Zenon
  <2>5. IF LastRef(p) THEN GivesUp(p, f) ELSE GivesOne(p, f)
    BY <1>1, <1>3, <2>4, Zenon DEF GivesUp, GivesOne
  <2> QED BY <2>1, <2>5, Zenon DEF f
<1>4. CASE ~(count[p][f] > 1)
  <2>1. count[p][f] = 1 /\ 0 \in Nat
    BY <1>1, <1>4, SMT
  <2>2. IF LastRef(p) THEN Sets(p, f, IF NoProc = p THEN NoProc ELSE NoProc, FALSE, 0)
                      ELSE Sets(p, f, NoProc, FALSE, 0)
    BY <1>2, <1>4, <2>1, CollectSets, Zenon
  <2>3. GivesUp(p, f)
    BY <1>1, <2>2, Zenon DEF GivesUp
  <2> QED BY <2>1, <2>3, Zenon DEF f
<1> QED BY <1>3, <1>4

LEMMA SetsPoints ==
  ASSUME OwnType, NEW p \in Proc, NEW f \in File,
         NEW o \in Proc \cup {NoProc}, NEW h \in BOOLEAN, NEW c \in Nat, Sets(p, f, o, h, c)
  PROVE  /\ OwnType'
         /\ \A g \in File : owner'[g] = IF g = f THEN o ELSE owner[g]
         /\ \A q \in Proc, g \in File : held'[q][g] = IF q = p /\ g = f THEN h ELSE held[q][g]
         /\ \A q \in Proc, g \in File : count'[q][g] = IF q = p /\ g = f THEN c ELSE count[q][g]
<1>1. owner' \in [File -> Proc \cup {NoProc}] /\ \A g \in File : owner'[g] = IF g = f THEN o ELSE owner[g]
  BY DEF OwnType, Sets
<1>2. count' \in [Proc -> [File -> Nat]]
  BY DEF OwnType, Sets
<1>3. \A q \in Proc, g \in File : count'[q][g] = IF q = p /\ g = f THEN c ELSE count[q][g]
  BY DEF OwnType, Sets
<1>4. held' \in [Proc -> [File -> BOOLEAN]] /\ \A q \in Proc, g \in File : held'[q][g] = IF q = p /\ g = f THEN h ELSE held[q][g]
  <2>1. held \in [Proc -> [File -> BOOLEAN]] /\ held' = [held EXCEPT ![p][f] = h]
    BY Zenon DEF OwnType, Sets
  <2>2. \A S, F : F \in [Proc -> [File -> S]] =>
          \A v \in S : /\ [F EXCEPT ![p][f] = v] \in [Proc -> [File -> S]]
                       /\ \A q \in Proc, g \in File :
                            [F EXCEPT ![p][f] = v][q][g] = IF q = p /\ g = f THEN v ELSE F[q][g]
    BY PutTwo
  <2>3. /\ [held EXCEPT ![p][f] = h] \in [Proc -> [File -> BOOLEAN]]
        /\ \A q \in Proc, g \in File :
             [held EXCEPT ![p][f] = h][q][g] = IF q = p /\ g = f THEN h ELSE held[q][g]
    BY <2>1, <2>2
  <2> QED BY <2>1, <2>3
<1> QED BY <1>1, <1>2, <1>3, <1>4, Zenon DEF OwnType

\* The lock on f moves between p and nobody.
Moves(p, f) == Gets(p, f) \/ GivesOne(p, f) \/ GivesUp(p, f)

LEMMA MovesBook ==
  ASSUME OwnType, NEW p \in Proc, NEW f \in File, Moves(p, f), \A q \in Proc, g \in File : Book(q, g)
  PROVE  /\ OwnType' /\ \A q \in Proc, g \in File : Book(q, g)'
         /\ \A q \in Proc, g \in File : q # p \/ g # f => count'[q][g] = count[q][g]
<1>1. PICK o \in {NoProc, p}, h \in BOOLEAN, c \in Nat :
         Sets(p, f, o, h, c) /\ (h <=> o = p) /\ (h <=> c > 0)
  <2>1. count[p][f] \in Nat
    BY DEF OwnType
  <2>2. CASE Gets(p, f)
    <3>1. count[p][f] + 1 \in Nat /\ count[p][f] + 1 > 0
      BY <2>1
    <3> QED BY <2>2, <3>1, Zenon DEF Gets
  <2>3. CASE GivesOne(p, f)
    <3>1. count[p][f] > 1
      BY <2>3, Zenon DEF GivesOne
    <3>2. count[p][f] - 1 \in Nat /\ count[p][f] - 1 > 0
      BY <2>1, <3>1
    <3> QED BY <2>3, <3>2, Zenon DEF GivesOne
  <2>4. CASE GivesUp(p, f)
    <3>1. ~(0 > 0) /\ 0 \in Nat /\ NoProc # p
      OBVIOUS
    <3> QED BY <2>4, <3>1, Zenon DEF GivesUp
  <2> QED BY <2>2, <2>3, <2>4, Zenon DEF Moves
<1>2. owner[f] \in {NoProc, p}
  BY Zenon DEF Moves, Gets, GivesOne, GivesUp
<1>3. o \in Proc \cup {NoProc}
  BY <1>1, Zenon
<1>4. /\ OwnType'
      /\ \A g \in File : owner'[g] = IF g = f THEN o ELSE owner[g]
      /\ \A q \in Proc, g \in File : held'[q][g] = IF q = p /\ g = f THEN h ELSE held[q][g]
      /\ \A q \in Proc, g \in File : count'[q][g] = IF q = p /\ g = f THEN c ELSE count[q][g]
  BY <1>1, <1>3, SetsPoints
<1>5. ASSUME NEW q \in Proc, NEW g \in File
      PROVE  Book(q, g)'
  <2>1. Book(q, g) /\ q # NoProc
    OBVIOUS
  <2>2. CASE q = p /\ g = f
    <3>1. owner'[g] = o /\ (held'[q][g] <=> h) /\ count'[q][g] = c
      BY <1>4, <2>2, Zenon
    <3> QED BY <1>1, <2>2, <3>1, Zenon DEF Book
  <2>3. CASE q # p /\ g = f
    <3>1. owner'[g] # q /\ owner[g] # q
      BY <1>1, <1>2, <1>4, <2>1, <2>3, Zenon
    <3>2. (held'[q][g] <=> held[q][g]) /\ count'[q][g] = count[q][g]
      BY <1>4, <2>3, Zenon
    <3> QED BY <2>1, <3>1, <3>2, Zenon DEF Book
  <2>4. CASE g # f
    <3>1. owner'[g] = owner[g] /\ (held'[q][g] <=> held[q][g]) /\ count'[q][g] = count[q][g]
      BY <1>4, <2>4, Zenon
    <3> QED BY <2>1, <3>1, Zenon DEF Book
  <2> QED BY <2>2, <2>3, <2>4, Zenon
<1>6. \A q \in Proc, g \in File : q # p \/ g # f => count'[q][g] = count[q][g]
  BY <1>4, Zenon
<1> QED BY <1>4, <1>5, <1>6, Zenon

\* A process that ends gives up every lock it has.
Dies(p) ==
  /\ owner' = [f \in File |-> IF owner[f] = p THEN NoProc ELSE owner[f]]
  /\ count' = [count EXCEPT ![p] = [f \in File |-> 0]]
  /\ held' = [held EXCEPT ![p] = [f \in File |-> FALSE]]

LEMMA DiesBook ==
  ASSUME OwnType, NEW p \in Proc, Dies(p), \A q \in Proc, g \in File : Book(q, g)
  PROVE  /\ OwnType' /\ \A q \in Proc, g \in File : Book(q, g)'
         /\ \A q \in Proc, g \in File : count'[q][g] = IF q = p THEN 0 ELSE count[q][g]
<1>1. /\ owner' \in [File -> Proc \cup {NoProc}]
      /\ \A g \in File : owner'[g] = IF owner[g] = p THEN NoProc ELSE owner[g]
  BY DEF OwnType, Dies
<1>2. /\ count' \in [Proc -> [File -> Nat]]
      /\ \A q \in Proc, g \in File : count'[q][g] = IF q = p THEN 0 ELSE count[q][g]
  BY DEF OwnType, Dies
<1>3. /\ held' \in [Proc -> [File -> BOOLEAN]]
      /\ \A q \in Proc, g \in File : held'[q][g] = IF q = p THEN FALSE ELSE held[q][g]
  <2>1. held \in [Proc -> [File -> BOOLEAN]] /\ held' = [held EXCEPT ![p] = [f \in File |-> FALSE]]
    BY Zenon DEF OwnType, Dies
  <2>2. [f \in File |-> FALSE] \in [File -> BOOLEAN] /\ \A g \in File : [f \in File |-> FALSE][g] = FALSE
    BY Zenon
  <2>3. \A S, F, G : F \in [Proc -> S] /\ G \in S =>
          /\ [F EXCEPT ![p] = G] \in [Proc -> S]
          /\ \A q \in Proc : [F EXCEPT ![p] = G][q] = IF q = p THEN G ELSE F[q]
    OBVIOUS
  <2>4. /\ held' \in [Proc -> [File -> BOOLEAN]]
        /\ \A q \in Proc : held'[q] = IF q = p THEN [f \in File |-> FALSE] ELSE held[q]
    BY <2>1, <2>2, <2>3
  <2> QED BY <2>2, <2>4, Zenon
<1>4. ASSUME NEW q \in Proc, NEW g \in File
      PROVE  Book(q, g)'
  <2>1. Book(q, g) /\ q # NoProc /\ ~(0 > 0)
    OBVIOUS
  <2>2. CASE q = p
    <3>1. owner'[g] # q /\ ~held'[q][g] /\ count'[q][g] = 0
      BY <1>1, <1>3, <1>2, <2>1, <2>2, Zenon
    <3> QED BY <2>1, <3>1, Zenon DEF Book
  <2>3. CASE q # p
    <3>1. (owner'[g] = q <=> owner[g] = q)
      BY <1>1, <2>1, <2>3, Zenon
    <3>2. (held'[q][g] <=> held[q][g]) /\ count'[q][g] = count[q][g]
      BY <1>2, <1>3, <2>3, Zenon
    <3> QED BY <2>1, <3>1, <3>2, Zenon DEF Book
  <2> QED BY <2>2, <2>3, Zenon
<1> QED BY <1>1, <1>2, <1>3, <1>4, Zenon DEF OwnType

LEMMA KeptBook ==
  ASSUME OwnType, Kept, \A q \in Proc, g \in File : Book(q, g)
  PROVE  /\ OwnType' /\ \A q \in Proc, g \in File : Book(q, g)'
         /\ \A q \in Proc, g \in File : count'[q][g] = count[q][g]
BY Zenon DEF OwnType, Kept, Book

----------------------------------------------------------------------------
\* The sections of p after its step.
LEMMA SectionOfNext ==
  ASSUME NEW p \in Proc, NEW t, NEW n,
         refs'[p] = t, n = IF pc'[p] \in {"try", "wait"} THEN Len(t) - 1 ELSE Len(t),
         pc'[p] \in {"try", "wait"} => t # <<>>,
         \A g \in File : Cardinality(At(t, n, g)) =< count'[p][g]
  PROVE  SectionOf(p)'
<1>1. Entered(p)' = n
  BY DEF Entered, Entering
<1>2. \A g \in File : Sections(p, g)' = Cardinality(At(t, n, g))
  BY <1>1 DEF Sections
<1> QED BY <1>1, <1>2 DEF SectionOf, Entering

\* The same p, in what the step leaves alone.
LEMMA SectionOfKept ==
  ASSUME NEW p \in Proc, SectionOf(p), refs'[p] = refs[p],
         Entering(p)' <=> Entering(p), \A g \in File : count'[p][g] = count[p][g]
  PROVE  SectionOf(p)'
<1>1. Entered(p)' = Entered(p)
  BY DEF Entered
<1>2. \A g \in File : Sections(p, g)' = Sections(p, g)
  BY <1>1, Zenon DEF Sections
<1> QED BY <1>2, Zenon DEF SectionOf

\* Nobody but p takes part in a step of p.
Frame(p) == \A q \in Proc \ {p} : refs'[q] = refs[q] /\ pc'[q] = pc[q]

LEMMA OthersSections ==
  ASSUME NEW p \in Proc, Frame(p), \A q \in Proc : SectionOf(q), SectionOf(p)',
         \A q \in Proc, g \in File : q # p => count'[q][g] = count[q][g]
  PROVE  \A q \in Proc : SectionOf(q)'
<1>1. ASSUME NEW q \in Proc, q # p
      PROVE  SectionOf(q)'
  <2>1. refs'[q] = refs[q] /\ pc'[q] = pc[q]
    BY <1>1, Zenon DEF Frame
  <2>2. Entering(q)' <=> Entering(q)
    BY <2>1, Zenon DEF Entering
  <2> QED BY <1>1, <2>1, <2>2, SectionOfKept, Zenon
<1> QED BY <1>1, Zenon

\* A new section that is not inside yet.
LEMMA SectionPushed ==
  ASSUME RefType, NEW p \in Proc, SectionOf(p), ~Entering(p), NEW f \in File,
         refs'[p] = Append(refs[p], f), pc'[p] = "try",
         \A g \in File : count'[p][g] = count[p][g]
  PROVE  SectionOf(p)'
<1> DEFINE t == Append(refs[p], f)
           n == Len(refs[p])
<1>1. refs[p] \in Seq(File) /\ n \in Nat
  BY DEF RefType
<1>2. t # <<>> /\ Len(t) - 1 = n /\ \A i \in 1 .. n : t[i] = refs[p][i]
  BY <1>1, PushType
<1>3. Entered(p) = n
  BY DEF Entered
<1>4. \A g \in File : At(t, n, g) = At(refs[p], n, g)
  BY <1>1, <1>2 DEF At
<1>5. \A g \in File : Cardinality(At(t, n, g)) =< count'[p][g]
  BY <1>3, <1>4 DEF SectionOf, Sections
<1> HIDE DEF t, n
<1>6. refs'[p] = t
  BY DEF t
<1> QED BY <1>2, <1>5, <1>6, SectionOfNext

\* The innermost section comes inside.
LEMMA SectionEnters ==
  ASSUME RefType, OwnType, NEW p \in Proc, SectionOf(p), Entering(p), refs'[p] = refs[p], pc'[p] = "run",
         count'[p][Last(refs[p])] = count[p][Last(refs[p])] + 1,
         \A g \in File : g # Last(refs[p]) => count'[p][g] = count[p][g]
  PROVE  SectionOf(p)'
<1> DEFINE s == refs[p]
           n == Len(s)
<1>1. s \in Seq(File) /\ s # <<>> /\ n \in Nat \ {0}
  BY PopType DEF RefType, SectionOf
<1>2. Entered(p) = n - 1 /\ s[n] = Last(s)
  BY DEF Entered, Last
<1>3. \A g \in File : Cardinality(At(s, n - 1, g)) =< count[p][g]
  BY <1>2 DEF SectionOf, Sections
<1>4. ASSUME NEW g \in File
      PROVE  Cardinality(At(s, n, g)) =< count'[p][g]
  <2>1. count[p][g] \in Nat
    BY DEF OwnType
  <2>2. n - 1 \in Nat /\ (n - 1) + 1 = n
    BY <1>1
  <2>3. Cardinality(At(s, n, g)) = Cardinality(At(s, n - 1, g)) + IF s[n] = g THEN 1 ELSE 0
    BY <2>2, AtOneMore
  <2>4. Cardinality(At(s, n - 1, g)) \in Nat
    BY <2>2, AtType
  <2>5. count'[p][g] = count[p][g] + IF s[n] = g THEN 1 ELSE 0
    BY <1>2, <2>1
  <2> QED BY <1>3, <2>1, <2>3, <2>4, <2>5
<1> HIDE DEF s, n
<1>5. refs'[p] = s
  BY DEF s
<1>6. n = Len(s)
  BY DEF n
<1> QED BY <1>4, <1>5, <1>6, SectionOfNext

\* The innermost section is given up before it came inside.
LEMMA SectionRefused ==
  ASSUME RefType, NEW p \in Proc, SectionOf(p), Entering(p), refs'[p] = Pop(refs[p]), pc'[p] = "run",
         \A g \in File : count'[p][g] = count[p][g]
  PROVE  SectionOf(p)'
<1> DEFINE s == refs[p]
           t == Pop(s)
           n == Len(s) - 1
<1>1. s \in Seq(File) /\ s # <<>>
  BY DEF RefType, SectionOf
<1>2. n \in Nat /\ Len(t) = n /\ \A i \in 1 .. n : t[i] = s[i]
  BY <1>1, PopType
<1>3. Entered(p) = n
  BY DEF Entered
<1>4. \A g \in File : At(t, n, g) = At(s, n, g)
  BY <1>2 DEF At
<1>5. \A g \in File : Cardinality(At(t, n, g)) =< count'[p][g]
  BY <1>3, <1>4 DEF SectionOf, Sections
<1> HIDE DEF t, n
<1>6. refs'[p] = t
  BY DEF t
<1> QED BY <1>2, <1>5, <1>6, SectionOfNext

\* The innermost section leaves: with a release, which takes one off the count
\* or leaves no section on the instance, or without.
LEMMA SectionLeaves ==
  ASSUME RefType, OwnType, NEW p \in Proc, SectionOf(p), ~Entering(p), refs[p] # <<>>,
         refs'[p] = Pop(refs[p]), pc'[p] = pc[p], NEW f \in File,
         \A g \in File : g # f => count'[p][g] = count[p][g],
         \/ count'[p][f] = count[p][f]
         \/ f = Last(refs[p]) /\ count'[p][f] = count[p][f] - 1
         \/ count'[p][f] = 0 /\ Unreferenced(f, cached[p], Pop(refs[p]))
  PROVE  SectionOf(p)'
<1> DEFINE s == refs[p]
           t == Pop(s)
           n == Len(s) - 1
<1>1. s \in Seq(File) /\ s # <<>>
  BY DEF RefType, SectionOf
<1>2. n \in Nat /\ Len(t) = n /\ t \in Seq(File) /\ \A i \in 1 .. n : t[i] = s[i]
  BY <1>1, PopType
<1>3. Entered(p) = n + 1 /\ s[n + 1] = Last(s)
  BY <1>2 DEF Entered, Last
<1>4. \A g \in File : At(t, n, g) = At(s, n, g)
  BY <1>2 DEF At
<1>5. ASSUME NEW g \in File
      PROVE  Cardinality(At(t, n, g)) =< count'[p][g]
  <2>1. count[p][g] \in Nat
    BY DEF OwnType
  <2>2. Cardinality(At(s, n + 1, g)) =< count[p][g]
    BY <1>3 DEF SectionOf, Sections
  <2>3. Cardinality(At(s, n + 1, g)) = Cardinality(At(s, n, g)) + IF s[n + 1] = g THEN 1 ELSE 0
    BY <1>2, AtOneMore
  <2>4. Cardinality(At(s, n, g)) \in Nat
    BY <1>2, AtType
  <2>5. CASE count'[p][g] = count[p][g]
    BY <1>4, <2>1, <2>2, <2>3, <2>4, <2>5
  <2>6. CASE g = Last(s) /\ count'[p][g] = count[p][g] - 1
    BY <1>3, <1>4, <2>1, <2>2, <2>3, <2>4, <2>6
  <2>7. CASE count'[p][g] = 0 /\ Unreferenced(g, cached[p], t)
    <3>1. n \in 0 .. Len(t)
      BY <1>2
    <3>2. Cardinality(At(t, n, g)) = 0
      BY <1>2, <2>7, <3>1, AtNone
    <3> QED BY <2>7, <3>2
  <2> QED BY <2>5, <2>6, <2>7
<1> HIDE DEF t, n
<1>6. refs'[p] = t /\ pc'[p] \notin {"try", "wait"}
  BY DEF t, Entering
<1> QED BY <1>2, <1>5, <1>6, SectionOfNext

----------------------------------------------------------------------------
\* The files: the path, the table and the sections name files that were made,
\* and every file but the one that is named now was cleaned up.
DiskInv  == /\ dir \in BOOLEAN /\ link \in File \cup {NoFile}
            /\ made \in 0 .. MaxCleanups + 1 /\ cleanups \in 0 .. MaxCleanups
            /\ link # NoFile => link =< made /\ made =< cleanups + 1
            /\ link = NoFile => made =< cleanups
FilesOf(p) == cached[p] =< made /\ \A i \in 1 .. Len(refs[p]) : refs[p][i] =< made
OwnedInv   == \A f \in File : owner[f] # NoProc => f =< made
LockInv  == /\ OwnType /\ RefType /\ DiskInv /\ OwnedInv
            /\ \A p \in Proc, f \in File : Book(p, f)
            /\ \A p \in Proc : SectionOf(p) /\ FilesOf(p)

\* Where a step of p leaves p and the others.
Lands(p, l, t, c) ==
  /\ pc' = [pc EXCEPT ![p] = l]
  /\ refs' = [refs EXCEPT ![p] = t]
  /\ cached' = [cached EXCEPT ![p] = c]

LEMMA LandsType ==
  ASSUME RefType, NEW p \in Proc, NEW l \in Label, NEW t \in Seq(File), NEW c \in File \cup {NoFile},
         Lands(p, l, t, c)
  PROVE  /\ RefType' /\ Frame(p) /\ pc'[p] = l /\ refs'[p] = t /\ cached'[p] = c
         /\ \A q \in Proc \ {p} : cached'[q] = cached[q]
<1>1. RefType'
  BY DEF RefType, Lands
<1>2. Frame(p)
  BY DEF RefType, Lands, Frame
<1>3. pc'[p] = l /\ refs'[p] = t /\ cached'[p] = c
  BY DEF RefType, Lands
<1>4. \A q \in Proc \ {p} : cached'[q] = cached[q]
  BY DEF RefType, Lands
<1> QED BY <1>1, <1>2, <1>3, <1>4

LEMMA Stays ==
  ASSUME RefType, NEW p \in Proc
  PROVE  /\ pc' = pc => pc' = [pc EXCEPT ![p] = pc[p]]
         /\ refs' = refs => refs' = [refs EXCEPT ![p] = refs[p]]
         /\ cached' = cached => cached' = [cached EXCEPT ![p] = cached[p]]
         /\ pc[p] \in Label /\ refs[p] \in Seq(File) /\ cached[p] \in File \cup {NoFile}
BY DEF RefType

\* What a step of p does.
Effect(p) == Kept \/ (\E f \in File : f =< made /\ Moves(p, f)) \/ Dies(p)

\* What an invariant needs of it.
Serves(p) == /\ Effect(p) /\ Frame(p) /\ RefType' /\ SectionOf(p)'
             /\ FilesOf(p)' /\ \A q \in Proc \ {p} : cached'[q] = cached[q]

LEMMA EffectInv ==
  ASSUME LockInv, NEW p \in Proc, Effect(p), Frame(p), SectionOf(p)', made' \in Nat, made' >= made
  PROVE  /\ OwnType' /\ OwnedInv'
         /\ \A q \in Proc, f \in File : Book(q, f)'
         /\ \A q \in Proc : SectionOf(q)'
<1>1. OwnType /\ (\A q \in Proc, f \in File : Book(q, f)) /\ (\A q \in Proc : SectionOf(q)) /\ OwnedInv
      /\ made \in Nat /\ NoProc # p
  BY DEF LockInv, DiskInv
<1>2. CASE Kept
  <2>1. OwnType' /\ (\A q \in Proc, f \in File : Book(q, f)')
        /\ \A q \in Proc, g \in File : count'[q][g] = count[q][g]
    BY <1>1, <1>2, KeptBook, Zenon
  <2>2. OwnedInv'
    <3>1. owner' = owner
      BY <1>2, Zenon DEF Kept
    <3>2. \A f \in File : f =< made => f =< made'
      BY <1>1 DEF File
    <3> QED BY <1>1, <3>1, <3>2, Zenon DEF OwnedInv
  <2>3. \A q \in Proc : SectionOf(q)'
    BY <1>1, <2>1, OthersSections, Zenon
  <2> QED BY <2>1, <2>2, <2>3, Zenon
<1>3. CASE \E f \in File : f =< made /\ Moves(p, f)
  <2> PICK f \in File : f =< made /\ Moves(p, f)
    BY <1>3
  <2>1. OwnType' /\ (\A q \in Proc, g \in File : Book(q, g)')
        /\ \A q \in Proc, g \in File : q # p \/ g # f => count'[q][g] = count[q][g]
    BY <1>1, MovesBook, Zenon
  <2>2. OwnedInv'
    <3>1. \A g \in File : g # f => owner'[g] = owner[g]
      <4>1. PICK o, h, c : Sets(p, f, o, h, c)
        BY Zenon DEF Moves, Gets, GivesOne, GivesUp
      <4>2. owner' = [owner EXCEPT ![f] = o] /\ owner \in [File -> Proc \cup {NoProc}]
        BY <1>1, <4>1, Zenon DEF Sets, OwnType
      <4> QED BY <4>2
    <3>2. \A g \in File : g =< made => g =< made'
      BY <1>1 DEF File
    <3> QED BY <1>1, <3>1, <3>2, Zenon DEF OwnedInv
  <2>3. \A q \in Proc : SectionOf(q)'
    BY <1>1, <2>1, OthersSections, Zenon
  <2> QED BY <2>1, <2>2, <2>3, Zenon
<1>4. CASE Dies(p)
  <2>1. OwnType' /\ (\A q \in Proc, g \in File : Book(q, g)')
        /\ \A q \in Proc, g \in File : count'[q][g] = IF q = p THEN 0 ELSE count[q][g]
    BY <1>1, <1>4, DiesBook, Zenon
  <2>2. OwnedInv'
    <3>1. \A g \in File : owner'[g] # NoProc => owner[g] # NoProc
      BY <1>4, Zenon DEF Dies
    <3>2. \A g \in File : g =< made => g =< made'
      BY <1>1 DEF File
    <3> QED BY <1>1, <3>1, <3>2, Zenon DEF OwnedInv
  <2>3. \A q \in Proc, g \in File : q # p => count'[q][g] = count[q][g]
    BY <2>1, Zenon
  <2>4. \A q \in Proc : SectionOf(q)'
    BY <1>1, <2>3, OthersSections, Zenon
  <2> QED BY <2>1, <2>2, <2>4, Zenon
<1> QED BY <1>2, <1>3, <1>4, Zenon DEF Effect

LEMMA FilesOfNext ==
  ASSUME RefType, NEW p \in Proc, FilesOf(p), made \in Nat, made' \in Nat, made =< made',
         NEW f \in Nat, f =< made', cached'[p] \in {cached[p], NoFile, f},
         \/ refs'[p] \in {refs[p], <<>>, Append(refs[p], f)}
         \/ refs'[p] = Pop(refs[p]) /\ refs[p] # <<>>
  PROVE  FilesOf(p)'
<1>1. /\ cached[p] \in Nat /\ refs[p] \in Seq(File) /\ Len(refs[p]) \in Nat
      /\ \A i \in 1 .. Len(refs[p]) : refs[p][i] \in Nat
  BY DEF RefType, File, NoFile
<1>2. cached[p] =< made /\ \A i \in 1 .. Len(refs[p]) : refs[p][i] =< made
  BY DEF FilesOf
<1>3. cached'[p] =< made'
  BY <1>1, <1>2 DEF NoFile
<1>4. \A i \in 1 .. Len(refs[p]) : refs[p][i] =< made'
  BY <1>1, <1>2
<1>5. \A i \in 1 .. Len(refs'[p]) : refs'[p][i] =< made'
  <2>1. CASE refs'[p] = refs[p]
    BY <1>4, <2>1
  <2>2. CASE refs'[p] = <<>>
    BY <2>2
  <2>3. CASE refs'[p] = Append(refs[p], f)
    BY <1>1, <1>4, <2>3
  <2>4. CASE refs'[p] = Pop(refs[p]) /\ refs[p] # <<>>
    <3>1. /\ Len(Pop(refs[p])) = Len(refs[p]) - 1
          /\ \A i \in 1 .. Len(refs[p]) - 1 : Pop(refs[p])[i] = refs[p][i]
      BY <1>1, <2>4, PopType
    <3> QED BY <1>1, <1>4, <2>4, <3>1
  <2> QED BY <2>1, <2>2, <2>3, <2>4
<1> QED BY <1>3, <1>5 DEF FilesOf

\* What is known of p before its step.
LEMMA Here ==
  ASSUME LockInv, NEW p \in Proc
  PROVE  /\ OwnType /\ RefType /\ DiskInv /\ SectionOf(p) /\ FilesOf(p) /\ made \in Nat
         /\ \A f \in File : Book(p, f)
         /\ pc[p] \in Label /\ refs[p] \in Seq(File) /\ cached[p] \in File \cup {NoFile}
         /\ (Entering(p) <=> pc[p] \in {"try", "wait"})
<1>1. OwnType /\ RefType /\ DiskInv /\ SectionOf(p) /\ FilesOf(p) /\ \A f \in File : Book(p, f)
  BY Zenon DEF LockInv
<1>2. made \in Nat
  BY <1>1 DEF DiskInv
<1>3. pc[p] \in Label /\ refs[p] \in Seq(File) /\ cached[p] \in File \cup {NoFile}
  BY <1>1, Stays, Zenon
<1>4. Entering(p) <=> pc[p] \in {"try", "wait"}
  BY Zenon DEF Entering
<1> QED BY <1>1, <1>2, <1>3, <1>4, Zenon

\* The path may have been made again.
More == made' \in Nat /\ made =< made'

\* A step that touches neither the locks nor the sections.
LEMMA Elsewhere ==
  ASSUME LockInv, NEW p \in Proc, NEW l \in Label, pc' = [pc EXCEPT ![p] = l], refs' = refs, cached' = cached,
         \/ ~(pc[p] = "try" \/ pc[p] = "wait") /\ ~(l = "try" \/ l = "wait")
         \/ pc[p] = "try" /\ l = "wait", Kept, More
  PROVE  Serves(p)
<1>1. LockInv /\ RefType /\ SectionOf(p) /\ FilesOf(p) /\ made \in Nat /\ refs[p] \in Seq(File) /\ cached[p] \in File \cup {NoFile}
  BY Here, Zenon
<1>2. Lands(p, l, refs[p], cached[p])
  BY <1>1, Stays, Zenon DEF Lands
<1>3. /\ RefType' /\ Frame(p) /\ pc'[p] = l /\ refs'[p] = refs[p] /\ cached'[p] = cached[p]
      /\ \A q \in Proc \ {p} : cached'[q] = cached[q]
  BY <1>1, <1>2, LandsType, Zenon
<1>4. Entering(p)' <=> Entering(p)
  BY <1>3, Zenon DEF Entering
<1>5. \A g \in File : count'[p][g] = count[p][g]
  BY Zenon DEF Kept
<1>6. SectionOf(p)'
  BY <1>1, <1>3, <1>4, <1>5, SectionOfKept, Zenon
<1>7. FilesOf(p)'
  <2>1. 0 \in Nat /\ 0 =< made' /\ made' \in Nat /\ made =< made'
    BY DEF More
  <2> QED BY <1>1, <1>3, <2>1, FilesOfNext, Zenon
<1> QED BY <1>3, <1>6, <1>7, Zenon DEF Serves, Effect

\* A step that begins a section on f.
LEMMA Begins ==
  ASSUME LockInv, NEW p \in Proc, NEW f \in File, NEW c \in {cached[p], f}, Lands(p, "try", Append(refs[p], f), c),
         pc[p] \notin {"try", "wait"}, f =< made', Kept, More
  PROVE  Serves(p)
<1>1. LockInv /\ RefType /\ SectionOf(p) /\ FilesOf(p) /\ made \in Nat /\ refs[p] \in Seq(File)
      /\ cached[p] \in File \cup {NoFile} /\ ~Entering(p)
  BY Here, Zenon
<1>2. "try" \in Label /\ c \in File \cup {NoFile} /\ Append(refs[p], f) \in Seq(File) /\ f \in Nat
  BY <1>1, PushType DEF Label, File
<1>3. /\ RefType' /\ Frame(p) /\ pc'[p] = "try" /\ refs'[p] = Append(refs[p], f) /\ cached'[p] = c
      /\ \A q \in Proc \ {p} : cached'[q] = cached[q]
  BY <1>1, <1>2, LandsType, Zenon
<1>4. \A g \in File : count'[p][g] = count[p][g]
  BY Zenon DEF Kept
<1>5. SectionOf(p)'
  BY <1>1, <1>3, <1>4, SectionPushed, Zenon
<1>6. FilesOf(p)'
  <2>1. made' \in Nat /\ made =< made'
    BY Zenon DEF More
  <2>2. cached'[p] \in {cached[p], NoFile, f}
    BY <1>3, Zenon
  <2> QED BY <1>1, <1>2, <1>3, <2>1, <2>2, FilesOfNext, Zenon
<1> QED BY <1>3, <1>5, <1>6, Zenon DEF Serves, Effect

----------------------------------------------------------------------------
\* Every action serves.
LEMMA BeginServes ==
  ASSUME LockInv, NEW p \in Proc, Begin(p)
  PROVE  Serves(p) /\ More
<1>1. RefType /\ FilesOf(p) /\ made \in Nat /\ cached[p] \in File \cup {NoFile} /\ pc[p] = "run"
  BY Here, Zenon DEF Begin
<1>2. made' = made /\ owner' = owner /\ count' = count /\ held' = held /\ cached' = cached
  BY Zenon DEF Begin, disk
<1>3. Kept /\ More
  <2>1. made =< made
    BY <1>1
  <2> QED BY <1>1, <1>2, <2>1, Zenon DEF Kept, More
<1>4. CASE cached[p] # NoFile
  <2>1. cached[p] \in File /\ cached[p] =< made' /\ cached[p] \in {cached[p], cached[p]}
    BY <1>1, <1>2, <1>4, Zenon DEF FilesOf
  <2>2. pc' = [pc EXCEPT ![p] = "try"] /\ refs' = [refs EXCEPT ![p] = Append(refs[p], cached[p])]
    BY <1>4, Zenon DEF Begin, Goto
  <2>3. cached' = [cached EXCEPT ![p] = cached[p]]
    BY <1>1, <1>2, Stays, Zenon
  <2>4. Lands(p, "try", Append(refs[p], cached[p]), cached[p])
    BY <2>2, <2>3, Zenon DEF Lands
  <2>5. pc[p] \notin {"try", "wait"}
    BY <1>1
  <2> QED BY <1>3, <2>1, <2>4, <2>5, Begins, Zenon
<1>5. CASE cached[p] = NoFile
  <2>1. pc' = [pc EXCEPT ![p] = "mkdirs"] /\ refs' = refs
    BY <1>5, Zenon DEF Begin, Goto
  <2>2. "mkdirs" \in Label /\ ~(pc[p] = "try" \/ pc[p] = "wait") /\ ~("mkdirs" = "try" \/ "mkdirs" = "wait")
    BY <1>1 DEF Label
  <2> QED BY <1>2, <1>3, <2>1, <2>2, Elsewhere, Zenon
<1> QED BY <1>4, <1>5, Zenon

LEMMA SameMade ==
  ASSUME LockInv, made' = made, owner' = owner, count' = count, held' = held
  PROVE  Kept /\ More
BY DEF Kept, More, LockInv, DiskInv

LEMMA MkdirsServes ==
  ASSUME LockInv, NEW p \in Proc, Mkdirs(p)
  PROVE  Serves(p) /\ More
<1>1. /\ pc[p] = "mkdirs" /\ pc' = [pc EXCEPT ![p] = "open"] /\ refs' = refs /\ cached' = cached
      /\ made' = made /\ owner' = owner /\ count' = count /\ held' = held
  BY Zenon DEF Mkdirs, Goto, insts
<1>2. "open" \in Label /\ ~(pc[p] = "try" \/ pc[p] = "wait") /\ ~("open" = "try" \/ "open" = "wait")
  BY <1>1 DEF Label
<1> QED BY <1>1, <1>2, SameMade, Elsewhere, Zenon

LEMMA OpenServes ==
  ASSUME LockInv, NEW p \in Proc, OpenLockfile(p)
  PROVE  Serves(p) /\ More
<1>1. pc[p] = "open" /\ owner' = owner /\ count' = count /\ held' = held
  BY Zenon DEF OpenLockfile
<1>2. RefType /\ DiskInv /\ made \in Nat /\ refs[p] \in Seq(File) /\ pc[p] \notin {"try", "wait"}
  BY <1>1, Here
<1>3. Kept
  BY <1>1, Zenon DEF Kept
<1>4. ASSUME NEW f \in File, Opened(p, f), f =< made', More
      PROVE  Serves(p)
  <2>1. Lands(p, "try", Append(refs[p], f), f) /\ f \in {cached[p], f}
    BY <1>4, Zenon DEF Opened, Goto, Lands
  <2> QED BY <1>2, <1>3, <1>4, <2>1, Begins, Zenon
<1>5. CASE dir /\ link # NoFile /\ Opened(p, link) /\ made' = made
  <2>1. link \in File /\ link =< made' /\ More
    BY <1>2, <1>5 DEF DiskInv, More
  <2> QED BY <1>4, <1>5, <2>1, Zenon
<1>6. CASE dir /\ link = NoFile /\ made' = made + 1 /\ Opened(p, made + 1)
  <2>1. made + 1 \in File /\ made + 1 =< made' /\ More
    BY <1>2, <1>6 DEF DiskInv, More, File
  <2> QED BY <1>4, <1>6, <2>1, Zenon
<1>7. CASE \E l \in {"mkdirs", "run"} : pc' = [pc EXCEPT ![p] = l] /\ made' = made /\ cached' = cached /\ refs' = refs
  <2> PICK l \in {"mkdirs", "run"} : pc' = [pc EXCEPT ![p] = l] /\ made' = made /\ cached' = cached /\ refs' = refs
    BY <1>7, Zenon
  <2>1. l \in Label /\ ~(pc[p] = "try" \/ pc[p] = "wait") /\ ~(l = "try" \/ l = "wait")
    BY <1>2 DEF Label
  <2> QED BY <1>1, <2>1, SameMade, Elsewhere, Zenon
<1>8. \/ dir /\ link # NoFile /\ Opened(p, link) /\ made' = made
      \/ dir /\ link = NoFile /\ made' = made + 1 /\ Opened(p, made + 1)
      \/ \E l \in {"mkdirs", "run"} : pc' = [pc EXCEPT ![p] = l] /\ made' = made /\ cached' = cached /\ refs' = refs
  BY Zenon DEF OpenLockfile, Goto
<1> QED BY <1>5, <1>6, <1>7, <1>8, Zenon

LEMMA CleanupAllServes ==
  ASSUME LockInv, NEW p \in Proc, CleanupAll(p)
  PROVE  Serves(p) /\ More
<1>1. /\ pc[p] = "run" /\ pc' = [pc EXCEPT ![p] = "rmdir"] /\ refs' = refs /\ cached' = cached
      /\ made' = made /\ owner' = owner /\ count' = count /\ held' = held
  BY Zenon DEF CleanupAll, Goto, insts
<1>2. "rmdir" \in Label /\ ~(pc[p] = "try" \/ pc[p] = "wait") /\ ~("rmdir" = "try" \/ "rmdir" = "wait")
  BY <1>1 DEF Label
<1> QED BY <1>1, <1>2, SameMade, Elsewhere, Zenon

LEMMA RmdirServes ==
  ASSUME LockInv, NEW p \in Proc, Rmdir(p)
  PROVE  Serves(p) /\ More
<1>1. /\ pc[p] = "rmdir" /\ pc' = [pc EXCEPT ![p] = "run"] /\ refs' = refs /\ cached' = cached
      /\ made' = made /\ owner' = owner /\ count' = count /\ held' = held
  BY Zenon DEF Rmdir, Goto, insts
<1>2. "run" \in Label /\ ~(pc[p] = "try" \/ pc[p] = "wait") /\ ~("run" = "try" \/ "run" = "wait")
  BY <1>1 DEF Label
<1> QED BY <1>1, <1>2, SameMade, Elsewhere, Zenon

LEMMA DieServes ==
  ASSUME LockInv, NEW p \in Proc, Die(p)
  PROVE  Serves(p) /\ More
<1>1. /\ Lands(p, "dead", <<>>, NoFile) /\ Dies(p) /\ made' = made
  BY Zenon DEF Die, Goto, Dies, Lands, disk
<1>2. OwnType /\ RefType /\ FilesOf(p) /\ made \in Nat
  BY Here, Zenon
<1>3. "dead" \in Label /\ <<>> \in Seq(File) /\ More /\ 0 \in Nat /\ 0 =< made'
  BY <1>1, <1>2 DEF Label, More
<1>4. /\ RefType' /\ Frame(p) /\ pc'[p] = "dead" /\ refs'[p] = <<>> /\ cached'[p] = NoFile
      /\ \A q \in Proc \ {p} : cached'[q] = cached[q]
  BY <1>1, <1>2, <1>3, LandsType, Zenon
<1>5. SectionOf(p)'
  <2>1. \A g \in File : count'[p][g] = 0
    BY <1>1, <1>2, Zenon DEF Dies, OwnType
  <2>2. \A g \in File : Cardinality(At(<<>>, 0, g)) = 0
    <3>1. \A g \in File : At(<<>>, 0, g) = {}
      BY DEF At
    <3> QED BY <3>1, FS_EmptySet
  <2>3. \A g \in File : Cardinality(At(<<>>, 0, g)) =< count'[p][g]
    BY <2>1, <2>2
  <2>4. 0 = IF pc'[p] \in {"try", "wait"} THEN Len(<<>>) - 1 ELSE Len(<<>>)
    BY <1>4
  <2>5. pc'[p] \in {"try", "wait"} => <<>> # <<>>
    BY <1>4
  <2> QED BY <1>4, <2>3, <2>4, <2>5, SectionOfNext, Zenon
<1>6. FilesOf(p)'
  <2>1. refs'[p] \in {refs[p], <<>>, Append(refs[p], 0)} /\ cached'[p] \in {cached[p], NoFile, 0}
    BY <1>4, Zenon
  <2> QED BY <1>2, <1>3, <2>1, FilesOfNext, Zenon DEF More
<1> QED BY <1>1, <1>3, <1>4, <1>5, <1>6, Zenon DEF Serves, Effect

LEMMA LastHere ==
  ASSUME LockInv, NEW p \in Proc, refs[p] # <<>>
  PROVE  Last(refs[p]) \in File /\ Last(refs[p]) =< made
<1>1. refs[p] \in Seq(File) /\ FilesOf(p)
  BY Here, Zenon
<1>2. Len(refs[p]) \in Nat \ {0} /\ Last(refs[p]) \in File
  BY <1>1, PopType
<1>3. Len(refs[p]) \in 1 .. Len(refs[p]) /\ Last(refs[p]) = refs[p][Len(refs[p])]
  BY <1>2 DEF Last
<1>4. Last(refs[p]) =< made
  BY <1>1, <1>3, Zenon DEF FilesOf
<1> QED BY <1>2, <1>4

\* A step that gets the lock.
LEMMA Enters ==
  ASSUME LockInv, NEW p \in Proc, Entering(p), Gets(p, Last(refs[p])),
         pc' = [pc EXCEPT ![p] = "run"], refs' = refs, cached' = cached, made' = made
  PROVE  Serves(p) /\ More
<1> DEFINE f == Last(refs[p])
<1>1. OwnType /\ RefType /\ SectionOf(p) /\ FilesOf(p) /\ made \in Nat /\ refs[p] \in Seq(File)
      /\ cached[p] \in File \cup {NoFile} /\ refs[p] # <<>>
  BY Here, Zenon DEF SectionOf
<1>2. f \in File /\ f =< made
  BY <1>1, LastHere, Zenon
<1>3. "run" \in Label /\ More /\ 0 \in Nat /\ 0 =< made'
  BY <1>1 DEF Label, More
<1>4. Lands(p, "run", refs[p], cached[p])
  BY <1>1, Stays, Zenon DEF Lands
<1>5. /\ RefType' /\ Frame(p) /\ pc'[p] = "run" /\ refs'[p] = refs[p] /\ cached'[p] = cached[p]
      /\ \A q \in Proc \ {p} : cached'[q] = cached[q]
  BY <1>1, <1>3, <1>4, LandsType, Zenon
<1>6. Sets(p, f, p, TRUE, count[p][f] + 1)
  BY Zenon DEF Gets
<1>7. \A g \in File : count'[p][g] = IF g = f THEN count[p][f] + 1 ELSE count[p][g]
  <2>1. count' = [count EXCEPT ![p][f] = count[p][f] + 1] /\ count \in [Proc -> [File -> Nat]]
    BY <1>1, <1>6, Zenon DEF Sets, OwnType
  <2> QED BY <1>2, <2>1
<1>8. SectionOf(p)'
  <2>1. count'[p][Last(refs[p])] = count[p][Last(refs[p])] + 1
    BY <1>2, <1>7, Zenon
  <2>2. \A g \in File : g # Last(refs[p]) => count'[p][g] = count[p][g]
    BY <1>7, Zenon
  <2> QED BY <1>1, <1>5, <2>1, <2>2, SectionEnters, Zenon
<1>9. FilesOf(p)'
  <2>1. refs'[p] \in {refs[p], <<>>, Append(refs[p], 0)} /\ cached'[p] \in {cached[p], NoFile, 0}
    BY <1>5, Zenon
  <2> QED BY <1>1, <1>3, <2>1, FilesOfNext, Zenon DEF More
<1>10. Effect(p)
  BY <1>2, Zenon DEF Effect, Moves
<1> QED BY <1>3, <1>5, <1>8, <1>9, <1>10, Zenon DEF Serves

LEMMA WaitServes ==
  ASSUME LockInv, NEW p \in Proc, WaitLock(p)
  PROVE  Serves(p) /\ More
<1>1. Entering(p)
  BY DEF WaitLock, Entering
<1>2. Gets(p, Last(refs[p]))
  BY Zenon DEF WaitLock, Locked, Gets, Sets
<1>3. pc' = [pc EXCEPT ![p] = "run"] /\ refs' = refs /\ cached' = cached /\ made' = made
  BY Zenon DEF WaitLock, Locked, Goto, disk
<1> QED BY <1>1, <1>2, <1>3, Enters, Zenon

LEMMA TryServes ==
  ASSUME LockInv, NEW p \in Proc, TryLock(p)
  PROVE  Serves(p) /\ More
<1> DEFINE f == Last(refs[p])
<1>1. OwnType /\ RefType /\ SectionOf(p) /\ FilesOf(p) /\ made \in Nat /\ refs[p] \in Seq(File)
      /\ (\A g \in File : Book(p, g)) /\ cached[p] \in File \cup {NoFile}
  BY Here, Zenon
<1>2. pc[p] = "try" /\ cached' = cached /\ made' = made
  BY Zenon DEF TryLock, disk
<1>3. Entering(p) /\ refs[p] # <<>>
  BY <1>1, <1>2 DEF Entering, SectionOf
<1>4. f \in File /\ Book(p, f)
  BY <1>1, <1>3, LastHere, Zenon
<1>5. CASE /\ held[p][f] /\ count' = [count EXCEPT ![p][f] = @ + 1] /\ Goto(p, "run")
           /\ owner' = owner /\ held' = held /\ refs' = refs
  <2>1. owner[f] = p /\ held[p][f] = TRUE
    BY <1>1, <1>4, <1>5, BookFacts, Zenon DEF Book
  <2>2. /\ [owner EXCEPT ![f] = owner[f]] = owner
        /\ [held EXCEPT ![p][f] = held[p][f]] = held
    BY <1>1, <1>4, SetsSame, Zenon
  <2>3. [owner EXCEPT ![f] = p] = owner
    BY <2>1, <2>2
  <2>4. [held EXCEPT ![p][f] = TRUE] = held
    <3>1. held \in [Proc -> [File -> BOOLEAN]] /\ TRUE = held[p][f]
      BY <1>1, <2>1, Zenon DEF OwnType
    <3>2. \A v : v = held[p][f] => [held EXCEPT ![p][f] = v] = held
      BY <1>4, <3>1, PutEqual
    <3> QED BY <3>1, <3>2
  <2>5. Sets(p, f, p, TRUE, count[p][f] + 1)
    BY <1>5, <2>3, <2>4, Zenon DEF Sets
  <2>6. Gets(p, f) /\ pc' = [pc EXCEPT ![p] = "run"] /\ refs' = refs
    BY <1>5, <2>1, <2>5, Zenon DEF Gets, Goto
  <2> QED BY <1>2, <1>3, <2>6, Enters, Zenon
<1>6. CASE owner[f] \in {NoProc, p} /\ Locked(p, f) /\ refs' = refs
  <2>1. Gets(p, f) /\ pc' = [pc EXCEPT ![p] = "run"]
    BY <1>6, Zenon DEF Gets, Sets, Locked, Goto
  <2> QED BY <1>2, <1>3, <1>6, <2>1, Enters, Zenon
<1>7. CASE Goto(p, "wait") /\ owner' = owner /\ count' = count /\ held' = held /\ refs' = refs
  <2>1. "wait" \in Label /\ pc' = [pc EXCEPT ![p] = "wait"]
    BY <1>7 DEF Label, Goto
  <2> QED BY <1>2, <1>7, <2>1, SameMade, Elsewhere, Zenon
<1>8. CASE /\ owner[f] \notin {NoProc, p} /\ Goto(p, "run") /\ refs' = [refs EXCEPT ![p] = Pop(refs[p])]
           /\ Collect(p, f, LastRef(p), owner, count, held)
  <2>1. Kept
    BY <1>1, <1>4, <1>8, DropEffect, Zenon
  <2>2. "run" \in Label /\ Pop(refs[p]) \in Seq(File) /\ More
    BY <1>1, <1>2, <1>3, PopType DEF Label, More
  <2>3. Lands(p, "run", Pop(refs[p]), cached[p])
    BY <1>1, <1>2, <1>8, Stays, Zenon DEF Lands, Goto
  <2>4. /\ RefType' /\ Frame(p) /\ pc'[p] = "run" /\ refs'[p] = Pop(refs[p]) /\ cached'[p] = cached[p]
        /\ \A q \in Proc \ {p} : cached'[q] = cached[q]
    BY <1>1, <2>2, <2>3, LandsType, Zenon
  <2>5. \A g \in File : count'[p][g] = count[p][g]
    BY <2>1, Zenon DEF Kept
  <2>6. SectionOf(p)'
    BY <1>1, <1>3, <2>4, <2>5, SectionRefused, Zenon
  <2>7. FilesOf(p)'
    <3>1. 0 \in Nat /\ 0 =< made' /\ cached'[p] \in {cached[p], NoFile, 0} /\ made' \in Nat /\ made =< made'
      BY <1>1, <1>2, <2>4
    <3> QED BY <1>1, <1>3, <2>4, <3>1, FilesOfNext, Zenon
  <2> QED BY <2>1, <2>2, <2>4, <2>6, <2>7, Zenon DEF Serves, Effect
<1> QED BY <1>5, <1>6, <1>7, <1>8, Zenon DEF TryLock

\* A section inside the lock has it.
LEMMA InsideHolds ==
  ASSUME LockInv, NEW p \in Proc, ~Entering(p), refs[p] # <<>>
  PROVE  owner[Last(refs[p])] = p
<1> DEFINE f == Last(refs[p])
           n == Len(refs[p])
<1>1. OwnType /\ SectionOf(p) /\ refs[p] \in Seq(File) /\ f \in File /\ Book(p, f)
  BY Here, LastHere, Zenon
<1>2. n \in Nat \ {0} /\ refs[p][n] = f
  BY <1>1, PopType DEF Last
<1>3. Cardinality(At(refs[p], n, f)) =< count[p][f]
  BY <1>1 DEF SectionOf, Sections, Entered
<1>4. Cardinality(At(refs[p], n, f)) >= 1
  <2>1. n - 1 \in Nat /\ (n - 1) + 1 = n
    BY <1>2
  <2>2. Cardinality(At(refs[p], n, f)) = Cardinality(At(refs[p], n - 1, f)) + 1
    BY <1>2, <2>1, AtOneMore
  <2>3. Cardinality(At(refs[p], n - 1, f)) \in Nat
    BY <2>1, AtType
  <2> QED BY <2>2, <2>3
<1>5. count[p][f] > 0
  <2>1. Cardinality(At(refs[p], n, f)) \in Nat /\ count[p][f] \in Nat
    BY <1>1, <1>2, AtType DEF OwnType
  <2> QED BY <1>3, <1>4, <2>1
<1> QED BY <1>1, <1>5, Zenon DEF Book

\* A step that ends a section.
LEMMA Leaves ==
  ASSUME LockInv, NEW p \in Proc, pc[p] = "run", refs[p] # <<>>, pc' = pc, cached' = cached, made' = made,
         refs' = [refs EXCEPT ![p] = Pop(refs[p])],
         \/ Kept
         \/ GivesOne(p, Last(refs[p]))
         \/ GivesUp(p, Last(refs[p])) /\ (count[p][Last(refs[p])] = 1 \/ LastRef(p))
  PROVE  Serves(p) /\ More
<1> DEFINE f == Last(refs[p])
<1>1. OwnType /\ RefType /\ SectionOf(p) /\ FilesOf(p) /\ made \in Nat /\ refs[p] \in Seq(File)
      /\ cached[p] \in File \cup {NoFile} /\ pc[p] \in Label /\ ~Entering(p)
  BY Here DEF Entering
<1>2. f \in File /\ f =< made /\ Pop(refs[p]) \in Seq(File)
  BY <1>1, LastHere, PopType
<1>3. Lands(p, pc[p], Pop(refs[p]), cached[p])
  BY <1>1, Stays, Zenon DEF Lands
<1>4. /\ RefType' /\ Frame(p) /\ pc'[p] = pc[p] /\ refs'[p] = Pop(refs[p]) /\ cached'[p] = cached[p]
      /\ \A q \in Proc \ {p} : cached'[q] = cached[q]
  BY <1>1, <1>2, <1>3, LandsType, Zenon
<1>5. More /\ 0 \in Nat /\ 0 =< made'
  BY <1>1 DEF More
<1>6. FilesOf(p)'
  <2>1. cached'[p] \in {cached[p], NoFile, 0}
    BY <1>4, Zenon
  <2> QED BY <1>1, <1>4, <1>5, <2>1, FilesOfNext, Zenon DEF More
<1>7. Effect(p)
  BY <1>2, Zenon DEF Effect, Moves
<1>8. /\ \A g \in File : g # f => count'[p][g] = count[p][g]
      /\ \/ count'[p][f] = count[p][f]
         \/ count'[p][f] = count[p][f] - 1
         \/ count'[p][f] = 0 /\ LastRef(p)
  <2>1. CASE Kept
    BY <2>1, Zenon DEF Kept
  <2>2. ASSUME NEW c \in Nat, count' = [count EXCEPT ![p][f] = c]
        PROVE  count'[p][f] = c /\ \A g \in File : g # f => count'[p][g] = count[p][g]
    BY <1>1, <1>2, <2>2 DEF OwnType
  <2>3. count[p][f] \in Nat
    BY <1>1, <1>2 DEF OwnType
  <2>4. CASE GivesOne(p, f)
    <3>1. count[p][f] > 1 /\ count' = [count EXCEPT ![p][f] = count[p][f] - 1]
      BY <2>4, Zenon DEF GivesOne, Sets
    <3>2. count[p][f] - 1 \in Nat
      BY <2>3, <3>1
    <3> QED BY <2>2, <3>1, <3>2, Zenon
  <2>5. CASE GivesUp(p, f) /\ (count[p][f] = 1 \/ LastRef(p))
    <3>1. count' = [count EXCEPT ![p][f] = 0] /\ 0 \in Nat
      BY <2>5, Zenon DEF GivesUp, Sets
    <3>2. 0 = 1 - 1
      OBVIOUS
    <3> QED BY <2>2, <2>5, <3>1, <3>2, Zenon
  <2> QED BY <2>1, <2>4, <2>5, Zenon
<1>9. SectionOf(p)'
  BY <1>1, <1>2, <1>4, <1>8, SectionLeaves, Zenon DEF LastRef
<1> QED BY <1>4, <1>5, <1>6, <1>7, <1>9, Zenon DEF Serves

LEMMA ReleaseServes ==
  ASSUME LockInv, NEW p \in Proc, Release(p)
  PROVE  Serves(p) /\ More
<1>1. /\ pc[p] = "run" /\ refs[p] # <<>> /\ refs' = [refs EXCEPT ![p] = Pop(refs[p])]
      /\ pc' = pc /\ cached' = cached /\ made' = made
  BY Zenon DEF Release, disk
<1>2. ~Entering(p)
  BY <1>1 DEF Entering
<1>3. /\ OwnType /\ RefType /\ Last(refs[p]) \in File /\ owner[Last(refs[p])] = p
      /\ Book(p, Last(refs[p]))
  BY <1>1, <1>2, Here, LastHere, InsideHolds, Zenon
<1>4. IF count[p][Last(refs[p])] = 1 \/ LastRef(p) THEN GivesUp(p, Last(refs[p])) ELSE GivesOne(p, Last(refs[p]))
  BY <1>3, ReleaseEffect, Zenon
<1> QED BY <1>1, <1>4, Leaves, Zenon

LEMMA LeaveServes ==
  ASSUME LockInv, NEW p \in Proc, LeaveLocked(p)
  PROVE  Serves(p) /\ More
<1>1. /\ pc[p] = "run" /\ refs[p] # <<>> /\ refs' = [refs EXCEPT ![p] = Pop(refs[p])]
      /\ pc' = pc /\ cached' = cached /\ made' = made
      /\ Collect(p, Last(refs[p]), LastRef(p), owner, count, held)
  BY Zenon DEF LeaveLocked, disk
<1>2. OwnType /\ Last(refs[p]) \in File /\ Book(p, Last(refs[p]))
  BY <1>1, Here, LastHere, Zenon
<1>3. IF LastRef(p) /\ owner[Last(refs[p])] = p THEN GivesUp(p, Last(refs[p])) ELSE Kept
  BY <1>1, <1>2, DropEffect, Zenon
<1> QED BY <1>1, <1>3, Leaves, Zenon

LEMMA CleanupServes ==
  ASSUME LockInv, NEW p \in Proc, Cleanup(p)
  PROVE  Serves(p) /\ More
<1> DEFINE f == cached[p]
           gone == Unreferenced(f, NoFile, refs[p])
<1>1. /\ pc[p] = "run" /\ cached' = [cached EXCEPT ![p] = NoFile] /\ refs' = refs /\ pc' = pc /\ made' = made
      /\ IF f # NoFile THEN Collect(p, f, gone, owner, count, held)
                       ELSE owner' = owner /\ count' = count /\ held' = held
  BY Zenon DEF Cleanup
<1>2. OwnType /\ RefType /\ SectionOf(p) /\ FilesOf(p) /\ made \in Nat /\ refs[p] \in Seq(File)
      /\ f \in File \cup {NoFile} /\ pc[p] \in Label /\ \A g \in File : Book(p, g)
  BY Here, Zenon
<1>3. Lands(p, pc[p], refs[p], NoFile)
  BY <1>1, <1>2, Stays, Zenon DEF Lands
<1>4. /\ RefType' /\ Frame(p) /\ pc'[p] = pc[p] /\ refs'[p] = refs[p] /\ cached'[p] = NoFile
      /\ \A q \in Proc \ {p} : cached'[q] = cached[q]
  BY <1>2, <1>3, LandsType, Zenon
<1>5. More /\ 0 \in Nat /\ 0 =< made'
  BY <1>1, <1>2 DEF More
<1>6. FilesOf(p)'
  <2>1. cached'[p] \in {cached[p], NoFile, 0} /\ refs'[p] \in {refs[p], <<>>, Append(refs[p], 0)}
    BY <1>4, Zenon
  <2> QED BY <1>2, <1>5, <2>1, FilesOfNext, Zenon DEF More
<1>7. ~Entering(p) /\ (Entering(p)' <=> Entering(p))
  BY <1>1 DEF Entering
<1>8. CASE Kept
  <2>1. \A g \in File : count'[p][g] = count[p][g]
    BY <1>8, Zenon DEF Kept
  <2>2. SectionOf(p)'
    BY <1>2, <1>4, <1>7, <2>1, SectionOfKept, Zenon
  <2> QED BY <1>4, <1>5, <1>6, <1>8, <2>2, Zenon DEF Serves, Effect
<1>9. CASE f \in File /\ gone /\ GivesUp(p, f)
  <2>1. f =< made
    BY <1>2, Zenon DEF FilesOf
  <2>2. count' = [count EXCEPT ![p][f] = 0] /\ count \in [Proc -> [File -> Nat]]
    BY <1>2, <1>9, Zenon DEF GivesUp, Sets, OwnType
  <2>3. count'[p][f] = 0 /\ \A g \in File : g # f => count'[p][g] = count[p][g]
    BY <1>9, <2>2
  <2>4. Entered(p) = Len(refs[p]) /\ Len(refs[p]) \in Nat
    BY <1>2, <1>7 DEF Entered
  <2>5. \A g \in File : Cardinality(At(refs[p], Len(refs[p]), g)) =< count[p][g]
    BY <1>2, <2>4 DEF SectionOf, Sections
  <2>6. Cardinality(At(refs[p], Len(refs[p]), f)) = 0
    <3>1. Len(refs[p]) \in 0 .. Len(refs[p])
      BY <2>4
    <3> QED BY <1>2, <1>9, <3>1, AtNone
  <2>7. \A g \in File : Cardinality(At(refs[p], Len(refs[p]), g)) =< count'[p][g]
    BY <2>3, <2>5, <2>6
  <2>8. /\ Len(refs[p]) = IF pc'[p] \in {"try", "wait"} THEN Len(refs[p]) - 1 ELSE Len(refs[p])
        /\ pc'[p] \in {"try", "wait"} => refs[p] # <<>>
    BY <1>1, <1>4
  <2>9. SectionOf(p)'
    BY <1>4, <2>7, <2>8, SectionOfNext, Zenon
  <2>10. Effect(p)
    BY <1>9, <2>1, Zenon DEF Effect, Moves
  <2> QED BY <1>4, <1>5, <1>6, <2>9, <2>10, Zenon DEF Serves
<1>10. CASE f # NoFile
  <2>1. f \in File /\ Book(p, f) /\ Collect(p, f, gone, owner, count, held)
    BY <1>1, <1>2, <1>10, Zenon
  <2>2. IF gone /\ owner[f] = p THEN GivesUp(p, f) ELSE Kept
    BY <1>2, <2>1, DropEffect, Zenon
  <2> QED BY <1>8, <1>9, <2>1, <2>2, Zenon
<1>11. CASE f = NoFile
  BY <1>1, <1>8, <1>11, Zenon DEF Kept
<1> QED BY <1>10, <1>11, Zenon

LEMMA ServesNext ==
  ASSUME LockInv, NEW p \in Proc, Begin(p) \/ Step(p) \/ Cleanup(p) \/ CleanupAll(p) \/ Die(p)
  PROVE  Serves(p) /\ More
<1>1. CASE Step(p)
  BY <1>1, MkdirsServes, OpenServes, TryServes, WaitServes, ReleaseServes, LeaveServes, RmdirServes, Zenon
     DEF Step
<1> QED BY <1>1, BeginServes, CleanupServes, CleanupAllServes, DieServes, Zenon

----------------------------------------------------------------------------
\* The path names a file that was made, and the files of before were cleaned up.
LEMMA DiskNext ==
  ASSUME DiskInv, NEW p \in Proc, Begin(p) \/ Step(p) \/ Cleanup(p) \/ CleanupAll(p) \/ Die(p)
  PROVE  DiskInv'
<1>1. CASE UNCHANGED <<dir, link, made, cleanups>>
  BY <1>1 DEF DiskInv
<1>2. CASE Mkdirs(p)
  BY <1>2 DEF Mkdirs, notes, DiskInv
<1>3. CASE OpenLockfile(p)
  <2>1. dir' = dir /\ cleanups' = cleanups
    BY <1>3, Zenon DEF OpenLockfile
  <2>2. \/ link' = link /\ made' = made
        \/ link = NoFile /\ made' = made + 1 /\ link' = made + 1
    BY <1>3, Zenon DEF OpenLockfile
  <2> QED BY <2>1, <2>2 DEF DiskInv, File, NoFile
<1>4. CASE Rmdir(p)
  <2>1. link' = link /\ made' = made /\ cleanups' = cleanups /\ dir' \in {dir, FALSE}
    BY <1>4, Zenon DEF Rmdir
  <2> QED BY <2>1 DEF DiskInv
<1>5. CASE Cleanup(p) \/ CleanupAll(p)
  <2>1. dir' = dir /\ made' = made /\ link' = NoFile /\ cleanups' = cleanups + 1 /\ cleanups < MaxCleanups
    BY <1>5, Zenon DEF Cleanup, CleanupAll
  <2> QED BY <2>1 DEF DiskInv, File, NoFile
<1>6. CASE Begin(p) \/ TryLock(p) \/ WaitLock(p) \/ Release(p) \/ LeaveLocked(p) \/ Die(p)
  <2>1. UNCHANGED disk /\ cleanups' = cleanups
    BY <1>6, Zenon DEF Begin, TryLock, WaitLock, Release, LeaveLocked, Die, notes
  <2>2. UNCHANGED <<dir, link, made, cleanups>>
    BY <2>1 DEF disk
  <2> QED BY <1>1, <2>2
<1> QED BY <1>2, <1>3, <1>4, <1>5, <1>6, Zenon DEF Step

\* The invariant survives every step.
LEMMA LockNext ==
  ASSUME LockInv, [Next]_vars
  PROVE  LockInv'
<1>1. ASSUME NEW p \in Proc, Begin(p) \/ Step(p) \/ Cleanup(p) \/ CleanupAll(p) \/ Die(p)
      PROVE  LockInv'
  <2>1. Serves(p) /\ More
    BY <1>1, ServesNext, Zenon
  <2>2. Effect(p) /\ Frame(p) /\ RefType' /\ SectionOf(p)' /\ FilesOf(p)' /\ \A q \in Proc \ {p} : cached'[q] = cached[q]
    BY <2>1, Zenon DEF Serves
  <2>3. made \in Nat /\ made' \in Nat /\ made' >= made /\ DiskInv
    BY <2>1 DEF More, LockInv, DiskInv
  <2>4. OwnType' /\ OwnedInv' /\ (\A q \in Proc, f \in File : Book(q, f)') /\ \A q \in Proc : SectionOf(q)'
    BY <2>2, <2>3, EffectInv, Zenon
  <2>5. DiskInv'
    BY <1>1, <2>3, DiskNext, Zenon
  <2>6. ASSUME NEW q \in Proc
        PROVE  FilesOf(q)'
    <3>1. CASE q = p
      BY <2>2, <3>1, Zenon
    <3>2. CASE q # p
      <4>1. refs'[q] = refs[q] /\ cached'[q] = cached[q]
        BY <2>2, <3>2, Zenon DEF Frame
      <4>2. FilesOf(q) /\ RefType
        BY Zenon DEF LockInv
      <4>3. 0 \in Nat /\ 0 =< made' /\ made =< made'
        BY <2>3
      <4>4. cached'[q] \in {cached[q], NoFile, 0} /\ refs'[q] \in {refs[q], <<>>, Append(refs[q], 0)}
        BY <4>1, Zenon
      <4> QED BY <2>3, <4>2, <4>3, <4>4, FilesOfNext, Zenon
    <3> QED BY <3>1, <3>2, Zenon
  <2> QED BY <2>2, <2>4, <2>5, <2>6, Zenon DEF LockInv
<1>2. CASE UNCHANGED vars
  <2>1. UNCHANGED <<disk, owner, pc, insts, notes>>
    BY <1>2 DEF vars
  <2>2. /\ dir' = dir /\ link' = link /\ made' = made /\ owner' = owner /\ pc' = pc
        /\ cached' = cached /\ refs' = refs /\ count' = count /\ held' = held /\ cleanups' = cleanups
    BY <2>1 DEF disk, insts, notes
  <2>3. OwnType' /\ RefType' /\ DiskInv' /\ OwnedInv'
    BY <2>2, Zenon DEF LockInv, OwnType, RefType, DiskInv, OwnedInv
  <2>4. \A p \in Proc, f \in File : Book(p, f)'
    BY <2>2, Zenon DEF LockInv, Book
  <2>5. \A p \in Proc : SectionOf(p)' /\ FilesOf(p)'
    BY <2>2, Zenon DEF LockInv, SectionOf, FilesOf, Entering, Entered, Sections
  <2> QED BY <2>3, <2>4, <2>5, Zenon DEF LockInv
<1> QED BY <1>1, <1>2, Zenon DEF Next, Finished

LEMMA LockStarts ==
  ASSUME Init
  PROVE  LockInv
<1>1. OwnType /\ RefType /\ DiskInv
  <2>1. owner \in [File -> Proc \cup {NoProc}] /\ count \in [Proc -> [File -> Nat]]
    BY DEF Init
  <2>2. held \in [Proc -> [File -> BOOLEAN]]
    BY Zenon DEF Init
  <2>3. RefType
    <3>1. refs \in [Proc -> Seq(File)]
      <4>1. <<>> \in Seq(File) /\ refs = [p \in Proc |-> <<>>]
        BY DEF Init
      <4> QED BY <4>1
    <3>2. cached \in [Proc -> File \cup {NoFile}] /\ pc \in [Proc -> Label]
      BY DEF Init, Label
    <3> QED BY <3>1, <3>2 DEF RefType
  <2>4. DiskInv
    <3>1. dir = FALSE /\ link = NoFile /\ made = 0 /\ cleanups = 0
      BY Zenon DEF Init
    <3>2. dir \in BOOLEAN /\ link \in File \cup {NoFile}
      BY <3>1, Zenon
    <3>3. /\ made \in 0 .. MaxCleanups + 1 /\ cleanups \in 0 .. MaxCleanups
          /\ link # NoFile => link =< made /\ made =< cleanups + 1
          /\ link = NoFile => made =< cleanups
      BY <3>1
    <3> QED BY <3>2, <3>3, Zenon DEF DiskInv
  <2> QED BY <2>1, <2>2, <2>3, <2>4, Zenon DEF OwnType
<1>2. OwnedInv
  BY DEF Init, OwnedInv
<1>3. ASSUME NEW p \in Proc, NEW f \in File
      PROVE  Book(p, f)
  <2>1. owner[f] = NoProc /\ NoProc # p /\ count[p][f] = 0 /\ ~(0 > 0)
    BY DEF Init
  <2>2. ~held[p][f]
    BY Zenon DEF Init
  <2> QED BY <2>1, <2>2, Zenon DEF Book
<1>4. ASSUME NEW p \in Proc
      PROVE  SectionOf(p) /\ FilesOf(p)
  <2>1. refs[p] = <<>> /\ pc[p] = "run" /\ cached[p] = 0 /\ made = 0
    BY DEF Init, NoFile
  <2>2. Entered(p) = 0 /\ ~Entering(p)
    BY <2>1 DEF Entered, Entering
  <2>3. \A f \in File : Sections(p, f) = 0
    <3>1. \A f \in File : At(refs[p], 0, f) = {}
      BY DEF At
    <3> QED BY <2>2, <3>1, FS_EmptySet DEF Sections
  <2>4. \A f \in File : count[p][f] = 0
    BY DEF Init
  <2>5. SectionOf(p)
    BY <2>2, <2>3, <2>4 DEF SectionOf
  <2>6. FilesOf(p)
    BY <2>1 DEF FilesOf
  <2> QED BY <2>5, <2>6
<1> QED BY <1>1, <1>2, <1>3, <1>4, Zenon DEF LockInv

\* Every reachable state satisfies the invariant of the lock.
LEMMA LockAlways == Spec => []LockInv
<1>1. Init => LockInv
  BY LockStarts
<1>2. LockInv /\ [Next]_vars => LockInv'
  BY LockNext
<1> QED BY <1>1, <1>2, PTL DEF Spec

\* _held and the count of every instance agree with the kernel, whatever
\* instances were dropped, leaked, cleaned up or killed.
THEOREM BookkeepingHolds == Spec => []BookkeepingIsTrue
<1>1. LockInv => BookkeepingIsTrue
  BY Zenon DEF LockInv, Book, BookkeepingIsTrue
<1> QED BY <1>1, LockAlways, PTL

\* Until a clean up there is one file, and one process inside.
THEOREM ExclusionHolds == Spec => []ExclusiveUntilCleanup
<1>1. LockInv => ExclusiveUntilCleanup
  <2> SUFFICES ASSUME LockInv, cleanups = 0, NEW p \in Proc, NEW q \in Proc, Inside(p), Inside(q)
               PROVE  p = q
    BY Zenon DEF ExclusiveUntilCleanup
  <2>1. PICK f \in File, g \in File : held[p][f] /\ held[q][g]
    BY Zenon DEF Inside
  <2>2. owner[f] = p /\ owner[g] = q
    BY <2>1, Zenon DEF LockInv, Book
  <2>3. f =< made /\ g =< made /\ NoProc # p /\ NoProc # q
    BY <2>2, Zenon DEF LockInv, OwnedInv
  <2>4. made =< 1
    BY DEF LockInv, DiskInv
  <2>5. f = g
    BY <2>3, <2>4 DEF LockInv, DiskInv, File
  <2> QED BY <2>2, <2>5
<1> QED BY <1>1, LockAlways, PTL

----------------------------------------------------------------------------
\* The retries of an open: what is left of them and the removals it met add up.
TriesOf(p) == /\ pc[p] = "mkdirs" => removals[p] + tries[p] >= Retries
              /\ pc[p] = "open"   => removals[p] + tries[p] >= Retries + IF dir THEN 0 ELSE 1
NoteInv == /\ tries \in [Proc -> 0 .. Retries] /\ left \in Nat
           /\ removals \in [Proc -> Nat] /\ failed \in [Proc -> BOOLEAN]
           /\ \A p \in Proc : TriesOf(p)

LEMMA NoteKept ==
  ASSUME NoteInv, left' = left, tries' = tries, removals' = removals, failed' = failed, dir' = dir \/ dir' = TRUE,
         \A p \in Proc : pc'[p] = pc[p] \/ pc'[p] \notin {"open", "mkdirs"}
                         \/ (pc[p] = "mkdirs" /\ pc'[p] = "open" /\ dir' = TRUE)
  PROVE  NoteInv'
<1>1. ASSUME NEW p \in Proc
      PROVE  TriesOf(p)'
  <2>1. removals[p] \in Nat /\ tries[p] \in 0 .. Retries
    BY DEF NoteInv
  <2>2. CASE pc'[p] = "mkdirs"
    <3>1. removals[p] + tries[p] >= Retries
      BY <2>2 DEF NoteInv, TriesOf
    <3> QED BY <2>2, <3>1 DEF TriesOf
  <2>3. CASE pc'[p] = "open"
    <3>1. CASE dir'
      <4>1. removals[p] + tries[p] >= Retries
        BY <2>1, <2>3 DEF NoteInv, TriesOf
      <4> QED BY <2>1, <2>3, <3>1, <4>1 DEF TriesOf
    <3>2. CASE ~dir'
      <4>1. ~dir /\ pc[p] = "open"
        BY <2>3, <3>2
      <4>2. removals[p] + tries[p] >= Retries + 1
        BY <4>1 DEF NoteInv, TriesOf
      <4> QED BY <2>1, <2>3, <3>2, <4>2 DEF TriesOf
    <3> QED BY <3>1, <3>2
  <2> QED BY <2>2, <2>3 DEF TriesOf
<1>2. failed' \in [Proc -> BOOLEAN]
  BY Zenon DEF NoteInv
<1>3. tries' \in [Proc -> 0 .. Retries] /\ left' \in Nat /\ removals' \in [Proc -> Nat]
  BY DEF NoteInv
<1> QED BY <1>1, <1>2, <1>3, Zenon DEF NoteInv

\* A step of p that may change the retries of p alone.
LEMMA NoteOwn ==
  ASSUME NoteInv, RefType, NEW p \in Proc, left' \in Nat, dir' = dir, NEW l \in Label, pc' = [pc EXCEPT ![p] = l],
         NEW t \in 0 .. Retries, NEW r \in Nat, tries' = [tries EXCEPT ![p] = t], removals' = [removals EXCEPT ![p] = r],
         failed' \in [Proc -> BOOLEAN], l # "open", l = "mkdirs" => r + t >= Retries
  PROVE  NoteInv'
<1>1. tries \in [Proc -> 0 .. Retries] /\ removals \in [Proc -> Nat] /\ pc \in [Proc -> Label]
  BY DEF NoteInv, RefType
<1>2. tries' \in [Proc -> 0 .. Retries] /\ removals' \in [Proc -> Nat]
      /\ tries'[p] = t /\ removals'[p] = r /\ pc'[p] = l
  BY <1>1
<1>3. ASSUME NEW q \in Proc
      PROVE  TriesOf(q)'
  <2>1. CASE q = p
    BY <1>2, <2>1 DEF TriesOf
  <2>2. CASE q # p
    <3>1. tries'[q] = tries[q] /\ removals'[q] = removals[q] /\ pc'[q] = pc[q]
      BY <1>1, <2>2
    <3>2. TriesOf(q)
      BY Zenon DEF NoteInv
    <3> QED BY <3>1, <3>2, Zenon DEF TriesOf
  <2> QED BY <2>1, <2>2
<1> QED BY <1>2, <1>3, Zenon DEF NoteInv

LEMMA NoteSame ==
  ASSUME NoteInv, NEW p \in Proc
  PROVE  /\ tries[p] \in 0 .. Retries /\ removals[p] \in Nat
         /\ tries = [tries EXCEPT ![p] = tries[p]] /\ removals = [removals EXCEPT ![p] = removals[p]]
BY DEF NoteInv

LEMMA NoteOpen ==
  ASSUME NoteInv, RefType, NEW p \in Proc, OpenLockfile(p)
  PROVE  /\ NoteInv'
         /\ \A q \in Proc : failed'[q] /\ ~failed[q] => removals[q] > Retries
<1>1. pc[p] = "open" /\ dir' = dir /\ left' = left
  BY Zenon DEF OpenLockfile
<1>2. failed \in [Proc -> BOOLEAN] /\ left \in Nat /\ TriesOf(p)
  BY Zenon DEF NoteInv
<1>3. {"try", "mkdirs", "run"} \subseteq Label /\ "try" # "open" /\ "mkdirs" # "open" /\ "run" # "open"
      /\ "try" # "mkdirs" /\ "run" # "mkdirs" /\ 0 \in 0 .. Retries /\ 0 \in Nat
  BY DEF Label
<1>4. CASE /\ pc' = [pc EXCEPT ![p] = "try"] /\ tries' = [tries EXCEPT ![p] = 0]
           /\ removals' = [removals EXCEPT ![p] = 0] /\ failed' = failed
  <2>1. NoteInv'
    BY <1>1, <1>2, <1>3, <1>4, NoteOwn, Zenon
  <2> QED BY <1>4, <2>1, Zenon
<1>5. CASE /\ ~dir /\ tries[p] > 0 /\ tries' = [tries EXCEPT ![p] = @ - 1] /\ pc' = [pc EXCEPT ![p] = "mkdirs"]
           /\ removals' = removals /\ failed' = failed
  <2>1. removals[p] \in Nat /\ tries[p] - 1 \in 0 .. Retries
    BY <1>5, NoteSame
  <2>2. removals[p] + (tries[p] - 1) >= Retries
    BY <1>1, <1>2, <1>5, <2>1, NoteSame DEF TriesOf
  <2>3. removals' = [removals EXCEPT ![p] = removals[p]]
    BY <1>5, NoteSame, Zenon
  <2>4. NoteInv'
    BY <1>1, <1>2, <1>3, <1>5, <2>1, <2>2, <2>3, NoteOwn, Zenon
  <2> QED BY <1>5, <2>4, Zenon
<1>6. CASE /\ ~dir /\ tries[p] = 0 /\ failed' = [failed EXCEPT ![p] = TRUE] /\ pc' = [pc EXCEPT ![p] = "run"]
           /\ removals' = removals /\ tries' = tries
  <2>1. removals[p] > Retries
    BY <1>1, <1>2, <1>6, NoteSame DEF TriesOf
  <2>2. failed' \in [Proc -> BOOLEAN] /\ \A q \in Proc : q # p => (failed'[q] <=> failed[q])
    BY <1>2, <1>6
  <2>3. removals' = [removals EXCEPT ![p] = removals[p]] /\ tries' = [tries EXCEPT ![p] = tries[p]]
        /\ tries[p] \in 0 .. Retries /\ removals[p] \in Nat
    BY <1>6, NoteSame, Zenon
  <2>4. "run" \in Label /\ "run" # "open" /\ "run" # "mkdirs" /\ pc' = [pc EXCEPT ![p] = "run"]
        /\ left' \in Nat /\ dir' = dir /\ failed' \in [Proc -> BOOLEAN]
    BY <1>1, <1>2, <1>3, <1>6, <2>2, Zenon
  <2>5. NoteInv'
    BY <2>3, <2>4, NoteOwn, Zenon
  <2> QED BY <2>1, <2>2, <2>5, Zenon
<1> QED BY <1>4, <1>5, <1>6, Zenon DEF OpenLockfile, Opened, Goto

LEMMA NoteRmdir ==
  ASSUME NoteInv, RefType, NEW p \in Proc, Rmdir(p)
  PROVE  NoteInv'
<1>1. /\ left' = left /\ tries' = tries /\ failed' = failed /\ pc[p] = "rmdir" /\ pc' = [pc EXCEPT ![p] = "run"]
  BY Zenon DEF Rmdir, Goto
<1>2. \A q \in Proc : pc'[q] = pc[q] \/ pc'[q] \notin {"open", "mkdirs"}
  BY <1>1 DEF RefType
<1>3. CASE UNCHANGED <<dir, removals>>
  BY <1>1, <1>2, <1>3, NoteKept
<1>4. CASE dir' = FALSE /\ removals' = [q \in Proc |-> removals[q] + (IF pc[q] = "open" THEN 1 ELSE 0)]
  <2>1. ASSUME NEW q \in Proc
        PROVE  TriesOf(q)' /\ removals'[q] \in Nat
    <3>1. removals[q] \in Nat /\ tries[q] \in 0 .. Retries
      BY NoteSame
    <3>2. removals'[q] = removals[q] + (IF pc[q] = "open" THEN 1 ELSE 0)
      BY <1>4
    <3>3. TriesOf(q)
      BY Zenon DEF NoteInv
    <3>4. removals'[q] \in Nat
      BY <3>1, <3>2
    <3>5. CASE pc'[q] = "mkdirs"
      <4>1. pc[q] = "mkdirs"
        BY <1>2, <3>5
      <4> QED BY <1>1, <3>1, <3>2, <3>3, <3>4, <3>5, <4>1 DEF TriesOf
    <3>6. CASE pc'[q] = "open"
      <4>1. pc[q] = "open"
        BY <1>2, <3>6
      <4>2. removals[q] + tries[q] >= Retries
        BY <3>1, <3>3, <4>1 DEF TriesOf
      <4>3. removals'[q] + tries'[q] >= Retries + 1
        BY <1>1, <3>1, <3>2, <4>1, <4>2
      <4> QED BY <1>1, <3>1, <3>4, <3>6, <4>3 DEF TriesOf
    <3> QED BY <3>4, <3>5, <3>6 DEF TriesOf
  <2>2. removals' \in [Proc -> Nat]
    BY <1>4, <2>1
  <2>3. failed' \in [Proc -> BOOLEAN] /\ tries' \in [Proc -> 0 .. Retries] /\ left' \in Nat
    BY <1>1, Zenon DEF NoteInv
  <2> QED BY <2>1, <2>2, <2>3, Zenon DEF NoteInv
<1> QED BY <1>3, <1>4, Zenon DEF Rmdir

LEMMA NoteNext ==
  ASSUME NoteInv, RefType, [Next]_vars
  PROVE  /\ NoteInv'
         /\ \A q \in Proc : failed'[q] /\ ~failed[q] => removals[q] > Retries
<1>1. ASSUME NEW p \in Proc, Begin(p)
      PROVE  NoteInv' /\ failed' = failed
  <2>0. left' = left - 1 /\ left > 0 /\ pc[p] = "run"
    BY <1>1, Zenon DEF Begin
  <2>1. failed' = failed /\ dir' = dir
    BY <1>1, Zenon DEF Begin, disk
  <2>2. left' \in Nat /\ failed' \in [Proc -> BOOLEAN] /\ Retries \in 0 .. Retries /\ 0 \in Nat /\ 0 + Retries >= Retries
    <3>1. left \in Nat /\ failed \in [Proc -> BOOLEAN]
      BY Zenon DEF NoteInv
    <3>2. left' \in Nat
      BY <2>0, <3>1
    <3>3. Retries \in 0 .. Retries /\ 0 \in Nat /\ 0 + Retries >= Retries
      OBVIOUS
    <3> QED BY <2>1, <3>1, <3>2, <3>3, Zenon
  <2>3. {"try", "mkdirs"} \subseteq Label /\ "try" # "open" /\ "mkdirs" # "open" /\ "try" # "mkdirs"
    BY DEF Label
  <2>4. CASE /\ tries' = [tries EXCEPT ![p] = Retries] /\ removals' = [removals EXCEPT ![p] = 0]
             /\ pc' = [pc EXCEPT ![p] = "mkdirs"]
    BY <2>1, <2>2, <2>3, <2>4, NoteOwn, Zenon
  <2>5. CASE pc' = [pc EXCEPT ![p] = "try"] /\ tries' = tries /\ removals' = removals
    <3>1. removals' = [removals EXCEPT ![p] = removals[p]] /\ tries' = [tries EXCEPT ![p] = tries[p]]
          /\ tries[p] \in 0 .. Retries /\ removals[p] \in Nat
      BY <2>5, NoteSame, Zenon
    <3>2. NoteInv'
      <4> DEFINE l == "try"
                 t == tries[p]
                 r == removals[p]
      <4>1. left' \in Nat /\ failed' \in [Proc -> BOOLEAN] /\ dir' = dir
        BY <2>1, <2>2, Zenon
      <4>2. t \in 0 .. Retries /\ r \in Nat /\ tries' = [tries EXCEPT ![p] = t] /\ removals' = [removals EXCEPT ![p] = r]
        BY <3>1, Zenon
      <4>3. l \in Label /\ pc' = [pc EXCEPT ![p] = l] /\ l # "open" /\ l # "mkdirs"
        BY <2>3, <2>5
      <4> HIDE DEF l, t, r
      <4> QED BY <4>1, <4>2, <4>3, NoteOwn, Zenon
    <3> QED BY <2>1, <3>2, Zenon
  <2>6. NoteInv'
    BY <1>1, <2>4, <2>5, Zenon DEF Begin, Goto
  <2> QED BY <2>1, <2>6, Zenon
<1>2. ASSUME NEW p \in Proc, Mkdirs(p)
      PROVE  NoteInv' /\ failed' = failed
  <2>1. /\ left' = left /\ tries' = tries /\ removals' = removals /\ failed' = failed
        /\ pc[p] = "mkdirs" /\ pc' = [pc EXCEPT ![p] = "open"]
    BY <1>2, Zenon DEF Mkdirs, Goto, notes
  <2>2. dir' = TRUE
    BY <1>2, Zenon DEF Mkdirs
  <2>3. \A q \in Proc : pc'[q] = pc[q] \/ (pc[q] = "mkdirs" /\ pc'[q] = "open")
    BY <2>1 DEF RefType
  <2>4. \A q \in Proc : pc'[q] = pc[q] \/ pc'[q] \notin {"open", "mkdirs"}
                         \/ (pc[q] = "mkdirs" /\ pc'[q] = "open" /\ dir' = TRUE)
    BY <2>2, <2>3, Zenon
  <2>5. NoteInv'
    BY <2>1, <2>2, <2>4, NoteKept, Zenon
  <2> QED BY <2>1, <2>5
<1>3. ASSUME NEW p \in Proc, \/ TryLock(p) \/ WaitLock(p) \/ Release(p) \/ LeaveLocked(p)
                             \/ Cleanup(p) \/ CleanupAll(p) \/ Die(p)
      PROVE  NoteInv' /\ failed' = failed
  <2>1. left' = left /\ tries' = tries /\ removals' = removals /\ failed' = failed /\ dir' = dir
    BY <1>3, Zenon DEF TryLock, WaitLock, Release, LeaveLocked, Cleanup, CleanupAll, Die, disk, notes
  <2>2. pc' = pc \/ \E l \in {"run", "wait", "rmdir", "dead"} : pc' = [pc EXCEPT ![p] = l]
    BY <1>3, Zenon DEF TryLock, WaitLock, Release, LeaveLocked, Cleanup, CleanupAll, Die, Locked, Goto
  <2>3. \A q \in Proc : pc'[q] = pc[q] \/ pc'[q] \notin {"open", "mkdirs"}
    BY <2>2 DEF RefType
  <2>4. NoteInv'
    BY <2>1, <2>3, NoteKept, Zenon
  <2> QED BY <2>1, <2>4, Zenon
<1>4. CASE UNCHANGED vars
  <2>1. UNCHANGED <<disk, pc, tries, notes>>
    BY <1>4 DEF vars
  <2>2. left' = left /\ tries' = tries /\ removals' = removals /\ failed' = failed /\ dir' = dir /\ pc' = pc
    BY <2>1 DEF disk, notes
  <2>3. NoteInv'
    BY <2>2, NoteKept, Zenon
  <2> QED BY <2>2, <2>3, Zenon
<1>5. ASSUME NEW p \in Proc, OpenLockfile(p)
      PROVE  NoteInv' /\ \A q \in Proc : failed'[q] /\ ~failed[q] => removals[q] > Retries
  BY <1>5, NoteOpen, Zenon
<1>6. ASSUME NEW p \in Proc, Rmdir(p)
      PROVE  NoteInv' /\ failed' = failed
  BY <1>6, NoteRmdir, Zenon DEF Rmdir
<1> QED BY <1>1, <1>2, <1>3, <1>4, <1>5, <1>6, Zenon DEF Next, Step, Finished

LEMMA NoteStarts ==
  ASSUME Init
  PROVE  NoteInv
<1>1. tries \in [Proc -> 0 .. Retries] /\ left \in Nat /\ removals \in [Proc -> Nat]
  BY DEF Init
<1>2. failed \in [Proc -> BOOLEAN]
  BY Zenon DEF Init
<1>3. \A p \in Proc : TriesOf(p)
  BY DEF Init, TriesOf
<1> QED BY <1>1, <1>2, <1>3, Zenon DEF NoteInv

LEMMA NoteAlways == Spec => []NoteInv
<1>1. Init => NoteInv
  BY NoteStarts
<1>2. NoteInv /\ LockInv /\ [Next]_vars => NoteInv'
  BY NoteNext, Zenon DEF LockInv
<1> QED BY <1>1, <1>2, LockAlways, PTL DEF Spec

\* Every variable keeps its type.
THEOREM TypeCorrect == Spec => []TypeOK
<1>1. LockInv /\ NoteInv => TypeOK
  <2> SUFFICES ASSUME LockInv, NoteInv
               PROVE  TypeOK
    OBVIOUS
  <2>1. DiskType /\ InstType
    BY Zenon DEF LockInv, OwnType, RefType, DiskInv, DiskType, InstType
  <2>2. CodeType /\ NoteType
    BY Zenon DEF LockInv, RefType, DiskInv, NoteInv, CodeType, NoteType
  <2> QED BY <2>1, <2>2, Zenon DEF TypeOK
<1> QED BY <1>1, LockAlways, NoteAlways, PTL

\* An open fails only after more removals than it has retries.
THEOREM OpenGivesUpLastHolds == Spec => OpenGivesUpLast
<1>1. NoteInv /\ LockInv /\ [Next]_vars =>
        [\A p \in Proc : failed'[p] /\ ~failed[p] => removals[p] > Retries]_vars
  BY NoteNext, Zenon DEF LockInv
<1> QED BY <1>1, LockAlways, NoteAlways, PTL DEF Spec, OpenGivesUpLast

----------------------------------------------------------------------------
\* The refinement: the holder is the owner the kernel knows, and the depth is
\* the count of the holder's instance.
Holds == [f \in File |-> HolderOf(f)]
Deep  == [f \in File |-> IF HolderOf(f) = NoProc THEN 0 ELSE count[HolderOf(f)][f]]
OwnerDepth(own, cnt) == [f \in File |-> IF own[f] = NoProc THEN 0 ELSE cnt[own[f]][f]]

LEMMA TheHolder ==
  ASSUME NEW own \in [File -> Proc \cup {NoProc}], NEW hld, NEW f \in File,
         \A p \in Proc : hld[p][f] <=> own[f] = p
  PROVE  (IF \E p \in Proc : hld[p][f] THEN CHOOSE p \in Proc : hld[p][f] ELSE NoProc) = own[f]
<1>1. own[f] \in Proc \cup {NoProc} /\ \A p \in Proc : p # NoProc
  OBVIOUS
<1>2. CASE own[f] = NoProc
  <2>1. ~ \E p \in Proc : hld[p][f]
    BY <1>1, <1>2, Zenon
  <2> QED BY <1>2, <2>1, Zenon
<1>3. CASE own[f] \in Proc
  <2>1. hld[own[f]][f] /\ \A p \in Proc : hld[p][f] => p = own[f]
    BY <1>1, <1>3, Zenon
  <2>2. (CHOOSE p \in Proc : hld[p][f]) = own[f]
    BY <1>3, <2>1, Zenon
  <2> QED BY <1>3, <2>1, <2>2, Zenon
<1> QED BY <1>1, <1>2, <1>3, Zenon

LEMMA Mapped ==
  ASSUME LockInv, LockInv'
  PROVE  /\ Holds = owner /\ Deep = OwnerDepth(owner, count)
         /\ Holds' = owner' /\ Deep' = OwnerDepth(owner', count')
<1>1. /\ owner \in [File -> Proc \cup {NoProc}] /\ \A p \in Proc, f \in File : held[p][f] <=> owner[f] = p
      /\ owner' \in [File -> Proc \cup {NoProc}] /\ \A p \in Proc, f \in File : held'[p][f] <=> owner'[f] = p
  BY Zenon DEF LockInv, OwnType, Book
<1>2. ASSUME NEW f \in File
      PROVE  HolderOf(f) = owner[f]
  <2>1. \A p \in Proc : held[p][f] <=> owner[f] = p
    BY <1>1, Zenon
  <2>2. (IF \E p \in Proc : held[p][f] THEN CHOOSE p \in Proc : held[p][f] ELSE NoProc) = owner[f]
    BY <1>1, <2>1, TheHolder
  <2> QED BY <2>2 DEF HolderOf
<1>3. ASSUME NEW f \in File
      PROVE  HolderOf(f)' = owner'[f]
  <2>1. \A p \in Proc : held'[p][f] <=> owner'[f] = p
    BY <1>1, Zenon
  <2>2. (IF \E p \in Proc : held'[p][f] THEN CHOOSE p \in Proc : held'[p][f] ELSE NoProc) = owner'[f]
    BY <1>1, <2>1, TheHolder
  <2> QED BY <2>2 DEF HolderOf
<1>4. Holds = owner /\ Deep = OwnerDepth(owner, count)
  BY <1>1, <1>2 DEF Holds, Deep, OwnerDepth
<1>5. Holds' = owner' /\ Deep' = OwnerDepth(owner', count')
  BY <1>1, <1>3 DEF Holds, Deep, OwnerDepth
<1> QED BY <1>4, <1>5

\* The depth of a lock that p has or may get is the count of its instance.
LEMMA DepthAt ==
  ASSUME LockInv, NEW p \in Proc, NEW f \in File, owner[f] \in {NoProc, p}
  PROVE  OwnerDepth(owner, count)[f] = count[p][f] /\ count[p][f] \in Nat
<1>1. OwnerDepth(owner, count)[f] = IF owner[f] = NoProc THEN 0 ELSE count[owner[f]][f]
  BY DEF OwnerDepth
<1>2. OwnType /\ Book(p, f)
  BY Zenon DEF LockInv
<1>3. owner[f] # p => count[p][f] = 0
  BY <1>2, BookFacts, Zenon
<1>4. count[p][f] \in Nat /\ NoProc # p
  BY <1>2 DEF OwnType
<1> QED BY <1>1, <1>3, <1>4, Zenon

\* What Sets does to the abstract variables.
LEMMA SetsMapped ==
  ASSUME LockInv, LockInv', NEW p \in Proc, NEW f \in File, owner[f] \in {NoProc, p},
         NEW o \in {NoProc, p}, NEW h \in BOOLEAN, NEW c \in Nat, Sets(p, f, o, h, c)
  PROVE  /\ Holds' = [Holds EXCEPT ![f] = o]
         /\ Deep' = [Deep EXCEPT ![f] = IF o = NoProc THEN 0 ELSE c]
<1>1. OwnType /\ owner' = [owner EXCEPT ![f] = o] /\ o \in Proc \cup {NoProc}
  BY Zenon DEF LockInv, Sets
<1>2. /\ \A g \in File : owner'[g] = IF g = f THEN o ELSE owner[g]
      /\ \A q \in Proc, g \in File : count'[q][g] = IF q = p /\ g = f THEN c ELSE count[q][g]
  BY <1>1, SetsPoints
<1>3. Holds' = [Holds EXCEPT ![f] = o]
  BY <1>1, Mapped
<1>4. ASSUME NEW g \in File
      PROVE  OwnerDepth(owner', count')[g]
               = IF g = f THEN IF o = NoProc THEN 0 ELSE c ELSE OwnerDepth(owner, count)[g]
  <2>1. /\ OwnerDepth(owner', count')[g] = IF owner'[g] = NoProc THEN 0 ELSE count'[owner'[g]][g]
        /\ OwnerDepth(owner, count)[g] = IF owner[g] = NoProc THEN 0 ELSE count[owner[g]][g]
    BY DEF OwnerDepth
  <2>2. CASE g = f
    <3>1. o # NoProc => count'[o][g] = c
      BY <1>2, <2>2, Zenon
    <3>2. owner'[g] = o
      BY <1>2, <2>2, Zenon
    <3> QED BY <2>1, <2>2, <3>1, <3>2, Zenon
  <2>3. CASE g # f
    <3>1. owner'[g] = owner[g] /\ owner[g] \in Proc \cup {NoProc}
      BY <1>1, <1>2, <2>3, Zenon DEF OwnType
    <3>2. owner[g] # NoProc => count'[owner[g]][g] = count[owner[g]][g]
      BY <1>2, <2>3, <3>1, Zenon
    <3> QED BY <2>1, <2>3, <3>1, <3>2, Zenon
  <2> QED BY <2>2, <2>3
<1>5. OwnerDepth(owner', count') = [OwnerDepth(owner, count) EXCEPT ![f] = IF o = NoProc THEN 0 ELSE c]
  <2>1. \A own, cnt : /\ OwnerDepth(own, cnt) = [g \in File |-> OwnerDepth(own, cnt)[g]]
                      /\ DOMAIN OwnerDepth(own, cnt) = File
    BY DEF OwnerDepth
  <2> QED BY <1>4, <2>1
<1> QED BY <1>3, <1>5, Mapped

\* A lock that moves between p and nobody is acquired, released or dropped.
LEMMA MovesMapped ==
  ASSUME LockInv, LockInv', NEW p \in Proc, NEW f \in File, Moves(p, f)
  PROVE  Abstract!Next
<1>1. owner[f] \in {NoProc, p} /\ p # NoProc
  BY Zenon DEF Moves, Gets, GivesOne, GivesUp, ProcAssumption
<1>2. Holds[f] = owner[f] /\ Deep[f] = count[p][f] /\ count[p][f] \in Nat
  BY <1>1, DepthAt, Mapped
<1> DEFINE To(o, c) == Holds' = [Holds EXCEPT ![f] = o] /\ Deep' = [Deep EXCEPT ![f] = IF o = NoProc THEN 0 ELSE c]
<1>6. \A o \in {NoProc, p}, h \in BOOLEAN, c \in Nat : Sets(p, f, o, h, c) => To(o, c)
  BY <1>1, SetsMapped
<1> HIDE DEF To
<1>3. CASE Gets(p, f)
  <2>0. count[p][f] + 1 \in Nat
    BY <1>2
  <2>1. Sets(p, f, p, TRUE, count[p][f] + 1) /\ p \in {NoProc, p}
    BY <1>3, Zenon DEF Gets
  <2>2. Holds' = [Holds EXCEPT ![f] = p] /\ Deep' = [Deep EXCEPT ![f] = IF p = NoProc THEN 0 ELSE count[p][f] + 1]
    <3>1. To(p, count[p][f] + 1)
      BY <1>6, <2>0, <2>1, Zenon
    <3> QED BY <3>1 DEF To
  <2>3. Deep' = [Deep EXCEPT ![f] = Deep[f] + 1]
    BY <1>1, <1>2, <2>2
  <2>4. Abstract!Acquire(p, f)
    BY <1>1, <1>2, <2>2, <2>3 DEF Abstract!Acquire, Holds, Deep
  <2> QED BY <2>4 DEF Abstract!Next
<1>4. CASE GivesOne(p, f)
  <2>1. Sets(p, f, p, TRUE, count[p][f] - 1) /\ owner[f] = p /\ count[p][f] > 1 /\ p \in {NoProc, p}
    BY <1>4, Zenon DEF GivesOne
  <2>2. count[p][f] - 1 \in Nat
    BY <1>2, <2>1
  <2>3. Holds' = [Holds EXCEPT ![f] = p] /\ Deep' = [Deep EXCEPT ![f] = IF p = NoProc THEN 0 ELSE count[p][f] - 1]
    <3>1. To(p, count[p][f] - 1)
      BY <1>6, <2>1, <2>2, Zenon
    <3> QED BY <3>1 DEF To
  <2>4. Deep' = [Deep EXCEPT ![f] = Deep[f] - 1] /\ Holds[f] = p /\ Deep[f] > 0 /\ Deep[f] # 1
    BY <1>1, <1>2, <2>1, <2>3
  <2>5. Abstract!Release(p, f)
    BY <2>3, <2>4 DEF Abstract!Release, Holds, Deep
  <2> QED BY <2>5 DEF Abstract!Next
<1>5. CASE GivesUp(p, f)
  <2>1. Sets(p, f, NoProc, FALSE, 0) /\ owner[f] = p /\ NoProc \in {NoProc, p} /\ 0 \in Nat
    <3>1. 0 \in Nat
      OBVIOUS
    <3> QED BY <1>5, <3>1, Zenon DEF GivesUp
  <2>2. Holds' = [Holds EXCEPT ![f] = NoProc] /\ Deep' = [Deep EXCEPT ![f] = IF NoProc = NoProc THEN 0 ELSE 0]
    <3>1. To(NoProc, 0)
      BY <1>6, <2>1, Zenon
    <3> QED BY <3>1 DEF To
  <2>3. Holds' = [l \in File |-> IF l \in {f} THEN NoProc ELSE Holds[l]]
        /\ Deep' = [l \in File |-> IF l \in {f} THEN 0 ELSE Deep[l]]
    BY <2>2 DEF Holds, Deep
  <2>4. \A l \in {f} : Holds[l] = p
    BY <1>2, <2>1
  <2>5. Abstract!Abandon(p, {f})
    BY <2>3, <2>4 DEF Abstract!Abandon, Holds, Deep
  <2>6. {f} \in SUBSET File
    OBVIOUS
  <2> QED BY <2>5, <2>6 DEF Abstract!Next
<1> QED BY <1>3, <1>4, <1>5, Zenon DEF Moves

LEMMA DiesMapped ==
  ASSUME LockInv, LockInv', NEW p \in Proc, Dies(p)
  PROVE  Abstract!Next
<1> DEFINE ls == {f \in File : owner[f] = p}
<1>1. OwnType /\ p # NoProc /\ \A q \in Proc, g \in File : Book(q, g)
  BY Zenon DEF LockInv, ProcAssumption
<1>2. Holds' = owner' /\ Holds = owner /\ Deep = OwnerDepth(owner, count) /\ Deep' = OwnerDepth(owner', count')
  BY Mapped
<1>3. \A q \in Proc, g \in File : count'[q][g] = IF q = p THEN 0 ELSE count[q][g]
  BY <1>1, DiesBook, Zenon
<1>4. \A g \in File : /\ owner'[g] = IF g \in ls THEN NoProc ELSE owner[g]
                      /\ owner[g] \in Proc \cup {NoProc}
  BY <1>1, Zenon DEF Dies, OwnType
<1>5. ASSUME NEW g \in File
      PROVE  OwnerDepth(owner', count')[g] = IF g \in ls THEN 0 ELSE OwnerDepth(owner, count)[g]
  <2>1. /\ OwnerDepth(owner', count')[g] = IF owner'[g] = NoProc THEN 0 ELSE count'[owner'[g]][g]
        /\ OwnerDepth(owner, count)[g] = IF owner[g] = NoProc THEN 0 ELSE count[owner[g]][g]
    BY DEF OwnerDepth
  <2>2. CASE g \in ls
    BY <1>4, <2>1, <2>2, Zenon
  <2>3. CASE g \notin ls
    <3>1. owner'[g] = owner[g] /\ owner[g] # p
      BY <1>4, <2>3, Zenon
    <3>2. owner[g] # NoProc => count'[owner[g]][g] = count[owner[g]][g]
      BY <1>3, <1>4, <3>1, Zenon
    <3> QED BY <2>1, <2>3, <3>1, <3>2, Zenon
  <2> QED BY <2>2, <2>3
<1>6. Holds' = [l \in File |-> IF l \in ls THEN NoProc ELSE Holds[l]]
  BY <1>1, <1>2, <1>4 DEF Dies
<1>7. Deep' = [l \in File |-> IF l \in ls THEN 0 ELSE Deep[l]]
  <2>1. \A own, cnt : OwnerDepth(own, cnt) = [g \in File |-> OwnerDepth(own, cnt)[g]]
    BY DEF OwnerDepth
  <2> QED BY <1>2, <1>5, <2>1
<1>8. \A l \in ls : Holds[l] = p
  BY <1>2
<1>9. ls \in SUBSET File
  OBVIOUS
<1>10. PICK m \in SUBSET File : m = ls
  BY <1>9, Zenon
<1> HIDE DEF ls
<1>11. Abstract!Abandon(p, m)
  BY <1>6, <1>7, <1>8, <1>10 DEF Abstract!Abandon, Holds, Deep
<1> QED BY <1>11 DEF Abstract!Next

\* Every file is a lock in the sense of Serialization, for every number of
\* processes, sections, retries and clean ups.
THEOREM Refinement == Spec => Serializes
<1>1. Init => Abstract!Init
  <2> SUFFICES ASSUME Init
               PROVE  Abstract!Init
    OBVIOUS
  <2>1. \A p \in Proc, f \in File : ~held[p][f]
    BY Zenon DEF Init
  <2>2. \A f \in File : HolderOf(f) = NoProc
    BY <2>1, Zenon DEF HolderOf
  <2> QED BY <2>2 DEF Abstract!Init
<1>2. LockInv /\ LockInv' /\ [Next]_vars => [Abstract!Next]_<<Holds, Deep>>
  <2> SUFFICES ASSUME LockInv, LockInv', [Next]_vars
               PROVE  Abstract!Next \/ (Holds' = Holds /\ Deep' = Deep)
    OBVIOUS
  <2>1. CASE Kept
    <3>1. owner' = owner /\ count' = count
      BY <2>1, Zenon DEF Kept
    <3> QED BY <3>1, Mapped
  <2>2. ASSUME NEW p \in Proc, Begin(p) \/ Step(p) \/ Cleanup(p) \/ CleanupAll(p) \/ Die(p)
        PROVE  Abstract!Next \/ (Holds' = Holds /\ Deep' = Deep)
    <3>1. Effect(p)
      BY <2>2, ServesNext, Zenon DEF Serves
    <3> QED BY <2>1, <3>1, MovesMapped, DiesMapped, Zenon DEF Effect
  <2>3. CASE UNCHANGED vars
    BY <2>1, <2>3 DEF vars, insts, Kept
  <2> QED BY <2>2, <2>3, Zenon DEF Next, Finished
<1> QED BY <1>1, <1>2, LockAlways, PTL DEF Spec, Serializes, Abstract!Spec, Holds, Deep
=============================================================================
