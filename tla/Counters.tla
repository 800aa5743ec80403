------------------------------ MODULE Counters ------------------------------
(***************************************************************************)
(* What RefCounter of sm/lock.py promises of the counts of a namespace:    *)
(* its operations are atomic.  A call takes effect once, as a whole and    *)
(* before it returns; get and put answer with the sum of the count they    *)
(* made, check with its two numbers, and set and reset with nothing.  What *)
(* a killed process or a full file system leaves behind is the count from  *)
(* before, the one from after, or one that get, put and check refuse to    *)
(* read.                                                                   *)
(***************************************************************************)
EXTENDS Integers

CONSTANTS Obj, Values   \* Values: what set is called with

Num  == [normal : Nat, binary : {0, 1}]
Zero == [normal |-> 0, binary |-> 0]
Call == [kind : {"get", "put"}, bin : BOOLEAN, num : {Zero}]
        \cup [kind : {"reset", "check"}, bin : {FALSE}, num : {Zero}]
        \cup [kind : {"set"}, bin : {FALSE}, num : Values]

VARIABLES
  content,   \* of each object: its count, and whether that is spoilt
  stage,     \* of the call on each object
  asked,     \* what that call is
  answer     \* what it returned: <<>>, <<sum>> or <<normal, binary>>

vars == <<content, stage, asked, answer>>

Init ==
  /\ content = [o \in Obj |-> [num |-> Zero, torn |-> FALSE]]
  /\ stage = [o \in Obj |-> "idle"]
  /\ asked = [o \in Obj |-> [kind |-> "check", bin |-> FALSE, num |-> Zero]]
  /\ answer = [o \in Obj |-> <<>>]

\* The count n after the call c: the binary part is a flag, and the normal
\* one does not go below zero.
Counted(c, n) ==
  CASE c.kind = "set"   -> c.num
    [] c.kind = "reset" -> Zero
    [] c.kind = "check" -> n
    [] c.kind = "get"   -> IF c.bin THEN [n EXCEPT !.binary = 1] ELSE [n EXCEPT !.normal = @ + 1]
    [] c.kind = "put"   -> IF c.bin THEN [n EXCEPT !.binary = 0]
                           ELSE IF n.normal > 0 THEN [n EXCEPT !.normal = @ - 1] ELSE n

Move(o, from, to) == stage[o] = from /\ stage' = [stage EXCEPT ![o] = to]

Begin(o) ==
  /\ Move(o, "idle", "asked")
  /\ \E c \in Call : asked' = [asked EXCEPT ![o] = c]
  /\ UNCHANGED <<content, answer>>

\* The docstring of set has it return the new count; it returns None.
Result(c, n) ==
  CASE c.kind \in {"get", "put"}   -> <<n.normal + n.binary>>
    [] c.kind = "check"            -> <<n.normal, n.binary>>
    [] c.kind \in {"set", "reset"} -> <<>>

\* set and reset do not look at the count.
Blind(c) == c.kind \in {"set", "reset"}

Effect(o) ==
  /\ Move(o, "asked", "done")
  /\ content[o].torn => Blind(asked[o])
  /\ LET n == Counted(asked[o], content[o].num)
     IN /\ content' = [content EXCEPT ![o] = [num |-> n, torn |-> FALSE]]
        /\ answer' = [answer EXCEPT ![o] = Result(asked[o], n)]
  /\ UNCHANGED asked

\* A call raises over a spoilt count only.
Refuse(o) ==
  /\ Move(o, "asked", "failed")
  /\ content[o].torn /\ ~Blind(asked[o])
  /\ UNCHANGED <<content, asked, answer>>

Return(o) ==
  /\ Move(o, "done", "idle") \/ Move(o, "failed", "idle")
  /\ answer' = [answer EXCEPT ![o] = <<>>]
  /\ UNCHANGED <<content, asked>>

\* The accidents: a call ends before it took effect, spoils the count, or
\* does not live to return.
Spoil(o) ==
  /\ Move(o, "asked", "failed") \/ Move(o, "asked", "idle")
  /\ content' = [content EXCEPT ![o] = [num |-> Zero, torn |-> TRUE]]
  /\ UNCHANGED <<asked, answer>>
Vanish(o) == Move(o, "asked", "idle") /\ UNCHANGED <<content, asked, answer>>

Next == \E o \in Obj : Begin(o) \/ Effect(o) \/ Refuse(o) \/ Return(o) \/ Spoil(o) \/ Vanish(o)
Spec == Init /\ [][Next]_vars
=============================================================================
