---------------------------- MODULE MCRefCounts ----------------------------
(***************************************************************************)
(* An instance of RefCounts for TLC: set is called with no reference, with *)
(* normal ones, and with the binary one alone.                             *)
(***************************************************************************)
EXTENDS RefCounts
SetTo == {Zero, [normal |-> 2, binary |-> 0], [normal |-> 0, binary |-> 1]}
============================================================================
