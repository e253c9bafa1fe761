------------------------------ MODULE Numbering ------------------------------
(***************************************************************************)
(* What OpenFlake promises about record numbers (INC0000001, REQ0000001,   *)
(* ...): the committed numbers of a prefix are 1, 2, 3, ... up to the last *)
(* one given out, and one transaction adds the next few of each prefix.    *)
(***************************************************************************)
EXTENDS Naturals

CONSTANT Prefixes

VARIABLES
  last,     \* the last number of every prefix
  numbers   \* the numbers in use

vars == <<last, numbers>>

Init ==
  /\ last = [p \in Prefixes |-> 0]
  /\ numbers = [p \in Prefixes |-> {}]

Issue ==
  /\ \A p \in Prefixes : last'[p] \in Nat /\ last'[p] >= last[p]
  /\ last' = [p \in Prefixes |-> last'[p]]
  /\ numbers' = [p \in Prefixes |-> numbers[p] \cup (last[p] + 1 .. last'[p])]

Spec == Init /\ [][Issue]_vars
=============================================================================
