------------------------------ MODULE FifoQueue ------------------------------
(***************************************************************************)
(* What a Buffer and a BlockQueue promise: the items come out in the order *)
(* they went in, and none is lost, repeated or made up.  The items are     *)
(* numbered as they go in.                                                 *)
(***************************************************************************)
EXTENDS Naturals, Sequences

CONSTANT MaxItems \* bound: items that go in

VARIABLES
  contents, \* the items that wait
  next      \* the number of the next item

vars == <<contents, next>>

Init == contents = <<>> /\ next = 0

Put(n) ==
  /\ next + n <= MaxItems
  /\ contents' = contents \o [k \in 1..n |-> next + k - 1]
  /\ next' = next + n

Take(n) ==
  /\ n <= Len(contents)
  /\ contents' = SubSeq(contents, n + 1, Len(contents))
  /\ UNCHANGED next

Next == \E n \in 1..MaxItems : Put(n) \/ Take(n)

Spec == Init /\ [][Next]_vars
=============================================================================
