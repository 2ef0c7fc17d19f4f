---------------------------- MODULE BoundedStack ----------------------------
(***************************************************************************)
(* What the operand stack promises to whoever calls it: a last-in          *)
(* first-out store of at most Capacity values in which one call changes    *)
(* only the top.  A call that cannot be served leaves it as it is.         *)
(***************************************************************************)
EXTENDS Naturals, Sequences

CONSTANTS Value, Capacity

VARIABLE items

(* All but the top n values.                                               *)
Rest(n) == SubSeq(items, 1, Len(items) - n)

Init == items = <<>>

Put == /\ Len(items) < Capacity
       /\ \E v \in Value : items' = Append(items, v)

Take == items # <<>> /\ items' = Rest(1)

(* An operation with n operands: they go, its result takes their place.    *)
Replace(n) == /\ Len(items) >= n
              /\ \E v \in Value : items' = Append(Rest(n), v)

Clear == items' = <<>>

Next == Put \/ Take \/ Clear \/ \E n \in 1..2 : Replace(n)

Spec == Init /\ [][Next]_items

=============================================================================
