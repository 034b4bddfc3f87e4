------------------------------ MODULE PointSet ------------------------------
(* What range<T> promises: a set of points, of which each insertion adds   *)
(* the one it is called with.                                              *)
CONSTANT Point
VARIABLES points, last

vars == <<points, last>>

Init == points = {} /\ last = 0

Insert(p) == points' = points \cup {p} /\ last' = p

Next == \E p \in Point : Insert(p)

Spec == Init /\ [][Next]_vars
=============================================================================
