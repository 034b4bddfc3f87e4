----------------------------- MODULE ObjectStore -----------------------------
(***************************************************************************)
(* What a column page promises: objects with a value that never changes,   *)
(* which live from their insertion until their last reference is given     *)
(* back, and whose ids are never used again.  The promise is for up to     *)
(* Limit references; it ends for an object that is given more.             *)
(***************************************************************************)
EXTENDS Naturals

CONSTANTS Oid, Value, Limit

VARIABLES
  objects,   (* partial map: object id to value and number of references   *)
  used       (* the ids objects were ever inserted under                   *)

vars == <<objects, used>>

Init ==
  /\ objects = [o \in {} |-> {}]
  /\ used = {}

Put(o, v) ==
  /\ o \notin used
  /\ used' = used \cup {o}
  /\ objects' = [x \in DOMAIN objects \cup {o} |->
                   IF x = o THEN [value |-> v, refs |-> 1] ELSE objects[x]]

Acquire(o) ==
  /\ o \in DOMAIN objects
  /\ objects[o].refs < Limit
  /\ objects' = [objects EXCEPT ![o].refs = @ + 1]
  /\ UNCHANGED used

Overrun(o) ==
  /\ o \in DOMAIN objects
  /\ objects[o].refs = Limit
  /\ objects' = [x \in DOMAIN objects \ {o} |-> objects[x]]
  /\ UNCHANGED used

Release(released) ==
  /\ objects' = [o \in {x \in DOMAIN objects :
                          x \in released => objects[x].refs > 1} |->
                   IF o \in released THEN [objects[o] EXCEPT !.refs = @ - 1]
                   ELSE objects[o]]
  /\ UNCHANGED used

Next ==
  \/ \E o \in Oid, v \in Value : Put(o, v)
  \/ \E o \in Oid : Acquire(o) \/ Overrun(o)
  \/ \E released \in SUBSET Oid : Release(released)

Spec == Init /\ [][Next]_vars
=============================================================================
