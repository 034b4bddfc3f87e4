------------------------------- MODULE Range --------------------------------
(***************************************************************************)
(* range<row_id> (src/src/lib/common/cpp/range.h), the read lock of one    *)
(* transaction on one table: a list of segments that insert and find walk  *)
(* from the front.  Row ids are unsigned and wrap at Modulus; the row ids  *)
(* of a table start at 1 (row_id::next increments before it returns).      *)
(* An operator named Faulty... is a definition with a plausible mistake,   *)
(* used only to see that a property notices it.                            *)
(***************************************************************************)
EXTENDS Naturals, Sequences

CONSTANT Modulus

ASSUME ModulusAssumption == Modulus \in Nat \ {0, 1}

Lists == INSTANCE SequencesExt
Sets == INSTANCE FiniteSetsExt

Point == 1..(Modulus - 1)

VARIABLES
  segments,
  last       (* history: the argument of the last insert, 0 before it      *)

vars == <<segments, last>>

TypeOK ==
  /\ segments \in Seq([first : Point, second : Point])
  /\ last \in Point \cup {0}

Init == segments = <<>> /\ last = 0

Successor(p) == (p + 1) % Modulus
Predecessor(p) == (p + Modulus - 1) % Modulus

-----------------------------------------------------------------------------
(* Faulty: the segment does not contain its last point.                    *)
FaultyCovers(seg, p) == seg.first <= p /\ p < seg.second

Covers(seg, p) == seg.first <= p /\ p <= seg.second
LeftOf(seg, p) == Predecessor(seg.first) = p
RightOf(seg, p) == Successor(seg.second) = p
Precedes(seg, p) == p < seg.first

(* The segment at which insert stops its walk, 0 if none.                  *)
InsertStop(p) ==
  LET stops == {i \in DOMAIN segments :
                  \/ Covers(segments[i], p) \/ LeftOf(segments[i], p)
                  \/ RightOf(segments[i], p) \/ Precedes(segments[i], p)}
  IN  IF stops = {} THEN 0 ELSE Sets!Min(stops)

(* Faulty: a new segment goes behind the one it precedes.                  *)
FaultyInsertBehind(p) ==
  LET i   == InsertStop(p)
      new == [first |-> p, second |-> p]
  IN  segments' =
        IF i = 0 THEN Append(segments, new)
        ELSE IF Covers(segments[i], p) THEN segments
        ELSE Lists!InsertAt(segments, i + 1, new)

(* Faulty: a segment is extended by one point too many.                    *)
FaultyInsertTooFar(p) ==
  LET i   == InsertStop(p)
      new == [first |-> p, second |-> p]
  IN  segments' =
        IF i = 0 THEN Append(segments, new)
        ELSE IF Covers(segments[i], p) THEN segments
        ELSE IF RightOf(segments[i], p)
          THEN [segments EXCEPT ![i].second = Successor(p)]
        ELSE Lists!InsertAt(segments, i, new)

Insert(p) ==
  LET i   == InsertStop(p)
      new == [first |-> p, second |-> p]
  IN  segments' =
        IF i = 0 THEN Append(segments, new)
        ELSE IF Covers(segments[i], p) THEN segments
        ELSE IF LeftOf(segments[i], p)
          THEN [segments EXCEPT ![i].first = p]
        ELSE IF RightOf(segments[i], p)
          THEN [segments EXCEPT ![i].second = p]
        ELSE Lists!InsertAt(segments, i, new)

(* find gives up at the first segment that begins after the point.         *)
Find(p) ==
  LET stops == {i \in DOMAIN segments :
                  Covers(segments[i], p) \/ segments[i].first > p}
  IN  IF stops # {} /\ Covers(segments[Sets!Min(stops)], p) THEN Sets!Min(stops) ELSE 0

Contains(p) == Find(p) # 0

Next == \E p \in Point : Insert(p) /\ last' = p

Spec == Init /\ [][Next]_vars

-----------------------------------------------------------------------------
(* The walks of insert and find may stop early because the segments are    *)
(* kept in order, whatever the order of the insertions.                    *)
InOrder ==
  \A i, j \in DOMAIN segments :
    i < j => segments[i].first < segments[j].first

(* Seen through contains, the segments are exactly the points inserted so  *)
(* far: extending, splitting the walk and stopping early lose no point and *)
(* add none, also next to the largest row id, where the boundary tests     *)
(* wrap.                                                                   *)
Promised == INSTANCE PointSet WITH points <- {p \in Point : Contains(p)}
ImplementsPointSet == Promised!Spec
=============================================================================
