----------------------------- MODULE RangeProofs -----------------------------
(***************************************************************************)
(* What the run of Range checks for seven row ids, for any number of them: *)
(* whatever the order of the insertions, the segments stay in the order of *)
(* their first points, and they cover exactly the points inserted.  They   *)
(* may overlap -- a segment extended to the right is not joined with its   *)
(* neighbour -- so the argument may not ask for more than the order.       *)
(***************************************************************************)
EXTENDS Range, SequenceTheorems, WellFoundedInduction, TLAPS

(* Every nonempty set of numbers has a least one.                          *)
LEMMA Smallest ==
  ASSUME NEW T \in SUBSET Nat, T # {}
  PROVE  \E x \in T : \A y \in T : x <= y
<1> DEFINE R == {ss \in Nat \X Nat : ss[1] < ss[2]}
<1>1. IsWellFoundedOn(R, Nat)
  BY NatLessThanWellFounded DEF OpToRel
<1> HIDE DEF R
<1>2. PICK x \in T : \A y \in T : ~ (<<y, x>> \in R)
  BY <1>1, WFMin
<1>3. ASSUME NEW y \in T PROVE x <= y
  <2>1. ~ (y < x)
    BY <1>2 DEF R
  <2> QED
    BY <2>1
<1> QED
  BY <1>3

(* The minimum of a set of naturals is in it and below all.                *)
LEMMA MinIs ==
  ASSUME NEW T \in SUBSET Nat, T # {}
  PROVE  Sets!Min(T) \in T /\ \A y \in T : Sets!Min(T) <= y
<1>1. \E x \in T : \A y \in T : x =< y
  BY Smallest
<1> QED
  BY <1>1 DEF Sets!Min

(* Row ids are naturals other than zero.                                   *)
LEMMA Points == Point \subseteq Nat /\ 0 \notin Point
  BY ModulusAssumption DEF Point

(* Next to a row id there is the next one, except at the largest.          *)
LEMMA Neighbours ==
  ASSUME NEW p \in Point
  PROVE  /\ Predecessor(p) = p - 1
         /\ Successor(p) = IF p = Modulus - 1 THEN 0 ELSE p + 1
<1>1. /\ Modulus \in Nat /\ Modulus > 1 /\ p \in Nat /\ p >= 1 /\ p <= Modulus - 1
  BY ModulusAssumption DEF Point
<1>2. \A m \in Nat : m < Modulus => (m % Modulus = m)
  BY <1>1
<1>3. (p + Modulus - 1) % Modulus = p - 1
  BY <1>1
<1>4. Modulus % Modulus = 0
  BY <1>1
<1> QED
  BY <1>1, <1>2, <1>3, <1>4 DEF Predecessor, Successor

(* InsertAt puts an element in front of the k-th.                          *)
LEMMA PutIn ==
  ASSUME NEW S, NEW s \in Seq(S), NEW e \in S, NEW k \in 1..Len(s), NEW t,
         t = Lists!InsertAt(s, k, e)
  PROVE  /\ t \in Seq(S) /\ Len(t) = Len(s) + 1
         /\ \A i \in 1..(k - 1) : t[i] = s[i]
         /\ t[k] = e
         /\ \A j \in (k + 1)..(Len(s) + 1) : t[j] = s[j - 1]
<1> DEFINE left == SubSeq(s, 1, k - 1)
           right == SubSeq(s, k, Len(s))
           front == Append(left, e)
<1>1. Len(s) \in Nat /\ k \in Nat /\ 1 <= k /\ k <= Len(s)
  OBVIOUS
<1>2. /\ left \in Seq(S) /\ Len(left) = k - 1
      /\ \A i \in 1..(k - 1) : left[i] = s[i]
  BY <1>1
<1>3. /\ right \in Seq(S) /\ Len(right) = Len(s) - k + 1
      /\ \A i \in 1..(Len(s) - k + 1) : right[i] = s[k + i - 1]
  BY <1>1
<1> HIDE DEF left, right
<1>4. left \o <<e>> = front
  BY <1>2, AppendIsConcat
<1>5. /\ front \in Seq(S) /\ Len(front) = k /\ front[k] = e
      /\ \A i \in 1..(k - 1) : front[i] = s[i]
  BY <1>1, <1>2
<1>6. t = front \o right
  BY <1>4 DEF left, right, Lists!InsertAt
<1> HIDE DEF front
<1>7. /\ t \in Seq(S) /\ Len(t) = Len(s) + 1
      /\ \A i \in 1..k : t[i] = front[i]
      /\ \A i \in 1..Len(right) : t[k + i] = right[i]
  <2>1. /\ t \in Seq(S) /\ Len(t) = Len(front) + Len(right)
        /\ \A i \in 1..(Len(front) + Len(right)) :
             /\ i <= Len(front) => t[i] = front[i]
             /\ ~(i <= Len(front)) => t[i] = right[i - Len(front)]
    <3>1. front \in Seq(S) /\ right \in Seq(S)
      BY <1>3, <1>5
    <3>2. /\ front \o right \in Seq(S)
          /\ Len(front \o right) = Len(front) + Len(right)
          /\ \A i \in 1..(Len(front) + Len(right)) :
               /\ i <= Len(front) => (front \o right)[i] = front[i]
               /\ ~(i <= Len(front))
                    => (front \o right)[i] = right[i - Len(front)]
      BY <3>1, ConcatProperties
    <3> QED
      BY <1>6, <3>2
  <2>2. Len(t) = Len(s) + 1
    BY <1>1, <1>3, <1>5, <2>1
  <2>3. ASSUME NEW i \in 1..k PROVE t[i] = front[i]
    <3>1. i \in 1..(Len(front) + Len(right)) /\ i <= Len(front)
      BY <1>1, <1>3, <1>5
    <3> QED
      BY <2>1, <3>1
  <2>4. ASSUME NEW i \in 1..Len(right) PROVE t[k + i] = right[i]
    <3>1. /\ k + i \in 1..(Len(front) + Len(right)) /\ ~(k + i <= Len(front))
          /\ k + i - Len(front) = i
      BY <1>1, <1>3, <1>5
    <3>2. t[k + i] = right[k + i - Len(front)]
      BY <2>1, <3>1
    <3> QED
      BY <3>1, <3>2
  <2> QED
    BY <2>1, <2>2, <2>3, <2>4
<1>8. ASSUME NEW i \in k..Len(s) PROVE t[i + 1] = s[i]
  <2>1. PICK n \in 1..(Len(s) - k + 1) : k + n = i + 1 /\ k + n - 1 = i
    <3>1. /\ i + 1 - k \in 1..(Len(s) - k + 1)
          /\ k + (i + 1 - k) = i + 1 /\ k + (i + 1 - k) - 1 = i
      BY <1>1
    <3> QED
      BY <3>1
  <2>2. t[k + n] = right[n]
    BY <1>3, <1>7
  <2>3. right[n] = s[k + n - 1]
    BY <1>3
  <2> QED
    BY <2>1, <2>2, <2>3
<1>9. \A i \in 1..(k - 1) : i \in 1..k
  BY <1>1
<1>10. k \in 1..k
  BY <1>1
<1>11. ASSUME NEW j \in (k + 1)..(Len(s) + 1) PROVE t[j] = s[j - 1]
  <2>1. j - 1 \in k..Len(s) /\ (j - 1) + 1 = j
    BY <1>1
  <2>2. t[(j - 1) + 1] = s[j - 1]
    BY <1>8, <2>1
  <2> QED
    BY <2>1, <2>2
<1> QED
  BY <1>5, <1>7, <1>9, <1>10, <1>11

-----------------------------------------------------------------------------
Segment == [first : Point, second : Point]

(* What a list of segments holds, in the terms of the steps below.         *)
LEMMA SegmentTypes ==
  ASSUME NEW segs \in Seq(Segment)
  PROVE  /\ Len(segs) \in Nat /\ DOMAIN segs = 1..Len(segs)
         /\ DOMAIN segs \in SUBSET Nat /\ 0 \notin DOMAIN segs
         /\ \A i \in DOMAIN segs :
              /\ segs[i] \in Segment
              /\ segs[i].first \in Point /\ segs[i].second \in Point
              /\ segs[i].first \in Nat /\ segs[i].second \in Nat
<1>1. /\ Len(segs) \in Nat /\ DOMAIN segs = 1..Len(segs)
      /\ DOMAIN segs \in SUBSET Nat /\ 0 \notin DOMAIN segs
  OBVIOUS
<1>2. ASSUME NEW i \in DOMAIN segs
      PROVE  /\ segs[i] \in Segment
             /\ segs[i].first \in Point /\ segs[i].second \in Point
  <2>1. segs[i] \in Segment
    OBVIOUS
  <2> QED
    BY <2>1 DEF Segment
<1> QED
  BY <1>1, <1>2, Points

(* The inductive invariant.                                                *)
IInv ==
  /\ TypeOK
  /\ InOrder
  /\ \A i \in DOMAIN segments : segments[i].first <= segments[i].second

CoveredBy(segs) == {p \in Point : \E i \in DOMAIN segs : Covers(segs[i], p)}

(* Where the walk of insert stops for p.                                   *)
StopsAt(seg, p) ==
  Covers(seg, p) \/ LeftOf(seg, p) \/ RightOf(seg, p) \/ Precedes(seg, p)

(* The walk of insert stops at the first segment that concerns p, or at    *)
(* none.                                                                   *)
LEMMA FirstStop ==
  ASSUME TypeOK, NEW p \in Point
  PROVE  \/ /\ InsertStop(p) = 0
            /\ \A i \in DOMAIN segments : ~StopsAt(segments[i], p)
         \/ /\ InsertStop(p) \in DOMAIN segments
            /\ StopsAt(segments[InsertStop(p)], p)
            /\ \A i \in DOMAIN segments :
                 i < InsertStop(p) => ~StopsAt(segments[i], p)
<1> DEFINE stops == {i \in DOMAIN segments : StopsAt(segments[i], p)}
<1>1. InsertStop(p) = IF stops = {} THEN 0 ELSE Sets!Min(stops)
  BY DEF InsertStop, StopsAt
<1>2. stops \in SUBSET Nat /\ DOMAIN segments \subseteq Nat
  BY DEF TypeOK
<1>3. CASE stops = {}
  BY <1>1, <1>3
<1>4. CASE stops # {}
  <2>1. /\ InsertStop(p) \in stops
        /\ \A i \in stops : InsertStop(p) <= i
    BY <1>1, <1>2, <1>4, MinIs
  <2>2. \A i \in DOMAIN segments : i < InsertStop(p) => i \notin stops
    BY <1>2, <2>1
  <2> QED
    BY <2>1, <2>2
<1> QED
  BY <1>3, <1>4

(* A segment the walk passes ends before p.                                *)
LEMMA PassedBy ==
  ASSUME IInv, NEW p \in Point, NEW i \in DOMAIN segments,
         ~StopsAt(segments[i], p)
  PROVE  segments[i].first < p /\ segments[i].second < p
<1>1. segments \in Seq(Segment) /\ segments[i].first <= segments[i].second
  BY DEF IInv, TypeOK, Segment
<1>2. segments[i].first \in Nat /\ segments[i].second \in Nat /\ p \in Nat
  BY <1>1, SegmentTypes, Points
<1> QED
  BY <1>1, <1>2 DEF StopsAt, Covers, Precedes

(* find looks at the first segment that covers q or begins behind it.      *)
LEMMA FindsCovered ==
  ASSUME IInv, NEW q \in Point
  PROVE  Contains(q) <=> \E i \in DOMAIN segments : Covers(segments[i], q)
<1> DEFINE stops == {i \in DOMAIN segments :
                       Covers(segments[i], q) \/ segments[i].first > q}
           m == Sets!Min(stops)
<1>1. Find(q) = IF stops # {} /\ Covers(segments[m], q) THEN m ELSE 0
  BY DEF Find
<1>a. segments \in Seq(Segment)
  BY DEF IInv, TypeOK, Segment
<1>b. /\ 0 \notin DOMAIN segments /\ DOMAIN segments \subseteq Nat
      /\ \A i \in DOMAIN segments : segments[i].first \in Nat
      /\ q \in Nat
  BY <1>a, SegmentTypes, Points
<1>2. /\ stops \in SUBSET Nat /\ 0 \notin DOMAIN segments
      /\ DOMAIN segments \subseteq Nat
      /\ \A i \in DOMAIN segments : segments[i].first \in Nat
      /\ q \in Nat
  BY <1>b
<1>3. stops # {} => m \in stops /\ \A i \in stops : m <= i
  BY <1>2, MinIs
<1> HIDE DEF m
<1>4. Contains(q) => \E i \in DOMAIN segments : Covers(segments[i], q)
  BY <1>1, <1>3 DEF Contains
<1>5. ASSUME NEW i \in DOMAIN segments, Covers(segments[i], q)
      PROVE  Contains(q)
  <2>1. i \in stops /\ m \in stops /\ m <= i
    BY <1>3, <1>5
  <2>2. CASE m = i
    BY <1>1, <1>2, <1>5, <2>1, <2>2 DEF Contains
  <2>3. CASE m < i
    <3>1. segments[m].first < segments[i].first
      BY <2>1, <2>3 DEF IInv, InOrder
    <3>2. ~(segments[m].first > q)
      BY <1>2, <1>5, <2>1, <3>1 DEF Covers
    <3>3. Covers(segments[m], q)
      BY <2>1, <3>2
    <3> QED
      BY <1>1, <1>2, <2>1, <3>3 DEF Contains
  <2> QED
    BY <1>2, <2>1, <2>2, <2>3
<1> QED
  BY <1>4, <1>5

-----------------------------------------------------------------------------
(***************************************************************************)
(* The ways insert ends.  What each has to show:                           *)
(***************************************************************************)
Good(segs, p) ==
  /\ segs \in Seq(Segment)
  /\ \A i, j \in DOMAIN segs : i < j => segs[i].first < segs[j].first
  /\ \A i \in DOMAIN segs : segs[i].first <= segs[i].second
  /\ CoveredBy(segs) = CoveredBy(segments) \cup {p}

(* One segment grows by p, and its first point stays behind those before.  *)
LEMMA Grown ==
  ASSUME IInv, NEW p \in Point, NEW k \in DOMAIN segments, NEW seg \in Segment,
         seg.first <= seg.second,
         seg.first <= segments[k].first,
         \A i \in DOMAIN segments : i < k => segments[i].first < seg.first,
         \A q \in Point : Covers(seg, q) <=> Covers(segments[k], q) \/ q = p
  PROVE  Good([segments EXCEPT ![k] = seg], p)
<1> DEFINE segs == [segments EXCEPT ![k] = seg]
<1>1. segments \in Seq(Segment)
  BY DEF IInv, TypeOK, Segment
<1>2. /\ segs \in Seq(Segment) /\ DOMAIN segs = DOMAIN segments
      /\ segs[k] = seg
      /\ \A i \in DOMAIN segments : i # k => segs[i] = segments[i]
      /\ DOMAIN segments \subseteq Nat
  BY <1>1
<1> HIDE DEF segs
<1>3. \A i \in DOMAIN segments : segments[i].first \in Nat /\ seg.first \in Nat
  <2>1. seg.first \in Nat
    BY Points DEF Segment
  <2> QED
    BY <1>1, <2>1, SegmentTypes
<1>4. ASSUME NEW i \in DOMAIN segs, NEW j \in DOMAIN segs, i < j
      PROVE  segs[i].first < segs[j].first
  <2>1. segments[i].first < segments[j].first
    BY <1>2, <1>4 DEF IInv, InOrder
  <2>2. CASE i = k
    BY <1>2, <1>3, <1>4, <2>1, <2>2
  <2>3. CASE j = k
    BY <1>2, <1>3, <1>4, <2>1, <2>3
  <2>4. CASE i # k /\ j # k
    BY <1>2, <2>1, <2>4
  <2> QED
    BY <2>2, <2>3, <2>4
<1>5. \A i \in DOMAIN segs : segs[i].first <= segs[i].second
  BY <1>2 DEF IInv
<1>6. CoveredBy(segs) = CoveredBy(segments) \cup {p}
  BY <1>2 DEF CoveredBy
<1> QED
  BY <1>2, <1>4, <1>5, <1>6 DEF Good, segs

(* A segment of p alone goes in at k, behind smaller first points and      *)
(* before larger ones.                                                     *)
LEMMA Added ==
  ASSUME IInv, NEW p \in Point, NEW k \in 1..(Len(segments) + 1), NEW segs,
         segs \in Seq(Segment), Len(segs) = Len(segments) + 1,
         \A i \in 1..(k - 1) : segs[i] = segments[i],
         segs[k] = [first |-> p, second |-> p],
         \A i \in k..Len(segments) : segs[i + 1] = segments[i],
         \A i \in 1..(k - 1) : segments[i].first < p,
         \A i \in k..Len(segments) : p < segments[i].first
  PROVE  Good(segs, p)
<1>1. /\ segments \in Seq(Segment) /\ Len(segments) \in Nat /\ k \in Nat
      /\ DOMAIN segments = 1..Len(segments)
      /\ DOMAIN segs = 1..(Len(segments) + 1) /\ p \in Nat
  BY ModulusAssumption DEF IInv, TypeOK, Segment, Point
<1>2. \A i \in DOMAIN segs : \/ i \in 1..(k - 1)
                             \/ i = k
                             \/ i - 1 \in k..Len(segments) /\ i = (i - 1) + 1
  BY <1>1
<1>3. \A i \in DOMAIN segments : i \in 1..(k - 1) \/ i \in k..Len(segments)
  BY <1>1
<1>4. \A i \in DOMAIN segs :
        \/ i < k /\ i \in DOMAIN segments /\ segs[i] = segments[i]
                /\ segments[i].first < p
        \/ i = k
        \/ i > k /\ i - 1 \in DOMAIN segments /\ segs[i] = segments[i - 1]
                /\ p < segments[i - 1].first
  <2> TAKE i \in DOMAIN segs
  <2>1. CASE i \in 1..(k - 1)
    BY <1>1, <2>1
  <2>2. CASE i - 1 \in k..Len(segments) /\ i = (i - 1) + 1
    BY <1>1, <2>2
  <2> QED
    BY <1>2, <2>1, <2>2
<1>5. \A i \in DOMAIN segments : segments[i].first \in Nat
  BY <1>1, SegmentTypes
<1>6. ASSUME NEW i \in DOMAIN segs, NEW j \in DOMAIN segs, i < j
      PROVE  segs[i].first < segs[j].first
  <2>1. CASE i < k /\ j < k
    BY <1>1, <1>4, <1>6, <2>1 DEF IInv, InOrder
  <2>2. CASE i > k /\ j > k
    <3>1. i - 1 < j - 1
      BY <1>1, <1>6
    <3>2. /\ i - 1 \in DOMAIN segments /\ segs[i] = segments[i - 1]
          /\ j - 1 \in DOMAIN segments /\ segs[j] = segments[j - 1]
      BY <1>1, <1>4, <2>2
    <3>3. segments[i - 1].first < segments[j - 1].first
      BY <3>1, <3>2 DEF IInv, InOrder
    <3> QED
      BY <3>2, <3>3
  <2>3. CASE i <= k /\ j >= k
    <3>1. segs[i].first \in Nat /\ segs[j].first \in Nat
      BY SegmentTypes
    <3>2. segs[k].first = p
      OBVIOUS
    <3>3. i < k => segs[i].first < p
      BY <1>1, <1>4
    <3>4. j > k => p < segs[j].first
      BY <1>1, <1>4
    <3>5. i < k \/ i = k
      BY <1>1, <2>3
    <3>6. j > k \/ j = k
      BY <1>1, <2>3
    <3>7. ~(i = k /\ j = k)
      BY <1>1, <1>6
    <3> QED
      BY <1>1, <3>1, <3>2, <3>3, <3>4, <3>5, <3>6, <3>7
  <2> QED
    BY <1>1, <1>6, <2>1, <2>2, <2>3
<1>7. \A i \in DOMAIN segs : segs[i].first <= segs[i].second
  BY <1>1, <1>4 DEF IInv
<1>8. \A q \in Point : Covers(segs[k], q) <=> q = p
  BY <1>1, ModulusAssumption DEF Covers, Point
<1>9. \A i \in DOMAIN segments :
        \E j \in DOMAIN segs : segs[j] = segments[i]
  <2> TAKE i \in DOMAIN segments
  <2>1. CASE i \in 1..(k - 1)
    BY <1>1, <2>1
  <2>2. CASE i \in k..Len(segments)
    <3>1. i + 1 \in DOMAIN segs /\ segs[i + 1] = segments[i]
      BY <1>1, <2>2
    <3> QED
      BY <3>1
  <2> QED
    BY <1>3, <2>1, <2>2
<1>10. \A j \in DOMAIN segs :
         j = k \/ \E i \in DOMAIN segments : segs[j] = segments[i]
  BY <1>4
<1>11. k \in DOMAIN segs
  BY <1>1
<1>12. CoveredBy(segs) = CoveredBy(segments) \cup {p}
  BY <1>8, <1>9, <1>10, <1>11 DEF CoveredBy
<1> QED
  BY <1>6, <1>7, <1>12 DEF Good

(* insert covers its point, no other, and keeps the order.                 *)
LEMMA InsertGood ==
  ASSUME IInv, NEW p \in Point, Insert(p)
  PROVE  Good(segments', p)
<1> DEFINE k == InsertStop(p)
           new == [first |-> p, second |-> p]
<1>1. segments' =
        IF k = 0 THEN Append(segments, new)
        ELSE IF Covers(segments[k], p) THEN segments
        ELSE IF LeftOf(segments[k], p) THEN [segments EXCEPT ![k].first = p]
        ELSE IF RightOf(segments[k], p) THEN [segments EXCEPT ![k].second = p]
        ELSE Lists!InsertAt(segments, k, new)
  BY DEF Insert
<1>2. \/ /\ k = 0
         /\ \A i \in DOMAIN segments : ~StopsAt(segments[i], p)
      \/ /\ k \in DOMAIN segments
         /\ StopsAt(segments[k], p)
         /\ \A i \in DOMAIN segments : i < k => ~StopsAt(segments[i], p)
  BY FirstStop DEF IInv
<1> HIDE DEF k
<1>3. /\ segments \in Seq(Segment) /\ Len(segments) \in Nat
      /\ DOMAIN segments = 1..Len(segments)
      /\ \A i \in DOMAIN segments :
           /\ segments[i] \in Segment
           /\ segments[i].first \in Point /\ segments[i].second \in Point
           /\ segments[i].first \in Nat /\ segments[i].second \in Nat
           /\ segments[i].first <= segments[i].second
      /\ p \in Nat /\ p >= 1 /\ 0 \notin DOMAIN segments
  <2>1. segments \in Seq(Segment)
    BY DEF IInv, TypeOK, Segment
  <2>2. \A i \in DOMAIN segments : segments[i].first <= segments[i].second
    BY DEF IInv
  <2>3. p \in Nat /\ p >= 1
    BY ModulusAssumption DEF Point
  <2> QED
    BY <2>1, <2>2, <2>3, SegmentTypes
<1>4. new \in Segment
  BY DEF Segment
<1>5. \A i \in DOMAIN segments : (k = 0 \/ i < k) =>
        segments[i].first < p /\ segments[i].second < p
  <2> TAKE i \in DOMAIN segments
  <2> HAVE k = 0 \/ i < k
  <2>1. ~StopsAt(segments[i], p)
    BY <1>2, <1>3
  <2> QED
    BY <2>1, PassedBy
<1>6. CASE k = 0
  <2>1. segments' = Append(segments, new)
    BY <1>1, <1>6
  <2> DEFINE n == Len(segments) + 1
  <2>2. /\ n \in 1..n /\ segments' \in Seq(Segment) /\ Len(segments') = n
        /\ \A i \in 1..(n - 1) : segments'[i] = segments[i]
        /\ segments'[n] = new
        /\ \A i \in n..Len(segments) : FALSE
    BY <1>3, <1>4, <2>1
  <2>3. \A i \in 1..(n - 1) : segments[i].first < p
    BY <1>3, <1>5, <1>6
  <2> QED
    BY <2>2, <2>3, Added
<1>7. CASE k # 0 /\ Covers(segments[k], p)
  <2>1. p \in CoveredBy(segments)
    BY <1>2, <1>7 DEF CoveredBy
  <2> QED
    BY <1>1, <1>3, <1>7, <2>1 DEF Good, IInv, InOrder
<1>8. CASE k # 0 /\ ~Covers(segments[k], p) /\ LeftOf(segments[k], p)
  <2> DEFINE seg == [segments[k] EXCEPT !.first = p]
  <2>1. k \in DOMAIN segments /\ segments' = [segments EXCEPT ![k] = seg]
    BY <1>1, <1>2, <1>8
  <2>2. segments[k].first = p + 1
    BY <1>3, <1>8, <2>1, Neighbours DEF LeftOf
  <2>3. seg \in Segment /\ seg.first = p /\ seg.second = segments[k].second
    BY <1>3, <2>1 DEF Segment
  <2>4. \A q \in Point : Covers(seg, q) <=> Covers(segments[k], q) \/ q = p
    BY <1>3, <2>1, <2>2, <2>3, ModulusAssumption DEF Covers, Point
  <2> HIDE DEF seg
  <2>5. seg.first <= seg.second /\ seg.first <= segments[k].first
    BY <1>3, <2>1, <2>2, <2>3
  <2>6. \A i \in DOMAIN segments : i < k => segments[i].first < seg.first
    BY <1>5, <2>3
  <2> QED
    BY <2>1, <2>3, <2>4, <2>5, <2>6, Grown
<1>9. CASE /\ k # 0 /\ ~Covers(segments[k], p) /\ ~LeftOf(segments[k], p)
           /\ RightOf(segments[k], p)
  <2> DEFINE seg == [segments[k] EXCEPT !.second = p]
  <2>1. k \in DOMAIN segments /\ segments' = [segments EXCEPT ![k] = seg]
    BY <1>1, <1>2, <1>9
  <2>2. p = segments[k].second + 1
    BY <1>3, <1>9, <2>1, Neighbours DEF RightOf
  <2>3. seg \in Segment /\ seg.first = segments[k].first /\ seg.second = p
    BY <1>3, <2>1 DEF Segment
  <2>4. \A q \in Point : Covers(seg, q) <=> Covers(segments[k], q) \/ q = p
    BY <1>3, <2>1, <2>2, <2>3, ModulusAssumption DEF Covers, Point
  <2> HIDE DEF seg
  <2>5. seg.first <= seg.second /\ seg.first <= segments[k].first
    BY <1>3, <2>1, <2>2, <2>3
  <2>6. \A i \in DOMAIN segments : i < k => segments[i].first < seg.first
    BY <1>3, <2>1, <2>3 DEF IInv, InOrder
  <2> QED
    BY <2>1, <2>3, <2>4, <2>5, <2>6, Grown
<1>10. CASE /\ k # 0 /\ ~Covers(segments[k], p) /\ ~LeftOf(segments[k], p)
            /\ ~RightOf(segments[k], p)
  <2>1. /\ k \in 1..Len(segments) /\ p < segments[k].first
        /\ segments' = Lists!InsertAt(segments, k, new)
    BY <1>1, <1>2, <1>3, <1>10 DEF StopsAt, Precedes
  <2> HIDE DEF new
  <2>2. /\ segments' \in Seq(Segment) /\ Len(segments') = Len(segments) + 1
        /\ \A i \in 1..(k - 1) : segments'[i] = segments[i]
        /\ segments'[k] = new
        /\ \A i \in k..Len(segments) : segments'[i + 1] = segments[i]
    <3>1. /\ segments \in Seq(Segment) /\ new \in Segment
          /\ k \in 1..Len(segments)
          /\ segments' = Lists!InsertAt(segments, k, new)
      BY <1>3, <1>4, <2>1
    <3>2. /\ segments' \in Seq(Segment) /\ Len(segments') = Len(segments) + 1
          /\ \A i \in 1..(k - 1) : segments'[i] = segments[i]
          /\ segments'[k] = new
          /\ \A j \in (k + 1)..(Len(segments) + 1) : segments'[j] = segments[j - 1]
      BY <3>1, PutIn
    <3>3. ASSUME NEW i \in k..Len(segments) PROVE segments'[i + 1] = segments[i]
      <4>1. i + 1 \in (k + 1)..(Len(segments) + 1) /\ (i + 1) - 1 = i
        BY <1>3, <3>1
      <4>2. segments'[i + 1] = segments[(i + 1) - 1]
        BY <3>2, <4>1
      <4> QED
        BY <4>1, <4>2
    <3> QED
      BY <3>2, <3>3
  <2>8. ASSUME NEW i \in k..Len(segments) PROVE p < segments[i].first
    <3>1. i \in DOMAIN segments /\ k \in DOMAIN segments /\ (k = i \/ k < i)
      BY <1>3, <2>1
    <3>2. k < i => segments[k].first < segments[i].first
      BY <3>1 DEF IInv, InOrder
    <3>3. segments[k].first \in Nat /\ segments[i].first \in Nat
      BY <1>3, <3>1
    <3> QED
      BY <1>3, <2>1, <3>1, <3>2, <3>3
  <2>9. ASSUME NEW i \in 1..(k - 1) PROVE segments[i].first < p
    <3>1. i \in DOMAIN segments /\ i < k
      BY <1>3, <2>1
    <3> QED
      BY <1>5, <3>1
  <2>10. k \in 1..(Len(segments) + 1)
    BY <1>3, <2>1
  <2> QED
    BY <2>2, <2>8, <2>9, <2>10, Added DEF new
<1> QED
  BY <1>6, <1>7, <1>8, <1>9, <1>10

-----------------------------------------------------------------------------
(* What an insertion is shown to do contains the invariant.                *)
LEMMA GoodInvariant ==
  ASSUME NEW p \in Point, Good(segments', p), last' = p
  PROVE  IInv'
<1>1. TypeOK'
  BY DEF Good, TypeOK, Segment
<1> QED
  BY <1>1 DEF Good, IInv, InOrder

(* The inductive invariant holds in every state.                           *)
THEOREM Invariance == Spec => []IInv
<1>1. Init => IInv
  BY DEF Init, IInv, TypeOK, InOrder
<1>2. IInv /\ [Next]_vars => IInv'
  <2> SUFFICES ASSUME IInv, [Next]_vars PROVE IInv'
    OBVIOUS
  <2>1. CASE UNCHANGED vars
    BY <2>1 DEF vars, IInv, TypeOK, InOrder
  <2>2. ASSUME NEW p \in Point, Insert(p), last' = p PROVE IInv'
    BY <2>2, InsertGood, GoodInvariant
  <2> QED
    BY <2>1, <2>2 DEF Next
<1> QED
  BY <1>1, <1>2, PTL DEF Spec

(* The types hold in every state.                                          *)
THEOREM TypeCorrect == Spec => []TypeOK
<1>1. IInv => TypeOK
  BY DEF IInv
<1> QED
  BY <1>1, Invariance, PTL

(* The segments are in order for any modulus and any order of insertions,  *)
(* so that the walks of range.h may stop early.                            *)
THEOREM SegmentsInOrder == Spec => []InOrder
<1>1. IInv => InOrder
  BY DEF IInv
<1> QED
  BY <1>1, Invariance, PTL

(* range<T> is a set: contains tells exactly the points inserted so far,   *)
(* for any modulus, though segments may overlap.                           *)
THEOREM IsPointSet == Spec => ImplementsPointSet
<1> DEFINE points == {p \in Point : Contains(p)}
<1>1. IInv => points = CoveredBy(segments)
  BY FindsCovered DEF CoveredBy
<1>a. (IInv => points = CoveredBy(segments))'
  BY <1>1, PTL
<1>2. Init => Promised!Init
  <2> SUFFICES ASSUME Init PROVE Promised!Init
    OBVIOUS
  <2>1. IInv /\ CoveredBy(segments) = {}
    BY DEF Init, IInv, TypeOK, InOrder, CoveredBy
  <2> QED
    BY <1>1, <2>1 DEF Init, Promised!Init
<1>3. IInv /\ IInv' /\ [Next]_vars => [Promised!Next]_Promised!vars
  <2> SUFFICES ASSUME IInv, IInv', [Next]_vars
               PROVE  [Promised!Next]_Promised!vars
    OBVIOUS
  <2>1. CASE UNCHANGED vars
    BY <2>1 DEF vars, Promised!vars, Contains, Find
  <2>2. ASSUME NEW p \in Point, Insert(p), last' = p PROVE Promised!Next
    <3>1. CoveredBy(segments') = CoveredBy(segments) \cup {p}
      BY <2>2, InsertGood DEF Good
    <3>2. points' = CoveredBy(segments')
      BY <1>a DEF CoveredBy
    <3>3. points' = points \cup {p}
      BY <1>1, <3>1, <3>2
    <3> QED
      BY <2>2, <3>3 DEF Promised!Next, Promised!Insert
  <2> QED
    BY <2>1, <2>2 DEF Next
<1> QED
  BY <1>2, <1>3, Invariance, PTL DEF Spec, ImplementsPointSet, Promised!Spec
=============================================================================
