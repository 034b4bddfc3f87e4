----------------------------- MODULE PageProofs ------------------------------
(***************************************************************************)
(* What the run of Page checks for three objects, for any number of them,  *)
(* any sizes, any width of the reference counter and any number of         *)
(* references: a page implements ObjectStore.  The argument is that an     *)
(* object is in the index of one atom, where its counter is the number of  *)
(* references its users hold modulo what it can count, and that an id      *)
(* which was given out and not used is in none.                            *)
(***************************************************************************)
EXTENDS Page, TLAPS

Index == UNION {[S -> Reference] : S \in SUBSET Oid}
Atom == [index : Index, size : Nat]

(* The types of the page.                                                  *)
PageType ==
  /\ atoms \in Seq(Atom)
  /\ max_atom_size \in AtomSize
  /\ next_oid \in 1..(MaxOid + 1)
  /\ pending \subseteq 1..(next_oid - 1)
  /\ faulted \in BOOLEAN
  /\ held \in [Oid -> 0..MaxRefs]
  /\ overrun \subseteq 1..(next_oid - 1)

(* The types of the cursor, which is at an entry of an existing atom or    *)
(* nowhere.                                                                *)
CursorType ==
  /\ cursor \in Cursor \cup {NoCursor}
  /\ visited \subseteq Oid
  /\ cursor.open /\ cursor.entry # NoEntry =>
       /\ cursor.atom_index \in DOMAIN atoms
       /\ cursor.entry \in Entries(cursor.atom_index)

(* An id that waits for its object is in no index and never was.           *)
PendingIsNew ==
  /\ \A i \in DOMAIN atoms : \A o \in DOMAIN atoms[i].index :
       o \notin pending /\ o \in 1..(next_oid - 1)
  /\ overrun \cap pending = {}

(* The counter of a stored object is the number of references held, modulo *)
(* what it can count; and an object that has references but is not stored  *)
(* has at some time had too many for its counter.                          *)
Counted ==
  /\ \A i \in DOMAIN atoms : \A o \in DOMAIN atoms[i].index :
       /\ atoms[i].index[o].ref_count = held[o] % RefModulus
       /\ held[o] > 0
  /\ \A o \in Oid : held[o] >= RefModulus => o \in overrun
  /\ \A o \in Oid : held[o] > 0 => o \in Stored \cup overrun

PageInv == PageType /\ OneAtomPerObject /\ PendingIsNew /\ Counted

IInv == PageInv /\ CursorType

-----------------------------------------------------------------------------
(* An index is a partial map from object ids to references.                *)
LEMMA IndexIs ==
  ASSUME NEW x
  PROVE  x \in Index <=> DOMAIN x \subseteq Oid /\ x \in [DOMAIN x -> Reference]
<1>1. ASSUME x \in Index
      PROVE  DOMAIN x \subseteq Oid /\ x \in [DOMAIN x -> Reference]
  <2>1. PICK S \in SUBSET Oid : x \in [S -> Reference]
    BY <1>1 DEF Index
  <2>2. DOMAIN x = S
    BY <2>1
  <2> QED
    BY <2>1, <2>2
<1>2. ASSUME DOMAIN x \subseteq Oid, x \in [DOMAIN x -> Reference]
      PROVE  x \in Index
  BY <1>2 DEF Index
<1> QED
  BY <1>1, <1>2

(* What the types say of each atom.                                        *)
LEMMA AtomsAre ==
  ASSUME PageType
  PROVE  /\ Len(atoms) \in Nat /\ DOMAIN atoms = 1..Len(atoms)
         /\ \A i \in DOMAIN atoms :
              /\ atoms[i] \in Atom /\ atoms[i].index \in Index
              /\ atoms[i].size \in Nat
              /\ DOMAIN atoms[i].index \subseteq Oid
              /\ \A o \in DOMAIN atoms[i].index : atoms[i].index[o] \in Reference
<1>1. Len(atoms) \in Nat /\ DOMAIN atoms = 1..Len(atoms)
  BY DEF PageType
<1>2. ASSUME NEW i \in DOMAIN atoms
      PROVE  atoms[i] \in Atom /\ atoms[i].index \in Index /\ atoms[i].size \in Nat
  <2>1. atoms[i] \in Atom
    BY DEF PageType
  <2> QED
    BY <2>1 DEF Atom
<1>3. ASSUME NEW i \in DOMAIN atoms
      PROVE  /\ DOMAIN atoms[i].index \subseteq Oid
             /\ \A o \in DOMAIN atoms[i].index : atoms[i].index[o] \in Reference
  <2>1. /\ DOMAIN atoms[i].index \subseteq Oid
        /\ atoms[i].index \in [DOMAIN atoms[i].index -> Reference]
    BY <1>2, IndexIs
  <2> QED
    BY <2>1
<1> QED
  BY <1>1, <1>2, <1>3

(* The invariant contains the types.                                       *)
LEMMA TypeParts == IInv => TypeOK
<1> SUFFICES ASSUME IInv PROVE TypeOK
  OBVIOUS
<1>1. PageType /\ CursorType
  BY DEF IInv, PageInv
<1>2. \A i \in DOMAIN atoms : IsAtom(atoms[i])
  <2> SUFFICES ASSUME NEW i \in DOMAIN atoms PROVE IsAtom(atoms[i])
    OBVIOUS
  <2>1. atoms[i] \in Atom /\ atoms[i].index \in Index
    BY <1>1, AtomsAre
  <2>2. /\ DOMAIN atoms[i].index \subseteq Oid
        /\ atoms[i].index \in [DOMAIN atoms[i].index -> Reference]
    BY <2>1, IndexIs
  <2>3. DOMAIN atoms[i] = {"index", "size"} /\ atoms[i].size \in Nat
    BY <2>1 DEF Atom
  <2> QED
    BY <2>2, <2>3 DEF IsAtom
<1>3. atoms = [i \in 1..Len(atoms) |-> atoms[i]]
  BY <1>1 DEF PageType
<1>4. overrun \subseteq Oid
  <2>1. next_oid - 1 \in Nat /\ next_oid - 1 <= MaxOid
    BY <1>1, PageAssumption DEF PageType
  <2>2. \A o \in 1..(next_oid - 1) : o \in 1..MaxOid
    BY <2>1, PageAssumption
  <2> QED
    BY <2>2, <1>1 DEF PageType, Oid
<1> QED
  BY <1>1, <1>2, <1>3, <1>4 DEF TypeOK, PageType, CursorType

(* find_object finds the one atom that has the object.                     *)
LEMMA Found ==
  OneAtomPerObject =>
    \A o \in Oid : \A i \in DOMAIN atoms :
      o \in DOMAIN atoms[i].index => FindObject(o) = i
<1> SUFFICES ASSUME OneAtomPerObject, NEW o \in Oid, NEW i \in DOMAIN atoms,
                    o \in DOMAIN atoms[i].index
             PROVE  FindObject(o) = i
  OBVIOUS
<1>1. i \in Holders(o)
  BY DEF Holders
<1>2. \A j \in Holders(o) : j = i
  BY <1>1 DEF OneAtomPerObject
<1>3. Holders(o) = {i}
  BY <1>1, <1>2
<1> QED
  BY <1>3 DEF FindObject

(* The same in the next state.                                             *)
LEMMA FoundNext ==
  (OneAtomPerObject =>
     \A o \in Oid : \A i \in DOMAIN atoms :
       o \in DOMAIN atoms[i].index => FindObject(o) = i)'
  BY Found, PTL

-----------------------------------------------------------------------------
(***************************************************************************)
(* What the calls do to the atoms.                                         *)
(***************************************************************************)

(* Division with remainder.                                                *)
LEMMA Split ==
  ASSUME NEW k \in Nat
  PROVE  /\ k % RefModulus \in 0..(RefModulus - 1)
         /\ k \div RefModulus \in Nat
         /\ k = RefModulus * (k \div RefModulus) + (k % RefModulus)
BY PageAssumption

LEMMA Unique ==
  ASSUME NEW q \in Nat, NEW n \in Nat, n < RefModulus
  PROVE  (RefModulus * q + n) % RefModulus = n
BY PageAssumption

(* The remainder of a successor.                                           *)
LEMMA NextRemainder ==
  ASSUME NEW k \in Nat
  PROVE  (k + 1) % RefModulus =
           IF k % RefModulus = RefModulus - 1 THEN 0 ELSE (k % RefModulus) + 1
<1> DEFINE q == k \div RefModulus
           n == k % RefModulus
<1>1. n \in 0..(RefModulus - 1) /\ q \in Nat /\ k = RefModulus * q + n
  BY Split
<1>2. RefModulus \in Nat /\ RefModulus > 1
  BY PageAssumption
<1> HIDE DEF q, n
<1>3. CASE n = RefModulus - 1
  <2>1. k + 1 = RefModulus * (q + 1) + 0
    BY <1>1, <1>2, <1>3
  <2>2. (RefModulus * (q + 1) + 0) % RefModulus = 0
    BY <1>1, <1>2, Unique
  <2> QED
    BY <2>1, <2>2, <1>3 DEF n
<1>4. CASE n # RefModulus - 1
  <2>1. k + 1 = RefModulus * q + (n + 1) /\ n + 1 < RefModulus /\ n + 1 \in Nat
    BY <1>1, <1>2, <1>4
  <2>2. (RefModulus * q + (n + 1)) % RefModulus = n + 1
    BY <1>1, <2>1, Unique
  <2> QED
    BY <2>1, <2>2, <1>4 DEF n
<1> QED
  BY <1>3, <1>4

(* Adding and taking away 1 where the counter can count.                   *)
LEMMA SmallRemainders ==
  ASSUME NEW n \in Nat, n < RefModulus
  PROVE  /\ n % RefModulus = n
         /\ (n + 1) % RefModulus = (IF n = RefModulus - 1 THEN 0 ELSE n + 1)
         /\ (n + RefModulus - 1) % RefModulus =
              (IF n = 0 THEN RefModulus - 1 ELSE n - 1)
<1>1. n % RefModulus = n
  BY PageAssumption
<1>2. (n + 1) % RefModulus = (IF n = RefModulus - 1 THEN 0 ELSE n + 1)
  BY PageAssumption
<1>3. (n + RefModulus - 1) % RefModulus = (IF n = 0 THEN RefModulus - 1 ELSE n - 1)
  BY PageAssumption
<1> QED
  BY <1>1, <1>2, <1>3

(* The counter of one more reference is the counter counted up.            *)
LEMMA CountUp ==
  ASSUME NEW m \in Nat
  PROVE  Incremented(m % RefModulus) = (m + 1) % RefModulus
<1>1. m % RefModulus \in Nat /\ m % RefModulus < RefModulus
  BY Split, PageAssumption
<1> QED
  BY <1>1, NextRemainder, SmallRemainders DEF Incremented

(* The counter of one reference less is the counter counted down, and is   *)
(* zero exactly if it was one.                                             *)
LEMMA CountDown ==
  ASSUME NEW m \in Nat, m > 0
  PROVE  /\ ((m % RefModulus) + RefModulus - 1) % RefModulus = (m - 1) % RefModulus
         /\ m % RefModulus = 1 <=> (m - 1) % RefModulus = 0
<1> DEFINE k == m - 1
           n == k % RefModulus
<1>1. k \in Nat /\ m = k + 1
  OBVIOUS
<1>2. n \in Nat /\ n < RefModulus /\ RefModulus \in Nat /\ RefModulus > 1
  BY <1>1, Split, PageAssumption
<1>3. m % RefModulus = IF n = RefModulus - 1 THEN 0 ELSE n + 1
  BY <1>1, NextRemainder
<1> HIDE DEF n
<1>4. CASE n = RefModulus - 1
  <2>1. m % RefModulus = 0 /\ (0 + RefModulus - 1) % RefModulus = RefModulus - 1
    BY <1>2, <1>3, <1>4, SmallRemainders
  <2> QED
    BY <2>1, <1>2, <1>4 DEF n
<1>5. CASE n # RefModulus - 1
  <2>1. m % RefModulus = n + 1 /\ n + 1 < RefModulus /\ n + 1 \in Nat
    BY <1>2, <1>3, <1>5
  <2>2. ((n + 1) + RefModulus - 1) % RefModulus = n
    BY <2>1, <1>2, SmallRemainders
  <2> QED
    BY <2>1, <2>2, <1>2, <1>5 DEF n
<1> QED
  BY <1>4, <1>5

(* insert_object puts the object in one index, where it was not, and keeps *)
(* everything else.                                                        *)
LEMMA InsertFacts ==
  ASSUME IInv, NEW o \in Oid, NEW v \in Value, NEW size \in ObjectSize,
         InsertObject(o, v, size)
  PROVE  /\ atoms' \in Seq(Atom)
         /\ DOMAIN atoms \subseteq DOMAIN atoms'
         /\ \E k \in DOMAIN atoms' :
              /\ o \in DOMAIN atoms'[k].index
              /\ atoms'[k].index[o] = [value |-> v, ref_count |-> 1]
              /\ \A i \in DOMAIN atoms' : o \in DOMAIN atoms'[i].index => i = k
         /\ \A i \in DOMAIN atoms' : \A x \in DOMAIN atoms'[i].index :
              x # o => /\ i \in DOMAIN atoms
                       /\ x \in DOMAIN atoms[i].index
                       /\ atoms'[i].index[x] = atoms[i].index[x]
         /\ \A i \in DOMAIN atoms : \A x \in DOMAIN atoms[i].index :
              x \in DOMAIN atoms'[i].index
<1> DEFINE n == Len(atoms)
           entry == [value |-> v, ref_count |-> 1]
           index == [x \in {o} |-> entry]
           new == [index |-> index, size |-> size]
<1>1. PageType /\ PendingIsNew
  BY DEF IInv, PageInv
<1>2. /\ n \in Nat /\ DOMAIN atoms = 1..n
      /\ \A i \in DOMAIN atoms :
           /\ atoms[i] \in Atom /\ atoms[i].index \in Index
           /\ atoms[i].size \in Nat
           /\ DOMAIN atoms[i].index \subseteq Oid
           /\ \A x \in DOMAIN atoms[i].index : atoms[i].index[x] \in Reference
  BY <1>1, AtomsAre
<1>3. atoms \in Seq(Atom)
  BY <1>1 DEF PageType
<1>4. \A i \in DOMAIN atoms : o \notin DOMAIN atoms[i].index
  BY <1>1 DEF PendingIsNew, InsertObject
<1>5. entry \in Reference
  <2>1. 1 \in 0..(RefModulus - 1)
    BY PageAssumption
  <2> QED
    BY <2>1 DEF Reference
<1>6. size \in Nat
  BY PageAssumption
<1>7. CASE n = 0 \/ atoms[n].size > max_atom_size
  <2>1. atoms' = Append(atoms, new)
    BY <1>7 DEF InsertObject, WithObject
  <2>2. new \in Atom
    <3>1. DOMAIN index = {o} /\ index \in [{o} -> Reference]
      BY <1>5
    <3>2. index \in Index
      BY <3>1, IndexIs
    <3> QED
      BY <3>2, <1>6 DEF Atom
  <2>3. /\ atoms' \in Seq(Atom) /\ DOMAIN atoms' = 1..(n + 1)
        /\ \A i \in 1..n : atoms'[i] = atoms[i]
        /\ atoms'[n + 1] = new
    BY <2>1, <2>2, <1>3, <1>2
  <2>4. new.index = index /\ DOMAIN index = {o} /\ index[o] = entry
    OBVIOUS
  <2>5. /\ n + 1 \in DOMAIN atoms'
        /\ o \in DOMAIN atoms'[n + 1].index
        /\ atoms'[n + 1].index[o] = entry
    BY <2>3, <2>4, <1>2
  <2>6. \A i \in DOMAIN atoms' : i = n + 1 \/ (i \in 1..n /\ atoms'[i] = atoms[i])
    BY <2>3, <1>2
  <2>7. \A i \in DOMAIN atoms' : o \in DOMAIN atoms'[i].index => i = n + 1
    BY <2>6, <1>2, <1>4
  <2>8. \A i \in DOMAIN atoms' : \A x \in DOMAIN atoms'[i].index :
              x # o => /\ i \in DOMAIN atoms
                       /\ x \in DOMAIN atoms[i].index
                       /\ atoms'[i].index[x] = atoms[i].index[x]
    BY <2>6, <2>3, <2>4, <1>2
  <2>9. DOMAIN atoms \subseteq DOMAIN atoms'
    BY <2>3, <1>2
  <2>10. \A i \in DOMAIN atoms : \A x \in DOMAIN atoms[i].index :
              x \in DOMAIN atoms'[i].index
    BY <2>3, <1>2
  <2> HIDE DEF index, new
  <2> QED
    BY <2>3, <2>5, <2>7, <2>8, <2>9, <2>10
<1>8. CASE ~(n = 0 \/ atoms[n].size > max_atom_size)
  <2> DEFINE full == Indexed(atoms[n].index, o, v)
             last == [atoms[n] EXCEPT !.index = full, !.size = @ + size]
  <2>1. n \in DOMAIN atoms
    BY <1>8, <1>2
  <2>2. atoms' = [atoms EXCEPT ![n].index = full, ![n].size = @ + size]
    BY <1>8 DEF InsertObject, WithObject
  <2>3. atoms' = [atoms EXCEPT ![n] = last]
    BY <2>2, <2>1
  <2>4. /\ DOMAIN full = DOMAIN atoms[n].index \cup {o}
        /\ \A x \in DOMAIN atoms[n].index : full[x] = atoms[n].index[x]
        /\ full[o] = entry
    BY <2>1, <1>4 DEF Indexed
  <2>5. full \in Index
    <3>1. DOMAIN full \subseteq Oid
      BY <2>4, <2>1, <1>2
    <3>2. \A x \in DOMAIN full : full[x] \in Reference
      BY <2>4, <2>1, <1>2, <1>5
    <3>3. full = [x \in DOMAIN full |-> full[x]]
      BY DEF Indexed
    <3>4. full \in [DOMAIN full -> Reference]
      BY <3>2, <3>3
    <3> QED
      BY <3>1, <3>4, IndexIs
  <2> HIDE DEF full
  <2>6. last \in Atom /\ last.index = full
    <3>1. atoms[n] \in Atom /\ atoms[n].size + size \in Nat
      BY <2>1, <1>2, <1>6
    <3> QED
      BY <3>1, <2>5 DEF Atom
  <2> HIDE DEF last
  <2>7. /\ atoms' \in Seq(Atom) /\ DOMAIN atoms' = DOMAIN atoms
        /\ atoms'[n] = last
        /\ \A i \in DOMAIN atoms : i # n => atoms'[i] = atoms[i]
    BY <2>3, <2>6, <2>1, <1>3
  <2>8. o \in DOMAIN atoms'[n].index /\ atoms'[n].index[o] = entry
    BY <2>7, <2>6, <2>4
  <2>9. \A i \in DOMAIN atoms' : o \in DOMAIN atoms'[i].index => i = n
    BY <2>7, <1>4
  <2>10. \A i \in DOMAIN atoms' : \A x \in DOMAIN atoms'[i].index :
              x # o => /\ i \in DOMAIN atoms
                       /\ x \in DOMAIN atoms[i].index
                       /\ atoms'[i].index[x] = atoms[i].index[x]
    BY <2>7, <2>6, <2>4
  <2>11. \A i \in DOMAIN atoms : \A x \in DOMAIN atoms[i].index :
              x \in DOMAIN atoms'[i].index
    BY <2>7, <2>6, <2>4
  <2> QED
    BY <2>1, <2>7, <2>8, <2>9, <2>10, <2>11
<1> QED
  BY <1>7, <1>8

(* What acquire_object and delete_objects have in common: objects stay in  *)
(* the atom and with the value they have, counters change as the           *)
(* references of the users do, and an object goes when a reference is      *)
(* given back and its counter is zero then.                                *)
Stays(x) == held'[x] < held[x] => held'[x] % RefModulus # 0

Recounted ==
  /\ atoms' \in Seq(Atom)
  /\ DOMAIN atoms' = DOMAIN atoms
  /\ \A i \in DOMAIN atoms :
       /\ DOMAIN atoms'[i].index = {x \in DOMAIN atoms[i].index : Stays(x)}
       /\ \A x \in DOMAIN atoms'[i].index :
            /\ atoms'[i].index[x].value = atoms[i].index[x].value
            /\ atoms'[i].index[x].ref_count = held'[x] % RefModulus
  /\ held' \in [Oid -> 0..MaxRefs]
  /\ \A x \in Oid : held[x] = 0 => held'[x] = 0
  /\ overrun \subseteq overrun' /\ overrun' \subseteq overrun \cup Stored
  /\ \A x \in Oid : held'[x] >= RefModulus => x \in overrun'

(* acquire_object counts one reference of one object.                      *)
LEMMA AcquireFacts ==
  ASSUME IInv, NEW o \in Oid, AcquireObject(o)
  PROVE  Recounted /\ held[o] < MaxRefs
<1> DEFINE i == FindObject(o)
           count == Incremented(atoms[i].index[o].ref_count)
           index == [atoms[i].index EXCEPT ![o].ref_count = count]
           atom == [atoms[i] EXCEPT !.index = index]
<1>1. PageType /\ OneAtomPerObject /\ Counted
  BY DEF IInv, PageInv
<1>2. PICK j \in DOMAIN atoms : o \in DOMAIN atoms[j].index
  BY DEF AcquireObject, Stored
<1>3. i = j
  BY <1>1, <1>2, Found
<1>4. i \in DOMAIN atoms /\ o \in DOMAIN atoms[i].index
  BY <1>2, <1>3
<1>5. \A k \in DOMAIN atoms : o \in DOMAIN atoms[k].index => k = i
  BY <1>1, Found
<1>6. /\ atoms[i] \in Atom /\ atoms[i].index \in Index
      /\ DOMAIN atoms[i].index \subseteq Oid
      /\ \A x \in DOMAIN atoms[i].index : atoms[i].index[x] \in Reference
  BY <1>1, <1>4, AtomsAre
<1>7. atoms' = [atoms EXCEPT ![i].index[o].ref_count = count]
  BY DEF AcquireObject
<1>8. atoms[i].index[o].ref_count = held[o] % RefModulus /\ held[o] \in Nat
  BY <1>1, <1>4 DEF Counted, PageType
<1>9. held[o] < MaxRefs
  BY DEF AcquireObject
<1>10. count = (held[o] + 1) % RefModulus
  BY <1>8, CountUp
<1>11. held' = [held EXCEPT ![o] = held[o] + 1]
  BY DEF AcquireObject
<1>12. held[o] + 1 \in 0..MaxRefs /\ count \in 0..(RefModulus - 1)
  <2>1. held[o] + 1 \in Nat
    BY <1>8
  <2> QED
    BY <2>1, <1>8, <1>9, <1>10, Split, PageAssumption
<1> HIDE DEF i, count
<1>13. atoms' = [atoms EXCEPT ![i] = atom]
  BY <1>7, <1>4
<1>14. /\ DOMAIN index = DOMAIN atoms[i].index
       /\ \A x \in DOMAIN index : x # o => index[x] = atoms[i].index[x]
       /\ index[o] = [atoms[i].index[o] EXCEPT !.ref_count = count]
  BY <1>4
<1>15. /\ index[o] \in Reference
       /\ index[o].value = atoms[i].index[o].value
       /\ index[o].ref_count = count
  BY <1>14, <1>4, <1>6, <1>10, <1>12 DEF Reference
<1>16. index = [x \in DOMAIN index |-> index[x]]
  OBVIOUS
<1> HIDE DEF index
<1>17. index \in Index
  <2>1. \A x \in DOMAIN index : index[x] \in Reference
    BY <1>14, <1>15, <1>6
  <2>2. index \in [DOMAIN index -> Reference]
    BY <2>1, <1>16
  <2> QED
    BY <2>2, <1>14, <1>6, IndexIs
<1>18. atom \in Atom /\ atom.index = index
  BY <1>17, <1>6 DEF Atom
<1> HIDE DEF atom
<1>19. /\ atoms' \in Seq(Atom) /\ DOMAIN atoms' = DOMAIN atoms
       /\ atoms'[i] = atom
       /\ \A k \in DOMAIN atoms : k # i => atoms'[k] = atoms[k]
  BY <1>13, <1>18, <1>4, <1>1 DEF PageType
<1>20. /\ held' \in [Oid -> 0..MaxRefs]
       /\ held'[o] = held[o] + 1
       /\ \A x \in Oid : x # o => held'[x] = held[x]
  BY <1>11, <1>12, <1>1 DEF PageType
<1>21. \A k \in DOMAIN atoms : \A x \in DOMAIN atoms[k].index :
         /\ x \in Oid
         /\ Stays(x)
         /\ x # o => held'[x] % RefModulus = atoms[k].index[x].ref_count
  <2>1. \A x \in Oid : ~(held'[x] < held[x])
    BY <1>20, <1>8, <1>1, PageAssumption DEF PageType
  <2>2. \A k \in DOMAIN atoms : \A x \in DOMAIN atoms[k].index :
          x \in Oid /\ atoms[k].index[x].ref_count = held[x] % RefModulus
    BY <1>1, AtomsAre DEF Counted
  <2> QED
    BY <1>20, <2>1, <2>2 DEF Stays
<1>22. \A k \in DOMAIN atoms : DOMAIN atoms'[k].index = DOMAIN atoms[k].index
  BY <1>19, <1>18, <1>14
<1>23. ASSUME NEW k \in DOMAIN atoms, NEW x \in DOMAIN atoms[k].index
       PROVE  /\ atoms'[k].index[x].value = atoms[k].index[x].value
              /\ atoms'[k].index[x].ref_count = held'[x] % RefModulus
  <2>1. CASE k # i
    <3>1. atoms'[k] = atoms[k] /\ x # o
      BY <2>1, <1>19, <1>5
    <3> QED
      BY <3>1, <1>21
  <2>2. CASE k = i /\ x # o
    <3>1. atoms'[k].index[x] = atoms[k].index[x]
      BY <2>2, <1>19, <1>18, <1>14
    <3> QED
      BY <3>1, <2>2, <1>21
  <2>3. CASE k = i /\ x = o
    BY <2>3, <1>19, <1>18, <1>15, <1>10, <1>20
  <2> QED
    BY <2>1, <2>2, <2>3
<1>24. \A x \in Oid : held[x] = 0 => held'[x] = 0
  <2>1. held[o] > 0
    BY <1>1, <1>4 DEF Counted
  <2> QED
    BY <2>1, <1>20
<1>25. \A k \in DOMAIN atoms :
         DOMAIN atoms'[k].index = {x \in DOMAIN atoms[k].index : Stays(x)}
  BY <1>21, <1>22
<1>26. /\ overrun \subseteq overrun' /\ overrun' \subseteq overrun \cup Stored
       /\ \A x \in Oid : held'[x] >= RefModulus => x \in overrun'
  <2>1. overrun' = IF held'[o] < RefModulus THEN overrun ELSE overrun \cup {o}
    BY DEF AcquireObject
  <2>2. o \in Stored
    BY DEF AcquireObject
  <2>3. \A x \in Oid : held'[x] \in Nat
    BY <1>20, PageAssumption
  <2>4. \A x \in Oid : held[x] >= RefModulus => x \in overrun
    BY <1>1 DEF Counted
  <2>5. ASSUME NEW x \in Oid, held'[x] >= RefModulus PROVE x \in overrun'
    <3>1. CASE x = o
      BY <3>1, <2>1, <2>3, <2>5, PageAssumption
    <3>2. CASE x # o
      BY <3>2, <2>1, <2>4, <2>5, <1>20
    <3> QED
      BY <3>1, <3>2
  <2> QED
    BY <2>1, <2>2, <2>5
<1> QED
  BY <1>9, <1>19, <1>20, <1>22, <1>23, <1>24, <1>25, <1>26 DEF Recounted

(* delete_objects gives back one reference of each of its objects.         *)
LEMMA DeleteFacts ==
  ASSUME IInv, NEW os \in SUBSET Oid, DeleteObjects(os)
  PROVE  /\ Recounted
         /\ \A x \in Oid : held'[x] = IF x \in os /\ held[x] > 0
                                      THEN held[x] - 1 ELSE held[x]
<1>1. PageType /\ OneAtomPerObject /\ Counted
  BY DEF IInv, PageInv
<1>2. /\ held' \in [Oid -> 0..MaxRefs]
      /\ \A x \in Oid : held'[x] = IF x \in os /\ held[x] > 0
                                   THEN held[x] - 1 ELSE held[x]
  <2>1. held' = [x \in Oid |-> IF x \in os /\ held[x] > 0 THEN held[x] - 1
                               ELSE held[x]]
    BY DEF DeleteObjects
  <2>2. \A x \in Oid : held[x] \in 0..MaxRefs /\ held'[x] \in 0..MaxRefs
    BY <2>1, <1>1, PageAssumption DEF PageType
  <2> QED
    BY <2>1, <2>2
<1>5. /\ overrun \subseteq overrun' /\ overrun' \subseteq overrun \cup Stored
      /\ \A x \in Oid : held'[x] >= RefModulus => x \in overrun'
  <2>1. overrun' = overrun
    BY DEF DeleteObjects
  <2>2. ASSUME NEW x \in Oid, held'[x] >= RefModulus PROVE x \in overrun
    <3>1. held[x] \in Nat /\ held'[x] <= held[x]
      BY <1>1, <1>2, PageAssumption DEF PageType
    <3>2. held[x] >= RefModulus
      BY <3>1, <2>2, <1>2, PageAssumption
    <3> QED
      BY <3>2, <1>1 DEF Counted
  <2> QED
    BY <2>1, <2>2
<1>3. CASE atoms = <<>>
  <2>1. atoms' = atoms /\ DOMAIN atoms = {}
    BY <1>3 DEF DeleteObjects
  <2>2. atoms' \in Seq(Atom)
    BY <2>1, <1>1 DEF PageType
  <2>3. \A x \in Oid : held[x] = 0 => held'[x] = 0
    BY <1>2
  <2> QED
    BY <1>2, <1>5, <2>1, <2>2, <2>3 DEF Recounted
<1>4. CASE atoms # <<>>
  <2> DEFINE gone(i) == {x \in os \cap DOMAIN atoms[i].index : FindObject(x) = i}
             index(i) == Dropped(atoms[i].index, gone(i))
             atom(i) == [atoms[i] EXCEPT !.index = index(i)]
  <2>1. atoms' = [i \in DOMAIN atoms |-> atom(i)]
    BY <1>4 DEF DeleteObjects
  <2>2. ASSUME NEW i \in DOMAIN atoms
        PROVE  /\ atom(i) \in Atom
               /\ DOMAIN atom(i).index = {x \in DOMAIN atoms[i].index : Stays(x)}
               /\ \A x \in DOMAIN atom(i).index :
                    /\ atom(i).index[x].value = atoms[i].index[x].value
                    /\ atom(i).index[x].ref_count = held'[x] % RefModulus
    <3>1. /\ atoms[i] \in Atom /\ DOMAIN atoms[i].index \subseteq Oid
          /\ \A x \in DOMAIN atoms[i].index :
               /\ atoms[i].index[x] \in Reference
               /\ atoms[i].index[x].ref_count = held[x] % RefModulus
               /\ held[x] \in 1..MaxRefs
      <4>1. DOMAIN atoms[i].index \subseteq Oid
        BY <1>1, AtomsAre
      <4>2. \A x \in DOMAIN atoms[i].index : held[x] \in 0..MaxRefs /\ held[x] > 0
        BY <4>1, <1>1 DEF Counted, PageType
      <4>3. \A x \in DOMAIN atoms[i].index : held[x] \in 1..MaxRefs
        BY <4>2, PageAssumption
      <4> QED
        BY <4>1, <4>3, <1>1, AtomsAre DEF Counted
    <3>2. \A x \in DOMAIN atoms[i].index : x \in gone(i) <=> x \in os
      BY <3>1, <1>1, Found
    <3> HIDE DEF gone
    <3>3. \A x \in DOMAIN atoms[i].index :
            /\ x \in os => held'[x] = held[x] - 1
            /\ x \notin os => held'[x] = held[x]
            /\ held'[x] \in 0..MaxRefs
      BY <3>1, <1>2
    <3>4. DOMAIN index(i) = {x \in DOMAIN atoms[i].index : Stays(x)}
      <4>1. DOMAIN index(i) = {x \in DOMAIN atoms[i].index :
                     x \in gone(i) => atoms[i].index[x].ref_count # 1}
        BY DEF Dropped
      <4>2. ASSUME NEW x \in DOMAIN atoms[i].index
            PROVE  (x \in gone(i) => atoms[i].index[x].ref_count # 1)
                     <=> Stays(x)
        <5>1. /\ held[x] \in Nat /\ held[x] > 0
              /\ atoms[i].index[x].ref_count = held[x] % RefModulus
          BY <3>1, PageAssumption
        <5>2. held[x] % RefModulus = 1 <=> (held[x] - 1) % RefModulus = 0
          BY <5>1, CountDown
        <5>3. CASE x \in os
          <6>1. held'[x] = held[x] - 1 /\ held'[x] < held[x]
            BY <5>1, <5>3, <3>3
          <6> QED
            BY <6>1, <5>1, <5>2, <5>3, <3>2 DEF Stays
        <5>4. CASE x \notin os
          <6>1. ~(held'[x] < held[x])
            BY <5>1, <5>4, <3>3
          <6> QED
            BY <6>1, <5>4, <3>2 DEF Stays
        <5> QED
          BY <5>3, <5>4
      <4> QED
        BY <4>1, <4>2
    <3>5. ASSUME NEW x \in DOMAIN index(i)
          PROVE  /\ index(i)[x] \in Reference
                 /\ index(i)[x].value = atoms[i].index[x].value
                 /\ index(i)[x].ref_count = held'[x] % RefModulus
      <4>1. x \in DOMAIN atoms[i].index
        BY <3>4
      <4>2. /\ atoms[i].index[x] \in Reference
            /\ atoms[i].index[x].ref_count = held[x] % RefModulus
            /\ held[x] \in Nat /\ held[x] > 0
        BY <3>1, <4>1, PageAssumption
      <4>3. CASE x \in os
        <5> DEFINE count == (atoms[i].index[x].ref_count + RefModulus - 1)
                              % RefModulus
        <5>1. index(i)[x] = [atoms[i].index[x] EXCEPT !.ref_count = count]
          BY <4>1, <4>3, <3>2 DEF Dropped
        <5>2. count = held'[x] % RefModulus
          BY <4>2, <4>1, <4>3, <3>3, CountDown
        <5>3. held'[x] % RefModulus \in 0..(RefModulus - 1)
          <6>1. held'[x] \in Nat
            BY <3>3, <4>1, PageAssumption
          <6> QED
            BY <6>1, Split
        <5> HIDE DEF count
        <5> QED
          BY <5>1, <5>2, <5>3, <4>2 DEF Reference
      <4>4. CASE x \notin os
        <5>1. index(i)[x] = atoms[i].index[x]
          BY <4>1, <4>4, <3>2 DEF Dropped
        <5> QED
          BY <5>1, <4>1, <4>2, <4>4, <3>3
      <4> QED
        BY <4>3, <4>4
    <3>6. index(i) \in Index
      <4>1. DOMAIN index(i) \subseteq Oid
        BY <3>1, <3>4
      <4>2. index(i) = [x \in DOMAIN index(i) |-> index(i)[x]]
        BY DEF Dropped
      <4> HIDE DEF index
      <4>3. index(i) \in [DOMAIN index(i) -> Reference]
        BY <4>2, <3>5
      <4> QED
        BY <4>1, <4>3, IndexIs
    <3> HIDE DEF index
    <3>7. atom(i) \in Atom /\ atom(i).index = index(i)
      BY <3>1, <3>6 DEF Atom
    <3> HIDE DEF atom
    <3> QED
      BY <3>7, <3>4, <3>5
  <2> HIDE DEF atom
  <2>3. DOMAIN atoms' = DOMAIN atoms /\ \A i \in DOMAIN atoms : atoms'[i] = atom(i)
    BY <2>1
  <2>4. atoms' \in Seq(Atom)
    <3>1. Len(atoms) \in Nat /\ DOMAIN atoms = 1..Len(atoms)
      BY <1>1, AtomsAre
    <3>2. atoms' \in [1..Len(atoms) -> Atom]
      BY <2>1, <2>2, <3>1
    <3> QED
      BY <3>1, <3>2
  <2>5. \A x \in Oid : held[x] = 0 => held'[x] = 0
    BY <1>2
  <2> QED
    BY <1>2, <1>5, <2>2, <2>3, <2>4, <2>5 DEF Recounted
<1> QED
  BY <1>2, <1>3, <1>4

-----------------------------------------------------------------------------
(***************************************************************************)
(* The invariant.                                                          *)
(***************************************************************************)
LEMMA Initially == Init => IInv
<1> SUFFICES ASSUME Init PROVE IInv
  OBVIOUS
<1>1. atoms \in Seq(Atom) /\ DOMAIN atoms = {}
  BY DEF Init
<1>2. PageType
  <2>1. next_oid \in 1..(MaxOid + 1) /\ pending \subseteq 1..(next_oid - 1)
    BY PageAssumption DEF Init
  <2>2. held \in [Oid -> 0..MaxRefs]
    BY PageAssumption DEF Init
  <2> QED
    BY <1>1, <2>1, <2>2 DEF Init, PageType
<1>3. OneAtomPerObject /\ PendingIsNew
  BY <1>1 DEF OneAtomPerObject, PendingIsNew, Holders, Init
<1>4. Counted
  BY <1>1, PageAssumption DEF Counted, Init
<1>5. CursorType
  BY DEF CursorType, Init, NoCursor
<1> QED
  BY <1>2, <1>3, <1>4, <1>5 DEF IInv, PageInv

(* Ids once given out stay given out.                                      *)
LEMMA MoreIds ==
  ASSUME NEW m \in Nat, NEW n \in Nat, n >= m
  PROVE  1..(m - 1) \subseteq 1..(n - 1)
OBVIOUS

(* Steps that leave the objects alone.                                     *)
LEMMA QuietStep ==
  ASSUME IInv, UNCHANGED <<atoms, held, overrun>>, max_atom_size' \in AtomSize,
         next_oid' \in 1..(MaxOid + 1), next_oid' >= next_oid,
         pending' \subseteq 1..(next_oid' - 1),
         \A o \in pending' : o \in pending \/ o >= next_oid,
         faulted' \in BOOLEAN
  PROVE  PageInv'
<1>1. PageType /\ OneAtomPerObject /\ PendingIsNew /\ Counted
  BY DEF IInv, PageInv
<1>2. PageType'
  <2>1. overrun' \subseteq 1..(next_oid' - 1)
    <3>1. next_oid \in Nat /\ next_oid' \in Nat
      BY <1>1, PageAssumption DEF PageType
    <3>2. 1..(next_oid - 1) \subseteq 1..(next_oid' - 1)
      BY <3>1, MoreIds
    <3>3. overrun' = overrun /\ overrun \subseteq 1..(next_oid - 1)
      BY <1>1 DEF PageType
    <3> QED
      BY <3>2, <3>3
  <2> QED
    BY <1>1, <2>1 DEF PageType
<1>3. OneAtomPerObject'
  BY <1>1 DEF OneAtomPerObject, Holders
<1>4. PendingIsNew'
  <2>3. overrun \cap pending' = {}
    <3>1. \A o \in overrun : o \notin pending /\ o < next_oid
      BY <1>1, PageAssumption DEF PendingIsNew, PageType
    <3>2. \A o \in overrun : o \in Nat /\ next_oid \in Nat
      BY <1>1, PageAssumption DEF PageType
    <3> QED
      BY <3>1, <3>2
  <2> SUFFICES ASSUME NEW i \in DOMAIN atoms, NEW o \in DOMAIN atoms[i].index
               PROVE  o \notin pending' /\ o \in 1..(next_oid' - 1)
    BY <2>3 DEF PendingIsNew
  <2>1. o \notin pending /\ o \in 1..(next_oid - 1) /\ next_oid \in Nat
    BY <1>1, PageAssumption DEF PendingIsNew, PageType
  <2>2. next_oid' \in Nat
    BY PageAssumption
  <2> QED
    BY <2>1, <2>2
<1>5. Counted'
  BY <1>1 DEF Counted, Stored
<1> QED
  BY <1>2, <1>3, <1>4, <1>5 DEF PageInv

(* insert_object keeps the invariant: its object was in no index.          *)
LEMMA InsertStep ==
  ASSUME IInv, NEW o \in Oid, NEW v \in Value, NEW size \in ObjectSize,
         InsertObject(o, v, size)
  PROVE  PageInv'
<1>1. PageType /\ OneAtomPerObject /\ PendingIsNew /\ Counted
  BY DEF IInv, PageInv
<1>2. PICK k \in DOMAIN atoms' :
        /\ o \in DOMAIN atoms'[k].index
        /\ atoms'[k].index[o] = [value |-> v, ref_count |-> 1]
        /\ \A i \in DOMAIN atoms' : o \in DOMAIN atoms'[i].index => i = k
  BY InsertFacts
<1>3. \A i \in DOMAIN atoms' : \A x \in DOMAIN atoms'[i].index :
        x # o => /\ i \in DOMAIN atoms
                 /\ x \in DOMAIN atoms[i].index
                 /\ atoms'[i].index[x] = atoms[i].index[x]
  BY InsertFacts
<1>4. \A i \in DOMAIN atoms : \A x \in DOMAIN atoms[i].index :
        i \in DOMAIN atoms' /\ x \in DOMAIN atoms'[i].index
  BY InsertFacts
<1>5. held' = [held EXCEPT ![o] = 1] /\ 1 \in 0..MaxRefs
  BY PageAssumption DEF InsertObject
<1>6. PageType'
  <2>1. atoms' \in Seq(Atom)
    BY InsertFacts
  <2>2. held' \in [Oid -> 0..MaxRefs]
    BY <1>5, <1>1 DEF PageType
  <2> QED
    BY <2>1, <2>2, <1>1 DEF PageType, InsertObject
<1>7. OneAtomPerObject'
  <2> SUFFICES ASSUME NEW x \in Oid, NEW i \in DOMAIN atoms', NEW j \in DOMAIN atoms',
                      x \in DOMAIN atoms'[i].index, x \in DOMAIN atoms'[j].index
               PROVE  i = j
    BY DEF OneAtomPerObject, Holders
  <2>1. CASE x = o
    BY <2>1, <1>2
  <2>2. CASE x # o
    BY <2>2, <1>3, <1>1 DEF OneAtomPerObject, Holders
  <2> QED
    BY <2>1, <2>2
<1>8. PendingIsNew'
  <2>1. pending' = pending \ {o} /\ o \in pending
    BY DEF InsertObject
  <2>4. overrun' \cap pending' = {}
    BY <2>1, <1>1 DEF InsertObject, PendingIsNew
  <2> SUFFICES ASSUME NEW i \in DOMAIN atoms', NEW x \in DOMAIN atoms'[i].index
               PROVE  x \notin pending' /\ x \in 1..(next_oid - 1)
    BY <2>4 DEF PendingIsNew, InsertObject
  <2>2. CASE x = o
    BY <2>1, <2>2, <1>1 DEF PageType
  <2>3. CASE x # o
    BY <2>1, <2>3, <1>3, <1>1 DEF PendingIsNew
  <2> QED
    BY <2>2, <2>3
<1>9. Counted'
  <2>1. ASSUME NEW i \in DOMAIN atoms', NEW x \in DOMAIN atoms'[i].index
        PROVE  /\ atoms'[i].index[x].ref_count = held'[x] % RefModulus
               /\ held'[x] > 0
    <3>1. CASE x = o
      <4>1. held'[o] = 1 /\ i = k
        BY <3>1, <1>5, <1>2, <1>1 DEF PageType
      <4>2. 1 % RefModulus = 1
        BY SmallRemainders, PageAssumption
      <4> QED
        BY <4>1, <4>2, <3>1, <1>2
    <3>2. CASE x # o
      <4>1. /\ atoms'[i].index[x] = atoms[i].index[x]
            /\ atoms[i].index[x].ref_count = held[x] % RefModulus
            /\ held[x] > 0
        BY <3>2, <1>3, <1>1 DEF Counted
      <4>2. held'[x] = held[x]
        BY <3>2, <1>5, <1>1 DEF PageType
      <4> QED
        BY <4>1, <4>2
    <3> QED
      BY <3>1, <3>2
  <2>2. ASSUME NEW x \in Oid, held'[x] > 0
        PROVE  x \in Stored' \cup overrun'
    <3>1. CASE x = o
      BY <3>1, <1>2 DEF Stored
    <3>2. CASE x # o
      <4>1. held[x] > 0
        BY <2>2, <3>2, <1>5, <1>1 DEF PageType
      <4>2. x \in Stored \cup overrun
        BY <4>1, <1>1 DEF Counted
      <4>3. x \in Stored => x \in Stored'
        BY <1>4 DEF Stored
      <4>4. overrun' = overrun
        BY DEF InsertObject
      <4> QED
        BY <4>2, <4>3, <4>4
    <3> QED
      BY <3>1, <3>2
  <2>3. ASSUME NEW x \in Oid, held'[x] >= RefModulus
        PROVE  x \in overrun'
    <3>1. x # o
      BY <2>3, <1>5, <1>1, PageAssumption DEF PageType
    <3>2. held[x] >= RefModulus
      BY <3>1, <2>3, <1>5, <1>1 DEF PageType
    <3> QED
      BY <3>2, <1>1 DEF Counted, InsertObject
  <2> QED
    BY <2>1, <2>2, <2>3 DEF Counted
<1> QED
  BY <1>6, <1>7, <1>8, <1>9 DEF PageInv

(* So do the calls that count references.                                  *)
LEMMA RecountStep ==
  ASSUME IInv, Recounted, UNCHANGED <<max_atom_size, next_oid, pending>>,
         faulted' \in BOOLEAN
  PROVE  PageInv'
<1>1. PageType /\ OneAtomPerObject /\ PendingIsNew /\ Counted
  BY DEF IInv, PageInv
<1>2. /\ DOMAIN atoms' = DOMAIN atoms
      /\ \A i \in DOMAIN atoms :
           /\ DOMAIN atoms'[i].index = {x \in DOMAIN atoms[i].index : Stays(x)}
           /\ \A x \in DOMAIN atoms'[i].index :
                atoms'[i].index[x].ref_count = held'[x] % RefModulus
      /\ overrun \subseteq overrun' /\ overrun' \subseteq overrun \cup Stored
  BY DEF Recounted
<1>3. \A x \in Stored : x \notin pending /\ x \in 1..(next_oid - 1)
  BY <1>1 DEF PendingIsNew, Stored
<1>4. PageType'
  BY <1>1, <1>2, <1>3 DEF PageType, Recounted
<1>5. OneAtomPerObject'
  BY <1>1, <1>2 DEF OneAtomPerObject, Holders
<1>6. PendingIsNew'
  <2>1. overrun' \cap pending' = {}
    BY <1>1, <1>2, <1>3 DEF PendingIsNew
  <2> QED
    BY <1>1, <1>2, <2>1 DEF PendingIsNew
<1>7. \A x \in Oid : held[x] \in Nat /\ held'[x] \in Nat
  BY <1>1, PageAssumption DEF PageType, Recounted
<1>8. Counted'
  <2>1. ASSUME NEW i \in DOMAIN atoms', NEW x \in DOMAIN atoms'[i].index
        PROVE  /\ atoms'[i].index[x].ref_count = held'[x] % RefModulus
               /\ held'[x] > 0
    <3>1. x \in DOMAIN atoms[i].index /\ Stays(x)
      BY <1>2
    <3>2. held[x] > 0 /\ x \in Oid
      BY <3>1, <1>1, <1>2, AtomsAre DEF Counted
    <3>3. held'[x] < held[x] => held'[x] # 0
      BY <3>1, SmallRemainders, PageAssumption DEF Stays
    <3> QED
      BY <3>2, <3>3, <1>2, <1>7
  <2>2. ASSUME NEW x \in Oid, held'[x] > 0
        PROVE  x \in Stored' \cup overrun'
    <3>1. held[x] > 0
      BY <2>2, <1>7 DEF Recounted
    <3>2. CASE x \in overrun
      BY <3>2, <1>2
    <3>3. CASE x \notin overrun
      <4>1. PICK i \in DOMAIN atoms : x \in DOMAIN atoms[i].index
        BY <3>1, <3>3, <1>1 DEF Counted, Stored
      <4>2. held[x] < RefModulus
        BY <3>3, <1>1, <1>7, PageAssumption DEF Counted
      <4>3. Stays(x)
        <5>1. ASSUME held'[x] < held[x]
              PROVE  held'[x] % RefModulus = held'[x]
          <6>1. held'[x] \in Nat /\ held'[x] < RefModulus
            BY <5>1, <4>2, <1>7, PageAssumption
          <6> QED
            BY <6>1, SmallRemainders
        <5> QED
          BY <5>1, <2>2, <1>7 DEF Stays
      <4> QED
        BY <4>1, <4>3, <1>2 DEF Stored
    <3> QED
      BY <3>2, <3>3
  <2> QED
    BY <2>1, <2>2 DEF Counted, Recounted
<1> QED
  BY <1>4, <1>5, <1>6, <1>8 DEF PageInv

(* Every step keeps the invariant of the page.                             *)
LEMMA PageStep ==
  ASSUME IInv, [Next]_vars
  PROVE  PageInv'
<1>1. PageType
  BY DEF IInv, PageInv
<1>2. next_oid \in 1..(MaxOid + 1) /\ next_oid \in Nat
  BY <1>1, PageAssumption DEF PageType
<1>3. ASSUME NEW size \in AtomSize, SetMaxAtomSize(size)
      PROVE  PageInv'
  <2>1. /\ UNCHANGED <<atoms, held, overrun, next_oid, pending, faulted>>
        /\ max_atom_size' \in AtomSize
    BY <1>3 DEF SetMaxAtomSize, refVars
  <2> QED
    BY <2>1, <1>1, <1>2, QuietStep DEF PageType
<1>4. CASE GetNextOid
  <2>1. /\ UNCHANGED <<atoms, held, overrun, max_atom_size, faulted>>
        /\ next_oid' = next_oid + 1 /\ next_oid <= MaxOid
        /\ pending' = pending \cup {next_oid}
    BY <1>4 DEF GetNextOid, refVars
  <2>2. next_oid' \in 1..(MaxOid + 1) /\ next_oid' >= next_oid
    BY <2>1, <1>2, PageAssumption
  <2>3. pending' \subseteq 1..(next_oid' - 1)
    BY <2>1, <1>1, <1>2 DEF PageType
  <2>4. \A o \in pending' : o \in pending \/ o >= next_oid
    BY <2>1, <1>2
  <2> QED
    BY <2>1, <2>2, <2>3, <2>4, <1>1, QuietStep DEF PageType
<1>5. ASSUME NEW o \in Oid, NEW v \in Value, NEW size \in ObjectSize,
             InsertObject(o, v, size)
      PROVE  PageInv'
  BY <1>5, InsertStep
<1>6. ASSUME NEW o \in Oid, AcquireObject(o)
      PROVE  PageInv'
  <2>1. /\ UNCHANGED <<max_atom_size, next_oid, pending>>
        /\ faulted' \in BOOLEAN
    BY <1>6, <1>1 DEF AcquireObject, PageType
  <2> QED
    BY <2>1, <1>6, AcquireFacts, RecountStep
<1>7. ASSUME NEW os \in SUBSET Oid, DeleteObjects(os)
      PROVE  PageInv'
  <2>1. /\ UNCHANGED <<max_atom_size, next_oid, pending>>
        /\ faulted' \in BOOLEAN
    BY <1>7, <1>1 DEF DeleteObjects, PageType
  <2> QED
    BY <2>1, <1>7, DeleteFacts, RecountStep
<1>8. CASE UNCHANGED <<pageVars, refVars>> /\ faulted' \in BOOLEAN
  <2>1. UNCHANGED <<atoms, held, overrun, max_atom_size, next_oid, pending>>
    BY <1>8 DEF pageVars, refVars
  <2> QED
    BY <2>1, <1>8, <1>1, <1>2, QuietStep DEF PageType
<1>9. Open \/ Advance \/ Close \/ UNCHANGED vars
        => UNCHANGED <<pageVars, refVars>> /\ faulted' \in BOOLEAN
  BY <1>1 DEF Open, Advance, Close, vars, PageType
<1> QED
  BY <1>3, <1>4, <1>5, <1>6, <1>7, <1>8, <1>9 DEF Next

(* The cursor stays at an entry that is there, since nobody changes the    *)
(* page while it is open.                                                  *)
LEMMA CursorStep ==
  ASSUME IInv, [Next]_vars
  PROVE  CursorType'
<1>1. CursorType /\ PageType
  BY DEF IInv, PageInv
<1>2. /\ Len(atoms) \in Nat /\ DOMAIN atoms = 1..Len(atoms)
      /\ \A i \in DOMAIN atoms : Entries(i) \subseteq Oid
  BY <1>1, AtomsAre DEF Entries
<1>3. NoEntry \notin Oid
  BY DEF NoEntry, Oid
<1>4. CASE ~cursor.open /\ UNCHANGED cursorVars
  <2>1. cursor' = cursor /\ visited' = visited
    BY <1>4 DEF cursorVars
  <2> QED
    BY <2>1, <1>4, <1>1 DEF CursorType
<1>5. CASE Open
  <2>1. PICK e \in IF atoms = <<>> THEN {NoEntry} ELSE Begin(1) :
          /\ cursor' = [open |-> TRUE, atom_index |-> 1, entry |-> e,
                        at_end |-> FALSE]
          /\ visited' = {e} \ {NoEntry}
    BY <1>5 DEF Open
  <2>2. atoms' = atoms
    BY <1>5 DEF Open, pageVars
  <2>3. e = NoEntry \/ (1 \in DOMAIN atoms /\ e \in Entries(1))
    <3>1. atoms # <<>> => 1 \in DOMAIN atoms
      BY <1>1, <1>2 DEF PageType
    <3> QED
      BY <3>1, <2>1 DEF Begin
  <2>4. e \in Oid \cup {NoEntry}
    BY <2>3, <1>2
  <2>5. cursor' \in Cursor /\ visited' \subseteq Oid
    BY <2>1, <2>4 DEF Cursor
  <2>6. cursor'.entry # NoEntry =>
          /\ cursor'.atom_index \in DOMAIN atoms'
          /\ cursor'.entry \in DOMAIN atoms'[cursor'.atom_index].index
    BY <2>1, <2>2, <2>3 DEF Entries
  <2> QED
    BY <2>5, <2>6 DEF CursorType, Entries
<1>6. CASE Advance
  <2> DEFINE i == cursor.atom_index
             rest == Entries(i) \ {cursor.entry}
  <2>1. atoms' = atoms
    BY <1>6 DEF Advance, pageVars
  <2>2. cursor \in Cursor /\ cursor.open
    BY <1>6, <1>1 DEF Advance, CursorType, NoCursor
  <2>3. CASE cursor.entry = NoEntry
    <3>1. cursor' = cursor /\ visited' = visited
      BY <1>6, <2>3 DEF Advance, cursorVars
    <3> QED
      BY <3>1, <2>1, <1>1 DEF CursorType, Entries
  <2>4. CASE cursor.entry # NoEntry
    <3>1. i \in DOMAIN atoms /\ i \in Nat /\ visited \subseteq Oid
      BY <2>2, <2>4, <1>1, <1>2 DEF CursorType
    <3>2. ASSUME NEW j \in Nat, NEW e,
                 e = NoEntry \/ (j \in DOMAIN atoms /\ e \in Entries(j)),
                 Moved(j, e) \/ Ended(j, e)
          PROVE  CursorType'
      <4>1. e \in Oid \cup {NoEntry}
        BY <3>2, <1>2
      <4>2. /\ cursor' \in Cursor
            /\ cursor'.atom_index = j /\ cursor'.entry = e
        BY <3>2, <4>1, <2>2 DEF Moved, Ended, Cursor
      <4>3. visited' \subseteq Oid
        BY <3>1, <3>2, <4>1 DEF Moved, Ended
      <4>4. e # NoEntry => j \in DOMAIN atoms' /\ e \in DOMAIN atoms'[j].index
        BY <2>1, <3>2 DEF Entries
      <4> QED
        BY <4>2, <4>3, <4>4 DEF CursorType, Entries
    <3>3. \/ MoreAtoms(i) /\ \E e \in Begin(i + 1) : Moved(i + 1, e)
          \/ Ended(i + 1, NoEntry)
          \/ \E e \in rest : Ended(i, e)
      BY <1>6, <2>4 DEF Advance
    <3>4. CASE MoreAtoms(i) /\ \E e \in Begin(i + 1) : Moved(i + 1, e)
      <4>1. PICK e \in Begin(i + 1) : Moved(i + 1, e)
        BY <3>4
      <4>2. i + 1 \in DOMAIN atoms
        BY <3>4, <3>1, <1>2 DEF MoreAtoms
      <4>3. e = NoEntry \/ e \in Entries(i + 1)
        BY DEF Begin
      <4> QED
        BY <4>1, <4>2, <4>3, <3>1, <3>2
    <3>5. CASE Ended(i + 1, NoEntry)
      BY <3>5, <3>1, <3>2
    <3>6. CASE \E e \in rest : Ended(i, e)
      BY <3>6, <3>1, <3>2
    <3> QED
      BY <3>3, <3>4, <3>5, <3>6
  <2> QED
    BY <2>3, <2>4
<1>7. CASE Close
  BY <1>7 DEF Close, CursorType, NoCursor
<1>8. CASE UNCHANGED vars
  <2>1. atoms' = atoms /\ cursor' = cursor /\ visited' = visited
    BY <1>8 DEF vars, pageVars, cursorVars
  <2> QED
    BY <2>1, <1>1 DEF CursorType, Entries
<1>9. ASSUME NEW size \in AtomSize, SetMaxAtomSize(size)
      PROVE  CursorType'
  BY <1>4, <1>9 DEF SetMaxAtomSize, Ready
<1>10. CASE GetNextOid
  BY <1>4, <1>10 DEF GetNextOid, Ready
<1>11. ASSUME NEW o \in Oid, NEW v \in Value, NEW size \in ObjectSize,
              InsertObject(o, v, size)
       PROVE  CursorType'
  BY <1>4, <1>11 DEF InsertObject, Ready
<1>12. ASSUME NEW o \in Oid, AcquireObject(o)
       PROVE  CursorType'
  BY <1>4, <1>12 DEF AcquireObject, Ready
<1>13. ASSUME NEW os \in SUBSET Oid, DeleteObjects(os)
       PROVE  CursorType'
  BY <1>4, <1>13 DEF DeleteObjects, Ready
<1> QED
  BY <1>5, <1>6, <1>7, <1>8, <1>9, <1>10, <1>11, <1>12, <1>13 DEF Next

(* Every reachable state satisfies the invariant.                          *)
THEOREM Invariance == Spec => []IInv
<1>1. IInv /\ [Next]_vars => IInv'
  BY PageStep, CursorStep DEF IInv
<1> QED
  BY Initially, <1>1, PTL DEF Spec

(* The page and a cursor over it are well typed.                           *)
THEOREM TypeCorrect == Spec => []TypeOK
BY Invariance, TypeParts, PTL

(* No object is in the index of two atoms.                                 *)
THEOREM OneAtom == Spec => []OneAtomPerObject
<1>1. IInv => OneAtomPerObject
  BY DEF IInv, PageInv
<1> QED
  BY Invariance, <1>1, PTL

-----------------------------------------------------------------------------
(***************************************************************************)
(* The object store a page is.                                             *)
(***************************************************************************)
Objects == [o \in Stored \ overrun |->
              [value |-> atoms[FindObject(o)].index[o].value, refs |-> held[o]]]
Used == 1..(next_oid - 1) \ pending

(* The value of an object is the one in any index that has it.             *)
LEMMA ObjectsAre ==
  OneAtomPerObject /\ PageType =>
    /\ DOMAIN Objects = Stored \ overrun /\ Stored \subseteq Oid
    /\ \A i \in DOMAIN atoms : \A o \in DOMAIN atoms[i].index \ overrun :
         Objects[o] = [value |-> atoms[i].index[o].value, refs |-> held[o]]
<1> SUFFICES ASSUME OneAtomPerObject, PageType
             PROVE  /\ DOMAIN Objects = Stored \ overrun /\ Stored \subseteq Oid
                    /\ \A i \in DOMAIN atoms :
                         \A o \in DOMAIN atoms[i].index \ overrun :
                           Objects[o] = [value |-> atoms[i].index[o].value,
                                         refs |-> held[o]]
  OBVIOUS
<1>1. DOMAIN Objects = Stored \ overrun
  BY DEF Objects
<1>2. Stored \subseteq Oid
  BY AtomsAre DEF Stored
<1>3. ASSUME NEW i \in DOMAIN atoms, NEW o \in DOMAIN atoms[i].index \ overrun
      PROVE  Objects[o] = [value |-> atoms[i].index[o].value, refs |-> held[o]]
  <2>1. o \in Stored \ overrun
    BY DEF Stored
  <2>2. FindObject(o) = i
    BY <2>1, <1>2, Found
  <2> QED
    BY <2>1, <2>2 DEF Objects
<1> QED
  BY <1>1, <1>2, <1>3

(* The same in the next state.                                             *)
LEMMA ObjectsNext ==
  (OneAtomPerObject /\ PageType =>
    /\ DOMAIN Objects = Stored \ overrun /\ Stored \subseteq Oid
    /\ \A i \in DOMAIN atoms : \A o \in DOMAIN atoms[i].index \ overrun :
         Objects[o] = [value |-> atoms[i].index[o].value, refs |-> held[o]])'
BY ObjectsAre, PTL

(* insert_object adds one object.                                          *)
LEMMA StoredInserted ==
  ASSUME IInv, NEW o \in Oid, NEW v \in Value, NEW size \in ObjectSize,
         InsertObject(o, v, size)
  PROVE  Stored' = Stored \cup {o}
<1>1. \A x \in Stored' : x = o \/ x \in Stored
  <2>1. \A i \in DOMAIN atoms' : \A x \in DOMAIN atoms'[i].index :
          x # o => i \in DOMAIN atoms /\ x \in DOMAIN atoms[i].index
    BY InsertFacts
  <2> QED
    BY <2>1 DEF Stored
<1>2. \A i \in DOMAIN atoms : \A x \in DOMAIN atoms[i].index :
        i \in DOMAIN atoms' /\ x \in DOMAIN atoms'[i].index
  BY InsertFacts
<1>3. \A x \in Stored : x \in Stored'
  BY <1>2 DEF Stored
<1>4. o \in Stored'
  <2>1. \E k \in DOMAIN atoms' : o \in DOMAIN atoms'[k].index
    BY InsertFacts
  <2> QED
    BY <2>1 DEF Stored
<1> QED
  BY <1>1, <1>3, <1>4

(* insert_object puts an object under an id that was never used.           *)
LEMMA PutStep ==
  ASSUME IInv, PageInv', NEW o \in Oid, NEW v \in Value, NEW size \in ObjectSize,
         InsertObject(o, v, size)
  PROVE  /\ o \notin Used
         /\ Used' = Used \cup {o}
         /\ Objects' = [x \in DOMAIN Objects \cup {o} |->
              IF x = o THEN [value |-> v, refs |-> 1] ELSE Objects[x]]
<1>1. OneAtomPerObject /\ PageType /\ (OneAtomPerObject /\ PageType)'
  BY DEF IInv, PageInv
<1>2. o \notin Used /\ Used' = Used \cup {o}
  <2>1. /\ o \in pending /\ pending \subseteq 1..(next_oid - 1)
        /\ next_oid' = next_oid /\ pending' = pending \ {o}
    BY <1>1 DEF InsertObject, PageType
  <2> QED
    BY <2>1 DEF Used
<1>3. PICK k \in DOMAIN atoms' :
        /\ o \in DOMAIN atoms'[k].index
        /\ atoms'[k].index[o] = [value |-> v, ref_count |-> 1]
        /\ \A i \in DOMAIN atoms' : o \in DOMAIN atoms'[i].index => i = k
  BY InsertFacts
<1>4. \A i \in DOMAIN atoms' : \A x \in DOMAIN atoms'[i].index :
        x # o => /\ i \in DOMAIN atoms
                 /\ x \in DOMAIN atoms[i].index
                 /\ atoms'[i].index[x] = atoms[i].index[x]
  BY InsertFacts
<1>5. overrun' = overrun /\ o \notin overrun
  BY DEF InsertObject, IInv, PageInv, PendingIsNew
<1>6. held' = [held EXCEPT ![o] = 1]
  BY DEF InsertObject
<1>7. \A x \in Oid : held'[x] = IF x = o THEN 1 ELSE held[x]
  BY <1>6, <1>1 DEF PageType
<1>8. Stored' \ overrun' = (Stored \ overrun) \cup {o}
  BY <1>5, StoredInserted
<1>9. ASSUME NEW x \in Stored' \ overrun'
      PROVE  Objects'[x] = IF x = o THEN [value |-> v, refs |-> 1] ELSE Objects[x]
  <2>1. CASE x = o
    <3>1. Objects'[o] = [value |-> atoms'[k].index[o].value, refs |-> held'[o]]
      BY <1>1, <1>3, <1>5, ObjectsNext
    <3> QED
      BY <3>1, <2>1, <1>3, <1>7
  <2>2. CASE x # o
    <3>1. PICK i \in DOMAIN atoms' : x \in DOMAIN atoms'[i].index
      BY DEF Stored
    <3>2. Objects'[x] = [value |-> atoms'[i].index[x].value, refs |-> held'[x]]
      BY <1>1, <3>1, ObjectsNext
    <3>3. /\ i \in DOMAIN atoms /\ x \in DOMAIN atoms[i].index
          /\ atoms'[i].index[x] = atoms[i].index[x]
      BY <3>1, <2>2, <1>4
    <3>4. Objects[x] = [value |-> atoms[i].index[x].value, refs |-> held[x]]
      BY <1>1, <1>5, <3>3, ObjectsAre
    <3>5. x \in Oid
      BY <3>3, <1>1, AtomsAre
    <3> QED
      BY <3>2, <3>3, <3>4, <3>5, <2>2, <1>7
  <2> QED
    BY <2>1, <2>2
<1>10. /\ DOMAIN Objects = Stored \ overrun
       /\ Objects' = [x \in Stored' \ overrun' |-> Objects'[x]]
  BY DEF Objects
<1> QED
  BY <1>2, <1>8, <1>9, <1>10

(* Counting references leaves the objects stored that it says.             *)
LEMMA StoredRecounted ==
  ASSUME Recounted
  PROVE  Stored' = {y \in Stored : Stays(y)}
BY DEF Recounted, Stored

(* Acquiring and giving back change the references and drop what has none, *)
(* and what has had too many.                                              *)
LEMMA ObjectsRecounted ==
  ASSUME IInv, PageInv', Recounted
  PROVE  Objects' = [x \in {y \in DOMAIN Objects : Stays(y) /\ y \notin overrun'} |->
                       [Objects[x] EXCEPT !.refs = held'[x]]]
<1>1. OneAtomPerObject /\ PageType /\ (OneAtomPerObject /\ PageType)'
  BY DEF IInv, PageInv
<1>2. /\ DOMAIN atoms' = DOMAIN atoms /\ overrun \subseteq overrun'
      /\ \A i \in DOMAIN atoms :
           /\ DOMAIN atoms'[i].index = {x \in DOMAIN atoms[i].index : Stays(x)}
           /\ \A x \in DOMAIN atoms'[i].index :
                atoms'[i].index[x].value = atoms[i].index[x].value
  BY DEF Recounted
<1>3. Stored' \ overrun' = {y \in Stored \ overrun : Stays(y) /\ y \notin overrun'}
  BY <1>2, StoredRecounted
<1>4. ASSUME NEW x \in Stored' \ overrun'
      PROVE  Objects'[x] = [Objects[x] EXCEPT !.refs = held'[x]]
  <2>1. PICK i \in DOMAIN atoms : x \in DOMAIN atoms'[i].index
    BY <1>2 DEF Stored
  <2>2. Objects'[x] = [value |-> atoms'[i].index[x].value, refs |-> held'[x]]
    BY <1>1, <1>2, <2>1, ObjectsNext
  <2>3. x \in DOMAIN atoms[i].index \ overrun
    BY <1>2, <2>1
  <2>4. Objects[x] = [value |-> atoms[i].index[x].value, refs |-> held[x]]
    BY <1>1, <2>3, ObjectsAre
  <2>5. atoms'[i].index[x].value = atoms[i].index[x].value
    BY <1>2, <2>1
  <2> QED
    BY <2>2, <2>4, <2>5
<1>5. /\ DOMAIN Objects = Stored \ overrun
      /\ Objects' = [x \in Stored' \ overrun' |-> Objects'[x]]
  BY DEF Objects
<1> QED
  BY <1>3, <1>4, <1>5

(* What is known of an object of the store.                                *)
LEMMA ObjectFacts ==
  ASSUME IInv, NEW x \in DOMAIN Objects
  PROVE  /\ x \in Oid /\ x \in Stored /\ x \notin overrun
         /\ Objects[x].refs = held[x]
         /\ held[x] \in 1..(RefModulus - 1)
         /\ \A n : [Objects[x] EXCEPT !.refs = n] =
                     [value |-> Objects[x].value, refs |-> n]
         /\ Objects[x] = [value |-> Objects[x].value, refs |-> held[x]]
<1>1. OneAtomPerObject /\ PageType /\ Counted
  BY DEF IInv, PageInv
<1>2. x \in Oid /\ x \in Stored /\ x \notin overrun
  BY <1>1, ObjectsAre
<1>3. PICK i \in DOMAIN atoms : x \in DOMAIN atoms[i].index
  BY <1>2 DEF Stored
<1>4. Objects[x] = [value |-> atoms[i].index[x].value, refs |-> held[x]]
  BY <1>1, <1>2, <1>3, ObjectsAre
<1>5. held[x] > 0 /\ ~(held[x] >= RefModulus) /\ held[x] \in 0..MaxRefs
  BY <1>1, <1>2, <1>3 DEF Counted, PageType
<1>6. held[x] \in 1..(RefModulus - 1)
  BY <1>5, PageAssumption
<1> QED
  BY <1>2, <1>4, <1>6

(* acquire_object is an Acquire of the store, or an Overrun when it takes  *)
(* the counter past what it can count, or nothing when that has happened.  *)
LEMMA AcquireStep ==
  ASSUME IInv, PageInv', NEW o \in Oid, AcquireObject(o)
  PROVE  [Promised!Next]_(Promised!vars)
<1>1. PageType
  BY DEF IInv, PageInv
<1>2. Recounted /\ UNCHANGED <<next_oid, pending>>
  BY AcquireFacts DEF AcquireObject
<1>3. /\ o \in Stored /\ held \in [Oid -> 0..MaxRefs]
      /\ held' = [held EXCEPT ![o] = held[o] + 1]
      /\ overrun' = IF held'[o] < RefModulus THEN overrun ELSE overrun \cup {o}
  BY <1>1 DEF AcquireObject, PageType
<1>4. \A x \in Oid : held[x] \in Nat /\ held'[x] = IF x = o THEN held[x] + 1 ELSE held[x]
  BY <1>3, PageAssumption
<1>5. \A x \in Oid : Stays(x)
  BY <1>4 DEF Stays
<1>6. Objects' = [x \in {y \in DOMAIN Objects : y \notin overrun'} |->
                    [Objects[x] EXCEPT !.refs = held'[x]]]
  <2>1. {y \in DOMAIN Objects : Stays(y) /\ y \notin overrun'} =
          {y \in DOMAIN Objects : y \notin overrun'}
    BY <1>5, ObjectFacts
  <2> QED
    BY <1>2, <2>1, ObjectsRecounted
<1>7. \A x \in DOMAIN Objects : x # o => [Objects[x] EXCEPT !.refs = held'[x]] = Objects[x]
  <2> SUFFICES ASSUME NEW x \in DOMAIN Objects, x # o
               PROVE  [Objects[x] EXCEPT !.refs = held'[x]] = Objects[x]
    OBVIOUS
  <2>1. held'[x] = held[x]
    BY <1>4, ObjectFacts
  <2> QED
    BY <2>1, ObjectFacts
<1>8. Used' = Used
  BY <1>2 DEF Used
<1>9. Objects = [x \in DOMAIN Objects |-> Objects[x]]
  BY DEF Objects
<1>10. CASE o \in overrun
  <2>1. overrun' = overrun /\ \A x \in DOMAIN Objects : x # o /\ x \notin overrun
    BY <1>10, <1>3, ObjectFacts
  <2>2. {y \in DOMAIN Objects : y \notin overrun'} = DOMAIN Objects
    BY <2>1
  <2>3. Objects' = Objects
    BY <2>1, <2>2, <1>6, <1>7, <1>9
  <2> QED
    BY <2>3, <1>8 DEF Promised!vars, Objects, Used
<1>11. CASE o \notin overrun
  <2>1. o \in DOMAIN Objects
    BY <1>11, <1>3 DEF Objects
  <2>2. Objects[o].refs = held[o] /\ held[o] \in 1..(RefModulus - 1)
    BY <2>1, ObjectFacts
  <2>3. CASE held[o] < RefModulus - 1
    <3>1. overrun' = overrun
      BY <2>3, <2>2, <1>3, <1>4, PageAssumption
    <3>2. {y \in DOMAIN Objects : y \notin overrun'} = DOMAIN Objects
      BY <3>1, ObjectFacts
    <3>3. \A x \in DOMAIN Objects :
            Objects'[x] = IF x = o THEN [Objects[o] EXCEPT !.refs = @ + 1]
                          ELSE Objects[x]
      BY <3>2, <2>2, <1>4, <1>6, <1>7
    <3>4. Objects' = [x \in DOMAIN Objects |-> Objects'[x]]
      BY <3>2, <1>6
    <3>5. Objects' = [Objects EXCEPT ![o].refs = @ + 1]
      BY <3>3, <3>4, <1>9, <2>1
    <3>6. Promised!Acquire(o)
      BY <3>5, <2>1, <2>2, <2>3, <1>8 DEF Promised!Acquire, Objects, Used
    <3> QED
      BY <3>6 DEF Promised!Next
  <2>4. CASE ~(held[o] < RefModulus - 1)
    <3>1. held[o] = RefModulus - 1 /\ overrun' = overrun \cup {o}
      BY <2>4, <2>2, <1>3, <1>4, PageAssumption
    <3>2. {y \in DOMAIN Objects : y \notin overrun'} = DOMAIN Objects \ {o}
      BY <3>1, ObjectFacts
    <3>3. Objects' = [x \in DOMAIN Objects \ {o} |-> Objects[x]]
      BY <3>2, <1>6, <1>7
    <3>4. Promised!Overrun(o)
      BY <3>1, <3>3, <2>1, <2>2, <1>8 DEF Promised!Overrun, Objects, Used
    <3> QED
      BY <3>4 DEF Promised!Next
  <2> QED
    BY <2>3, <2>4
<1> QED
  BY <1>10, <1>11

(* delete_objects is a Release of the store.                               *)
LEMMA ReleaseStep ==
  ASSUME IInv, PageInv', NEW os \in SUBSET Oid, DeleteObjects(os)
  PROVE  Promised!Next
<1>1. Recounted /\ UNCHANGED <<next_oid, pending, overrun>>
  BY DeleteFacts DEF DeleteObjects
<1>2. ASSUME NEW x \in DOMAIN Objects
      PROVE  /\ held'[x] = IF x \in os THEN held[x] - 1 ELSE held[x]
             /\ Stays(x) <=> (x \in os => Objects[x].refs > 1)
             /\ [Objects[x] EXCEPT !.refs = held'[x]] =
                  IF x \in os THEN [Objects[x] EXCEPT !.refs = @ - 1]
                  ELSE Objects[x]
  <2>1. Objects[x].refs = held[x] /\ held[x] \in 1..(RefModulus - 1)
    BY ObjectFacts
  <2>2. held'[x] = IF x \in os THEN held[x] - 1 ELSE held[x]
    BY <2>1, DeleteFacts, ObjectFacts
  <2>3. held'[x] \in Nat /\ held'[x] < RefModulus
    BY <2>1, <2>2, PageAssumption
  <2>4. held'[x] % RefModulus = held'[x]
    BY <2>3, SmallRemainders
  <2>5. Stays(x) <=> (x \in os => Objects[x].refs > 1)
    BY <2>1, <2>2, <2>4, PageAssumption DEF Stays
  <2>6. [Objects[x] EXCEPT !.refs = held'[x]] =
          IF x \in os THEN [Objects[x] EXCEPT !.refs = @ - 1] ELSE Objects[x]
    BY <2>1, <2>2, ObjectFacts
  <2> QED
    BY <2>2, <2>5, <2>6
<1>3. {y \in DOMAIN Objects : Stays(y) /\ y \notin overrun'} =
        {y \in DOMAIN Objects : y \in os => Objects[y].refs > 1}
  BY <1>1, <1>2, ObjectFacts
<1>4. Objects' = [x \in {y \in DOMAIN Objects : y \in os => Objects[y].refs > 1} |->
                    IF x \in os THEN [Objects[x] EXCEPT !.refs = @ - 1]
                    ELSE Objects[x]]
  BY <1>1, <1>2, <1>3, ObjectsRecounted
<1>5. Used' = Used
  BY <1>1 DEF Used
<1>6. Promised!Release(os)
  BY <1>4, <1>5 DEF Promised!Release, Objects, Used
<1> QED
  BY <1>6 DEF Promised!Next

(* Every step of the page is one of the object store, or changes no object.*)
LEMMA StoreStep ==
  ASSUME IInv, PageInv', [Next]_vars
  PROVE  [Promised!Next]_(Promised!vars)
<1>1. PageType
  BY DEF IInv, PageInv
<1>2. CASE UNCHANGED <<atoms, held, overrun>> /\ Used' = Used
  <2>1. Objects' = Objects
    BY <1>2 DEF Objects, Stored, FindObject, Holders
  <2> QED
    BY <2>1, <1>2 DEF Promised!vars, Objects, Used
<1>3. ASSUME NEW size \in AtomSize, SetMaxAtomSize(size)
      PROVE  [Promised!Next]_(Promised!vars)
  BY <1>2, <1>3 DEF SetMaxAtomSize, refVars, Used
<1>4. CASE GetNextOid
  <2>1. /\ UNCHANGED <<atoms, held, overrun>> /\ next_oid' = next_oid + 1
        /\ pending' = pending \cup {next_oid}
    BY <1>4 DEF GetNextOid, refVars
  <2>2. next_oid \in Nat
    BY <1>1, PageAssumption DEF PageType
  <2>3. Used' = Used
    BY <2>1, <2>2 DEF Used
  <2> QED
    BY <2>1, <2>3, <1>2
<1>5. ASSUME NEW o \in Oid, NEW v \in Value, NEW size \in ObjectSize,
             InsertObject(o, v, size)
      PROVE  Promised!Next
  <2>1. /\ o \notin Used
        /\ Used' = Used \cup {o}
        /\ Objects' = [x \in DOMAIN Objects \cup {o} |->
             IF x = o THEN [value |-> v, refs |-> 1] ELSE Objects[x]]
    BY <1>5, PutStep
  <2>2. Promised!Put(o, v)
    BY <2>1 DEF Promised!Put, Objects, Used
  <2> QED
    BY <2>2 DEF Promised!Next
<1>6. ASSUME NEW o \in Oid, AcquireObject(o)
      PROVE  [Promised!Next]_(Promised!vars)
  BY <1>6, AcquireStep
<1>7. ASSUME NEW os \in SUBSET Oid, DeleteObjects(os)
      PROVE  Promised!Next
  BY <1>7, ReleaseStep
<1>8. CASE Open \/ Advance \/ Close \/ UNCHANGED vars
  <2>1. UNCHANGED <<atoms, held, overrun, next_oid, pending>>
    BY <1>8 DEF Open, Advance, Close, vars, pageVars, refVars
  <2> QED
    BY <2>1, <1>2 DEF Used
<1> QED
  BY <1>3, <1>4, <1>5, <1>6, <1>7, <1>8 DEF Next

(* An empty page is an empty store.                                        *)
LEMMA StoreInit == Init => Promised!Init
<1> SUFFICES ASSUME Init PROVE Promised!Init
  OBVIOUS
<1>1. Stored = {}
  BY DEF Init, Stored
<1>2. Used = {}
  BY DEF Init, Used
<1> QED
  BY <1>1, <1>2 DEF Promised!Init, Used

(* Seen through find_object the page is an object store, whatever the      *)
(* width of the counter and however many references are acquired.          *)
THEOREM IsObjectStore == Spec => ImplementsObjectStore
<1>1. IInv /\ IInv' /\ [Next]_vars => [Promised!Next]_(Promised!vars)
  BY StoreStep DEF IInv
<1> QED
  BY Invariance, StoreInit, <1>1, PTL DEF Spec, ImplementsObjectStore, Promised!Spec

(* An object is erased under somebody who holds it only when the           *)
(* references still out make the counter go round exactly.                 *)
THEOREM LossesAreWraps == Spec => LostOnlyByWrap
<1> DEFINE Lost == \A o \in Stored : o \notin Stored' => held'[o] % RefModulus = 0
<1>1. ASSUME IInv, [Next]_vars
      PROVE  Lost
  <2>1. CASE UNCHANGED atoms
    BY <2>1 DEF Stored
  <2>2. ASSUME NEW o \in Oid, NEW v \in Value, NEW size \in ObjectSize,
               InsertObject(o, v, size)
        PROVE  Lost
    BY <1>1, <2>2, StoredInserted
  <2>3. CASE Recounted
    BY <2>3, StoredRecounted DEF Stays
  <2>4. ASSUME NEW o \in Oid, AcquireObject(o)
        PROVE  Lost
    BY <1>1, <2>3, <2>4, AcquireFacts
  <2>5. ASSUME NEW os \in SUBSET Oid, DeleteObjects(os)
        PROVE  Lost
    BY <1>1, <2>3, <2>5, DeleteFacts
  <2>6. CASE (\E size \in AtomSize : SetMaxAtomSize(size)) \/ GetNextOid
             \/ Open \/ Advance \/ Close \/ UNCHANGED vars
    BY <2>1, <2>6 DEF SetMaxAtomSize, GetNextOid, Open, Advance, Close, vars, pageVars
  <2> QED
    BY <1>1, <2>2, <2>4, <2>5, <2>6 DEF Next
<1>2. IInv /\ [Next]_vars => [Lost]_vars
  BY <1>1
<1> QED
  BY Invariance, <1>2, PTL DEF Spec, LostOnlyByWrap
=============================================================================
