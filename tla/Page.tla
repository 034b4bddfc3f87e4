-------------------------------- MODULE Page ---------------------------------
(***************************************************************************)
(* A column page (src/src/lib/cell/cpp/page.h) and a cursor over it        *)
(* (page_cursor.h).  A page is a list of atoms, each with an index from    *)
(* object ids to what is stored and a counter of references.  An atom is   *)
(* only ever appended to, so the value stands for the offset at which the  *)
(* index finds it.  An object goes by the id get_next_oid gave out for it, *)
(* as in table::insert_row.                                                *)
(*                                                                         *)
(* An operator named Faulty... is a definition with a plausible mistake,   *)
(* used only to see that a property notices it.                            *)
(***************************************************************************)
EXTENDS Naturals, Sequences

CONSTANTS
  Value,
  ObjectSize,  (* the sizes objects come in                                *)
  AtomSize,    (* the values max_atom_size may have                        *)
  RefModulus,  (* reference_count_type counts modulo this, 256 in the code *)
  MaxOid,      (* bound: object ids given out                              *)
  MaxRefs      (* bound: references its users hold to an object at a time  *)

ASSUME PageAssumption ==
  /\ ObjectSize \subseteq Nat \ {0}
  /\ AtomSize \subseteq Nat \ {0}
  /\ AtomSize # {}
  /\ MaxOid \in Nat
  /\ MaxRefs \in Nat \ {0}
  /\ RefModulus \in Nat \ {0, 1}

VARIABLES
  atoms,          (* sequence of atoms                                     *)
  max_atom_size,
  next_oid,
  pending,        (* ids given out and not inserted under yet              *)
  faulted,        (* whether an iterator was used that points nowhere      *)
  cursor,         (* the cursor, or NoCursor                               *)
  (* History variables; no action reads them.                              *)
  visited,        (* the objects the cursor has been at                    *)
  held,           (* for each object, the references its users hold        *)
  overrun         (* the objects whose counter has wrapped                 *)

pageVars == <<atoms, max_atom_size, next_oid, pending>>
cursorVars == <<cursor, visited>>
refVars == <<held, overrun>>
vars == <<pageVars, faulted, cursorVars, refVars>>

Oid == 1..MaxOid
NoCursor == [open |-> FALSE]
NoEntry == 0   (* end(), or an iterator that was never set *)

Reference == [value : Value, ref_count : 0..(RefModulus - 1)]

(* An index is a partial map from object ids to references.                *)
IsAtom(a) ==
  /\ DOMAIN a = {"index", "size"}
  /\ DOMAIN a.index \subseteq Oid
  /\ a.index \in [DOMAIN a.index -> Reference]
  /\ a.size \in Nat

Cursor == [open : {TRUE}, atom_index : Nat, entry : Oid \cup {NoEntry},
           at_end : BOOLEAN]

TypeOK ==
  /\ atoms = [i \in 1..Len(atoms) |-> atoms[i]]
  /\ \A i \in DOMAIN atoms : IsAtom(atoms[i])
  /\ max_atom_size \in AtomSize
  /\ next_oid \in 1..(MaxOid + 1)
  /\ pending \subseteq 1..(next_oid - 1)
  /\ faulted \in BOOLEAN
  /\ cursor \in Cursor \cup {NoCursor}
  /\ visited \subseteq Oid
  /\ held \in [Oid -> 0..MaxRefs]
  /\ overrun \subseteq Oid

(* The constructor passes k_max_atom_size on before it is initialised, so  *)
(* the first maximum is whatever the memory holds.                         *)
Init ==
  /\ atoms = <<>>
  /\ max_atom_size \in AtomSize
  /\ next_oid = 1
  /\ pending = {}
  /\ faulted = FALSE
  /\ cursor = NoCursor
  /\ visited = {}
  /\ held = [o \in Oid |-> 0]
  /\ overrun = {}

Ready == ~faulted /\ ~cursor.open

-----------------------------------------------------------------------------
(***************************************************************************)
(* The page.                                                               *)
(***************************************************************************)
SetMaxAtomSize(size) ==
  /\ Ready
  /\ max_atom_size' = size
  /\ UNCHANGED <<atoms, next_oid, pending, faulted, cursorVars, refVars>>

(* Faulty: the id is counted up before it is given out.                    *)
FaultyGetNextOid ==
  /\ Ready
  /\ next_oid <= MaxOid
  /\ next_oid' = next_oid + 1
  /\ pending' = pending \cup {next_oid + 1}
  /\ UNCHANGED <<atoms, max_atom_size, faulted, cursorVars, refVars>>

GetNextOid ==
  /\ Ready
  /\ next_oid <= MaxOid
  /\ next_oid' = next_oid + 1
  /\ pending' = pending \cup {next_oid}
  /\ UNCHANGED <<atoms, max_atom_size, faulted, cursorVars, refVars>>

(* The atoms in whose index an object is, and all objects.                 *)
Holders(o) == {i \in DOMAIN atoms : o \in DOMAIN atoms[i].index}
Stored == UNION {DOMAIN atoms[i].index : i \in DOMAIN atoms}

(* find_object: the first of them.                                         *)
FindObject(o) == CHOOSE i \in Holders(o) : \A j \in Holders(o) : i <= j

(* unordered_map::insert keeps an entry that is there already.             *)
Indexed(index, o, v) ==
  [x \in DOMAIN index \cup {o} |->
     IF x \in DOMAIN index THEN index[x] ELSE [value |-> v, ref_count |-> 1]]

(* Faulty: the index of the new atom takes over that of the last one.      *)
FaultyWithObject(o, v, size) ==
  LET n == Len(atoms)
      new == [index |-> [x \in {o} |-> [value |-> v, ref_count |-> 1]], size |-> size]
  IN  IF n = 0 THEN <<new>>
      ELSE IF atoms[n].size > max_atom_size
        THEN Append(atoms, [new EXCEPT !.index = Indexed(atoms[n].index, o, v)])
      ELSE [atoms EXCEPT ![n].index = Indexed(@, o, v), ![n].size = @ + size]

(* get_last_atom opens a new atom when the last one has exceeded the       *)
(* maximum; the object goes to the end of the last atom.                   *)
WithObject(o, v, size) ==
  LET n == Len(atoms)
      new == [index |-> [x \in {o} |-> [value |-> v, ref_count |-> 1]], size |-> size]
  IN  IF n = 0 \/ atoms[n].size > max_atom_size
        THEN Append(atoms, new)
      ELSE [atoms EXCEPT ![n].index = Indexed(@, o, v), ![n].size = @ + size]

InsertObject(o, v, size) ==
  /\ Ready
  /\ o \in pending
  /\ pending' = pending \ {o}
  /\ atoms' = WithObject(o, v, size)
  /\ held' = [held EXCEPT ![o] = 1]
  /\ UNCHANGED <<max_atom_size, next_oid, faulted, cursorVars, overrun>>

(* Faulty: a counter that is full stays so.                                *)
FaultyIncremented(n) == IF n = RefModulus - 1 THEN n ELSE n + 1

Incremented(n) == (n + 1) % RefModulus

(* Nothing in the code limits the references; MaxRefs only bounds what the *)
(* users take, and may be larger than what the counter can count.          *)
AcquireObject(o) ==
  /\ Ready
  /\ o \in Stored
  /\ held[o] < MaxRefs
  /\ atoms' = [atoms EXCEPT
                 ![FindObject(o)].index[o].ref_count = Incremented(@)]
  /\ held' = [held EXCEPT ![o] = @ + 1]
  /\ overrun' = IF held'[o] < RefModulus THEN overrun ELSE overrun \cup {o}
  /\ UNCHANGED <<max_atom_size, next_oid, pending, faulted, cursorVars>>

(* Faulty: an object goes when its count reaches one.                      *)
FaultyDropped(index, os) ==
  [o \in {x \in DOMAIN index : x \in os => index[x].ref_count > 2} |->
     IF o \in os THEN [index[o] EXCEPT !.ref_count = @ - 1] ELSE index[o]]

(* An index whose objects os have been given back once.                    *)
Dropped(index, os) ==
  [o \in {x \in DOMAIN index : x \in os => index[x].ref_count # 1} |->
     IF o \in os
       THEN [index[o] EXCEPT !.ref_count = (@ + RefModulus - 1) % RefModulus]
     ELSE index[o]]

(* delete_objects calls delete_object on each.  No atom ever has size 0,   *)
(* since deleting does not lower it, so no atom is erased.  find_object    *)
(* takes the last atom of a list that may be empty.                        *)
DeleteObjects(os) ==
  /\ Ready
  /\ IF atoms = <<>>
       THEN /\ faulted' = (os # {})
            /\ UNCHANGED atoms
       ELSE /\ atoms' = [i \in DOMAIN atoms |->
                 [atoms[i] EXCEPT !.index =
                    Dropped(@, {o \in os \cap DOMAIN @ : FindObject(o) = i})]]
            /\ UNCHANGED faulted
  /\ held' = [o \in Oid |-> IF o \in os /\ held[o] > 0 THEN held[o] - 1
                            ELSE held[o]]
  /\ UNCHANGED <<max_atom_size, next_oid, pending, cursorVars, overrun>>

-----------------------------------------------------------------------------
(***************************************************************************)
(* The cursor.  The callers do not change a page while they walk it.  An   *)
(* index is a hash table: begin and ++ go through it in any order.  The    *)
(* cursor only ever moves on from the entry begin gave it.                 *)
(***************************************************************************)
Entries(i) == DOMAIN atoms[i].index

Begin(i) == IF Entries(i) = {} THEN {NoEntry} ELSE Entries(i)

Open ==
  /\ Ready
  /\ \E e \in IF atoms = <<>> THEN {NoEntry} ELSE Begin(1) :
       /\ cursor' = [open |-> TRUE, atom_index |-> 1, entry |-> e,
                     at_end |-> FALSE]
       /\ visited' = {e} \ {NoEntry}
  /\ UNCHANGED <<pageVars, faulted, refVars>>

Moved(i, e) ==
  /\ cursor' = [cursor EXCEPT !.atom_index = i, !.entry = e]
  /\ visited' = visited \cup ({e} \ {NoEntry})

Ended(i, e) ==
  /\ cursor' = [cursor EXCEPT !.atom_index = i, !.entry = e, !.at_end = TRUE]
  /\ UNCHANGED visited

MoreAtoms(i) == i < Len(atoms)

Advance ==
  /\ ~faulted /\ cursor.open
  /\ ~cursor.at_end
  /\ LET i    == cursor.atom_index
         rest == Entries(i) \ {cursor.entry}
     IN  IF cursor.entry = NoEntry
           THEN /\ faulted' = TRUE
                /\ UNCHANGED cursorVars
         ELSE /\ UNCHANGED faulted
              /\ \/ /\ rest = {}
                    /\ MoreAtoms(i)
                    /\ \E e \in Begin(i + 1) : Moved(i + 1, e)
                 \/ /\ rest = {}
                    /\ ~MoreAtoms(i)
                    /\ Ended(i + 1, NoEntry)
                 \/ \E e \in rest : Ended(i, e)
  /\ UNCHANGED <<pageVars, refVars>>

Close ==
  /\ ~faulted /\ cursor.open
  /\ cursor' = NoCursor
  /\ visited' = {}
  /\ UNCHANGED <<pageVars, faulted, refVars>>

Next ==
  \/ \E size \in AtomSize : SetMaxAtomSize(size)
  \/ GetNextOid
  \/ \E o \in Oid, v \in Value, size \in ObjectSize : InsertObject(o, v, size)
  \/ \E o \in Oid : AcquireObject(o)
  \/ \E os \in SUBSET Oid : DeleteObjects(os)
  \/ Open
  \/ Advance
  \/ Close

Spec == Init /\ [][Next]_vars

-----------------------------------------------------------------------------
(***************************************************************************)
(* What holds.                                                             *)
(***************************************************************************)

(* No object is in the index of two atoms, whatever the sizes and the      *)
(* changes of the maximum: find_object may take the first it meets and     *)
(* delete_object leaves nothing behind that could turn up again.           *)
OneAtomPerObject == \A o \in Oid : \A i, j \in Holders(o) : i = j

(* Seen through find_object the page is an object store: an object keeps   *)
(* its value however the atoms are filled, and is there exactly until its  *)
(* users have given the last reference back.  The counter is eight bits    *)
(* wide and nothing watches it: of an object that has ever had as many     *)
(* references as make it wrap, nothing is promised.                        *)
Promised == INSTANCE ObjectStore WITH
  objects <- [o \in Stored \ overrun |->
                [value |-> atoms[FindObject(o)].index[o].value,
                 refs |-> held[o]]],
  used <- 1..(next_oid - 1) \ pending,
  Limit <- RefModulus - 1
ImplementsObjectStore == Promised!Spec

(* How far the wrap reaches, however often it happens: when delete_object  *)
(* erases an object, the references that are still out are none, or just   *)
(* as many as make the counter go round.  At no other moment is an object  *)
(* taken from somebody who holds it.                                       *)
LostOnlyByWrap ==
  [][\A o \in Stored : o \notin Stored' => held'[o] % RefModulus = 0]_vars

(* page_cursor.h:50: end_of_page "Indicates when we are at the end of the  *)
(* page", and the test CanIterate walks over all objects until it does.    *)
(* advance says so as soon as the next object is in the same atom.         *)
WalkVisitsAll == cursor.open => (cursor.at_end => visited = Stored)
=============================================================================
