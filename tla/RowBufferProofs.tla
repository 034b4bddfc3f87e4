--------------------------- MODULE RowBufferProofs ---------------------------
(***************************************************************************)
(* What the run of RowBuffer checks for two producers and two consumers,   *)
(* for any number of threads and rows and for any header.  The argument is *)
(* the inductive invariant IInv: who is in the critical section has locked *)
(* it, each call of dequeue has taken a row or is still to take one, and   *)
(* no row goes in twice.  Unpacked adds to it what is in current_row.      *)
(***************************************************************************)
EXTENDS RowBuffer, FiniteSetTheorems, SequenceTheorems, WellFoundedInduction,
        TLAPS

(* Where the threads are, and what the lock says of it.                    *)
Control == TypeOK /\ RowsPresent /\ Exclusion /\ FrontHeld

(* What has gone in has come out or is in the queue.                       *)
Fifo == pushed = taken \o rows

(* The owners of copies, as CopiesOwnedOnce has them.                      *)
Made == {p \in Producer : producer[p].row # None}
Holder == {c \in Consumer : consumer[c].at \in {"clear", "unpack"}}
MadeRows == {producer[p].row : p \in Made}
QueuedRows == {rows[i] : i \in DOMAIN rows}
HeldRows == {consumer[c].row : c \in Holder}

(* To take the front and pop it leaves the same rows, taken or queued.     *)
LEMMA TakeFront ==
  ASSUME NEW S, NEW s \in Seq(S), NEW q \in Seq(S), q # <<>>
  PROVE  Append(s, Head(q)) \o Tail(q) = s \o q
<1> DEFINE a == Append(s, Head(q)) \o Tail(q)
           b == s \o q
<1>1. /\ Head(q) \in S /\ Tail(q) \in Seq(S)
      /\ Len(q) \in Nat /\ Len(q) > 0 /\ Len(s) \in Nat
      /\ Len(Tail(q)) = Len(q) - 1
  OBVIOUS
<1>2. /\ Append(s, Head(q)) \in Seq(S)
      /\ Len(Append(s, Head(q))) = Len(s) + 1
  BY <1>1
<1>3. a \in Seq(S) /\ b \in Seq(S)
  BY <1>1, <1>2
<1>4. Len(a) = Len(s) + Len(q) /\ Len(b) = Len(s) + Len(q)
  BY <1>1, <1>2
<1>5. ASSUME NEW i \in 1..(Len(s) + Len(q)) PROVE a[i] = b[i]
  <2>1. CASE i <= Len(s)
    BY <1>1, <1>2, <2>1
  <2>2. CASE i = Len(s) + 1
    BY <1>1, <1>2, <2>2
  <2>3. CASE i > Len(s) + 1
    <3>1. a[i] = Tail(q)[i - (Len(s) + 1)]
      BY <1>1, <1>2, <2>3
    <3>2. Tail(q)[i - (Len(s) + 1)] = q[i - Len(s)]
      BY <1>1, <2>3
    <3>3. b[i] = q[i - Len(s)]
      BY <1>1, <2>3
    <3> QED
      BY <3>1, <3>2, <3>3
  <2> QED
    BY <1>1, <2>1, <2>2, <2>3
<1> HIDE DEF a, b
<1>6. a = b
  BY <1>3, <1>4, <1>5, SeqEqual
<1> QED
  BY <1>6 DEF a, b

(* To put a row in the queue adds it to what has been pushed.              *)
LEMMA PutBack ==
  ASSUME NEW S, NEW s \in Seq(S), NEW q \in Seq(S), NEW r \in S
  PROVE  s \o Append(q, r) = Append(s \o q, r)
<1>1. /\ s \o Append(q, r) \in Seq(S) /\ Append(s \o q, r) \in Seq(S)
      /\ Len(s) \in Nat /\ Len(q) \in Nat
      /\ Len(s \o Append(q, r)) = Len(s) + Len(q) + 1
      /\ Len(Append(s \o q, r)) = Len(s) + Len(q) + 1
  OBVIOUS
<1>2. \A i \in 1..(Len(s) + Len(q) + 1) :
        (s \o Append(q, r))[i] = Append(s \o q, r)[i]
  BY <1>1
<1> QED
  BY <1>1, <1>2, SeqEqual

-----------------------------------------------------------------------------
(* Control, action by action.                                              *)
LEMMA ControlCopy ==
  ASSUME Control, NEW p \in Producer, NEW r \in Row, Copy(p, r)
  PROVE  Control'
  BY RowBufferAssumption
  DEF Control, TypeOK, RowsPresent, Exclusion, FrontHeld, Copy, queueVars,
      historyVars

(* The producer enters an empty section.                                   *)
LEMMA ControlLockProducer ==
  ASSUME Control, NEW p \in Producer, LockProducer(p)
  PROVE  Control'
<1> USE RowBufferAssumption DEF Control
<1>1. TypeOK'
  BY DEF TypeOK, LockProducer, historyVars
<1>2. RowsPresent'
  BY DEF TypeOK, RowsPresent, LockProducer
<1>3. Exclusion'
  BY DEF TypeOK, Exclusion, LockProducer, MayEnter
<1>4. FrontHeld'
  BY DEF FrontHeld, LockProducer
<1> QED
  BY <1>1, <1>2, <1>3, <1>4

(* The producer is alone in the section it leaves.                         *)
LEMMA ControlPush ==
  ASSUME Control, NEW p \in Producer, Push(p)
  PROVE  Control'
<1> USE RowBufferAssumption DEF Control
<1>1. producer[p].row \in Row
  BY DEF RowsPresent, Push
<1>2. \A q \in Producer : q # p => producer[q].at # "push"
  BY DEF Exclusion, Push
<1>3. \A c \in Consumer : consumer[c].at \notin {"front", "pop"}
  BY DEF Exclusion, Push
<1>4. TypeOK'
  BY <1>1 DEF TypeOK, Push, Queued
<1>5. RowsPresent'
  BY DEF TypeOK, RowsPresent, Push
<1>6. Exclusion'
  BY <1>2, <1>3 DEF TypeOK, Exclusion, Push
<1>7. FrontHeld'
  BY <1>3 DEF FrontHeld, Push
<1> QED
  BY <1>4, <1>5, <1>6, <1>7

(* A call of dequeue takes nothing yet.                                    *)
LEMMA ControlCallDequeue ==
  ASSUME Control, NEW c \in Consumer, CallDequeue(c)
  PROVE  Control'
  BY DEF Control, TypeOK, RowsPresent, Exclusion, FrontHeld, CallDequeue,
         queueVars

(* A consumer enters an empty section when there is a row.                 *)
LEMMA ControlLockConsumer ==
  ASSUME Control, NEW c \in Consumer, LockConsumer(c)
  PROVE  Control'
<1> USE RowBufferAssumption DEF Control
<1>1. TypeOK'
  BY DEF TypeOK, LockConsumer, historyVars
<1>2. RowsPresent'
  BY DEF TypeOK, RowsPresent, LockConsumer
<1>3. Exclusion'
  BY DEF TypeOK, Exclusion, LockConsumer, MayEnter
<1>4. FrontHeld'
  BY DEF TypeOK, FrontHeld, LockConsumer
<1> QED
  BY <1>1, <1>2, <1>3, <1>4

(* The row in front is the one the consumer has when it pops.              *)
LEMMA ControlFront ==
  ASSUME Control, NEW c \in Consumer, Front(c)
  PROVE  Control'
<1> USE DEF Control
<1>1. Head(rows) \in Row
  BY DEF TypeOK, Front
<1>2. TypeOK'
  BY <1>1 DEF TypeOK, Front, queueVars, historyVars
<1>3. RowsPresent'
  BY <1>1 DEF TypeOK, RowsPresent, Front
<1>4. Exclusion'
  BY DEF TypeOK, Exclusion, Front, queueVars
<1>5. FrontHeld'
  BY DEF TypeOK, FrontHeld, Front, queueVars
<1> QED
  BY <1>2, <1>3, <1>4, <1>5

(* The consumer is alone in the section it leaves.                         *)
LEMMA ControlPop ==
  ASSUME Control, NEW c \in Consumer, Pop(c)
  PROVE  Control'
<1> USE RowBufferAssumption DEF Control
<1>1. rows # <<>> /\ consumer[c].row \in Row
  BY DEF RowsPresent, FrontHeld, Pop
<1>2. \A d \in Consumer : d # c => consumer[d].at \notin {"front", "pop"}
  BY DEF Exclusion, Pop
<1>3. \A p \in Producer : producer[p].at # "push"
  BY DEF Exclusion, Pop
<1>4. TypeOK'
  <2>1. rows' \in Seq(Row) /\ taken' \in Seq(Row)
    BY <1>1 DEF TypeOK, Pop
  <2>2. rows_lock' = None
    BY DEF Pop, Unlocked
  <2>3. consumer' \in
          [Consumer -> [at : {"idle", "called", "front", "pop", "clear",
                              "unpack"},
                        row : Row \cup {None}, index : Nat]]
    BY DEF TypeOK, Pop
  <2> QED
    BY <2>1, <2>2, <2>3 DEF TypeOK, Pop
<1>5. RowsPresent'
  BY DEF TypeOK, RowsPresent, Pop
<1>6. Exclusion'
  BY <1>2, <1>3 DEF TypeOK, Exclusion, Pop
<1>7. FrontHeld'
  BY <1>2 DEF TypeOK, FrontHeld, Pop
<1> QED
  BY <1>4, <1>5, <1>6, <1>7

(* clear starts the unpacked row anew.                                     *)
LEMMA ControlClear ==
  ASSUME Control, NEW c \in Consumer, Clear(c)
  PROVE  Control'
<1> USE DEF Control
<1>1. TypeOK'
  <2>1. current_row' \in Seq((Row \X (1..Width)) \cup {Garbage})
    BY DEF Clear
  <2>2. raced' \in BOOLEAN
    BY DEF Clear
  <2>3. consumer' \in
          [Consumer -> [at : {"idle", "called", "front", "pop", "clear",
                              "unpack"},
                        row : Row \cup {None}, index : Nat]]
    BY DEF TypeOK, Clear
  <2> QED
    BY <2>1, <2>2, <2>3 DEF TypeOK, Clear, queueVars, historyVars
<1>2. RowsPresent'
  BY DEF TypeOK, RowsPresent, Clear
<1>3. Exclusion'
  BY DEF TypeOK, Exclusion, Clear, queueVars
<1>4. FrontHeld'
  BY DEF TypeOK, FrontHeld, Clear, queueVars
<1> QED
  BY <1>1, <1>2, <1>3, <1>4

(* The sizes of the columns of a row are numbers.                          *)
LEMMA SizesAreNumbers ==
  ASSUME NEW r \in Row, NEW k \in 1..Width
  PROVE  ReadSize(r, k) \in Nat
<1>1. Header[k] \in DOMAIN TypeSize
  BY RowBufferAssumption DEF Width
<1>2. TypeSize[Header[k]] \in Nat
  BY <1>1 DEF TypeSize
<1>3. StringSize[r] \in Nat
  BY RowBufferAssumption
<1> QED
  BY <1>2, <1>3 DEF ReadSize

(* The columns of the consumer's own row are unpacked in turn.             *)
LEMMA ControlUnpack ==
  ASSUME Control, NEW c \in Consumer, Unpack(c)
  PROVE  Control'
<1> USE DEF Control
<1> DEFINE r == consumer[c].row
           k == Len(current_row) + 1
           v == IF consumer[c].index = Offset(r, k) THEN <<r, k>> ELSE Garbage
<1>1. r \in Row /\ k \in 1..Width
  <2>1. r \in Row
    BY DEF RowsPresent, Unpack
  <2>2. k \in Nat /\ k >= 1 /\ k <= Width
    BY DEF TypeOK, Unpack
  <2>3. Width \in Nat
    BY RowBufferAssumption DEF Width
  <2> QED
    BY <2>1, <2>2, <2>3
<1>2. ReadSize(r, k) \in Nat
  BY <1>1, SizesAreNumbers
<1>3. v \in (Row \X (1..Width)) \cup {Garbage}
  BY <1>1
<1>4. current_row' = Append(current_row, v)
  BY DEF Unpack
<1>5. consumer' = [consumer EXCEPT ![c].index = @ + ReadSize(r, k)]
  BY DEF Unpack
<1>6. UNCHANGED <<queueVars, heap, producer, raced, historyVars>>
  BY DEF Unpack
<1> HIDE DEF r, k, v
<1>7. current_row' \in Seq((Row \X (1..Width)) \cup {Garbage})
  BY <1>3, <1>4 DEF TypeOK
<1>8. /\ consumer' \in
           [Consumer -> [at : {"idle", "called", "front", "pop", "clear",
                               "unpack"},
                         row : Row \cup {None}, index : Nat]]
      /\ \A d \in Consumer : /\ consumer'[d].at = consumer[d].at
                             /\ consumer'[d].row = consumer[d].row
  <2>1. consumer \in
          [Consumer -> [at : {"idle", "called", "front", "pop", "clear",
                              "unpack"},
                        row : Row \cup {None}, index : Nat]]
    BY DEF TypeOK
  <2>2. consumer[c].index + ReadSize(r, k) \in Nat
    BY <1>2, <2>1
  <2> QED
    BY <1>5, <2>1, <2>2
<1>9. TypeOK'
  BY <1>6, <1>7, <1>8 DEF TypeOK, queueVars, historyVars
<1> QED
  BY <1>6, <1>8, <1>9 DEF RowsPresent, Exclusion, FrontHeld, queueVars

(* dequeue returns.                                                        *)
LEMMA ControlReturn ==
  ASSUME Control, NEW c \in Consumer, Return(c)
  PROVE  Control'
  BY DEF Control, TypeOK, RowsPresent, Exclusion, FrontHeld, Return, Freed,
         queueVars

(* At first no section is taken.                                           *)
LEMMA ControlInit == Init => Control
<1> SUFFICES ASSUME Init PROVE Control
  OBVIOUS
<1>1. TypeOK
  <2>1. /\ rows \in Seq(Row) /\ pushed \in Seq(Row) /\ taken \in Seq(Row)
        /\ current_row \in Seq((Row \X (1..Width)) \cup {Garbage})
        /\ called \in 0..Len(pushed)
    BY DEF Init
  <2>2. /\ producer \in [Producer -> [at : {"idle", "copied", "push"},
                                      row : Row \cup {None}]]
        /\ consumer \in
             [Consumer -> [at : {"idle", "called", "front", "pop", "clear",
                                 "unpack"},
                           row : Row \cup {None}, index : Nat]]
    BY DEF Init
  <2> QED
    BY <2>1, <2>2 DEF Init, TypeOK
<1>2. RowsPresent /\ Exclusion /\ FrontHeld
  BY RowBufferAssumption DEF Init, RowsPresent, Exclusion, FrontHeld
<1> QED
  BY <1>1, <1>2 DEF Control

(* Every step keeps it.                                                    *)
LEMMA ControlStep == Control /\ [Next]_vars => Control'
<1> SUFFICES ASSUME Control, [Next]_vars PROVE Control'
  OBVIOUS
<1>1. CASE UNCHANGED vars
  BY <1>1 DEF vars, queueVars, historyVars, Control, TypeOK, RowsPresent,
              Exclusion, FrontHeld
<1>2. CASE Next
  BY <1>2, ControlCopy, ControlLockProducer, ControlPush, ControlCallDequeue,
     ControlLockConsumer, ControlFront, ControlPop, ControlClear,
     ControlUnpack, ControlReturn
  DEF Next, ProducerStep, ConsumerStep
<1> QED
  BY <1>1, <1>2

-----------------------------------------------------------------------------
(* The order of the rows, and the calls.                                   *)
LEMMA FifoStep == Control /\ Fifo /\ [Next]_vars => Fifo'
<1> SUFFICES ASSUME Control, Fifo, [Next]_vars PROVE Fifo'
  OBVIOUS
<1>1. ASSUME NEW p \in Producer, Push(p) PROVE Fifo'
  <2>1. producer[p].row \in Row /\ taken \in Seq(Row) /\ rows \in Seq(Row)
    BY <1>1 DEF Control, TypeOK, RowsPresent, Push
  <2>2. taken \o Append(rows, producer[p].row)
          = Append(taken \o rows, producer[p].row)
    BY <2>1, PutBack
  <2> QED
    BY <1>1, <2>2 DEF Fifo, Push, Queued
<1>2. ASSUME NEW c \in Consumer, Pop(c) PROVE Fifo'
  <2>1. /\ rows # <<>> /\ consumer[c].row = Head(rows)
        /\ taken \in Seq(Row) /\ rows \in Seq(Row)
    BY <1>2 DEF Control, TypeOK, FrontHeld, Pop
  <2>2. Append(taken, Head(rows)) \o Tail(rows) = taken \o rows
    BY <2>1, TakeFront
  <2> QED
    BY <1>2, <2>1, <2>2 DEF Fifo, Pop
<1>3. CASE UNCHANGED <<pushed, taken, rows>>
  BY <1>3 DEF Fifo
<1> QED
  BY <1>1, <1>2, <1>3
  DEF Next, ProducerStep, ConsumerStep, vars, queueVars, historyVars, Copy,
      LockProducer, CallDequeue, LockConsumer, Front, Clear, Unpack, Return

(* Each call of dequeue has taken a row or still waits for one.            *)
LEMMA CallsStep ==
  Control /\ CallsCounted /\ [Next]_vars => CallsCounted'
<1> SUFFICES ASSUME Control, CallsCounted, [Next]_vars PROVE CallsCounted'
  OBVIOUS
<1>1. /\ IsFiniteSet(Waiting) /\ Cardinality(Waiting) \in Nat
      /\ taken \in Seq(Row) /\ called \in Nat
  <2>1. IsFiniteSet(Waiting)
    BY RowBufferAssumption, FS_Subset DEF Waiting
  <2> QED
    BY <2>1, FS_CardinalityType DEF Control, TypeOK
<1>2. ASSUME NEW c \in Consumer, CallDequeue(c) PROVE CallsCounted'
  <2>1. c \notin Waiting /\ Waiting' = Waiting \cup {c}
    BY <1>2 DEF Control, TypeOK, CallDequeue, Waiting
  <2>2. Cardinality(Waiting') = Cardinality(Waiting) + 1
    BY <1>1, <2>1, FS_AddElement
  <2> QED
    BY <1>1, <1>2, <2>2 DEF CallsCounted, CallDequeue
<1>3. ASSUME NEW c \in Consumer, Pop(c) PROVE CallsCounted'
  <2>1. c \in Waiting /\ Waiting' = Waiting \ {c}
    BY <1>3 DEF Control, TypeOK, Pop, Waiting
  <2>2. Cardinality(Waiting') = Cardinality(Waiting) - 1
    BY <1>1, <2>1, FS_RemoveElement
  <2>3. Len(taken') = Len(taken) + 1
    BY <1>1, <1>3 DEF Control, TypeOK, RowsPresent, Pop
  <2> QED
    BY <1>1, <1>3, <2>2, <2>3 DEF CallsCounted, Pop
<1>4. CASE UNCHANGED <<called, taken, Waiting>>
  BY <1>4 DEF CallsCounted
<1>5. ASSUME NEW c \in Consumer,
             LockConsumer(c) \/ Front(c) \/ Clear(c) \/ Unpack(c) \/ Return(c)
      PROVE  UNCHANGED <<called, taken, Waiting>>
  <2>1. UNCHANGED <<called, taken>>
    BY <1>5 DEF LockConsumer, Front, Clear, Unpack, Return, historyVars
  <2>2. CASE LockConsumer(c)
    BY <2>1, <2>2 DEF Control, TypeOK, LockConsumer, Waiting
  <2>3. CASE Front(c)
    BY <2>1, <2>3 DEF Control, TypeOK, Front, Waiting
  <2>4. CASE Clear(c)
    BY <2>1, <2>4 DEF Control, TypeOK, Clear, Waiting
  <2>5. CASE Unpack(c)
    <3>1. \A d \in Consumer : consumer'[d].at = consumer[d].at
      BY <2>5 DEF Control, TypeOK, Unpack
    <3> QED
      BY <2>1, <3>1 DEF Waiting
  <2>6. CASE Return(c)
    BY <2>1, <2>6 DEF Control, TypeOK, Return, Waiting
  <2> QED
    BY <1>5, <2>2, <2>3, <2>4, <2>5, <2>6
<1>6. ASSUME NEW p \in Producer,
             ProducerStep(p) \/ \E r \in Row : Copy(p, r)
      PROVE  UNCHANGED <<called, taken, Waiting>>
  BY <1>6 DEF ProducerStep, LockProducer, Push, Copy, historyVars, Waiting
<1>7. CASE UNCHANGED vars
  BY <1>4, <1>7 DEF vars, historyVars, Waiting
<1> QED
  BY <1>2, <1>3, <1>4, <1>5, <1>6, <1>7 DEF Next, ConsumerStep

(* As many calls as rows have been pushed, at most: one that has come to   *)
(* the front finds a row there.                                            *)
LEMMA FrontFindsRow ==
  ASSUME Control, Fifo, CallsCounted, NEW c \in Consumer,
         consumer[c].at = "front"
  PROVE  rows # <<>>
<1>1. c \in Waiting
  BY DEF Waiting
<1>2. IsFiniteSet(Waiting)
  BY RowBufferAssumption, FS_Subset DEF Waiting
<1>3. Cardinality(Waiting) \in Nat /\ Cardinality(Waiting) # 0
  BY <1>1, <1>2, FS_CardinalityType, FS_EmptySet
<1>4. Len(pushed) = Len(taken) + Len(rows)
  BY DEF Control, TypeOK, Fifo
<1>5. /\ called \in Nat /\ called <= Len(pushed)
      /\ Len(taken) \in Nat /\ Len(rows) \in Nat
  BY DEF Control, TypeOK
<1>6. Len(rows) > 0
  BY <1>3, <1>4, <1>5 DEF CallsCounted
<1> QED
  BY <1>6

-----------------------------------------------------------------------------
(* No row goes in twice.                                                   *)
LEMMA DistinctStep ==
  Control /\ RowsDistinct /\ [Next]_vars => RowsDistinct'
<1> SUFFICES ASSUME Control, RowsDistinct, [Next]_vars PROVE RowsDistinct'
  OBVIOUS
<1> USE RowBufferAssumption
<1>1. /\ pushed \in Seq(Row)
      /\ producer \in [Producer -> [at : {"idle", "copied", "push"},
                                    row : Row \cup {None}]]
  BY DEF Control, TypeOK
<1>2. ASSUME NEW p \in Producer, NEW r \in Row, Copy(p, r)
      PROVE  RowsDistinct'
  <2>1. pushed' = pushed
    BY <1>2 DEF Copy, historyVars
  <2>2. /\ producer'[p].row = r
        /\ \A q \in Producer : q # p => producer'[q].row = producer[q].row
    BY <1>1, <1>2 DEF Copy
  <2>3. /\ \A i \in DOMAIN pushed : pushed[i] # r
        /\ \A q \in Producer : producer[q].row # r
    BY <1>2 DEF Copy
  <2> QED
    BY <2>1, <2>2, <2>3 DEF RowsDistinct
<1>3. ASSUME NEW p \in Producer, LockProducer(p) PROVE RowsDistinct'
  <2>1. pushed' = pushed
    BY <1>3 DEF LockProducer, historyVars
  <2>2. \A q \in Producer : producer'[q].row = producer[q].row
    BY <1>1, <1>3 DEF LockProducer
  <2> QED
    BY <2>1, <2>2 DEF RowsDistinct
<1>4. ASSUME NEW p \in Producer, Push(p) PROVE RowsDistinct'
  <2> DEFINE r == producer[p].row
  <2>1. r \in Row
    BY <1>4 DEF Control, RowsPresent, Push
  <2>2. pushed' = Append(pushed, r)
    BY <1>4 DEF Push
  <2>3. /\ producer'[p].row = None
        /\ \A q \in Producer : q # p => producer'[q].row = producer[q].row
    BY <1>1, <1>4 DEF Push
  <2>4. /\ DOMAIN pushed' = 1..(Len(pushed) + 1)
        /\ pushed'[Len(pushed) + 1] = r
        /\ \A i \in DOMAIN pushed : pushed'[i] = pushed[i]
        /\ \A i \in DOMAIN pushed' :
              i \in DOMAIN pushed \/ i = Len(pushed) + 1
        /\ \A i \in DOMAIN pushed' : pushed'[i] \in Row
    BY <1>1, <2>1, <2>2
  <2>5. /\ \A i \in DOMAIN pushed : pushed[i] # r
        /\ \A q \in Producer : q # p => producer[q].row # r
    BY <2>1 DEF RowsDistinct
  <2> HIDE DEF r
  <2>6. \A i, j \in DOMAIN pushed' : pushed'[i] = pushed'[j] => i = j
    BY <2>4, <2>5 DEF RowsDistinct
  <2>7. \A q \in Producer, i \in DOMAIN pushed' : producer'[q].row # pushed'[i]
    <3> TAKE q \in Producer, i \in DOMAIN pushed'
    <3>1. CASE q = p
      BY <2>3, <2>4, <3>1
    <3>2. CASE q # p
      BY <2>3, <2>4, <2>5, <3>2 DEF RowsDistinct
    <3> QED
      BY <3>1, <3>2
  <2>8. \A q, s \in Producer :
          producer'[q].row = producer'[s].row => q = s \/ producer'[q].row = None
    BY <2>3 DEF RowsDistinct
  <2> QED
    BY <2>6, <2>7, <2>8 DEF RowsDistinct
<1>5. CASE UNCHANGED <<pushed, producer>>
  BY <1>5 DEF RowsDistinct
<1> QED
  BY <1>2, <1>3, <1>4, <1>5
  DEF Next, ProducerStep, ConsumerStep, vars, queueVars, historyVars,
      CallDequeue, LockConsumer, Front, Pop, Clear, Unpack, Return

(* What a consumer still reads it has taken.                               *)
LEMMA HeldStep == Control /\ HeldTaken /\ [Next]_vars => HeldTaken'
<1> SUFFICES ASSUME Control, HeldTaken, [Next]_vars PROVE HeldTaken'
  OBVIOUS
<1>1. /\ taken \in Seq(Row)
      /\ consumer \in
           [Consumer -> [at : {"idle", "called", "front", "pop", "clear",
                               "unpack"},
                         row : Row \cup {None}, index : Nat]]
  BY DEF Control, TypeOK
<1>2. ASSUME NEW c \in Consumer, Pop(c) PROVE HeldTaken'
  <2>1. consumer[c].row \in Row /\ taken' = Append(taken, consumer[c].row)
    BY <1>2 DEF Control, RowsPresent, Pop
  <2>2. /\ Len(taken) + 1 \in DOMAIN taken'
        /\ taken'[Len(taken) + 1] = consumer[c].row
        /\ \A i \in DOMAIN taken : i \in DOMAIN taken' /\ taken'[i] = taken[i]
    BY <1>1, <2>1
  <2>3. /\ consumer'[c].row = consumer[c].row
        /\ \A d \in Consumer : d # c => consumer'[d] = consumer[d]
    BY <1>1, <1>2 DEF Pop
  <2> QED
    BY <2>2, <2>3 DEF HeldTaken
<1>3. ASSUME NEW c \in Consumer, Clear(c) \/ Unpack(c) PROVE HeldTaken'
  <2>1. /\ taken' = taken
        /\ consumer[c].at \in {"clear", "unpack"}
        /\ consumer'[c].row = consumer[c].row
    BY <1>1, <1>3 DEF Clear, Unpack, historyVars
  <2>2. \A d \in Consumer : d # c => consumer'[d] = consumer[d]
    BY <1>1, <1>3 DEF Clear, Unpack
  <2> QED
    BY <2>1, <2>2 DEF HeldTaken
<1>4. ASSUME NEW c \in Consumer,
             CallDequeue(c) \/ LockConsumer(c) \/ Front(c) \/ Return(c)
      PROVE  HeldTaken'
  <2>1. taken' = taken
    BY <1>4 DEF CallDequeue, LockConsumer, Front, Return, historyVars
  <2>2. consumer'[c].at \notin {"clear", "unpack"}
    BY <1>1, <1>4 DEF CallDequeue, LockConsumer, Front, Return
  <2>3. \A d \in Consumer : d # c => consumer'[d] = consumer[d]
    BY <1>1, <1>4 DEF CallDequeue, LockConsumer, Front, Return
  <2> QED
    BY <2>1, <2>2, <2>3 DEF HeldTaken
<1>5. CASE UNCHANGED <<taken, consumer>>
  BY <1>5 DEF HeldTaken
<1> QED
  BY <1>2, <1>3, <1>4, <1>5
  DEF Next, ProducerStep, ConsumerStep, vars, queueVars, historyVars,
      Copy, LockProducer, Push

-----------------------------------------------------------------------------
(* The ownership of the copies.                                            *)
LEMMA Owners ==
  CopiesOwnedOnce <=>
    /\ heap = MadeRows \cup QueuedRows \cup HeldRows
    /\ MadeRows \cap (QueuedRows \cup HeldRows) = {}
    /\ QueuedRows \cap HeldRows = {}
    /\ \A c, d \in Holder : c # d => consumer[c].row # consumer[d].row
<1>1. CopiesOwnedOnce <=>
        /\ heap = MadeRows \cup QueuedRows \cup HeldRows
        /\ \A p \in Made : producer[p].row \notin QueuedRows \cup HeldRows
        /\ QueuedRows \cap HeldRows = {}
        /\ \A c, d \in Holder : c # d => consumer[c].row # consumer[d].row
  BY Zenon DEF CopiesOwnedOnce, Made, Holder, MadeRows, QueuedRows, HeldRows
<1>2. (\A p \in Made : producer[p].row \notin QueuedRows \cup HeldRows)
        <=> MadeRows \cap (QueuedRows \cup HeldRows) = {}
  BY DEF MadeRows
<1> QED
  BY <1>1, <1>2

(* What is in the queue or held has been pushed; the queue has each once.  *)
LEMMA PushedOnce ==
  ASSUME Control, Fifo, RowsDistinct, HeldTaken
  PROVE  /\ \A r \in QueuedRows \cup HeldRows :
              \E i \in DOMAIN pushed : pushed[i] = r
         /\ \A i, j \in DOMAIN rows : rows[i] = rows[j] => i = j
<1>1. taken \in Seq(Row) /\ rows \in Seq(Row)
  BY DEF Control, TypeOK
<1>2. /\ \A i \in DOMAIN taken : i \in DOMAIN pushed /\ pushed[i] = taken[i]
      /\ \A i \in DOMAIN rows : /\ Len(taken) + i \in DOMAIN pushed
                               /\ pushed[Len(taken) + i] = rows[i]
  BY <1>1 DEF Fifo
<1>3. ASSUME NEW r \in QueuedRows PROVE \E i \in DOMAIN pushed : pushed[i] = r
  BY <1>2 DEF QueuedRows
<1>4. ASSUME NEW r \in HeldRows PROVE \E i \in DOMAIN pushed : pushed[i] = r
  BY <1>2 DEF HeldRows, Holder, HeldTaken
<1>5. ASSUME NEW i \in DOMAIN rows, NEW j \in DOMAIN rows, rows[i] = rows[j]
      PROVE  i = j
  <2>1. Len(taken) + i = Len(taken) + j
    BY <1>2, <1>5 DEF RowsDistinct
  <2>2. Len(taken) \in Nat /\ i \in Nat /\ j \in Nat
    BY <1>1
  <2> QED
    BY <2>1, <2>2
<1> QED
  BY <1>3, <1>4, <1>5

(* pop_front removes the front, and nothing else is equal to it.           *)
LEMMA PopRows ==
  ASSUME NEW S, NEW q \in Seq(S), q # <<>>,
         \A i, j \in DOMAIN q : q[i] = q[j] => i = j
  PROVE  /\ {Tail(q)[i] : i \in DOMAIN Tail(q)}
              = {q[i] : i \in DOMAIN q} \ {Head(q)}
         /\ Head(q) \in {q[i] : i \in DOMAIN q}
<1>1. /\ Len(q) \in Nat /\ Len(q) > 0 /\ Head(q) = q[1]
      /\ DOMAIN q = 1..Len(q) /\ DOMAIN Tail(q) = 1..(Len(q) - 1)
      /\ \A i \in 1..(Len(q) - 1) : Tail(q)[i] = q[i + 1]
  OBVIOUS
<1>2. ASSUME NEW i \in DOMAIN Tail(q)
      PROVE  Tail(q)[i] \in {q[j] : j \in DOMAIN q} \ {Head(q)}
  <2>1. i + 1 \in DOMAIN q /\ 1 \in DOMAIN q /\ i + 1 # 1
    BY <1>1
  <2> QED
    BY <1>1, <2>1
<1>3. ASSUME NEW j \in DOMAIN q, q[j] # Head(q)
      PROVE  q[j] \in {Tail(q)[i] : i \in DOMAIN Tail(q)}
  <2>1. j - 1 \in 1..(Len(q) - 1) /\ Tail(q)[j - 1] = q[(j - 1) + 1]
    BY <1>1, <1>3
  <2>2. (j - 1) + 1 = j
    BY <1>1
  <2>3. j - 1 \in DOMAIN Tail(q) /\ Tail(q)[j - 1] = q[j]
    BY <1>1, <2>1, <2>2
  <2> QED
    BY <2>3
<1>4. Head(q) \in {q[i] : i \in DOMAIN q}
  BY <1>1
<1> QED
  BY <1>2, <1>3, <1>4

(* A copy passes from the producer to the queue, and on to one consumer.   *)
LEMMA OwnedStep ==
  Control /\ Fifo /\ RowsDistinct /\ HeldTaken /\ CopiesOwnedOnce /\ [Next]_vars
    => CopiesOwnedOnce'
<1> SUFFICES ASSUME Control, Fifo, RowsDistinct, HeldTaken, CopiesOwnedOnce,
                    [Next]_vars
             PROVE  CopiesOwnedOnce'
  OBVIOUS
<1> USE RowBufferAssumption
<1>1. /\ rows \in Seq(Row)
      /\ producer \in [Producer -> [at : {"idle", "copied", "push"},
                                    row : Row \cup {None}]]
      /\ consumer \in
           [Consumer -> [at : {"idle", "called", "front", "pop", "clear",
                               "unpack"},
                         row : Row \cup {None}, index : Nat]]
  BY DEF Control, TypeOK
<1>2. /\ heap = MadeRows \cup QueuedRows \cup HeldRows
      /\ MadeRows \cap (QueuedRows \cup HeldRows) = {}
      /\ QueuedRows \cap HeldRows = {}
      /\ \A c, d \in Holder : c # d => consumer[c].row # consumer[d].row
  BY Owners
<1>3. ASSUME heap' = MadeRows' \cup QueuedRows' \cup HeldRows',
             MadeRows' \cap (QueuedRows' \cup HeldRows') = {},
             QueuedRows' \cap HeldRows' = {},
             \A c, d \in Holder' : c # d => consumer'[c].row # consumer'[d].row
      PROVE  CopiesOwnedOnce'
  BY <1>3 DEF CopiesOwnedOnce, Made, Holder, MadeRows, QueuedRows, HeldRows
<1>4. ASSUME NEW p \in Producer, NEW r \in Row, Copy(p, r)
      PROVE  CopiesOwnedOnce'
  <2>1. /\ producer'[p].row = r /\ r # None
        /\ \A q \in Producer : q # p => producer'[q].row = producer[q].row
    BY <1>1, <1>4 DEF Copy
  <2>2. producer[p].row = None
    BY <1>1, <1>4 DEF Copy, Control, RowsPresent
  <2>3. MadeRows' = MadeRows \cup {r}
    BY <2>1, <2>2 DEF MadeRows, Made
  <2>4. /\ QueuedRows' = QueuedRows /\ HeldRows' = HeldRows /\ Holder' = Holder
        /\ consumer' = consumer /\ heap' = heap \cup {r}
    BY <1>4 DEF Copy, queueVars, QueuedRows, HeldRows, Holder
  <2>5. r \notin QueuedRows \cup HeldRows
    BY <1>4, PushedOnce DEF Copy
  <2> QED
    BY <1>2, <1>3, <2>3, <2>4, <2>5
<1>5. ASSUME NEW p \in Producer, LockProducer(p) PROVE CopiesOwnedOnce'
  <2>1. \A q \in Producer : producer'[q].row = producer[q].row
    BY <1>1, <1>5 DEF LockProducer
  <2>2. MadeRows' = MadeRows
    BY <2>1 DEF MadeRows, Made
  <2>3. /\ QueuedRows' = QueuedRows /\ HeldRows' = HeldRows /\ Holder' = Holder
        /\ consumer' = consumer /\ heap' = heap
    BY <1>5 DEF LockProducer, QueuedRows, HeldRows, Holder
  <2> QED
    BY <1>2, <1>3, <2>2, <2>3
<1>6. ASSUME NEW p \in Producer, Push(p) PROVE CopiesOwnedOnce'
  <2> DEFINE r == producer[p].row
  <2>1. r \in Row /\ p \in Made /\ r \in MadeRows
    BY <1>6 DEF Control, RowsPresent, Push, MadeRows, Made
  <2>2. /\ producer'[p].row = None
        /\ \A q \in Producer : q # p => producer'[q].row = producer[q].row
    BY <1>1, <1>6 DEF Push
  <2>3. MadeRows' = MadeRows \ {r}
    BY <2>1, <2>2 DEF MadeRows, Made, RowsDistinct
  <2>4. rows' = Append(rows, r)
    BY <1>6 DEF Push, Queued
  <2>5. QueuedRows' = QueuedRows \cup {r}
    <3> HIDE DEF r
    <3>1. /\ DOMAIN rows = 1..Len(rows) /\ Len(rows) \in Nat
          /\ DOMAIN rows' = 1..(Len(rows) + 1)
          /\ rows'[Len(rows) + 1] = r
          /\ \A i \in 1..Len(rows) : rows'[i] = rows[i]
      BY <1>1, <2>1, <2>4
    <3>2. DOMAIN rows' = DOMAIN rows \cup {Len(rows) + 1}
      BY <3>1
    <3> QED
      BY <3>1, <3>2 DEF QueuedRows
  <2>6. /\ HeldRows' = HeldRows /\ Holder' = Holder
        /\ consumer' = consumer /\ heap' = heap
    BY <1>6 DEF Push, HeldRows, Holder
  <2> HIDE DEF r
  <2> QED
    BY <1>2, <1>3, <2>1, <2>3, <2>5, <2>6
<1>7. ASSUME NEW c \in Consumer, Pop(c) PROVE CopiesOwnedOnce'
  <2> DEFINE r == consumer[c].row
  <2>1. rows # <<>> /\ r = Head(rows) /\ rows' = Tail(rows)
    BY <1>7 DEF Control, FrontHeld, Pop
  <2>2. /\ {Tail(rows)[i] : i \in DOMAIN Tail(rows)}
             = {rows[i] : i \in DOMAIN rows} \ {Head(rows)}
        /\ Head(rows) \in {rows[i] : i \in DOMAIN rows}
    <3>1. \A i, j \in DOMAIN rows : rows[i] = rows[j] => i = j
      BY PushedOnce
    <3> QED
      BY <1>1, <2>1, <3>1, PopRows
  <2>3. QueuedRows' = QueuedRows \ {r} /\ r \in QueuedRows
    BY <2>1, <2>2 DEF QueuedRows
  <2>4. /\ consumer'[c].row = r /\ consumer'[c].at = "clear"
        /\ \A d \in Consumer : d # c => consumer'[d] = consumer[d]
        /\ c \notin Holder
    BY <1>1, <1>7 DEF Pop, Holder
  <2> HIDE DEF r
  <2>5. Holder' = Holder \cup {c}
    BY <2>4 DEF Holder
  <2>6. HeldRows' = HeldRows \cup {r}
    <3>1. \A d \in Holder : consumer'[d].row = consumer[d].row
      BY <2>4 DEF Holder
    <3> QED
      BY <2>4, <2>5, <3>1 DEF HeldRows
  <2>7. MadeRows' = MadeRows /\ heap' = heap
    BY <1>7 DEF Pop, MadeRows, Made
  <2>8. \A d, e \in Holder' : d # e => consumer'[d].row # consumer'[e].row
    <3>1. \A d \in Holder : consumer'[d].row = consumer[d].row
                           /\ consumer[d].row \in HeldRows
      BY <2>4 DEF Holder, HeldRows
    <3>2. r \notin HeldRows
      BY <1>2, <2>3
    <3> QED
      BY <1>2, <2>4, <2>5, <3>1, <3>2
  <2> QED
    BY <1>2, <1>3, <2>3, <2>6, <2>7, <2>8
<1>8. ASSUME NEW c \in Consumer, Return(c) PROVE CopiesOwnedOnce'
  <2> DEFINE r == consumer[c].row
  <2>1. c \in Holder /\ r \in HeldRows
    BY <1>8 DEF Return, Holder, HeldRows
  <2>2. /\ consumer'[c].at = "idle"
        /\ \A d \in Consumer : d # c => consumer'[d] = consumer[d]
    BY <1>1, <1>8 DEF Return
  <2>3. Holder' = Holder \ {c}
    BY <2>2 DEF Holder
  <2>4. \A d \in Holder' : d \in Holder /\ consumer'[d].row = consumer[d].row
    BY <2>2, <2>3 DEF Holder
  <2>5. HeldRows' = HeldRows \ {r}
    BY <1>2, <2>1, <2>3, <2>4 DEF HeldRows
  <2>6. /\ MadeRows' = MadeRows /\ QueuedRows' = QueuedRows
        /\ heap' = heap \ {r}
    BY <1>8 DEF Return, Freed, queueVars, MadeRows, Made, QueuedRows
  <2>7. \A d, e \in Holder' : d # e => consumer'[d].row # consumer'[e].row
    BY <1>2, <2>4
  <2> HIDE DEF r
  <2> QED
    BY <1>2, <1>3, <2>1, <2>5, <2>6, <2>7
<1>9. ASSUME NEW c \in Consumer,
             \/ CallDequeue(c) \/ LockConsumer(c) \/ Front(c)
             \/ Clear(c) \/ Unpack(c)
      PROVE  CopiesOwnedOnce'
  <2>1. \A d \in Consumer : d # c => consumer'[d] = consumer[d]
    BY <1>1, <1>9 DEF CallDequeue, LockConsumer, Front, Clear, Unpack
  <2>2. \/ c \notin Holder /\ c \notin Holder'
        \/ c \in Holder /\ c \in Holder' /\ consumer'[c].row = consumer[c].row
    BY <1>1, <1>9 DEF CallDequeue, LockConsumer, Front, Clear, Unpack, Holder
  <2>3. Holder' = Holder
    BY <2>1, <2>2 DEF Holder
  <2>4. \A d \in Holder : consumer'[d].row = consumer[d].row
    BY <2>1, <2>2 DEF Holder
  <2>5. HeldRows' = HeldRows
    BY <2>3, <2>4 DEF HeldRows
  <2>6. UNCHANGED <<rows, heap, producer>>
    BY <1>9 DEF CallDequeue, LockConsumer, Front, Clear, Unpack, queueVars
  <2>7. MadeRows' = MadeRows /\ QueuedRows' = QueuedRows /\ heap' = heap
    BY <2>6 DEF MadeRows, Made, QueuedRows
  <2> QED
    BY <1>2, <1>3, <2>3, <2>4, <2>5, <2>7
<1>10. CASE UNCHANGED vars
  <2>1. UNCHANGED <<rows, heap, producer, consumer>>
    BY <1>10 DEF vars, queueVars
  <2>2. /\ MadeRows' = MadeRows /\ QueuedRows' = QueuedRows
        /\ HeldRows' = HeldRows /\ Holder' = Holder
    BY <2>1 DEF MadeRows, Made, QueuedRows, HeldRows, Holder
  <2> QED
    BY <1>2, <1>3, <2>1, <2>2
<1> QED
  BY <1>4, <1>5, <1>6, <1>7, <1>8, <1>9, <1>10
  DEF Next, ProducerStep, ConsumerStep

-----------------------------------------------------------------------------
(* The inductive invariant holds in every state: at most one thread is     *)
(* between lock and unlock of row_buffer.h, and the copies, the calls and  *)
(* the rows are all accounted for.                                         *)
THEOREM Invariance == Spec => []IInv
<1>1. Init => IInv
  <2> SUFFICES ASSUME Init PROVE IInv
    OBVIOUS
  <2>1. Control
    BY ControlInit
  <2>2. Waiting = {}
    BY DEF Init, Waiting
  <2>3. CallsCounted
    BY <2>2, FS_EmptySet DEF Init, CallsCounted
  <2>4. pushed = taken \o rows
    BY DEF Init
  <2>5. RowsDistinct
    BY DEF Init, RowsDistinct
  <2>6. HeldTaken /\ CopiesOwnedOnce
    BY DEF Init, HeldTaken, CopiesOwnedOnce
  <2> QED
    BY <2>1, <2>3, <2>4, <2>5, <2>6 DEF IInv, Control
<1>2. IInv /\ [Next]_vars => IInv'
  BY ControlStep, FifoStep, CallsStep, DistinctStep, HeldStep, OwnedStep
  DEF IInv, Control, Fifo
<1> QED
  BY <1>1, <1>2, PTL DEF Spec

(* The types hold in every state.                                          *)
THEOREM TypeCorrect == Spec => []TypeOK
<1>1. IInv => TypeOK
  BY DEF IInv
<1> QED
  BY <1>1, Invariance, PTL

(* For any number of threads on both sides of row_buffer.h, dequeue hands  *)
(* out the rows in the order of their insertion, each once, and does not   *)
(* look at the front of an empty queue.                                    *)
THEOREM InOrderOnce == Spec => []FirstInFirstOut
<1>1. IInv => FirstInFirstOut
  BY FrontFindsRow DEF IInv, Control, Fifo, FirstInFirstOut
<1> QED
  BY <1>1, Invariance, PTL

(* Every copy that enqueue allocates has one owner until dequeue frees it. *)
THEOREM OneOwner == Spec => []CopiesOwnedOnce
<1>1. IInv => CopiesOwnedOnce
  BY DEF IInv
<1> QED
  BY <1>1, Invariance, PTL

-----------------------------------------------------------------------------
(***************************************************************************)
(* The row that is handed out.  Where write has put the columns of a row   *)
(* is a sum, and Offset names the function that has the partial sums; that *)
(* there is one is shown from the length up to which there is none.        *)
(***************************************************************************)

(* Every nonempty set of naturals has a least element.                     *)
LEMMA Smallest ==
  ASSUME NEW T \in SUBSET Nat, T # {}
  PROVE  \E x \in T : \A y \in T : x <= y
<1> DEFINE R == {ss \in Nat \X Nat : ss[1] < ss[2]}
<1>1. IsWellFoundedOn(R, Nat)
  BY NatLessThanWellFounded DEF OpToRel
<1> HIDE DEF R
<1>2. PICK x \in T : \A y \in T : ~ (<<y, x>> \in R)
  BY <1>1, WFMin
<1>3. ASSUME NEW y \in T PROVE x <= y
  <2>1. ~ (y < x)
    BY <1>2 DEF R
  <2> QED
    BY <2>1
<1> QED
  BY <1>3

(* The sums of the first n of some numbers, for n up to m.                 *)
SumsTo(f, w, m) ==
  f = [n \in 0..m |-> IF n = 0 THEN 0 ELSE f[n - 1] + w[n]]

(* Any numbers have sums.                                                  *)
LEMMA SumsExist ==
  ASSUME NEW m \in Nat, NEW w
  PROVE  \E f : SumsTo(f, w, m)
<1> DEFINE T == {n \in Nat : ~ \E f : SumsTo(f, w, n)}
<1> SUFFICES ASSUME T # {} PROVE FALSE
  OBVIOUS
<1>1. PICK x \in T : \A y \in T : x <= y
  BY Smallest
<1>2. CASE x = 0
  <2> DEFINE f == [n \in 0..0 |-> 0]
  <2>1. f = [n \in 0..0 |-> IF n = 0 THEN 0 ELSE f[n - 1] + w[n]]
    OBVIOUS
  <2> HIDE DEF f
  <2>2. SumsTo(f, w, 0)
    BY <2>1 DEF SumsTo
  <2> QED
    BY <1>1, <1>2, <2>2
<1>3. CASE x # 0
  <2>1. x - 1 \in Nat /\ x - 1 \notin T
    BY <1>1, <1>3
  <2>2. PICK g : SumsTo(g, w, x - 1)
    BY <2>1
  <2>3. g = [n \in 0..(x - 1) |-> IF n = 0 THEN 0 ELSE g[n - 1] + w[n]]
    BY <2>2 DEF SumsTo
  <2> DEFINE f == [n \in 0..x |-> IF n = x THEN g[x - 1] + w[x] ELSE g[n]]
  <2>4. ASSUME NEW n \in 0..x
        PROVE  f[n] = IF n = 0 THEN 0 ELSE f[n - 1] + w[n]
    <3>1. CASE n = x
      BY <1>1, <1>3, <3>1
    <3>2. CASE n = 0
      BY <1>1, <1>3, <2>3, <3>2
    <3>3. CASE n # x /\ n # 0
      <4>1. n \in 0..(x - 1) /\ n - 1 \in 0..x /\ n - 1 # x
        BY <1>1, <1>3, <3>3
      <4>2. f[n] = g[n] /\ f[n - 1] = g[n - 1]
        BY <3>3, <4>1
      <4>3. g[n] = g[n - 1] + w[n]
        BY <2>3, <3>3, <4>1
      <4> QED
        BY <3>3, <4>2, <4>3
    <3> QED
      BY <3>1, <3>2, <3>3
  <2>5. f = [n \in 0..x |-> f[n]]
    OBVIOUS
  <2> HIDE DEF f
  <2>6. SumsTo(f, w, x)
    BY <2>4, <2>5 DEF SumsTo
  <2> QED
    BY <1>1, <2>6
<1> QED
  BY <1>2, <1>3

(* The first column is in front; each other one is behind the one before,  *)
(* as far from it as read finds that one to be long.                       *)
LEMMA OffsetsAddUp ==
  ASSUME NEW r \in Row
  PROVE  /\ Offset(r, 1) = 0
         /\ \A k \in 1..Width : Offset(r, k + 1) = Offset(r, k) + ReadSize(r, k)
<1> DEFINE size == [k \in 1..Width |-> WriteSize(r, k)]
           F == CHOOSE f :
                  f = [n \in 0..Width |->
                         IF n = 0 THEN 0 ELSE f[n - 1] + WriteSize(r, n)]
<1>1. Width \in Nat
  BY RowBufferAssumption DEF Width
<1>2. PICK f : SumsTo(f, size, Width)
  BY <1>1, SumsExist
<1>3. f = [n \in 0..Width |-> IF n = 0 THEN 0 ELSE f[n - 1] + WriteSize(r, n)]
  <2>1. \A n \in 0..Width : n # 0 => size[n] = WriteSize(r, n)
    BY <1>1
  <2> HIDE DEF size
  <2> QED
    BY <1>2, <2>1 DEF SumsTo
<1>4. F = [n \in 0..Width |-> IF n = 0 THEN 0 ELSE F[n - 1] + WriteSize(r, n)]
  BY <1>3
<1>5. \A k : Offset(r, k) = F[k - 1]
  BY DEF Offset
<1> HIDE DEF F
<1>6. Offset(r, 1) = 0
  <2>1. F[0] = 0
    BY <1>1, <1>4
  <2>2. Offset(r, 1) = F[1 - 1]
    BY <1>5, Zenon
  <2> QED
    BY <2>1, <2>2
<1>7. ASSUME NEW k \in 1..Width
      PROVE  Offset(r, k + 1) = Offset(r, k) + ReadSize(r, k)
  <2>1. F[k] = F[k - 1] + WriteSize(r, k)
    BY <1>1, <1>4
  <2>2. WriteSize(r, k) = ReadSize(r, k)
    <3>1. TypeSize["varchar"] = 4
      BY DEF TypeSize
    <3>2. TypeSize[Header[k]] \in Nat
      <4>1. Header[k] \in DOMAIN TypeSize
        BY RowBufferAssumption DEF Width
      <4> QED
        BY <4>1 DEF TypeSize
    <3> QED
      BY <3>1, <3>2 DEF WriteSize, ReadSize
  <2>3. (k + 1) - 1 = k
    BY <1>1
  <2> QED
    BY <1>5, <2>1, <2>2, <2>3
<1> QED
  BY <1>6, <1>7

-----------------------------------------------------------------------------
Unpacking(c) == consumer[c].at = "unpack"

(* Until two unpack at once, the one that does has so far the front of its *)
(* row, and is where its next column is; when none does, the last row is   *)
(* there.                                                                  *)
Unpacked ==
  ~raced =>
    /\ \A c, d \in Consumer : Unpacking(c) /\ Unpacking(d) => c = d
    /\ \A c \in Consumer : Unpacking(c) =>
         /\ Len(current_row) <= Width
         /\ consumer[c].index = Offset(consumer[c].row, Len(current_row) + 1)
         /\ current_row = [k \in 1..Len(current_row) |-> <<consumer[c].row, k>>]
    /\ last # None /\ (\A c \in Consumer : ~Unpacking(c))
         => current_row = [k \in 1..Width |-> <<last, k>>]

(* Nothing is unpacked, and nobody begins to or ends.                      *)
LEMMA UnpackedStays ==
  ASSUME Unpacked, current_row' = current_row, last' = last, raced' = raced,
         \A c \in Consumer :
           /\ consumer'[c].at = "unpack" <=> consumer[c].at = "unpack"
           /\ consumer[c].at = "unpack" => consumer'[c] = consumer[c]
  PROVE  Unpacked'
  BY DEF Unpacked, Unpacking

(* A consumer begins with its row.                                         *)
LEMMA UnpackedClear ==
  ASSUME Control, Unpacked, NEW c \in Consumer, Clear(c)
  PROVE  Unpacked'
<1> SUFFICES ASSUME ~raced' PROVE Unpacked'
  BY DEF Unpacked
<1>1. /\ current_row' = <<>>
      /\ \A d \in Consumer : Unpacking(d)' => d = c
      /\ Unpacking(c)'
      /\ consumer'[c].index = 0 /\ consumer'[c].row = consumer[c].row
  BY DEF Clear, Control, TypeOK, Unpacking
<1>2. consumer'[c].row \in Row
  BY <1>1, ControlClear DEF Control, RowsPresent, Unpacking
<1>3. Len(current_row') = 0 /\ Width \in Nat
  BY <1>1, RowBufferAssumption DEF Width
<1>4. consumer'[c].index = Offset(consumer'[c].row, Len(current_row') + 1)
  BY <1>1, <1>2, <1>3, OffsetsAddUp
<1>5. current_row' = [k \in 1..Len(current_row') |-> <<consumer'[c].row, k>>]
  BY <1>1, <1>3
<1> QED
  BY <1>1, <1>3, <1>4, <1>5 DEF Unpacked, Unpacking

(* It finds the next column where it looks.                                *)
LEMMA UnpackedUnpack ==
  ASSUME Control, Unpacked, NEW c \in Consumer, Unpack(c)
  PROVE  Unpacked'
<1> DEFINE r == consumer[c].row
           k == Len(current_row) + 1
<1>1. /\ r \in Row /\ Width \in Nat /\ Len(current_row) \in Nat
      /\ k \in 1..Width /\ Unpacking(c) /\ ~raced
      /\ current_row \in Seq((Row \X (1..Width)) \cup {Garbage})
  BY RowBufferAssumption DEF Unpack, Control, TypeOK, RowsPresent, Width, Unpacking
<1>2. /\ \A d \in Consumer : Unpacking(d) => d = c
      /\ consumer[c].index = Offset(r, k)
      /\ current_row = [i \in 1..Len(current_row) |-> <<r, i>>]
  BY <1>1 DEF Unpacked
<1>3. current_row' = Append(current_row, <<r, k>>)
  BY <1>2 DEF Unpack
<1>4. /\ consumer'[c].index = consumer[c].index + ReadSize(r, k)
      /\ consumer'[c].row = r
      /\ \A d \in Consumer : Unpacking(d)' <=> Unpacking(d)
  BY DEF Unpack, Control, TypeOK, Unpacking
<1> HIDE DEF r, k
<1>5. /\ Len(current_row') = k
      /\ \A i \in 1..Len(current_row) : current_row'[i] = current_row[i]
      /\ current_row'[k] = <<r, k>>
  BY <1>1, <1>3 DEF k
<1>6. current_row' = [i \in 1..k |-> <<r, i>>]
  <2>1. current_row' = [i \in 1..k |-> current_row'[i]]
    BY <1>1, <1>3, <1>5 DEF k
  <2>2. ASSUME NEW i \in 1..k PROVE current_row'[i] = <<r, i>>
    <3>1. CASE i = k
      BY <1>5, <3>1
    <3>2. CASE i # k
      <4>1. i \in 1..Len(current_row)
        BY <1>1, <3>2 DEF k
      <4> QED
        BY <1>2, <1>5, <4>1
    <3> QED
      BY <3>1, <3>2
  <2> QED
    BY <2>1, <2>2
<1>7. consumer'[c].index = Offset(r, Len(current_row') + 1)
  BY <1>1, <1>2, <1>4, <1>5, OffsetsAddUp
<1>8. Len(current_row') <= Width
  BY <1>1, <1>5
<1> QED
  BY <1>1, <1>2, <1>4, <1>5, <1>6, <1>7, <1>8 DEF Unpacked, Unpacking

(* It is through when it has all columns.                                  *)
LEMMA UnpackedReturn ==
  ASSUME Control, Unpacked, NEW c \in Consumer, Return(c)
  PROVE  Unpacked'
<1> SUFFICES ASSUME ~raced' PROVE Unpacked'
  BY DEF Unpacked
<1>1. /\ ~raced /\ Len(current_row) = Width /\ Unpacking(c)
      /\ current_row' = current_row /\ last' = consumer[c].row
  BY DEF Return, Unpacking
<1>2. current_row = [k \in 1..Width |-> <<consumer[c].row, k>>]
  BY <1>1 DEF Unpacked
<1>3. \A d \in Consumer : ~Unpacking(d)'
  BY <1>1 DEF Return, Control, TypeOK, Unpacked, Unpacking
<1> QED
  BY <1>1, <1>2, <1>3 DEF Unpacked

(* Unpacked, action by action.                                             *)
LEMMA UnpackedStep ==
  ASSUME Control, Unpacked, [Next]_vars
  PROVE  Unpacked'
<1>1. ASSUME NEW p \in Producer, LockProducer(p) \/ Push(p)
      PROVE  Unpacked'
  BY <1>1, UnpackedStays DEF LockProducer, Push, historyVars
<1>2. ASSUME NEW p \in Producer, NEW r \in Row, Copy(p, r)
      PROVE  Unpacked'
  BY <1>2, UnpackedStays DEF Copy, historyVars
<1>3. ASSUME NEW c \in Consumer,
             CallDequeue(c) \/ LockConsumer(c) \/ Front(c) \/ Pop(c)
      PROVE  Unpacked'
  <2>1. /\ current_row' = current_row /\ last' = last /\ raced' = raced
        /\ \A d \in Consumer : d # c => consumer'[d] = consumer[d]
        /\ consumer[c].at # "unpack" /\ consumer'[c].at # "unpack"
    BY <1>3 DEF Control, TypeOK, CallDequeue, LockConsumer, Front, Pop, historyVars
  <2> QED
    BY <2>1, UnpackedStays
<1>4. CASE UNCHANGED vars
  BY <1>4, UnpackedStays DEF vars, historyVars
<1> QED
  BY <1>1, <1>2, <1>3, <1>4, UnpackedClear, UnpackedUnpack, UnpackedReturn
  DEF Next, ProducerStep, ConsumerStep

(* As long as no two threads unpack at once, which nothing in dequeue      *)
(* (row_buffer.h) keeps them from doing, get_current_row hands out the row *)
(* of the last dequeue, whole, for any header and any sizes of strings.    *)
THEOREM WholeRow == Spec => []CurrentRowIsWhole
<1>1. Init => Unpacked
  BY DEF Init, Unpacked, Unpacking
<1>2. Control /\ Unpacked /\ [Next]_vars => Unpacked'
  BY UnpackedStep
<1>3. IInv => Control
  BY DEF IInv, Control
<1>4. Unpacked => CurrentRowIsWhole
  BY DEF Unpacked, Unpacking, CurrentRowIsWhole
<1> QED
  BY <1>1, <1>2, <1>3, <1>4, Invariance, PTL DEF Spec
=============================================================================
