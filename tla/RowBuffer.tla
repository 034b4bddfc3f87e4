----------------------------- MODULE RowBuffer ------------------------------
(***************************************************************************)
(* The buffer between the threads that receive rows from cells and the     *)
(* evaluator (src/src/lib/processor/cpp/row_buffer.h).  enqueue copies the *)
(* row before it takes the lock; dequeue unpacks the row and frees the     *)
(* copy after it has given the lock back.                                  *)
(*                                                                         *)
(* dequeue does not test for an empty queue and does not wait.  Its        *)
(* callers are not in the repository; they are taken to call it once for   *)
(* each enqueue that has returned.  A row is a message with the columns of *)
(* the header; the size of a string depends on the row.                    *)
(*                                                                         *)
(* An operator named Faulty... is a definition with a plausible mistake,   *)
(* used only to see that a property notices it.                            *)
(***************************************************************************)
EXTENDS Naturals, Sequences, FiniteSets

CONSTANTS
  Producer, Consumer,   (* threads                                         *)
  Row,                  (* messages                                        *)
  Header,               (* sequence of the columns' types                  *)
  StringSize,           (* for each row, the size of its strings           *)
  None                  (* no row, no thread                               *)

(* sizeof of what data_value::read takes from the buffer for a number; for *)
(* a string, of the size in front of it.                                   *)
TypeSize == [smallint |-> 2, integer |-> 4, bigint |-> 8, real |-> 4,
             double_precision |-> 8, varchar |-> 4]

ASSUME RowBufferAssumption ==
  /\ Producer \cap Consumer = {}
  /\ IsFiniteSet(Consumer)
  /\ None \notin Producer \cup Consumer \cup Row
  /\ Header \in Seq(DOMAIN TypeSize)
  /\ StringSize \in [Row -> Nat]

VARIABLES
  rows,           (* the queue                                             *)
  rows_lock,      (* the thread in the critical section, or None           *)
  heap,           (* the rows whose copy is allocated                      *)
  current_row,    (* the unpacked values, <<row, column>>, or garbage      *)
  producer,       (* where each producer is, and with which row            *)
  consumer,       (* where each consumer is, with which row, and how far   *)
                  (* into its copy                                         *)
  raced,          (* two threads have changed current_row at once, which   *)
                  (* is undefined behaviour                                *)
  (* History variables.                                                    *)
  pushed,         (* the rows in the order of their insertion              *)
  taken,          (* the rows in the order in which consumers got them     *)
  called,         (* calls of dequeue                                      *)
  last            (* the row of the last dequeue that returned             *)

queueVars == <<rows, rows_lock>>
historyVars == <<pushed, taken, called, last>>
vars == <<queueVars, heap, current_row, producer, consumer, raced,
          historyVars>>

Width == Len(Header)
Garbage == <<None, 0>>

TypeOK ==
  /\ rows \in Seq(Row)
  /\ rows_lock \in Producer \cup Consumer \cup {None}
  /\ heap \subseteq Row
  /\ current_row \in Seq((Row \X (1..Width)) \cup {Garbage})
  /\ producer \in [Producer -> [at : {"idle", "copied", "push"},
                                row : Row \cup {None}]]
  /\ consumer \in
       [Consumer -> [at : {"idle", "called", "front", "pop", "clear", "unpack"},
                     row : Row \cup {None}, index : Nat]]
  /\ raced \in BOOLEAN
  /\ pushed \in Seq(Row) /\ taken \in Seq(Row)
  /\ called \in 0..Len(pushed)
  /\ last \in Row \cup {None}

Init ==
  /\ rows = <<>> /\ rows_lock = None
  /\ heap = {}
  /\ current_row = <<>>
  /\ producer = [p \in Producer |-> [at |-> "idle", row |-> None]]
  /\ consumer = [c \in Consumer |->
                   [at |-> "idle", row |-> None, index |-> 0]]
  /\ raced = FALSE
  /\ pushed = <<>> /\ taken = <<>> /\ called = 0 /\ last = None

-----------------------------------------------------------------------------
(* Faulty: the critical section is entered whoever is in it.               *)
FaultyMayEnter(th) == TRUE

MayEnter(th) == rows_lock = None

(* new, memcpy.                                                            *)
Copy(p, r) ==
  /\ producer[p].at = "idle"
  /\ \A i \in DOMAIN pushed : pushed[i] # r
  /\ \A q \in Producer : producer[q].row # r
  /\ heap' = heap \cup {r}
  /\ producer' = [producer EXCEPT ![p] = [at |-> "copied", row |-> r]]
  /\ UNCHANGED <<queueVars, current_row, consumer, raced, historyVars>>

LockProducer(p) ==
  /\ producer[p].at = "copied"
  /\ MayEnter(p)
  /\ rows_lock' = p
  /\ producer' = [producer EXCEPT ![p].at = "push"]
  /\ UNCHANGED <<rows, heap, current_row, consumer, raced, historyVars>>

(* Faulty: what is queued is a row that was never filled in.               *)
FaultyQueued(p) == Append(rows, None)

Queued(p) == Append(rows, producer[p].row)

(* emplace_back; the lock is given back.                                   *)
Push(p) ==
  /\ producer[p].at = "push"
  /\ rows' = Queued(p)
  /\ pushed' = Append(pushed, producer[p].row)
  /\ rows_lock' = None
  /\ producer' = [producer EXCEPT ![p] = [at |-> "idle", row |-> None]]
  /\ UNCHANGED <<heap, current_row, consumer, raced, taken, called, last>>

-----------------------------------------------------------------------------
(* The caller knows of an enqueue that nobody else has called for.         *)
CallDequeue(c) ==
  /\ consumer[c].at = "idle"
  /\ called < Len(pushed)
  /\ called' = called + 1
  /\ consumer' = [consumer EXCEPT ![c].at = "called"]
  /\ UNCHANGED <<queueVars, heap, current_row, producer, raced, pushed,
                 taken, last>>

LockConsumer(c) ==
  /\ consumer[c].at = "called"
  /\ MayEnter(c)
  /\ rows_lock' = c
  /\ consumer' = [consumer EXCEPT ![c].at = "front"]
  /\ UNCHANGED <<rows, heap, current_row, producer, raced, historyVars>>

Front(c) ==
  /\ consumer[c].at = "front"
  /\ rows # <<>>
  /\ consumer' = [consumer EXCEPT ![c].at = "pop", ![c].row = Head(rows)]
  /\ UNCHANGED <<queueVars, heap, current_row, producer, raced, historyVars>>

(* Faulty: the lock is not given back.                                     *)
FaultyUnlocked == rows_lock

Unlocked == None

(* pop_front; the lock is given back.                                      *)
Pop(c) ==
  /\ consumer[c].at = "pop"
  /\ rows' = Tail(rows)
  /\ rows_lock' = Unlocked
  /\ taken' = Append(taken, consumer[c].row)
  /\ consumer' = [consumer EXCEPT ![c].at = "clear"]
  /\ UNCHANGED <<heap, current_row, producer, raced, pushed, called, last>>

-----------------------------------------------------------------------------
(***************************************************************************)
(* Unpacking.  data_value::read returns how far it has got.                *)
(***************************************************************************)
(* Faulty: the size in front of a string is not counted.                   *)
FaultyReadSize(r, k) ==
  IF Header[k] = "varchar" THEN StringSize[r] ELSE TypeSize[Header[k]]

ReadSize(r, k) ==
  TypeSize[Header[k]] + (IF Header[k] = "varchar" THEN StringSize[r] ELSE 0)

(* Where data_value::write has put column k.                               *)
WriteSize(r, k) ==
  IF Header[k] = "varchar" THEN 4 + StringSize[r] ELSE TypeSize[Header[k]]

Offset(r, k) ==
  LET upto[n \in 0..Width] ==
        IF n = 0 THEN 0 ELSE upto[n - 1] + WriteSize(r, n)
  IN  upto[k - 1]

Clear(c) ==
  /\ consumer[c].at = "clear"
  /\ current_row' = <<>>
  /\ raced' = (raced \/ \E d \in Consumer \ {c} : consumer[d].at = "unpack")
  /\ consumer' = [consumer EXCEPT ![c].at = "unpack", ![c].index = 0]
  /\ UNCHANGED <<queueVars, heap, producer, historyVars>>

(* One column of the header.                                               *)
Unpack(c) ==
  LET r == consumer[c].row
      k == Len(current_row) + 1
  IN  /\ consumer[c].at = "unpack"
      /\ ~raced
      /\ k <= Width
      /\ current_row' = Append(current_row,
           IF consumer[c].index = Offset(r, k) THEN <<r, k>> ELSE Garbage)
      /\ consumer' = [consumer EXCEPT ![c].index = @ + ReadSize(r, k)]
      /\ UNCHANGED <<queueVars, heap, producer, raced, historyVars>>

(* Faulty: the copy is not freed.                                          *)
FaultyFreed(r) == heap

Freed(r) == heap \ {r}

(* delete[]; dequeue returns.  Two threads in clear and emplace_back of    *)
(* the one vector are undefined behaviour: a value may be freed twice and  *)
(* the process end.  After that the call may return, whatever is in        *)
(* current_row, or not: Fairness demands nothing more of anybody.          *)
Return(c) ==
  /\ consumer[c].at = "unpack"
  /\ raced \/ Len(current_row) = Width
  /\ heap' = Freed(consumer[c].row)
  /\ last' = consumer[c].row
  /\ consumer' = [consumer EXCEPT ![c] =
                    [at |-> "idle", row |-> None, index |-> 0]]
  /\ UNCHANGED <<queueVars, current_row, producer, raced, pushed, taken,
                 called>>

-----------------------------------------------------------------------------
ProducerStep(p) == LockProducer(p) \/ Push(p)

ConsumerStep(c) ==
  \/ LockConsumer(c) \/ Front(c) \/ Pop(c)
  \/ Clear(c) \/ Unpack(c) \/ Return(c)

Next ==
  \/ \E p \in Producer : ProducerStep(p) \/ \E r \in Row : Copy(p, r)
  \/ \E c \in Consumer : ConsumerStep(c) \/ CallDequeue(c)

(* A thread that can go on goes on, until two have unpacked at once: from  *)
(* then on everything may stop at any moment, as it does in a crash.       *)
(* Nobody has to call.  There are as many rows as Row has, so the lock     *)
(* stays free in the end; on an endless stream the mutex would also have   *)
(* to let every waiter in.                                                 *)
Fairness ==
  /\ \A p \in Producer : WF_vars(~raced /\ ProducerStep(p))
  /\ \A c \in Consumer : WF_vars(~raced /\ ConsumerStep(c))

Spec == Init /\ [][Next]_vars /\ Fairness

-----------------------------------------------------------------------------
(***************************************************************************)
(* What holds.                                                             *)
(***************************************************************************)

(* The rows come out in the order in which they went in, each once, for    *)
(* any number of threads on both sides; and a dequeue never looks at the   *)
(* front of an empty queue, though it does not ask.                        *)
FirstInFirstOut ==
  /\ pushed = taken \o rows
  /\ \A c \in Consumer : consumer[c].at = "front" => rows # <<>>

(* Each copy that enqueue allocates has one owner -- its producer, the     *)
(* queue, or the consumer that took it -- until it is freed: none is       *)
(* leaked, freed twice, or read after it was freed.  The consumer between  *)
(* front and pop_front holds what is still in the queue.                   *)
CopiesOwnedOnce ==
  LET made   == {p \in Producer : producer[p].row # None}
      holder == {c \in Consumer : consumer[c].at \in {"clear", "unpack"}}
      queued == {rows[i] : i \in DOMAIN rows}
      held   == {consumer[c].row : c \in holder}
  IN  /\ heap = {producer[p].row : p \in made} \cup queued \cup held
      /\ \A p \in made : producer[p].row \notin queued \cup held
      /\ queued \cap held = {}
      /\ \A c, d \in holder : c # d => consumer[c].row # consumer[d].row

(* As long as no two dequeues have unpacked at once, what get_current_row  *)
(* hands out when none is at work is the row of the last one, whole and    *)
(* with nothing of another row, whatever the sizes of its strings.         *)
CurrentRowIsWhole ==
  /\ ~raced
  /\ last # None
  /\ \A c \in Consumer : consumer[c].at # "unpack"
  => current_row = [k \in 1..Width |-> <<last, k>>]

(* A call of dequeue comes back however many threads enqueue and wait for  *)
(* the lock, unless two dequeues unpack at once (row_buffer.h:121-129):    *)
(* then nothing is promised of any call, whatever the comment at line 109  *)
(* says of thread safety.                                                  *)
CallsReturn ==
  \A c \in Consumer :
    consumer[c].at = "called" ~> consumer[c].at = "idle" \/ raced

-----------------------------------------------------------------------------
(***************************************************************************)
(* The inductive invariant behind the first three.                         *)
(***************************************************************************)
RowsPresent ==
  /\ \A p \in Producer : producer[p].at # "idle" <=> producer[p].row \in Row
  /\ \A c \in Consumer :
       consumer[c].at \in {"pop", "clear", "unpack"} => consumer[c].row \in Row

(* The thread in the critical section is the one that has locked it.       *)
Exclusion ==
  /\ \A p \in Producer : producer[p].at = "push" => rows_lock = p
  /\ \A c \in Consumer :
       consumer[c].at \in {"front", "pop"} => rows_lock = c

FrontHeld ==
  \A c \in Consumer :
    consumer[c].at = "pop" => rows # <<>> /\ consumer[c].row = Head(rows)

(* Each call has taken a row or is still to take one.                      *)
Waiting == {c \in Consumer : consumer[c].at \in {"called", "front", "pop"}}

CallsCounted == called = Len(taken) + Cardinality(Waiting)

(* No row goes in twice.                                                   *)
RowsDistinct ==
  /\ \A i, j \in DOMAIN pushed : pushed[i] = pushed[j] => i = j
  /\ \A p \in Producer, i \in DOMAIN pushed : producer[p].row # pushed[i]
  /\ \A p, q \in Producer :
       producer[p].row = producer[q].row => p = q \/ producer[p].row = None

(* What a consumer still reads it has taken.                               *)
HeldTaken ==
  \A c \in Consumer :
    consumer[c].at \in {"clear", "unpack"} =>
      \E i \in DOMAIN taken : taken[i] = consumer[c].row

IInv ==
  /\ TypeOK
  /\ RowsPresent
  /\ Exclusion
  /\ FrontHeld
  /\ CallsCounted
  /\ pushed = taken \o rows
  /\ RowsDistinct
  /\ HeldTaken
  /\ CopiesOwnedOnce
=============================================================================
