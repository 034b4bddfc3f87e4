# A TLA+ model of cql-db

cql-db is the beginning of a distributed column store.  Cells keep the data of
tables in column pages and run transactions on them; a query processor turns a
query into code that reads rows from cells; an edge takes packets from clients
and other nodes; a group manager starts one cell per hardware thread and
connects them with a control plane of ZeroMQ sockets.

The modules here model the parts of the program in which order matters: what the
transactions of a cell can do to each other, what the threads of a group do to
each other, and how nodes learn of one another.  Each definition stands for the
lines that `PROJECT.json` names under `map`.

## 1. The system

Paths are below `src/src`.

| Component | State it keeps | Operations | What makes it correct |
|---|---|---|---|
| SSI lock manager, `lib/cell/cpp/ssi_lock_manager.h` | `range_map` (rows read, by transaction and table), `dep_map` (for each reader, who later wrote what it read), `concurrent_transactions`, `active_transactions` | `add_transaction`, `del_transaction`, `track_read`, `track_write`, `get_rw_dependency`, `check_for_conflicts`, `commit`, `abort` | the entries of running transactions are never lost; read locks live as long as somebody can still write against them; two transactions that replaced what the other had read do not both commit |
| range, `lib/common/cpp/range.h`, `lib/cell/cpp/row_id.h` | an ordered list of closed segments | `insert`, `find`, `contains` | it is the set of the points inserted, whatever their order |
| row value, `lib/cell/cpp/row_value.h` | ids of the writer, of the remover and of the lock holder, `committed`, the object id of each column | `lock`, `unlock`, `update`, `remove`, `commit`, the visibility rules | a lock excludes others; nobody reads an uncommitted row of another one; data is immutable |
| table, `lib/cell/cpp/table.{h,cpp}` | `rows`, `row_id_generator`, a page for each column | `insert_row`, `update_row`, `fetch_row`, `commit_row` | a call that fails half-way leaves nothing behind that a later call could read |
| page and page cursor, `lib/cell/cpp/page.h`, `page_cursor.h` | a list of atoms, each with an index from object ids to offsets and reference counts; `next_oid` | `insert_object`, `fetch_object`, `acquire_object`, `delete_object`; the cursor's `advance` | an object that is referred to stays and keeps its value; a cursor visits every object once |
| transaction, `lib/cell/cpp/transaction.{h,cpp}` | `id`, isolation level, cursors, for each table the rows added and deleted | `create_cursor`, `insert_columns`, `update_columns`, `fetch_columns`, `commit` | a row is committed by the transaction that added it and with all its other rows |
| command processor, database, `lib/cell/cpp/command_processor.{h,cpp}`, `database.h` | the map of transactions, tables by name and id | the commands PREPARE, INSERT and FETCH | a cursor kept between commands stays good whatever other commands do |
| values and predicates, `lib/cell/cpp/data_value.*` and others | none between calls | comparisons, conversions | sequential; unit tests reach it |
| query processor, `lib/processor/cpp` | row buffer: queue of rows and the current row; metadata | `enqueue`, `dequeue`; parse, analyse, generate | rows reach the evaluator in order and complete, though two threads share the buffer |
| edge, `lib/edge/cpp` | discovery: socket, map of nodes; request ids | `announce`, `listen` | every node that goes on announcing itself is found |
| control plane and group manager, `lib/plane/cpp`, `group` | sockets, threads, `continue_processing` | `start`, `stop`, `process`, the signal handler | one `stop()` proceeds at a time, and no thread is left waiting |
| coordinator, `lib/coordinator/cpp` | none | empty handlers | a stub no target builds |

### How the parts interact

* A client's packet reaches a command processor, which finds the transaction and
  the cursor and calls `transaction`.  `transaction` calls the table, with its own
  id and isolation level.
* The table asks a row for its visibility and for its lock, asks the pages for
  object ids and stores the values there.  For a `SERIALIZABLE` call, if
  `set_ssi_lock_manager` was called, `fetch_row` reports the row to `track_read`
  and `update_row` to `track_write`.
* The lock manager is told of the start and of the end of each transaction by
  whoever runs them.  In the repository these are the tests: `transaction` never
  calls it.  `test_cell_table.cpp` (`CanSerializeTransactions`) and
  `test_cell_ssi_lock_manager.cpp` show the order in which it is meant to be used.
* The lock manager keeps the rows read in `range<row_id>`.
* The group manager's `main` thread creates the workers and the thread that takes
  queries and then announces itself and listens once a second.  A signal runs
  `stop()` on whatever thread it interrupts.  STOP goes through a REQ socket to the
  proxy thread of the control plane and from there to the workers' SUB sockets.
* The evaluator's generated code reads `current_row` of the row buffer, which
  `dequeue` fills from a queue that other threads fill.

The parts are not all connected yet: `main.cpp` has the call of `manager::start`
commented out, no thread hands commands to a command processor, and nobody calls
`enqueue` and `dequeue`.  The models take each class with the calls its header and
its tests describe.

### What is hard here

* Transactions overlap in any pattern and end in any order; the lock manager
  tears down an entry when the last one that overlapped is gone, not when its
  owner ends.
* A conflict is two facts noted at different times, possibly after one of the two
  parties committed, and possibly one of them about a third transaction.
* Calls fail after they have taken ids, stored columns and locked rows, and
  nothing is rolled back.
* `range` stops searching early because it relies on an order that `insert` has
  to keep.
* Iterators are kept over insertions into hash tables; counters are eight bits
  wide; threads are stopped by a message some of them may not receive.

`PROJECT.json` lists these under `hazards`, each at its line, with the properties
that would notice it, or a note that says why none does.

## 2. The modules

| Module | Stands for | Extends or uses |
|---|---|---|
| `SsiLockManager` | the class `ssi_lock_manager`: its four containers and an operator for each operation | |
| `SsiProtocol` | transactions that use the lock manager | `SsiLockManager` |
| `SsiProtocolProofs` | the theorems about it | `SsiProtocol`, `TLAPS` |
| `RowValue` | `row_value` and `row_is_visible`, as operators on a row | |
| `TableStore` | the rows of a table, its pages, and what each operation of the class reads and changes, as operators | `RowValue` |
| `Table` | the table called by several transactions, together with the lock manager it reports to | `TableStore`, `SsiLockManager` |
| `TableProofs` | the theorems about the table | `Table`, `TLAPS` |
| `TransactionLog` | what transactions promise: who owns a row, and what a commit commits | |
| `Cell` | command processor, transactions with their cursors, and a table | `TableStore`; `TransactionLog` as the abstract specification |
| `CellProofs` | the theorems about it, with the refinement | `Cell`, `TLAPS` |
| `PointSet` | what a `range` promises: a set to which each insertion adds its point | |
| `Range` | the list of segments | `PointSet` as the abstract specification |
| `RangeProofs` | the theorems about it, with the refinement | `Range`, `TLAPS` |
| `ObjectStore` | what a page promises: objects with a value and references | |
| `Page` | a column page with its atoms, and a cursor over it | `ObjectStore` as the abstract specification |
| `PageProofs` | the theorems about it, with the refinement | `Page`, `TLAPS` |
| `RowBuffer` | the queue of rows and the unpacked row, used by several threads | |
| `RowBufferProofs` | the theorems about it | `RowBuffer`, `TLAPS` |
| `GroupManager` | the threads of a group, signals, and the control plane's proxy | |
| `GroupManagerProofs` | the theorems about it | `GroupManager`, `TLAPS` |
| `Discovery` | the rounds of the main thread: announce, listen, sleep; the network | |
| `DiscoveryProofs` | the theorems about it | `Discovery`, `TLAPS` |
| `MC...` | what TLC needs for the module of that name | |

### SsiLockManager and SsiProtocol

The four variables have the names of the members.  A `range<row_id>` is a set of
rows, which the run `range` justifies.  A missing map entry is a transaction
outside the DOMAIN, so it can be told from an empty one: the code depends on the
difference.  `find(x)->second` on a missing entry sets `crashed`, after
which nothing happens any more.  Where the code iterates over a hash table and
takes the first match (`get_rw_dependency`), the model takes any match.

`SsiProtocol` adds `status`, the history of what was read and written, and the
overlaps.  Its actions are

* `Read`, `Write` -- what `fetch_row` and `update_row` report; the first call of a
  transaction also adds it to the active ones, as in the code;
* `Commit` -- `check_for_conflicts` finds no victim and the manager's `commit`
  runs; `Resolve` -- it names a victim, which is aborted; `Rollback` -- a
  transaction aborts on its own.

Commit does the check and the tear-down in one step, since the callers
do both on one thread with nothing in between.  Every other interleaving of the
calls is there.

### RowValue, TableStore and Table

A row is a record with the members of `row_value`; its column values are the object
ids under which pages keep them.  `transaction_id` 0 is "no one", as in the
code.  A page is the set of object ids it stores and the next id.  `InsertRow`,
`UpdateRow`, `FetchRow` and `CommitRow` are whole calls, with the
columns present, the number of values in the buffer and the isolation level as
inputs.  A buffer that is too short, and a column type that `insert_row` does not know,
end the call in the middle; `Stops` says at which columns this happens, and
`Numbered` and `Stored` what has been taken and kept by then.

Callers give one `present` flag for each column of the table, as
`command_processor` and the tests do.

### Cell

One action per command, with the inputs a client may choose: a transaction it knows
or not, a table that exists or not, a cursor it was given or not, a buffer that is
long enough or not.  `process` runs a command to its end before the next, so a
command with several data packets or a batch is a sequence of commands with one.
`commit` and `update_columns` of `transaction` have no caller, and are actions too.
A transaction is the record in the map `transactions`; its key is the handle clients
use, counted from a member that is never initialised (so `next_transaction_id`
starts anywhere and may wrap).  The `id` the rows are locked and tested with is
`TransactionId`, the empty id, in every transaction: nothing assigns it.
`get_cursor` and `get_table` create what they do not find, with a null table handle,
and the next use dereferences it: `died`.

A cursor is the row its iterator points to.  The order of the hash table is open:
`create_cursor` may start at any row, and a fetch that skips isolated rows may end
at any visible one.  An iterator of an empty table is `end()` and stays `end()`
when rows come.  On success `fetch_columns` does not move the iterator.

`TransactionLog` is what remains when cursors, object ids, locks and failures are
taken away: owners of rows, and commits.  The refinement takes as the owner of a row
the transaction whose list it is on.

### RowBuffer

The critical sections and the steps outside them are separate: `Copy` before the
lock, `Front` and `Pop` under it, `Clear`, one `Unpack` per column, `Return` after it.
`data_value::read` is known by the number of bytes it takes; `index` counts them, and
a column comes out whole only if its bytes are where `write` put them.
`dequeue` does not wait and does not test for an empty queue; callers are taken to
call it at most once for each `enqueue` that has returned.  If one thread clears
`current_row` while another fills it (`raced`), that is undefined behaviour of the one
`std::vector`: it may hold anything, a value may be freed twice, the process may
end.  From then on the fairness demands nothing: everything may stop at any moment,
and no call need return.

### GroupManager

`at` says where each thread is.  The steps of `main` are those of `start()`
(create a thread, put it into the vector) and of `process()`; a round of the loop is
one step here and the subject of `Discovery`.  A worker subscribes, looks at the
flag, waits.  A signal puts a frame on top of the `handler` of a thread; while there
is one the thread does nothing else, and the top frame goes through `stop()`: lock,
test, lower the flag, post STOP, join.  The same thread may be interrupted again by
the other kind of signal.  A signal may break off a blocking call: then `recv`
throws, which ends the process (`aborted`), and `zmq_proxy` returns.
STOP reaches all who had subscribed when it was posted, and may reach others who do so
before the proxy forwards it.  The first query is received and never answered;
the next `recv` on that socket throws.  A handler comes between two actions of a thread.
No other thread changes the vector of threads while `stop()` walks over it, since
`stop()` runs on the main thread, or on another one while the main thread is in a
handler itself.  But the code lets a handler interrupt the main thread in the middle
of `push_back` (`manager.cpp:51`), and calls in the handler much that is not
async-signal-safe -- mutexes, sockets, `new`, the logger; neither is modelled.

### Discovery

Datagrams are lost (not delivered), repeated, late and reordered, since an
announcement may be delivered at any time once its node has sent one.  `listen` reads
until the socket is empty, and ends early on what does not parse and on errors.
`si_len` is read before it is assigned: an address may be stored cut off
(`undefined`), and `recvfrom` may fail at any time.

### Range

`segments` is the sequence of pairs.  `Insert` is the loop: the first segment
that covers the point, touches it or lies behind it decides
(`InsertStop`).  `Contains` is the loop of `find` with its early exit.  The
refinement maps `segments` to the points for which `Contains` answers yes, so a
point that is in a segment and that the early exit misses would be an error.
The history variable `last` holds the argument of the last call, so that
a call that adds nothing is not taken for no call.

### Page

`atoms` is the list; the index of an atom is a function from object ids to values and
counts.  Atoms are only appended to, so an offset stands for one
value for ever and the model keeps the value instead.  `page()` hands
`k_max_atom_size` to a delegated constructor before the member is initialised;
the first maximum is therefore any of `AtomSize`.  `find_object` takes the first
atom that indexes the object and uses the last atom of the list when there is
none: on an empty list `faulted` is set.  An atom's size is never lowered, so the
branch of `delete_object` that erases an atom is never taken.  The cursor starts at
whichever entry the hash table has first.  The reference counter counts modulo
`RefModulus`, 256 in the code, and nothing keeps users from taking more references
than that: `MaxRefs` bounds only what they take in a run, and is larger than the
modulus there.  `held` is a history variable, the references that the users of an
object have not given back, and so is `overrun`, the objects whose counter has
wrapped.

## 3. The runs

| Run | Module, config | Question | Result |
|---|---|---|---|
| `ssi` | `MCSsiProtocol`, `MCSsiProtocol.cfg` | Do the four containers stay consistent with what happened, whatever the order of the calls? | holds, 664,787 states |
| `ssi_fault` | `SsiProtocolFault.cfg` | Can `add_transaction` use an entry that is gone? | it can |
| `table` | `MCTable`, `MCTable.cfg` | What can interleaved calls, failed ones among them, do to rows, and does the lock manager hear of each conflict of two serializable transactions in time? | holds, 425,662 states |
| `range` | `MCRange`, `MCRange.cfg` | Is the segment list the set of the points inserted? | holds |
| `page` | `MCPage`, `MCPage.cfg` | Is a page an object store, however the atoms are filled, and how much of that is left when a counter wraps? | holds, 850,352 states |
| `page_walk` | `PageWalk.cfg` | Does a cursor come to all objects before it says that the page has ended? | it does not |
| `cell` | `MCCell`, `MCCell.cfg` | Do commands, failed ones and updates among them, keep rows, lists and cursors together? | holds, 286,536 states |
| `cell_dirty` | `CellDirty.cfg` | Is uncommitted data ignored by other transactions? | it is not |
| `row_buffer` | `MCRowBuffer`, `MCRowBuffer.cfg` | Do rows come out in order, whole and once, with several threads on each side? | holds, 6,871 states |
| `group` | `MCGroupManager`, `MCGroupManager.cfg` | Do two `stop()` ever proceed at once, and does one that comes to its joins leave a worker waiting? | neither, 79,755 states |
| `group_stop` | `GroupStop.cfg` | Does `process()` stop after SIGTERM? | it does not |
| `discovery` | `MCDiscovery`, `MCDiscovery.cfg` | Is every node found on a bad network? | holds, 21,084 states |

### What the passing runs show

`ssi`, properties of `SsiProtocol`:

* `ActiveMutuallyConcurrent`: of two running transactions each is in the other's
  entry, unless an entry is missing because its owner was alone;
* `ReadLocksKept`: what a transaction has read stays in `range_map` as long as it,
  or somebody who ran with it, is running;
* `DependenciesExact`: `dep_map` has every edge that can still matter and, for a
  running reader, no edge that did not happen;
* `QuiescentIsEmpty`: when nobody runs, all containers are empty;
* `SkewNeedsThirdReader`: two transactions that each replaced a row the other had
  read before do not both commit, unless a third one also read a row that one of
  them replaced;
* `VictimsAreLive`: nobody is ended twice;
* `FaultNeedsLoner`: `add_transaction` meets a missing entry in one situation only, when a
  transaction begins while a single other one runs that has met others before.  It says how
  far the fault that `ssi_fault` finds reaches.

`table`: `UncommittedIsLockedByWriter`, `NoDirtyRead`, `LockExcludesOthers`,
`VersionsAreImmutable`, `OnlyNullIsCorrupt`, `SharedOnlyByDescent`,
`AntidependencyNoted`.  `range`: `InOrder`, `ImplementsPointSet`.

`page`, properties of `Page`:

* `OneAtomPerObject`: no object is in the indexes of two atoms;
* `ImplementsObjectStore`: an object keeps its value, and is there until its last reference is
  given back -- unless it has ever had so many that its counter wrapped;
* `LostOnlyByWrap`: whatever the counters have been through, an object is erased only
  when the references that are still out are none, or a multiple of what the
  counter can count.

`cell`, properties of `Cell`:

* `AddedExactlyOnce`: every row is on the list of exactly one transaction, and no list
  names a row that a failed call left out -- `commit` depends on nothing else;
* `EveryCursorFetches`: a cursor kept between commands stands at the end or on a row
  all of whose columns can be read;
* `ImplementsTransactionLog`: rows become committed by a commit of the transaction
  that added them, all at once, and by nothing else.

`row_buffer`: `FirstInFirstOut`; `CopiesOwnedOnce`, no copy is leaked, freed twice or
read after it was freed; `CurrentRowIsWhole`; and, as liveness, `CallsReturn`.  The last two
speak of runs in which no two dequeues unpack at once.

`group`: `OneStopAtATime`; `StopOnItsWay`, a worker that waits with the flag down has
STOP coming, which is where the order subscribe--look--wait matters;
and, as liveness, `StopReachesWorkers`: when `stop()` has come to its joins every worker ends, also
one created afterwards.  A signal can leave a worker waiting for ever in another way: if a second
one interrupts the handler on the thread that has locked `stop_guard`, both handlers
and all workers wait.

`discovery`: `NodesFound`, as liveness: no junk and no loss keeps a node that goes on
announcing itself out of the map.

The comment above each property says
what it means.  In the modules, the operators named `Faulty...` are plausible mistakes; with one of
them in place of the definition it follows, the property named with it under
`mutants` fails.

### What the failing runs show

Each states what a comment or a test says and what the code does not do; the
`findings` of `PROJECT.json` quote the lines.

1. `ssi_fault`.  T1 and T2 begin, T2 ends: the entry of T1 is erased
   although it runs.  T3 begins: `find(T1)->second` is `end()->second`.
2. `cell_dirty`.  A transaction inserts a row and a second one, with READ_COMMITTED,
   opens a cursor and fetches it.  The row is locked by the empty id, which
   counts as not locked, and both transactions have that id.
3. `group_stop`.  The worker ends; `stop()`, on the main thread, goes on to join the thread
   that takes queries, which waits for a query for ever.
4. `page_walk`.  Two objects are in one atom.  The cursor is at the first; `advance` finds
   the second behind it and sets `at_end`.  The comment at `page_cursor.h:50` and the loop of
   the test `CanIterate`, which means to look at every object and runs once, say otherwise.

### Other places where code and comments differ

The models contain these; no run is spent on them.

* `ssi_lock_manager.h:378-381` says that an abort removes the write mappings;
  `collect` ignores its second argument and the aborted writer stays in `dep_map`.
* `test_cell_table.cpp:390-392` says that write skew is refused.
  `get_rw_dependency` returns the first reader it finds; if that is a third one
  that nobody precedes, both commit.  And `track_read` does not look for an
  earlier writer, so a read that comes after the write leaves no trace.
* `row_value.h:185-187` says that a snapshot shows the row as it was when the transaction
  began.  `commit` resets the lock id before it copies it to the write id, so
  committed rows carry writer 0 and are in every snapshot.
* `row_value.h:33-35` says that an update tells when the old row is no longer visible.
  `remove` marks a row only if somebody *else* holds the lock; `update_row` holds
  it itself.
* `page.h:341-342` says that an object is released when its references are all done.  The
  counter has eight bits: the 256th reference takes it to 0, the next one to 1, and
  then a single delete erases the object while 256 references are out.
* `manager.h:56-57` says that `process` stops when `stop()` is called.  If SIGTERM interrupts the
  handler of SIGINT, or the other way round, while that holds `stop_guard`, the
  handler locks the mutex its own thread has (`manager.cpp:87`) and nothing goes on.
* `transaction.h:26-28` says that `deleted` lists the rows deleted; `update_row` has moved the
  iterator by then and `update_columns` records the new row.
* `row_buffer.h:109` says that `dequeue` is thread safe; two that overlap clear and fill the
  same `current_row` outside the lock (`row_buffer.h:121-129`), which is undefined
  behaviour.
* `discovery.cpp:147-149` says that the address and the last time are stored;
  `insert` keeps the first ones.

### Bounds

| Run | Bound | Why it is enough |
|---|---|---|
| `ssi...` | 3 transactions, 2 rows, 1 table; each transaction begins once | A dangerous structure has three parties, an entry is torn down by the end of a second and missed by the begin of a third; a pair of rows gives write skew.  Tables only partition the rows.  Transactions are symmetric. |
| `table` | one of two settings: 2 transactions, 3 insertions, 2 columns of which one cannot be stored, every level but `SERIALIZABLE`; or 3 transactions, of which the third only fetches and ends, 2 insertions, 1 column, `SERIALIZABLE` | The properties relate a version to the one it came from and one transaction to another; the third insertion gives a chain of two updates or an unrelated row next to an update.  The lock manager hears of `SERIALIZABLE` calls only; it takes a reader, a writer and a third one whose end tears entries down in between (`ConflictsNoted` is proved for any number of each). |
| `range` | ids 1 to 7 (the modulus of the id is cut from 2^64 to 8), inserted in any order | Enough for three segments with gaps, joined in the middle or at either end, and for the largest id, whose successor wraps to 0.  0 is not inserted: row ids count up from 1. |
| `page` | 3 objects of sizes 1 and 2, maxima 1 and 2, counts modulo 3 with up to 4 references | One, two or three atoms with one to three objects in each; a count goes up and down past 1, wraps, and goes on behind the wrap.  The real modulus is 256; the theorems are for any. |
| `page_walk` | the same, 1 reference | Two objects in one atom are enough. |
| `cell...` | 2 transactions of 3 handles, 1 cursor each, 3 insertions, 2 columns, READ_COMMITTED | Two transactions to confuse; handles that wrap; an update of an updated row, a failed insertion in between.  All transactions have the empty id, for which every row is visible at every isolation level; one level stands for all. |
| `row_buffer` | 2 producers, 2 consumers, 3 rows, a number and a string as columns | Two threads wait for the lock while a third holds it; two rows in the queue and one outside; strings of different sizes shift the columns behind them. |
| `group` | 2 workers, 2 signals of 2 kinds | Signals nest on one thread, or come to two; one worker may be waiting while the next is not yet created.  With 3 workers (580,703 states) or 3 signals (376,725 states) the result is the same. |
| `discovery` | 3 nodes, room for 3 datagrams | Junk before, between and behind two announcements, of one node or of two. |

### Fairness

The lock manager, table, range, page and cell describe a library whose callers may stop
at any time; their specifications state no fairness, and their properties are safety.

* `RowBuffer`: each thread is weakly fair: one that can go on does, until two have unpacked at
  once.  Nobody has to call.
  A mutex in general owes its waiters more than that -- a waiter could be overtaken
  for ever -- but there are finitely many rows, after which the lock stays
  free; `CallsReturn` is claimed for such runs only.
* `GroupManager`: each thread is weakly fair, the proxy and the handlers too.  Signals and
  queries need not come.  ZeroMQ delivers within a process what was sent to a
  subscriber.
* `Discovery`: the main thread is weakly fair.  Each node broadcasts once a second for ever, and
  the deliveries of its announcements are strongly fair: a network that loses every
  single one of them, or whose buffer is full at each of them, is not one
  the code can do anything about.  The fairness does not make `listen` return: while datagrams
  come as fast as they are read it goes on reading, and neither announces nor looks
  at the flag.

Deadlock is not checked where all callers may have finished, the process may have
crashed, or `stop()` may wait for ever; there the system does stop.  In `discovery` it
is checked.

## 4. The proofs

`SsiProtocolProofs` proves, for every finite or infinite set of transactions, rows and tables:

* `TypeCorrect`, `MutuallyConcurrent`, `LocksKept`, `DependenciesCorrect`,
  `Quiescent`, `SkewIsRefused`: the state invariants of run `ssi`;
* `VictimsLive`, `FaultsNeedLoner`: its action properties;
* `InvCorrect`: the inductive invariant `IInv`.

The only assumption is that `NoTxn` is not a transaction (`NoTxnAssumption` of `SsiLockManager`).

None of the invariants is inductive alone.  Whether a read lock may be dropped is decided by
`del_transaction` from the entries in `concurrent_transactions`, so
`ReadLocksKept` needs to know that these entries are exact; whether an edge of
`dep_map` is there is decided by `track_write` from `range_map`, so
`DependenciesExact` needs `ReadLocksKept`.  `IInv` has

* `Consistent`, as long as the process lives: only running transactions are
  active, transactions that have not begun are unknown to all containers, the
  entries list others only, the entries of active ones list exactly whom they
  have met, and `range_map` holds nothing that was not read;
* `ReadLocksKept`, `DependenciesExact`, `QuiescentIsEmpty`;
* `DependenciesHappened`, that each edge of `dep_map` was an antidependency, and
  `SkewOnRecord`, that both edges of a skewed pair are still there when one
  of the two asks to commit -- which with the rule of `check_for_conflicts` gives
  `SkewNeedsThirdReader`.

`FaultsNeedLoner` adds `LonerHadCompany`: by `EntriesAreOthers` a running transaction
without an entry is alone, and only the end of one it has met can have taken the
entry away.

TLC checks `IInv` and `LonerHadCompany` on the instance of run `ssi`; the proof has one step for each action, and
under it one for each part that the action can disturb.

`TableProofs` proves for any number of transactions, any bound on the insertions,
any finite set of columns, with and without a lock manager:

* `TypeCorrect`, `LockedByWriter`, `DirtyReadsExcluded`, `PagesIntact`: state
  invariants of run `table`;
* `LocksExclude`, `VersionsImmutable`: its action properties;
* `ConflictsNoted`: the action property `AntidependencyNoted`, with the invariant `ReadersKnown`
  it rests on;
* `DescentShared`: the state invariant `SharedOnlyByDescent`;
* `InvCorrect`: the inductive invariant, also called `IInv` there.

It assumes `TableAssumption` of `Table`: row ids count from 1, transaction ids are
positive numbers (0 is "no one"), columns are numbered.

This `IInv` is `TypeOK`, `UncommittedIsLockedByWriter` and `OidsStored`, that every
object id in a row is held by the page of its column.  The visibility rule looks at
locks and not at `committed`, so `NoDirtyRead` is true only because an uncommitted
version never loses the lock of its inserter; that in turn is inductive
because `lock`, `unlock` and `update` refuse everybody else.  `OidsStored` is needed for
`OnlyNullIsCorrupt`: a call that stops half-way has taken object ids which
no page holds, and none of them may be in a row that was added.  There is one lemma
for each call; it shows at once that the call keeps `IInv`, leaves
alone what others have locked and rewrites nothing (`Good`).

`ConflictsNoted` joins the table with the lock manager.  An update is noted against a
reader only if `range_map` still has the read, and tear-down removes reads of transactions
that still run.  The invariant `LmKnows` says when that does not matter: running
transactions list each other, so an entry and its reads go only when their owner is
alone; whoever begins next faults in `add_transaction`, after which nothing
is claimed.  So when an update comes from somebody else, the reader has its entry and
everything it fetched is on record.

`DescentShared` is about a recursive function, `root`, that follows `origin` back to the insertion.
The prover knows of such a function only that it satisfies its equation if any function
does.  So the invariant `Descent` carries the existence of one as a conjunct: a new row
extends it by one value, since the row it was made from is in the table already.
The other conjuncts are that object ids in rows have been given out, so a value
taken newly is in no older row, and that rows sharing a value have the same root under any
function that satisfies the equation.

`CellProofs` proves for any number of transactions, cursors, rows and columns:

* `TypeCorrect`, `ListedOnce`, `CursorsFetch`: the state invariants of run `cell`;
* `IsTransactionLog`: a cell implements `TransactionLog`;
* `Invariance`: the inductive invariant.

It assumes `CellAssumption` of `Cell`: finitely many columns, and fewer transactions
than the counter of handles has values.  Without the latter a handle would be given
out twice and the list of the older transaction lost.

Rows are simple here, because all transactions lock with the empty id: no row is ever
locked and each is visible to everybody (`OpenRow`).  What `IInv` adds to the properties
is `Whole`, that all values of a row are stored, that cursors are at rows of
the table, and `Recent`: transactions are never removed from the map, so the handles in use
are the last ones given out, and a counter that starts anywhere and wraps
still does not meet one of them.  For the refinement every action is first
shown to be one of three things -- it adds a row to the table and to one list,
commits one list, or does neither (`StepOK`) -- and each of these is a step of the log.

`RangeProofs` proves for any width of the row id `TypeCorrect`, `SegmentsInOrder` and
`IsPointSet`, that a range implements `PointSet`.  Segments may overlap, because one that
is extended to the right is not joined with the next; so the invariant asks only
for the order of their first points, and that none is inverted.  The order is
what makes the two early exits sound.  The one assumption is that the id type has more than one value.

`PageProofs` proves for any number of objects, any sizes, any width of the reference counter
and any number of references `TypeCorrect`, `OneAtom`, `IsObjectStore`, that a page
implements `ObjectStore`, and `LossesAreWraps`, the action property `LostOnlyByWrap`.
`PageAssumption` says that sizes are positive and that the counter has at least two values; it
does not say that the counter is wide enough.  The invariant says that an id which was
given out and not used yet is in no index, that the counter of a stored object
is the number of references its users hold, *modulo* what it can count, and that an object
with references which is not stored, or with as many as the counter has values, is one
whose counter has wrapped (`overrun`).  So for the others the remainder is the number,
and an object goes exactly with its last reference.  Counting up and down modulo any
number is in `CountUp` and `CountDown`.

`RowBufferProofs` proves for any number of threads and rows, and any header,
`TypeCorrect`, `InOrderOnce`, `OneOwner` and `WholeRow`.  The invariant says that who is in the critical
section holds the lock (`Exclusion`, `FrontHeld`), that each call of `dequeue` has taken a row
or still waits for one (`CallsCounted`: without it `front` would meet an empty queue),
that no row is pushed twice (`RowsDistinct`), and that the rows consumers hold are among those
taken (`HeldTaken`).  `WholeRow` proves `CurrentRowIsWhole` from `Unpacked`: as long as no two
threads have unpacked at once, the one that does has in `current_row` the first columns of its row, and
its index is where the next one was written.  Where that is, is a sum over the
header; that partial sums exist is shown from the shortest length for which they would not
(`SumsExist`), and that `read` takes as many bytes as `write` put there, column by column
(`OffsetsAddUp`).  `RowBufferAssumption`: the threads are distinct, consumers are finitely
many, the header is a sequence of types.

`GroupManagerProofs` proves for any number of workers, signals and kinds of signals
`TypeCorrect`, `StopsExclude` and `StopComes`.  The invariant is `Guarded`: a handler past the
lock is on the thread that `stop_guard` names and the only one there that is past
it; `OneStopAtATime` alone does not tell who holds the mutex.  `GroupAssumption`: the threads are distinct.

`DiscoveryProofs` proves for any nodes and any room in the socket `TypeCorrect`, and
`FoundHaveAnnounced`, that only nodes which have announced themselves are in the map: what is
in the socket is junk or was sent by one of them (`Heard`).  `DiscoveryAssumption`: this node is a node, junk is
not, and the socket has room.

The inductive invariants were checked by TLC on the instances of the runs before they were proved;
of `Descent` the parts that can be evaluated.

Every safety property that a passing run checks is proved.  Only model-checked, because it is beyond the
prover: liveness under fairness (`CallsReturn`, `StopReachesWorkers`, `NodesFound`), which needs
`ENABLED`.

## 5. What is not modelled

* `set_column_definition`, `to_binary`, `begin`/`end` of a table: set-up, conversion and
  access to the container.  Failed allocations.
* `create_table` of the database: set-up, done before any command.
* The byte layout of pages; the streams' error states.
* `compare`, predicates, `stringify` and what `data_value` does besides packing a row:
  sequential functions of scalar types.
* Parser and evaluator: a PEG grammar and an LLVM code generator.
* `client_processor`: `query` and half of `process` end without a return value, and the map of
  requests is written and never read; there is nothing to state about it.
* `control::send`, which nobody calls, and `control::_shutdown`, which runs when `main` has
  returned.  The worker's lambda takes the loop's local `processor` by reference and
  never uses it.
* The coordinator: a stub.  `router`: an empty class.
* Vendored code, most of the files of the repository: `toolchain`, `tests/gtest`, `site_scons`.

## 6. Plan

What is modelled is what the program has of protocol, and the safety properties of the runs are
proved.  What could be added:

1. An abstract specification of the row buffer (a queue that hands each row to one
   consumer) and of the table (versions that are inserted, derived and committed), with
   refinements like those of the range, the page and the cell.
2. That the calls of `Table` use the lock manager as `SsiProtocol` does, so that its
   theorems carry over to the table.
3. The safety part of the liveness arguments: that whoever waits in `row_buffer` or in `stop()` waits for
   somebody who can go on.
