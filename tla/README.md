# Verification of toidb

TLA+ models, TLC runs and TLAPS proofs for toidb, a small database server in C++
and Rust. Paths are relative to the repository.

## 1. Inventory

| Component | Source | State | Operations |
|---|---|---|---|
| TCP runtime | `server/src/lib.rs`, `src/lib/server.hpp` | map of connections under a RwLock, per connection `is_active`, `response` and two mpsc channels, the signal channel, `END`, the poll, a thread handle per connection | accept, read burst, hand over a query, join, write, remove, stop; `receive`, `communicate`, `stop`, `kill_sign` for C++ |
| Main loop and shutdown | `src/main.cpp` 28-37, 793-816 | `st`, the worker threads | receive and spawn, destroy the server, join; SIGTERM |
| Start-up and logger | `src/main.cpp` 700-801, `logger.cpp` | the folders and log files on disk | make the folders, rotate the log, load, bind; write a line |
| Query resolution | `src/main.cpp` 39-697 | none of its own | one branch per statement, over the catalog |
| Analyzer | `src/lib/analyzer/` | the automata's context, position and action | set signs apart, validate, parse, one visitor per kind of token |
| Catalog | `databases.hpp`, `database.hpp`, `database.cpp` | lists of databases and tables, each with a `shared_mutex`; directories on disk | load, add, get, create, delete |
| Table storage | `table.hpp`, `table.cpp`, `columnInstance.hpp` | one file per column, a layout file, a `shared_mutex` per table | create, insert, read columns, save and load the layout |
| Serializer, FileManager | `serializer/`, `fm/` and their bindings | files | fixed-width encodings, paths |
| Linked lists | `linkedList.hpp` | heap nodes | push, pop, delete, order, filter lists |
| Client tool | `toi/src/` | the process table; in the REPL a connection | start, stop, restart, REPL |

Interactions: a client talks to the runtime over TCP. The runtime puts a token in
the signal channel and the text in the channel of the connection. The C++ main
thread takes both (`receive`) and spawns a worker, which has the analyzer make an
action of the text, resolves it over the catalog and calls `communicate`. A response
thread of the runtime takes the answer, stores it and registers the connection for
writing. The client tool finds the server in the process table, starts it, kills it
with SIGTERM or SIGKILL, and is one of the clients when it runs as a REPL.

Hard behaviours: five kinds of threads around one RwLock (and joins and channel
waits made while it is held); an edge-triggered poll that drops events of active
connections; shutdown from two places; a client that closes at any time; catalog
pointers used after the lock they were found under is released; inserts that stop
between two column files; integer widths on the way to and from disk; a grammar that
is checked five tokens at a time; nodes that are linked by hand; a start-up that
looks at the disk and then changes it; a process that is looked up and then killed
or started.

What makes the components correct:

- runtime: no thread starves under the lock; a query is answered once, by its own
  answer, on its own connection, in order; closing and shutdown take effect.
- catalog: what memory lists is on disk and the other way round; no worker uses a
  table that has been deleted.
- storage: the columns of a table have the same length; what is read is what was
  inserted; a layout that is saved is the one that is loaded.
- analyzer: what is accepted gives the action the statement describes.
- lists: a call leaves the sequence of entries it should, and leads to no freed node.
- start-up: whenever it dies, the next one finds the data and the log.
- client tool: it never runs two servers; the REPL shows the answer to its command.

`PROJECT.json` lists the components, also those not modelled, and the hazards.

## 2. Modules and plan

| Part | Model | Abstract specification | Properties | Proofs | Section |
|---|---|---|---|---|---|
| TCP server | `TcpServer` | `RequestReply` | `TcpServerProperties` | `TcpServerProofs` | 3 |
| Catalog | `Catalog` | | `CatalogProperties` | `CatalogInvariant`, `CatalogProofs` | 4 |
| Contents of tables | `Values`, `TableStore` | | `TableStoreProperties` | `TableStoreProofs` | 5 |
| Columns of a table on disk | `TableInfo` | | `TableInfoProperties` | `TableInfoProofs` | 5 |
| Analyzer | `Tokens`, `Lexer`, `Writing`, `Automata`, `Analyzer` | the sentences, in the properties | `AnalyzerProperties` | `AnalyzerProofs`, `LexerProofs` | 6 |
| Linked lists | `LinkedList` | `ListContents` | `LinkedListProperties` | `LinkedListProofs` | 7 |
| Life of a process, REPL | `Launch`, `Repl` | | `LaunchProperties` | `LaunchProofs` | 8 |

`MC*` modules and the `.cfg` files give the instances for TLC. The parts meet where
one is what another takes for granted: the actions of `Analyzer` are the statements
`Catalog` and `TableStore` send; `TcpServer` gives each query its worker, and that a
shutdown ends (`ShutdownTerminates`) is the fairness of `Ends` in `Repl`; the death
`Catalog` has at any step is one of `Launch`'s.

Every invariant a passing run checks is a theorem, and so is every safety property of
its steps and every refinement; those of the catalog have the hypothesis of section 4
that one connection rewrites or changes. Left to TLC are the liveness properties:
those of `tcp_live` and `catalog_ends`, and `ReplReturns` of `launch`.

## 3. The TCP server

### Modules

- `TcpServer` is the model: one action per step of a thread. `rt_pc`, `main_pc` and
  `thread[c][h]` are the program counters of the runtime, the main thread and the
  response threads; `workers` is the set of worker threads with the query each
  still has to answer. A step ends where another thread may see the difference: at
  a lock, at a channel, at a socket. `lock` is the RwLock of the map: `"runtime"`
  when `channels.read()` is held for a handler, `"main"` when `receive` waits for a
  text under `channels.write()`. A short critical section is one step guarded by
  `lock = "free"`.
- `TcpServerProperties` states the properties, the fairness, the inductive
  invariant `Inv` and the refinement mapping.
- `RequestReply` is what a client may rely on: one query at a time, each answer
  the one to the last query.
- `MCTcpServer` is for TLC, `TcpServerProofs` for TLAPS.

Actions and code: `Accept`, `ReadBurst`, `SendSignal`, `SendQuery`, `SpawnThread`,
`JoinThread`, `WriteAnswer`, `WriteFails`, `RemoveConnection`, `CloseRuntime` and
`StopRuntime` are `run_server`, `handle_connection_event` and `stop` in the order
of the code; `RuntimeFails` is a panic of the runtime where it unwraps a system call
(`poll`, also when a signal interrupts it, `accept`, `register`, `try_clone`); `MainLoop` to `TakeQuery` are the loop of `main` with `receive`;
`DestroyServer`, `JoinRuntime` and `JoinWorkers` the end of `main`; `Answer`,
`KillSign` and `SetSt` what a worker does. `Connect`, `ClientSend`, `ClientClose`
and `Drain` are the clients and the kernel, modelled from how the code uses mio:
edge-triggered, with an edge at (re)registration if the condition holds.

Abstractions. A segment is a query, `stop`, a text with `exit`, a text with a NUL, or
not UTF-8; a burst of segments is merged as `from_utf8`, `contains`, `==` and
`CString::new` see it. What a NUL makes of a text is that `receive` takes it and
returns a null event (`TakeQuery`): nobody answers. `mute` is a history variable, the
connections that sent such a text or bytes that are not UTF-8. A query
carries its number, an answer the number of its query. `communicate` and
`kill_sign` are one step each. `get_message!` leaves on a message or on `END`; its
five-second timeout changes nothing and is a stutter. Mutexes held for one
statement are part of that statement's step.

### Runs

| Run | Instance | Shows |
|---|---|---|
| `tcp_safety` | one connection, every kind of segment, two segments, FIN and reset | `Inv`, the inductive invariant, with the types; `ReceiveNeverStarves`, `JoinIsSafe`, `OneQueryInProgress`, `AnswersInOrder`; `RequestReply` is implemented |
| `tcp_live` | one connection, two segments of a query, `stop`, a text with a NUL or bytes that are not UTF-8 | the runtime keeps polling or has panicked; but for connections in `mute` and a runtime that has panicked, queries are answered and closed connections removed; shutdown ends |
| `tcp_freed` | as `tcp_safety` | violation: a worker calls `communicate` on the freed box |

Bounds: `MaxMsgs` segments per connection. Two are enough for a second query that
meets the response thread of the first (the join), and for segments merged into a
burst. Several connections, which share the runtime, the signal queue and the main
thread, are not model-checked: `Inv` and what follows from it is proved for any set
of them. Null workers are all alike and owe nothing, so the set `workers` has one of
them however many run; one SIGTERM worker at a time; SIGTERM comes while `END` is not
set. Deadlock is checked: a state with no step would be a real one, since
the end of the process is the only state that stutters.

Three things the properties leave room for, since the code does them. After bytes that
are not UTF-8, or a text with a NUL, `is_active` stays set with no query in progress:
the connection is not read again, and its end is not seen, so it stays in the map
(`OneQueryInProgress`, `QueriesAreAnswered` and `ClosedIsRemoved` excuse the
connections in `mute`, and no others). A runtime that has panicked leaves `END` unset
and the main thread waiting; `stop` and SIGTERM still end the process, `JoinRuntime`
in a panic of its own. And in a shutdown the runtime may remove a connection that a
response thread then registers, which panics (`unwrap`, `lib.rs` 296).

Fairness: weak for every thread of the process, for each worker by connection and
kind, and for the kernel's draining of a send buffer; strong for the write that is
retried after "would block", since a client that reads lets it succeed sooner or
later. Clients owe nothing, and no system call has to fail or to succeed.

### Proofs

`TcpServerProofs` proves, for every set of connections and every bound:
`TypeCorrect`, `Invariance` (`Spec => []Inv`), and from it `Receives`, `Joins`,
`OneQuery`, `Answers` and `Implements` (`Spec => RR!Spec`). The only assumption is
`TcpAssumption`, on the constants.

The argument. None of the properties is inductive: that the join is safe depends on
where the previous query's answer is. `Inv` says where a query can be. `StageInv`
orders the stages (requested, with a worker, replied, stored, being written): a
query is at one of them, and `is_active` is set meanwhile. `PlaceInv` says it is in
one place within its stage, `ThreadInv` that the response thread of the query
before has done its work once the answer is being written, `NumberInv` that the
number carried is that of the last query asked. `LockInv` ties the RwLock to the
program counters, which is what keeps the main thread away from a text that is
being sent; `AcceptInv` keeps the handlers to connections in the map; `EndInv` says which
steps are taken only after `END`; `RegisteredInv` and `BusyInv` are the other
direction: until then a connection stays registered, and an active one has a query at
some stage, unless it is in `mute`. The proof
that a step preserves `Inv` has a lemma per action that touches a query
(`ReadBurstInv`, `SendSignalInv`, ..., `MainInv`, `WorkerInv`) and two for the
others: `QuietStep` and `OtherStep`; `EndNext`, `RegisteredNext` and `BusyNext` do the
last three parts.

Only model-checked: the liveness properties (fairness is out of the prover's
reach).

Not modelled: the content of texts; `Interrupted` errors of `read` and `write`, which
are retried at once; threads that cannot be spawned and exceptions that leave
`resolve`, which end the process at any step; a client that resets between the accept
and the registration; poisoned locks (no thread panics with one held that another
thread uses, except on the way down); the lock of `END` inside the SIGTERM handler.

## 4. The catalog

### Modules

- `Catalog` is the model: the lists in memory (`dbs`, `heap`, `live`), the `data/`
  directory (`dirs`, `folders`, `files`), the three levels of locks (`mutex`,
  `excl`, `shar`) and the statement each connection runs (`th`). A connection sends
  a statement (`Receive`) and takes its steps, which interleave with the others'.
- `CatalogProperties` states the properties, `MCCatalog` gives instances.
- `CatalogInvariant` has the inductive invariants, `CatalogProofs` the proofs.

Actions and code: `CheckDatabase`, `MakeDatabase`, `AddDatabase` and `Names` are
CREATE and SHOW DATABASES; `LockDatabases` to `EraseTable` the two DELETE;
`GetDatabase` to `LinkTable` CREATE TABLE; `ShareDatabase` to `Show` the
statements that read, and INSERT, which shares `FindTable`, `LockTable` and the
like with them. `Crash` is the death of the process at any step, with what it
leaves of the operation on the disk (`Torn`); `Load` the start of the next one.

A database or table object is its index in `heap`. The code keeps pointers to
objects others may erase: a use of one that is gone, or of a list under change,
sets `ub`. From then on the memory may still hold the object or the process may
die, so the properties of the data are stated for `~ub`, and `NeverFreed` says
that it never happens (it does).

Abstractions. Walking a list is one step, except in CREATE TABLE, where the walk
and the link are two (`FindSlot`, `LinkTable`: the node of the slower of two is
lost). `remove_dir_all` is one step, but for a death in it and for a CREATE TABLE
that fills the folder meanwhile. The values of an INSERT fit or do not
(`CheckValues`); a row is who inserted it and when. Making a directory, a folder or a
column file may fail; a CREATE TABLE that cannot make a column leaves the folder, with
`info.tbl` and the columns before (`table.cpp` 115-125), and `left` remembers it. Left
out are the other errors of the disk: a write to a file that opens succeeds whole,
though `FileManager` looks at no result (`fm.cpp` 24-46) and INSERT, whose append
failed on a full disk, would go on with the next column and report success; and
`remove_dir_all` fails only on a folder that is being filled.

`contested` remembers the tables a CREATE TABLE filled while they were in use:
it takes no lock between its look for the folder and the last column (`main.cpp` 112,
`table.cpp` 101-125), so that of two of one name the slower one empties the columns of
the faster, with the rows inserted since, or fills a folder a DELETE is removing.

### Runs

| Run | Instance | Shows |
|---|---|---|
| `catalog_safety` | one connection that creates and deletes, twice; two that insert and read; one death | types; `ColumnsInStep`, `RowsAligned`, `ShowInRange`, `MirrorsDisk`, `WritersUndisturbed` |
| `catalog_ends` | three connections, one statement each: two send any of the ten kinds, the third creates a table, deletes it or inserts; one death | `StatementsEnd`: no order of the locks blocks a statement for good; `AckedRowsPersist`: rows reported as inserted are lost only with their files, or in contested tables |
| `catalog_freed` | DELETE TABLE and INSERT | violation of `NeverFreed`: a destroyed table is used |

Bounds: `MaxStatements` per connection and `MaxCrashes`. One database, one table
and two columns are enough for each level of lock, for an object erased and created
anew under the same name, and for a row that is complete in one column and not in
the next. `catalog_safety` leaves the creation to one connection, since the slower of two
CREATE TABLE of one name empties columns others have filled. That is what `contested` is
for in `AckedRowsPersist`, which is checked with three creators: the rows the code loses
are those of contested tables, and there are such, so the exemption is a loss of data
the property does not hide but confines. Deadlock is not checked because
the statements run out and because a torn `info.tbl` keeps the process from coming
up; that no statement blocks is `StatementsEnd`.

Fairness: weak for the steps of each connection's thread and for the start of the
process. No one has to send a statement. Weak is enough for the locks here since
their holders release them for good: statements are finite.

### Proofs

For all databases, tables, columns, connections and scripts of statements, and for
any bounds: `InvariantType`, `TypeCorrect` (`TypeOK`) and `RowsPersist`
(`AckedRowsPersist`), the last through deaths too. With the hypothesis
`OneRewriter` (one connection at most creates or deletes tables or deletes
databases; any number creates databases, inserts and reads): `InvariantSafe`, and
from it `ColumnsStayInStep`, `RowsStayAligned`, `ShowStaysInRange` and
`WritersStayUndisturbed`, and `NeverContested`: no table is contested, so that no reported
row is lost at all. With `OneChanger` (that connection creates the databases too):
`InvariantMirror` and `MemoryMirrorsDisk`.

The hypotheses are there because the code does not keep the properties without them.
Of two CREATE TABLE of one name the slower truncates the columns of the faster; a
CREATE TABLE may fill the folder a DELETE DATABASE is removing; a CREATE DATABASE
may list a database whose directory a DELETE DATABASE of the same name has just
removed. They hold of `catalog_safety`, where TLC evaluates `OneChanger`, the stronger
of the two, as an assumption of `MCCatalog`. The other assumption, on the constants
alone, is `CatalogAssumption`.

The argument. `TypeInv` says, besides the types, which statement is at which step and
which pointers it has taken there. `Safe` is the rest, for as long as no pointer to a
freed object has been used (`~ub`). A statement works on files it finds by name and on
objects it finds by pointer, under locks of the objects; so `Objects` says that no
object is listed twice, `Pointers` that a pointer which does not dangle leads to what
is listed under the statement's names, `Locks` and `Held` that the one at a step that
writes or reads columns is alone with them. `Folders` and `Complete` say what is on
disk of a table that is listed, `Created` what of one that is being created. `Written`
and `Level` say how far the INSERT under way has got in the columns, and `Seen` that a
SHOW has seen no more rows in its first column than the others have: these are what
`RowsAligned` and `ShowInRange` need to be inductive. `AckedRowsPersist` needs none of
this, and so no hypothesis: `Kept` says that the columns an INSERT has been at hold its row,
and that this and the rows reported stay, but in tables that are contested. A statement
changes memory and disk in two steps; `Mirrored` is `MirrorsDisk` but for what is
between the two, and `HalfDone` what the first has done. TLC has checked each
invariant on the instance of `catalog_safety`.

Only model-checked: `StatementsEnd`, which needs fairness.

## 5. The contents of tables

### Modules

- `Values` holds the pure part: which literals a column takes (`Fits`, from
  `try_insert` and `resolve_value`, which test the same limits), how a value is
  narrowed, written (`serialize`) and read back (`deserialize`), and how two
  compare. The width of a byte is the constant `Half` (half the numbers that 1, 2,
  4 and 8 bytes hold), so that the runs take bytes of two bits and the theorems
  hold for eight.
- `TableStore` runs INSERT and SELECT over tables that exist: `SendInsert` with the
  checks of `try_insert`, `LockTable`, an `AppendColumn` per column and `Unlock`;
  `SendSelect`, a `LoadShown` per column, `ListIndexes`, a `Filter` per condition
  and `Answer`. `file` holds the cells, `th` the lists a SELECT builds: `shown` is
  the `Cortina` of columns, `indexes` the `ListFre` of row indexes with a count.
  `rows` is a history variable: the rows of literals that were inserted.
- `TableStoreProperties` states the properties and the inductive invariant,
  `MCTableStore` gives instances, `TableStoreProofs` the proofs.

Abstractions. A column file is a sequence of cells, since every append is one whole
cell under the lock; the eight bytes of length before a string are left out. A
string is its bytes, none of them zero (the code passes it as a C string). A double
is a number without its rounding. Walking a list is one step. The text of the
answer is left out; a column that is missing or empty goes to `unread`. The tables
exist and stay: creation and deletion are `Catalog`'s. An append writes its cell: that
the code ignores one that fails (`fm.cpp` 41-46), and a death between two columns, which
`Catalog` has, are left out.

What `deserialize` says of `i64` is what the code does: the binding declares
`di64` as returning 32 bits (`serializer.hpp` 97), so a number outside them reads
back as its low four bytes. `Seen` names that, and nothing else may be lost. A
condition on a signed column finds nothing (`Compared`; the code answers "not
supported"), and the conditions are joined by AND whatever the query says, since
the action carries no operator between them.

### Runs

| Run | Instance | Shows |
|---|---|---|
| `store_select` | two connections with two and one statements; a table of `u8`, `str`, `i64` and one of `i8`, `bool`, `f64`; empty and filled | types; `StoredAsInserted`; `AnswersAreMatchingRows` |
| `store_race` | the same | violation of `SelectsSurvive`: an INSERT between two columns of a SELECT makes it use a null pointer |

Bounds: `MaxStatements` per connection. Two statements of one connection and one of
the other are enough for an INSERT that runs between any two steps of a SELECT and
for a SELECT after it. The literals are at the limits of their types and one past
them, strings at the size of their column and one longer, conditions on each kind
of type, on missing columns, on another table, and two at a time. Deadlock is not
checked: statements run out, and the process stops when a SELECT takes it down. A
SELECT dies in three ways (no column loaded, an index list that is too short,
columns of tables of different lengths); `SelectsSurvive` excludes those that need
no second connection, so the violation is the race.

`AnswersAreMatchingRows` is about SELECTs over one table that get an answer. It
says that the answer is that of one moment, the load of the first column, though
the columns are loaded at different times: the lists have the length of the first
column, and a row past it either takes the process down or is not counted as met.

### Proofs

`TableStoreProofs` proves, for all tables, layouts, statements, connections and
widths: `RoundTrip` (a literal that fits reads back as `Seen` says),
`StoreInvariance` (`Spec => []Inv`), and from it `Stores` (`StoredAsInserted`) and
`StoreTypes` (`TypeOK`); `SelectInvariance` (`Spec => []SelectInv`), and from it
`SelectAnswers` (`AnswersAreMatchingRows`). The assumptions are those on the
constants: `ValuesAssumption` (`Half` is positive, and eight bytes are a multiple of
four), `TableStoreAssumption` (among others, that a SELECT lists its columns and
conditions, and that a condition's value is a literal) and `NoOneAssumption`.

The argument. `StoredAsInserted` is not inductive: when an INSERT appends the last
cell, nothing in it says what the cells it appended before hold. `InsertInv` says
that the INSERT that appends is the one that holds the lock and that its values
fit, `AheadInv` that its cells so far are those of its values; `RoundTrip`, through
`CellFacts`, gives the cell it appends next. The steps of a SELECT leave all of
that alone (`QuietStep`, `QuietActions`); each step of an INSERT has a lemma.

The argument for `AnswersAreMatchingRows`. Each column of a SELECT is loaded at another
time, so the proof says what stays true of what was read. `SelectInv` says of a SELECT
that a column it has loaded shows a first part of the rows there are, none a shorter one
than the first column (`Showing`), that the
index lists count, for each row, the conditions met so far (`Counting`), and which
columns and conditions are behind it (`Handled`, `Progress`). What was read stays true
because rows are only appended (`ProgressStays`), and what `load` reads without the
lock is, up to its length, rows that were inserted (`LoadFacts`). The count of a row of
the first column is one more than the number of conditions so far exactly if the row
met them all; that of a row beyond it is less. So each column keeps the same rows
(`KeptMatching`), which are those the property expects (`FinalExpected`). A list of
numbers in ascending order (`Ascending`) is characterised by induction over a set of
numbers. TLC checked `SelectInv` on the instance of `store_select`.

### The file info.tbl

`TableInfo` is the file with the columns of a table: `AppendColumn` and `WriteFile`
are `into_vec` and `to_file`, with a write that may end early (a death, a full disk;
nobody looks at its result); `NextColumn`, `ReadName` and `ReadLayout` are the loops
of `from_vec` (`table.cpp` 38-66), one byte a step, at place `i` of `file`. They do
not look at the length of the vector, so a step past it leads to `"overrun"`, where
the outcome is anybody's guess; a layout bincode refuses ends the process
(`"aborted"`). The encoding is that of `serializer/src/lib.rs`: eight bytes of the
size, one for `optional`, four for the type. `TableInfoProperties` has
`LoadsWhatWasSaved`, `MCTableInfo` the instance.

The run `table_info` takes tables of up to two columns, with names and sizes that
have the end mark (`00 73 73`) or a part of it in them at either end, and files cut
at every byte. Two columns are enough for a mark found in the first to spoil the
second; lengths of names differ. Deadlock is not checked: a load comes to its end.

What the code does, found on the way and taken into the property: a size with the
end mark among its bytes, such as that of `str7566080`, is saved, and takes the
process down at every start; and an empty file, or one that was cut, may be read past
its end. `LoadsWhatWasSaved` says that nothing else goes wrong: a load that gets
through has the columns of the table, in their order.

`TableInfoProofs` proves `InfoLoads` (`LoadsWhatWasSaved`) and `InfoTypes`
(`TypeOK`), for all names without a zero, all sizes and any number of columns, from
`TableInfoAssumption`. Neither says where the reader is, so `Inv` does: there is a
place in the file where each column begins (`Laid`), and the reader is at the place
in its column that what it has read so far says (`ReaderInv`). `MarkIsLast` is why it
finds the end: in the 16 bytes of a layout and its mark, the mark is at the end or
within the size.

## 6. The analyzer

### Modules

- `Tokens` names the tokens of `parser.hpp`; `Lexer` is what happens to the text:
  `make_tokens_explicit`, `tokenize`, `validate` and `parse` as operators over
  sequences of pieces (blanks, signs, and runs of other characters by the regular
  expression they match).
- `Writing` is what a client writes for the tokens it means (`IsWriting`): the spelling
  of each, with any number of blanks before it, and none only where a sign stands
  (`MayTouch`). A string with a blank or a sign between its quotes is written as
  several pieces (`SplitText`), since the tokenizer splits there, quotes or not
  (`tokenizer.cpp` 25 and 51-58). A query is any text, or such a writing
  (`QueriesAssumption`).
- `Automata` is the token machine of `automata.cpp`: a step takes one token and runs
  the visitor for its kind in the context `ctx`, with the two tokens before and
  behind it (`Token`), and builds `variant`, the action.
- `Analyzer` is the sequence of these steps in `resolve`: `MakeExplicit`, `Validate`,
  `ParseQuery` (which may throw), `GetActionStruct`.
- `AnalyzerProperties` has the grammar (`Meaning`: the action a sentence means, if
  it is one) and the properties, `MCAnalyzer` the queries, `AnalyzerProofs` the
  proofs about tokens, `LexerProofs` those about texts and about queries.

Actions and code: the visitors of `Automata` are named for what they take
(`DatabaseTarget`, `TableTarget` and the like) and hold every test and assignment of
the C++ ones. `outcome` is `"action"`, `"error"`, or `"thrown"` when `std::stod`
(`ParseThrows`), `std::get` or `value()` (`Get`) throws, which nobody catches.

Abstractions. A name, number or string is one value with its shape; the limits of 64
bits are the constants `UIntMax` and `IntMin`, the decimals that `std::stod` throws at
`OutOfRange`, and `Unquoted` is what is left of the strings with quotes in them once
`parser.cpp` 200 has taken the quotes away. A string with a quote right before its first
blank or sign, or right behind its last, is not among the writings: that piece of it may
be taken for a string. Messages are left out. The query `stop` is in `TcpServer`. Two
branches of the code no token reaches: COLUMN and DATABASE in `ShowColumnValuesE`.

### Run

`analyzer` takes queries of every kind of statement: sentences as they are, with one
token replaced, dropped or put in, and cut short; every sequence of at most two
tokens; each with blanks everywhere and with none where a sign stands; and texts of
up to four signs and blanks for the tokenizer alone. It shows that the tokens parsed
are those the client wrote and that setting the signs apart twice changes nothing
(`LexedAsWritten`, the second as its part `SetApartOnce`); that every sentence of
the grammar is answered with its action (`SentencesAreUnderstood`); that nothing but
such a sentence creates, deletes or inserts (`ChangesAreMeant`); that a SELECT has
its database, its columns and each condition once (`SelectKeepsItsConditions`); and
where a `get` may fail (`GetsFitTheContext`).

Bounds: one wrong token in each sentence. The tests of the code see five tokens, so a
sentence with one wrong token has every window of the grammar around it; statements
with lists have two or three items, which is a first, a middle and a last. Among the
tokens put in are a string of two words, one of signs, one with a quote, and a decimal
out of range. Deadlock is not checked: the analyzer stops when it has an action.

What the code does, found on the way and taken into the properties: `!=` is refused
by `validate`, though `parse` and the automata know it; OR is written `0R` or `||`; a
string with a blank or a sign in it is refused, and one with a quote in it loses the
quote; a number past 64 bits becomes the limit; of two
columns of one name CREATE TABLE keeps the first; SHOW DATABASE and SHOW TABLE accept
some sequences that are no sentences; the connectives of a condition are dropped.
Two things end the process: a decimal out of the range of a double, at which
`std::stod` throws (`parser.cpp` 242; `LexedAsWritten` says that no other writing makes
`parse` throw), and `USING d SELECT t.c WHERE` with nothing after it, or a literal after
something that is no operator there (`automata.cpp` 155 before 161; `GetsFitTheContext`
says that no other `get` or `value()` of the automata fails).

### Proofs

`LexerProofs` proves every property of the run for `Spec`, for any queries, texts and
sentences of any length and any limits of numbers: `Types` (`TypeOK`), `QueriesLexed`
(`LexedAsWritten`), `SentencesUnderstood` (`SentencesAreUnderstood`) and `AnalyzerSafe`
(`GetsFitTheContext`, `ChangesAreMeant`, `SelectKeepsItsConditions`). The assumptions
are `QueriesAssumption` and `SplitAssumption`, which say what the client writes and
nothing of what is read, and `LimitsAssumption`. What it needs of the automata is in `AnalyzerProofs`, stated
there for `ASpec` too, the automata alone with any sentences in which a string type has
its size (`SentencesAssumption`): `GetsFit`, `Changes`, `SelectKeeps`, `Understood`.

The argument, first for the automata. The invariant `AInv` is about the first tokens: `Opened` says which ones
opened a context, `Closed` what the third and fourth are once a short statement has its
target, `Made` and `Selects` tie the action to the context. `GetsFit` follows, and
`ShortChanges`, the part of `Changes` about statements that end with their target.

The statements with lists need an invariant each, since `AInv` does not say what the
list has given so far, nor what the look ahead of a visitor has let pass.

- `Inserting`, for `InsertMeans`: at place m of the list the values are those at the even
  places before m (`Listed`), and a literal or a comma stands at m by its parity, or the
  closing parenthesis (`MayStand`); or the list is closed and the semicolon is next
  (`Behind`).
- `Creating`, for `TableMeans`: each token up to m stands where a column has it
  (`ColumnToken`), the columns are those named up to m, each where its name is first
  (`Named`), and what may be next (`MayBeNext`) remembers that a visitor of a string type
  has seen the name two tokens on. `ColumnsBetween` shows that tokens that fit token by
  token are columns between separators, which is what the grammar says.
- `Selecting`, for `SelectKeeps`: before WHERE there is a column for each identifier with
  a table so far, in order (`BeforeWhere`); behind it, at place w, a condition for each
  literal between w and the token visited, made of the two tokens before it
  (`AfterWhere`). It holds for strange queries too, with WHERE or SELECT twice.

The grammar counts places (`Nth`: the k-th of a set of numbers), the proofs have a
sequence of places in order (`InOrder`); `NthOf` says they agree.

That a sentence is understood (`Understanding`) is an invariant of its own: at each
place of it the context, and what the action is by then, are those of its kind, and
nothing has failed. A step of it is a visitor that must let the window of five tokens
pass; which tokens the window has follows from where the place is in the list of values
or columns (`TablePlace`) or in a condition (`ConditionPlace`). That the action is the
one meant, once there is one, is `ChangesAreMeant` and `SelectKeepsItsConditions`; the
other statements have theirs in `OnShow`.

Then for the lexer. `FlattenSeq` and the matches of `Rejoined` are defined over a whole
text. The lemmas take them apart at a place no match crosses, which gives what the five
passes of `make_tokens_explicit` do to a text from its beginning: a piece that is no
sign stays as it is (`PlainApart`), and a word of signs (`IsSignWord`: one sign, or what
the passes join) comes out between blanks, with what follows on its own (`SetApart`).
With `Words` behind it, `Read` is the words of a text. By induction on its length a text has
only words that come out whole when they are set apart once more (`Fine`), so the second
`make_tokens_explicit` changes nothing (`ExplicitRead`). By induction on the parts of a
writing (`PartsReadBack`), a spelling is read as one word (`ReadWord`, where `MayTouch`
is needed: `=` behind `<` would be another operator) that has the tokens it means or is
refused, or it is a string that breaks up, whose first piece is no word (`ReadBroken`);
`ReadBack` says so of words and tokens. Inductions are over sets of numbers, since no theorem with
an operator for a parameter can be used.

`Conveyed` carries this through `resolve`, and `Reading` and `Analyzing` hand it to the
invariants of the automata: `Reading` says that what is parsed is a sequence of tokens
with a size at each string type (`ParseSound`, for any text), which is where
`SentencesAssumption` comes from. A sentence whose numbers have been cut to 64 bits, and
whose strings have lost their inner quotes, is one of the same form (`SentenceAlike`), so
it is understood as well.

## 7. The linked lists

### Modules

- `LinkedList` is the heap of nodes and the list objects: `obj` (head, tail, size),
  `heap` (key, value, `prev`, `next`), `call` (the operation that is running and the
  node its loop is at). The kind of list is chosen at the start: `List`, `ListFre`,
  `KeyValueList` (`"map"`) or `Cortina`; every public operation of the class is an
  action, those of its bases included: `push_bk` of the keyed classes, `push_ord` of all
  four, and `g`, `i`, `i_u` and `u` of `Cortina` (its `"get"` to `"update"`), where the
  assignment of a found value appends to the list there (`Assigned`).
- `ListContents` is what they promise: a list is a sequence of entries, and each call
  takes effect in one step. `pop_front` is not specified by its name but as the code has
  it: it takes the last entry. Nor are the assignments of lists, which append.
- `LinkedListProperties` states the properties and the refinement mapping,
  `MCLinkedList` is for TLC, `LinkedListProofs` for TLAPS.

Actions and code: a call without a loop is one step (`push_ft`, `push_bk`, the pops,
moves), and a push or a pop leaves its name as answer; a call with a loop begins, takes a step per node and ends. `PushBefore`,
`PushAfter`, `Unlinked` and `Shrunk` are the pointer assignments of `push_before`,
`push_after` and `delete_node`. A null pointer or a freed node that is followed is a
`Fault`, which ends the program. A freed address is used again.

Abstractions. One call runs at a time: the lists take no lock themselves, and what is
shown here holds of a list that one thread uses, or that its owner's lock guards.
`main.cpp` 112-193 does not always hold one over its calls; what two calls at a time do
to the lists of databases and tables is in section 4 (`NeverFreed`). An address is allocated as its node is linked. A value is
one symbol; the columns of a `Cortina` are sequences of them. Left out: constructors
from initializer lists, which push, and an assignment of a list to itself, which no
code does (a copy would not end, a move would lose the nodes). `push_ord` compares
values by the key. `push_ord`, the pops, `insert_update`, `update`, `ListFre::pop` and
`push_bk` from outside have no caller in the program; they are modelled like the
others.

### Run

`lists` has two lists of each class in a heap of three nodes with two keys, and shows
that the nodes hang together both ways (`WellLinked`); that only a pop of an empty
`List` follows a null pointer (`FaultsOnlyOnEmptyPop`); that only a move assignment
to a list that is not empty loses nodes (`OnlyMoveAssignLeaks`); that no call which
looks for a key brings it twice, nor a deletion, a move or a copy into an empty list,
so that what can are `push_bk`, `push_ord` and a copy assignment to a list that is not
empty, which appends (`KeysStayUnique`); and that `ListContents` is implemented
(`ContentsAreKept`).

Bounds: three nodes are a head, a middle and a tail, or one list next to another;
each freed address is used again. `MaxCount` bounds the count of an index and the
values of a column, `MaxGiven` how many of these a call comes with. The names of the
lists and the values are only compared, so both are symmetric (`MCSymmetry`; every
property is a safety property). Deadlock is not checked: the program ends at a fault.

What the code does, found on the way: `pop_front` deletes the tail; a move assignment
leaks what the target held; a copy assignment appends.

### Proofs

`LinkedListProofs` proves, for any number of nodes, keys and lists: `ListsStayLinked`
(an owner and a place for each node exist by which the lists are well linked),
`OnlyEmptyPopFaults` (`FaultsOnlyOnEmptyPop`), `NodesStayLinked` (`WellLinked`),
`ListsTypeCorrect` (`TypeOK`), `ContentsStay` (`ContentsAreKept`), `MoveAssignLeaksAlone`
(`OnlyMoveAssignLeaks`) and `SearchesRepeatNoKey` (`KeysStayUnique`): every property
of the run. The assumption is `ListAssumption`.

The argument. The invariant `IInv` adds to the first that the node a call is at belongs
to the list it walks (`CallOK`), and that the nodes of a list under destruction still
hang together from there on. Each linking and unlinking of a node has a lemma that
gives the new owners and places.

`WellLinked` computes owners and places from the pointers, by a function that follows
`next` (`From`). `FromIs` gives its value: that of a witness, equal to it place by
place. The induction is over a set of numbers (`EveryNumber`), from the
well-foundedness of `<`, since a theorem with an operator for a parameter cannot be
used. That the walk ends within as many steps as there are nodes is the pigeonhole
principle. `TInv` ties the values of the nodes to the class and leaves room for the one
more that a call under way may add.

`ContentsStay` is the refinement (`ContentsAreKept`). It needs `LoopInv`: a loop over a
list stands at a place of its order, what it looks for is not before that place, and a
copy has appended as many entries as it has passed. `ContentIs` reads the content of a
list off its order; each step of `LinkedList` is then the step of `ListContents` in
which the call takes effect, or none.

Leaks: a node without an owner in a witness of `IInv` is exactly one nothing leads to
(`LeakedIs`; for a list under destruction `RestIs` says that its destructor still reaches
the rest), and every step gives owners by which none is lost (`NoneLost`), but the move
assignment. Keys: outside a copy the contents show them, and every abstract step but a
copy, a `push_ord` and the other pushes keeps a sequence without repetition
(`FinishKeeps`, `MoveKeepsKeys`, `StartKeepsKeys`); a copy into an empty list is, by
`LoopInv`, a part of its source (`CopyKeepsKeys`).

## 8. The life of a process, and the REPL

### Modules

- `Launch` is the start-up of `main` and of the logger, the end of a process, and the
  control tool. `server[p]` is where process `p` is, who started it and whether it
  has had no other beside it so far (a history variable); `disk` what is at the four
  paths start-up deals with; `tool` the command that runs.
- `Repl` adds `toi connect` (`repl`) and its connection to a server (`conn`).
- `LaunchProperties` states the properties, `MCLaunch` is for TLC, `LaunchProofs` for
  TLAPS.

Actions and code: each look at the disk or the process table is a step, and each
change one. `LookAtData` to `Bind` are `main.cpp` 714-801 with `logger.cpp` 37-64 in
between; `Die` is a death at any step, by a signal or by one of the errors that end
in `exit(1)`. `LookForServer`, `Kill`, `PlaceProgram`, `Check`, `Spawn` and `Detach`
are `start`, `stop` and `restart` of `main.rs`, in the order of their code. SIGTERM
kills a process that has not set its handler yet, and lets others stop. In the REPL a
read takes at most its buffer (`Receive`); the server takes all that has come as one
text (`ReadBurst`); a write that takes part of the answer closes the connection
(`WriteShort`). A text with a NUL in it, which `main.rs` 239 lets through, is taken and
never answered (`lib.rs` 416-418): its connection stays active, and nothing is read
from it any more (`conn.job = "mute"`).

A server that finds its port taken, or whose runtime fails in a system call
(`RuntimeFails`, as in `TcpServer`), lives on without a runtime (`"deaf"`): only the
runtime's thread panics. `busy` is a system that refuses to write a program that runs
(ETXTBSY), where `toi start` and `restart` fail beside a server they started.

### Run

`launch` shows `OneServer`, `StartsLoseNothing`, `ShowsItsAnswer` and `ReplReturns`.

Bounds: two processes, enough for an old and a new one; answers of up to two pieces,
a read of one, three commands or pieces not read, enough for a rest that is taken for
the next answer. While the REPL runs there is one server, with its databases, and the
tool is idle (`Quiet`): a `toi stop` beside it is to it the `stop` of another REPL.
Deadlock is checked.

What the properties leave out, because the code does not promise it. One control
tool at a time: two that check and then spawn may start two servers, as may a start by
hand. Two servers that start may lose the newest log, and even the folder with the
databases, since what was seen as a file is removed as whatever it is by then;
`StartsLoseNothing` excuses only processes that had others beside them. `restart` does
not promise a server: with the old one still dying, it gives up. The read of the REPL
has no time limit: on a mute connection, or one to a server that has lost its runtime,
it waits until the process dies or the user interrupts it, and `ReplReturns` excuses
just these two (`Unanswerable`). The REPL's `stop`
kills whatever process it finds then. After "Input your query again" the query may
have run. After a read that left part of an answer, answers no longer go with commands.

Fairness: weak for the reads and for the answers of the server's runtime and workers,
where there are a text that can be answered and a runtime (`Serving`, `Answering`), and
for the end of a process that stops, each of which `tcp_live` shows of the threads
inside (but for a SIGTERM handler that meets the lock of `END`, see the hazards); weak
for the REPL's read.

### Proofs

`LaunchProofs` proves, for any set of processes: `LaunchInvariance` (`LInv`),
`ReplIsLaunch` (a behaviour of `Repl` is one of `Launch`), and from these
`ToolKeepsToOne` (`OneServer`) and `StartsAreSafe` (`StartsLoseNothing`). `SeenIsSo`
is the heart of `LInv`: what a start-up that is alone has seen on the disk is still
so. `AloneIsAlone` and `SpawnsAlone` say that nothing runs beside it, and that the
tool spawns only when nothing did. The assumptions are `PidsAssumption` and
`ReplAssumption`.

`ReplInvariance` adds `RInv`, and from it come `LaunchTypeCorrect` (`TypeOK`) and
`ReplShowsItsAnswer` (`ShowsItsAnswer`), for any bounds. What the REPL shows depends on
what is in the connection when it asks. `InStep` says so: as long as every read has
taken an answer to its end, nothing is under way at the prompt, and when the REPL waits
there is one command on its way, or being answered, or taken for good, or its answer. The connection may
be lost at any point (`LosingKeeps`), and it follows what happens to the processes
(`FollowKeeps`).

Only model-checked: `ReplReturns`, which needs fairness.

## 9. Not modelled

The arithmetic of paths; wording and formatting of answers and log lines; the
history, hints and completions of the REPL; `Databases::remove`, which has no
caller; tests, build and packaging, which have no state of the system.
