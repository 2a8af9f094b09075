------------------------------- MODULE Catalog -------------------------------
(***************************************************************************)
(* The databases and tables of one toidb process: the lists it keeps in    *)
(* memory (Databases, DataBase, DatabaseTable), the data/ directory they   *)
(* mirror, and the statements that change or read them.  A statement runs  *)
(* on the thread of the connection that sent it (resolve, main.cpp), so it *)
(* is a sequence of steps that interleave with those of the others.  Its   *)
(* locks come in three levels,                                             *)
(*     Databases::mutex  ->  DataBase::mutex  ->  DatabaseTable::mtx_      *)
(* of which each statement takes only those the code takes.  The process   *)
(* may die at any step, and is started again from what is on the disk.     *)
(*                                                                         *)
(* A DataBase or DatabaseTable object is its index in heap.  A pointer a   *)
(* statement took from a list stays in th[w] after another statement has   *)
(* erased and destroyed the object: using it then is undefined behaviour,  *)
(* recorded in ub.  Its outcomes here: the memory still holds the object,  *)
(* or the process dies (Crash).                                            *)
(*                                                                         *)
(* Creating a folder or a column file may fail.  A write to a file that is *)
(* there succeeds: its error, which the code does not look at (fm.cpp), is *)
(* left out, and so are errors of unlinking.                               *)
(***************************************************************************)
EXTENDS Naturals, Sequences, FiniteSets, Functions

CONSTANTS
    Worker,         \* the connections, each resolving statements on a thread
    Db, Table,      \* names of databases and tables
    NCols,          \* columns of a table, numbered as its layout lists them
    Script,         \* Script[w]: the statements connection w may send
    MaxStatements,  \* bound: MaxStatements[w] statements of connection w
    MaxCrashes      \* bound: deaths of the process

\* The step a statement starts with (the branches of resolve).
First == [create_db |-> "check_db", delete_db |-> "delete",
          delete_table |-> "delete", show_dbs |-> "names",
          create_table |-> "get_db", show_db |-> "get_db",
          show_table |-> "get_db", insert |-> "get_db",
          show_column |-> "get_db", show_data |-> "get_db"]

ASSUME CatalogAssumption ==
    /\ NCols \in Nat \ {0}
    /\ MaxStatements \in [Worker -> Nat]
    /\ MaxCrashes \in Nat
    /\ \A w \in Worker : \A s \in Script[w] :
         s.op \in DOMAIN First /\ s.d \in Db /\ s.t \in Table
    /\ "no_one" \notin Worker
    /\ IsFiniteSet(Db) /\ IsFiniteSet(Table)
    /\ \A d \in Db : d \notin Db \X Table

VARIABLES
    dirs,       \* databases with a directory under data/
    folders,    \* <<database, table>> with a folder
    files,      \* <<database, table, n>> -> contents; n = Info is info.tbl
    dbs,        \* Databases::dbs: name -> object, Null if not listed
    heap,       \* object -> its DataBase::tables (NoTables for a table)
    live,       \* the objects not yet destroyed
    mutex,      \* the worker that holds Databases::mutex, or NoOne
    excl,       \* <<object, worker>> of every unique_lock held
    shar,       \* <<object, worker>> of every shared_lock held
    th,         \* the statement each worker is running
    up,         \* the process is running
    crashes,    \* how often it died
    acked,      \* <<d, t, row>> reported as inserted and not deleted since
    ub,         \* a destroyed object, or a list under change, was used
    left,       \* history: folders of a CREATE TABLE this process failed to finish
    contested   \* history: tables a CREATE TABLE filled while they were in use

traces == <<left, contested>>
disk == <<dirs, folders, files, traces>>
memory == <<dbs, heap, live>>
locks == <<mutex, excl, shar>>
process == <<up, crashes>>
history == <<acked, ub>>
vars == <<disk, memory, locks, th, process, history>>

Null == 0
NoOne == "no_one"
Col == 1 .. NCols
Info == 0
Layout == <<"layout">>
NoTables == [t \in Table |-> Null]

Labels == {"idle", "check_db", "make_db", "add_db", "names", "delete", "lock_db",
           "lock_tables", "remove_db", "erase_db", "get_table", "lock_table",
           "remove_table", "erase_table", "get_db", "check_dir", "check_folder",
           "make_folder", "write_info", "make_column", "find_slot",
           "link_table", "share_db", "find_table", "share_table",
           "check_values", "append", "read", "show"}

Nothing == [op |-> "none"]
Idle == [pc |-> "idle", s |-> Nothing, db |-> Null, tb |-> Null, at |-> 1,
         seen |-> <<>>, list |-> NoTables, done |-> 0]

----------------------------------------------------------------------------
(* Threads, locks and pointers. *)

At(w, l) == up /\ th[w].pc = l
Goto(w, l) == th' = [th EXCEPT ![w].pc = l]

D(w) == th[w].s.d
T(w) == th[w].s.t
Op(w) == th[w].s.op
Row(w) == <<w, th[w].done>>
OldRow == <<NoOne, 0>>

\* A statement returns: every lock guard of its scopes is destroyed.
Unlock_ByHand(w) == IF mutex = w /\ th[w].pc # "get_table" THEN NoOne ELSE mutex
Unlock(w) == IF mutex = w THEN NoOne ELSE mutex
End(w) ==
    /\ th' = [th EXCEPT ![w] = [Idle EXCEPT !.done = th[w].done + 1]]
    /\ mutex' = Unlock(w)
    /\ excl' = {p \in excl : p[2] # w}
    /\ shar' = {p \in shar : p[2] # w}

\* An access through a pointer, which is undefined once the object is gone.
Use(o) == ub' = (ub \/ o \notin live)

\* The last shared_ptr goes: a mutex destroyed while it is held is undefined.
Destroy(w, gone) ==
    /\ live' = live \ gone
    /\ ub' = (ub \/ \E p \in excl \cup shar : p[1] \in gone /\ p[2] # w)

\* std::unique_lock and std::shared_lock on the mutex of object o.
LockUnique(w, o) ==
    /\ \A p \in excl \cup shar : p[1] # o
    /\ excl' = excl \cup {<<o, w>>}
    /\ UNCHANGED <<mutex, shar>>
    /\ Use(o)

LockShared(w, o) ==
    /\ \A p \in excl : p[1] # o
    /\ shar' = shar \cup {<<o, w>>}
    /\ UNCHANGED <<mutex, excl>>
    /\ Use(o)

----------------------------------------------------------------------------
(* The disk. *)

Put(path, contents) ==
    [p \in DOMAIN files \cup {path} |-> IF p = path THEN contents ELSE files[p]]

FilesOf(f) == {p \in DOMAIN files : <<p[1], p[2]>> \in f}
FoldersOf(d) == {f \in folders : f[1] = d}

\* The rows nobody may expect any more once their files have been removed.
Forget(gone) ==
    acked' = {a \in acked : \A c \in Col : <<a[1], a[2], c>> \notin gone}

Remove(gone) == files' = Restrict(files, DOMAIN files \ gone) /\ Forget(gone)

\* A CREATE TABLE of another worker is filling folder f.  remove_dir_all
\* unlinks what it lists, then fails to remove a folder that is not empty.
BeingFilled(w, f) ==
    /\ f \in folders
    /\ \E v \in Worker \ {w} : /\ th[v].pc \in {"write_info", "make_column"}
                               /\ f = <<D(v), T(v)>>

----------------------------------------------------------------------------
Receive(w) ==
    /\ At(w, "idle")
    /\ th[w].done < MaxStatements[w]
    /\ \E s \in Script[w] : th' = [th EXCEPT ![w].s = s, ![w].pc = First[s.op]]
    /\ UNCHANGED <<disk, memory, locks, process, history>>

(* CREATE DATABASE: DataBase::create, which holds no lock, then Databases::add. *)

CheckDatabase(w) ==
    /\ At(w, "check_db")
    /\ \/ D(w) \in dirs /\ End(w)
       \/ D(w) \notin dirs /\ Goto(w, "make_db") /\ UNCHANGED locks
    /\ UNCHANGED <<disk, memory, process, history>>

MakeDatabase(w) ==
    /\ At(w, "make_db")
    /\ \/ End(w) /\ UNCHANGED dirs
       \/ dirs' = dirs \cup {D(w)} /\ Goto(w, "add_db") /\ UNCHANGED locks
    /\ UNCHANGED <<folders, files, traces, memory, process, history>>

AddDatabase(w) ==
    /\ At(w, "add_db")
    /\ mutex = NoOne
    /\ \/ dbs[D(w)] # Null /\ UNCHANGED memory
       \/ /\ dbs[D(w)] = Null
          /\ heap' = Append(heap, NoTables)
          /\ dbs' = [dbs EXCEPT ![D(w)] = Len(heap')]
          /\ live' = live \cup {Len(heap')}
    /\ Goto(w, "names")
    /\ UNCHANGED <<disk, locks, process, history>>

\* Databases::to_string and get_db_names: SHOW DATABASES, and the last reply
\* of CREATE DATABASE.
Names(w) ==
    /\ At(w, "names")
    /\ mutex = NoOne
    /\ End(w)
    /\ UNCHANGED <<disk, memory, process, history>>

(* DELETE DATABASE and DELETE TABLE: under Databases::mutex to the end. *)

LockDatabases(w) ==
    /\ At(w, "delete")
    /\ mutex = NoOne
    /\ \/ dbs[D(w)] = Null /\ End(w)
       \/ /\ dbs[D(w)] # Null
          /\ mutex' = w
          /\ th' = [th EXCEPT ![w].db = dbs[D(w)], ![w].pc = "lock_db"]
          /\ UNCHANGED <<excl, shar>>
    /\ UNCHANGED <<disk, memory, process, history>>

LockDatabase(w) ==
    /\ At(w, "lock_db")
    /\ LockUnique(w, th[w].db)
    /\ Goto(w, IF Op(w) = "delete_db" THEN "lock_tables" ELSE "get_table")
    /\ UNCHANGED <<disk, memory, process, acked>>

\* One table after another; the order of the list does not matter to the
\* others, since no one else waits for a table while it holds one.
TablesToLock_None(w) == {}
TablesToLock(w) == {o \in Range(heap[th[w].db]) \ {Null} : <<o, w>> \notin excl}

LockTables(w) ==
    LET rest == TablesToLock(w)
    IN  /\ At(w, "lock_tables")
        /\ \/ \E o \in rest : LockUnique(w, o) /\ UNCHANGED th
           \/ rest = {} /\ Goto(w, "remove_db") /\ UNCHANGED <<locks, ub>>
        /\ UNCHANGED <<disk, memory, process, acked>>

\* The locks on the tables and the database end with the inner scope, before
\* the database leaves the list.
RemoveDatabase(w) ==
    LET d == D(w)
    IN  /\ At(w, "remove_db")
        /\ left' = left \ FoldersOf(d)
        /\ \/ d \notin dirs /\ End(w) /\ UNCHANGED <<dirs, folders, files, contested, acked>>
           \/ /\ d \in dirs
              /\ dirs' = dirs \ {d}
              /\ folders' = folders \ FoldersOf(d)
              /\ Remove(FilesOf(FoldersOf(d)))
              /\ Goto(w, "erase_db")
              /\ excl' = {p \in excl : p[2] # w}
              /\ UNCHANGED <<mutex, shar, contested>>
           \/ \E f \in FoldersOf(d) :
                /\ BeingFilled(w, f)
                /\ \E new \in SUBSET FilesOf({f}) :
                        Remove(FilesOf(FoldersOf(d)) \ new)
                /\ folders' = (folders \ FoldersOf(d)) \cup {f}
                /\ contested' = contested \cup {f}
                /\ dirs' = dirs
                /\ End(w)
        /\ UNCHANGED <<memory, process, ub>>

EraseDatabase(w) ==
    /\ At(w, "erase_db")
    /\ dbs' = [dbs EXCEPT ![D(w)] = Null]
    /\ Destroy(w, {th[w].db} \cup Range(heap[th[w].db]))
    /\ End(w)
    /\ UNCHANGED <<disk, heap, process, acked>>

GetTable(w) ==
    LET o == heap[th[w].db][T(w)]
    IN  /\ At(w, "get_table")
        /\ \/ o = Null /\ End(w)
           \/ /\ o # Null
              /\ th' = [th EXCEPT ![w].tb = o, ![w].pc = "lock_table"]
              /\ UNCHANGED locks
        /\ UNCHANGED <<disk, memory, process, history>>

\* DataBase::delete_table_dir; the lock of the table ends with it.
RemoveTable(w) ==
    LET f == <<D(w), T(w)>>
    IN  /\ At(w, "remove_table")
        /\ left' = left \ {f}
        /\ \/ /\ folders' = folders \ {f}
              /\ Remove(FilesOf({f}))
              /\ Goto(w, "erase_table")
              /\ excl' = excl \ {<<th[w].tb, w>>}
              /\ UNCHANGED <<mutex, shar, contested>>
           \/ /\ BeingFilled(w, f)
              /\ \E new \in SUBSET FilesOf({f}) : Remove(FilesOf({f}) \ new)
              /\ contested' = contested \cup {f}
              /\ End(w)
              /\ UNCHANGED folders
        /\ UNCHANGED <<dirs, memory, process, ub>>

Unlisted_Kept(w) == heap
Unlisted(w) == [heap EXCEPT ![th[w].db][T(w)] = Null]
EraseTable(w) ==
    /\ At(w, "erase_table")
    /\ heap' = Unlisted(w)
    /\ Destroy(w, {th[w].tb})
    /\ End(w)
    /\ UNCHANGED <<disk, dbs, process, acked>>

(* The statements on one database: dbs.get, which takes no lock. *)

GetDatabase(w) ==
    LET o == dbs[D(w)]
        next == IF Op(w) = "create_table" THEN "check_dir"
                ELSE IF Op(w) = "insert" THEN "find_table" ELSE "share_db"
    IN  /\ At(w, "get_db")
        /\ \/ o = Null /\ End(w)
           \/ /\ o # Null
              /\ th' = [th EXCEPT ![w].db = o, ![w].pc = next]
              /\ UNCHANGED locks
        /\ UNCHANGED <<disk, memory, process, history>>

(* CREATE TABLE: DatabaseTable::createTable, then tables.insert; no lock.   *)

CheckDir(w) ==
    /\ At(w, "check_dir")
    /\ \/ D(w) \notin dirs /\ End(w)
       \/ D(w) \in dirs /\ Goto(w, "check_folder") /\ UNCHANGED locks
    /\ UNCHANGED <<disk, memory, process, history>>

Exists(w) == <<D(w), T(w)>> \in folders
CheckFolder(w) ==
    /\ At(w, "check_folder")
    /\ \/ Exists(w) /\ End(w)
       \/ ~Exists(w) /\ Goto(w, "make_folder") /\ UNCHANGED locks
    /\ UNCHANGED <<disk, memory, process, history>>

\* create_dir_all: the directory of the database too, should it be gone.
MakeFolder(w) ==
    /\ At(w, "make_folder")
    /\ \/ End(w) /\ UNCHANGED <<dirs, folders>>
       \/ /\ dirs' = dirs \cup {D(w)}
          /\ folders' = folders \cup {<<D(w), T(w)>>}
          /\ Goto(w, "write_info")
          /\ UNCHANGED locks
    /\ UNCHANGED <<files, traces, memory, process, history>>

\* An ofstream that cannot be opened drops what is written, without an error.
WriteInfo(w) ==
    /\ At(w, "write_info")
    /\ \/ <<D(w), T(w)>> \notin folders /\ UNCHANGED files
       \/ <<D(w), T(w)>> \in folders /\ files' = Put(<<D(w), T(w), Info>>, Layout)
    /\ Goto(w, "make_column")
    /\ UNCHANGED <<dirs, folders, traces, memory, locks, process, history>>

\* File::create, which truncates a column file that is already there.  It fails
\* without a folder, and with one too: for a name too long for a file, say.
\* The folder stays, with info.tbl and the columns before.
NewColumn_FromOne(w) == <<D(w), T(w), th[w].at + 1>>
NewColumn(w) == <<D(w), T(w), th[w].at>>

\* The table CREATE TABLE is making, if the new column has rows already or an
\* INSERT is at the table.
InUse(w) == {f \in {<<D(w), T(w)>>} :
               \/ NewColumn(w) \in DOMAIN files /\ files[NewColumn(w)] # <<>>
               \/ \E v \in Worker : th[v].pc = "append" /\ f = <<D(v), T(v)>>}

MakeColumn(w) ==
    LET i == th[w].at
        f == <<D(w), T(w)>>
    IN  /\ At(w, "make_column")
        /\ \/ /\ End(w)
              /\ left' = left \cup (folders \cap {f})
              /\ UNCHANGED <<files, contested>>
           \/ /\ f \in folders
              /\ files' = Put(NewColumn(w), <<>>)
              /\ contested' = contested \cup InUse(w)
              /\ th' = [th EXCEPT ![w].at = i + 1,
                                  ![w].pc = IF i = NCols THEN "find_slot" ELSE @]
              /\ UNCHANGED <<left, locks>>
        /\ UNCHANGED <<dirs, folders, memory, process, history>>

\* KeyValueList::insert walks the list, then links a node at its tail.
FindSlot(w) ==
    LET o == th[w].db
    IN  /\ At(w, "find_slot")
        /\ Use(o)
        /\ \/ heap[o][T(w)] # Null /\ End(w)
           \/ /\ heap[o][T(w)] = Null
              /\ th' = [th EXCEPT ![w].list = heap[o], ![w].pc = "link_table"]
              /\ UNCHANGED locks
        /\ UNCHANGED <<disk, memory, process, acked>>

\* Had the list changed in between, the node another thread linked is lost.
LinkTable(w) ==
    LET o == th[w].db
        new == Len(heap) + 1
    IN  /\ At(w, "link_table")
        /\ heap' = Append([heap EXCEPT ![o] = [th[w].list EXCEPT ![T(w)] = new]],
                          NoTables)
        /\ live' = live \cup {new}
        /\ ub' = (ub \/ o \notin live \/ heap[o] # th[w].list)
        /\ End(w)
        /\ UNCHANGED <<disk, dbs, process, acked>>

(* SHOW DATABASE, SHOW TABLE, SHOW of one column and of all the data: a     *)
(* shared lock on the database to the end; INSERT: no lock on the database. *)

ShareDatabase(w) ==
    /\ At(w, "share_db")
    /\ LockShared(w, th[w].db)
    /\ Goto(w, IF Op(w) = "show_db" THEN "show" ELSE "find_table")
    /\ UNCHANGED <<disk, memory, process, acked>>

FindTable(w) ==
    LET o == heap[th[w].db][T(w)]
        next == IF Op(w) = "show_table" THEN "share_table"
                ELSE IF Op(w) = "insert" THEN "check_values" ELSE "lock_table"
    IN  /\ At(w, "find_table")
        /\ Use(th[w].db)
        /\ \/ o = Null /\ End(w)
           \/ /\ o # Null
              /\ th' = [th EXCEPT ![w].tb = o, ![w].pc = next]
              /\ UNCHANGED locks
        /\ UNCHANGED <<disk, memory, process, acked>>

ShareTable(w) ==
    /\ At(w, "share_table")
    /\ LockShared(w, th[w].tb)
    /\ Goto(w, "show")
    /\ UNCHANGED <<disk, memory, process, acked>>

\* DatabaseTable::try_insert compares the values with the layout before it
\* takes the lock; here they fit or do not.
CheckValues(w) ==
    /\ At(w, "check_values")
    /\ Use(th[w].tb)
    /\ \/ End(w)
       \/ Goto(w, "lock_table") /\ UNCHANGED locks
    /\ UNCHANGED <<disk, memory, process, acked>>

TableLock_Shared(w) == LockShared(w, th[w].tb)
TableLock_NotToShow(w) == IF Op(w) = "show_data" THEN UNCHANGED <<locks, ub>>
                          ELSE LockUnique(w, th[w].tb)
TableLock(w) == LockUnique(w, th[w].tb)
LockTable(w) ==
    /\ At(w, "lock_table")
    /\ TableLock(w)
    /\ Goto(w, IF Op(w) = "delete_table" THEN "remove_table"
               ELSE IF Op(w) = "insert" THEN "append" ELSE "read")
    /\ UNCHANGED <<disk, memory, process, acked>>

\* One column of the row; a column file that is missing ends the statement
\* with the columns before it written.
LastValue_Early(i) == i + 1 >= NCols
LastValue(i) == i = NCols
AppendColumn(w) ==
    LET i == th[w].at
        path == <<D(w), T(w), i>>
    IN  /\ At(w, "append")
        /\ Use(th[w].tb)
        /\ \/ path \notin DOMAIN files /\ End(w) /\ UNCHANGED <<files, acked>>
           \/ /\ path \in DOMAIN files
              /\ files' = Put(path, Append(files[path], Row(w)))
              /\ \/ /\ LastValue(i)
                    /\ acked' = acked \cup {<<D(w), T(w), Row(w)>>}
                    /\ End(w)
                 \/ /\ ~LastValue(i)
                    /\ th' = [th EXCEPT ![w].at = i + 1]
                    /\ UNCHANGED <<locks, acked>>
        /\ UNCHANGED <<dirs, folders, traces, memory, process>>

\* ColumnInstance::load_column: a column that is missing or empty is an error,
\* and what SHOW collects does not get an entry for it.
ReadColumn(w) ==
    LET i == th[w].at
        whole == Op(w) = "show_data"
        last == ~whole \/ i = NCols
    IN  /\ At(w, "read")
        /\ Use(th[w].tb)
        /\ \E c \in IF whole THEN {i} ELSE Col :
             LET path == <<D(w), T(w), c>>
                 rows == IF path \in DOMAIN files THEN Len(files[path]) ELSE 0
             IN  th' = [th EXCEPT ![w].at = IF last THEN i ELSE i + 1,
                                  ![w].seen = IF rows = 0 THEN @ ELSE Append(@, rows),
                                  ![w].pc = IF last THEN "show" ELSE "lock_table"]
        /\ excl' = excl \ {<<th[w].tb, w>>}
        /\ UNCHANGED <<disk, memory, mutex, shar, process, acked>>

\* The reply is rendered and the shared locks end.
Show(w) ==
    /\ At(w, "show")
    /\ ub' = (ub \/ ~({th[w].db, th[w].tb} \subseteq live \cup {Null}))
    /\ End(w)
    /\ UNCHANGED <<disk, memory, process, acked>>

----------------------------------------------------------------------------
(* The process. *)

\* What a death in the middle of an operation on the disk leaves: info.tbl
\* created but not written, or a part of a folder unlinked.
Torn(w) ==
    LET f == <<D(w), T(w)>>
        doomed == IF Op(w) = "delete_db" THEN FoldersOf(D(w)) ELSE {f}
    IN  \/ /\ th[w].pc = "write_info"
           /\ f \in folders
           /\ files' = Put(<<D(w), T(w), Info>>, <<>>)
           /\ UNCHANGED <<folders, acked>>
        \/ /\ th[w].pc \in {"remove_db", "remove_table"}
           /\ \E gone \in SUBSET FilesOf(doomed) :
                /\ Remove(gone)
                /\ \E empty \in SUBSET {e \in doomed : FilesOf({e}) \subseteq gone} :
                        folders' = folders \ empty

Crash ==
    /\ up
    /\ crashes < MaxCrashes
    /\ \/ UNCHANGED <<folders, files, acked>>
       \/ \E w \in Worker : Torn(w)
    /\ up' = FALSE
    /\ crashes' = crashes + 1
    /\ dbs' = [d \in Db |-> Null]
    /\ heap' = <<>>
    /\ live' = {}
    /\ mutex' = NoOne
    /\ excl' = {}
    /\ shar' = {}
    /\ th' = [w \in Worker |->
                [Idle EXCEPT !.done = th[w].done
                                        + IF th[w].pc = "idle" THEN 0 ELSE 1]]
    /\ left' = {}
    /\ UNCHANGED <<dirs, contested, ub>>

\* main: Databases::load and DataBase::load_tables, before the server listens.
\* An info.tbl without its bytes is read through a null pointer: the process
\* dies each time it is started, and does not come up.
Load ==
    LET listed == {f \in folders : <<f[1], f[2], Info>> \in DOMAIN files}
        found == dirs \cup listed
        number == CHOOSE n \in Bijection(found, 1 .. Cardinality(found)) : TRUE
    IN  /\ ~up
        /\ \A f \in listed : files[<<f[1], f[2], Info>>] # <<>>
        /\ up' = TRUE
        /\ dbs' = [d \in Db |-> IF d \in dirs THEN number[d] ELSE Null]
        /\ heap' = [o \in 1 .. Cardinality(found) |->
                     [t \in Table |->
                        IF \E f \in listed : f[2] = t /\ f[1] \in dirs
                                              /\ number[f[1]] = o
                        THEN number[CHOOSE f \in listed :
                                      f[2] = t /\ number[f[1]] = o]
                        ELSE Null]]
        /\ live' = 1 .. Cardinality(found)
        /\ UNCHANGED <<disk, locks, th, crashes, history>>

----------------------------------------------------------------------------
\* data/ as an earlier process left it, with a row in the tables of full.
Left(full) == [p \in {<<f[1], f[2], n>> : f \in folders, n \in Col \cup {Info}} |->
                  IF p[3] = Info THEN Layout
                  ELSE IF <<p[1], p[2]>> \in full THEN <<OldRow>> ELSE <<>>]
LeftRows(full) == {<<f[1], f[2], OldRow>> : f \in full}

\* The process has not been started.
Init ==
    /\ dirs \in SUBSET Db
    /\ folders \in SUBSET (dirs \X Table)
    /\ \E full \in SUBSET folders : files = Left(full) /\ acked = LeftRows(full)
    /\ dbs = [d \in Db |-> Null]
    /\ heap = <<>>
    /\ live = {}
    /\ mutex = NoOne
    /\ excl = {}
    /\ shar = {}
    /\ th = [w \in Worker |-> Idle]
    /\ up = FALSE
    /\ crashes = 0
    /\ ub = FALSE
    /\ left = {}
    /\ contested = {}

Step(w) ==
    \/ CheckDatabase(w) \/ MakeDatabase(w) \/ AddDatabase(w) \/ Names(w)
    \/ LockDatabases(w) \/ LockDatabase(w) \/ LockTables(w)
    \/ RemoveDatabase(w) \/ EraseDatabase(w)
    \/ GetTable(w) \/ LockTable(w) \/ RemoveTable(w) \/ EraseTable(w)
    \/ GetDatabase(w) \/ CheckDir(w) \/ CheckFolder(w) \/ MakeFolder(w)
    \/ WriteInfo(w) \/ MakeColumn(w) \/ FindSlot(w) \/ LinkTable(w)
    \/ ShareDatabase(w) \/ FindTable(w) \/ ShareTable(w)
    \/ CheckValues(w) \/ AppendColumn(w) \/ ReadColumn(w) \/ Show(w)

Next ==
    \/ \E w \in Worker : Receive(w) \/ Step(w)
    \/ Crash
    \/ Load

\* The operating system runs every thread, and starts the process it is told
\* to; nobody has to send a statement.
Fairness == WF_vars(Load) /\ \A w \in Worker : WF_vars(Step(w))

Spec == Init /\ [][Next]_vars /\ Fairness
=============================================================================
