---------------------------- MODULE CatalogProofs ----------------------------
(***************************************************************************)
(* Type correctness of Catalog, for any connections, databases, tables and *)
(* statements, and its safety properties.                                  *)
(***************************************************************************)
EXTENDS CatalogInvariant, FiniteSetTheorems, FunctionTheorems, TLAPS

LEMMA Objects0 == ASSUME MemoryOK PROVE Len(heap) \in Nat /\ DOMAIN heap = 1 .. Len(heap)
                                        /\ Object = {Null} \cup DOMAIN heap
BY DEF MemoryOK, Object, Null

LEMMA TypeInvImplies == TypeInv /\ TracesOK => TypeOK
<1> SUFFICES ASSUME TypeInv, TracesOK PROVE TypeOK
  OBVIOUS
<1>1. Object = {Null} \cup DOMAIN heap
  BY Objects0 DEF TypeInv
<1>2. ASSUME NEW w \in Worker
      PROVE /\ th[w].pc \in Labels
            /\ th[w].s \in Statement \cup {Nothing}
            /\ {th[w].db, th[w].tb} \subseteq {Null} \cup DOMAIN heap
            /\ th[w].at \in 1 .. NCols + 1
            /\ th[w].seen \in Seq(Nat)
            /\ th[w].list \in [Table -> {Null} \cup DOMAIN heap]
            /\ th[w].done \in 0 .. MaxStatements[w]
  <2>1. th[w] \in Thread /\ th[w].done <= MaxStatements[w]
    BY DEF TypeInv, ThreadsOK
  <2>2. MaxStatements[w] \in Nat
    BY CatalogAssumption DEF CatalogAssumption
  <2> QED BY <1>1, <2>1, <2>2 DEF Thread
<1> QED BY <1>1, <1>2 DEF TypeInv, TracesOK, TypeOK, DiskOK, MemoryOK, LocksOK, RestOK

\* Every statement a connection may send.
LEMMA StatementType ==
  ASSUME NEW w \in Worker, NEW s \in Script[w]
  PROVE  /\ s \in Statement /\ s.d \in Db /\ s.t \in Table
         /\ s.op \in OpsAt(First[s.op]) /\ First[s.op] \in Labels
         /\ First[s.op] \in BeforeDb \ {"idle"}
<1>1. s \in Statement
  BY DEF Statement
<1>2. s.op \in DOMAIN First /\ s.d \in Db /\ s.t \in Table
  BY CatalogAssumption DEF CatalogAssumption
<1>3. s.op \in OpsAt(First[s.op]) /\ First[s.op] \in Labels
         /\ First[s.op] \in BeforeDb \ {"idle"}
  BY <1>2 DEF First, OpsAt, Labels, BeforeDb, Shows, Creation
<1> QED BY <1>1, <1>2, <1>3

\* A step of a connection changes no other's thread.
Alone(w) == th' = [th EXCEPT ![w] = th'[w]]

LEMMA StepAlone ==
  ASSUME TypeInv, NEW w \in Worker, Receive(w) \/ Step(w)
  PROVE  Alone(w)
<1>0. th \in [Worker -> Thread]
  BY DEF TypeInv, ThreadsOK
<1> USE <1>0 DEF Alone, Goto, End
<1>1. CASE Receive(w) \/ CheckDatabase(w) \/ MakeDatabase(w) \/ AddDatabase(w) \/ Names(w)
  BY <1>1 DEF Receive, CheckDatabase, MakeDatabase, AddDatabase, Names
<1>2. CASE LockDatabases(w) \/ LockDatabase(w) \/ LockTables(w) \/ RemoveDatabase(w)
  BY <1>2 DEF LockDatabases, LockDatabase, LockTables, RemoveDatabase
<1>3. CASE EraseDatabase(w) \/ GetTable(w) \/ LockTable(w) \/ RemoveTable(w)
  BY <1>3 DEF EraseDatabase, GetTable, LockTable, RemoveTable
<1>4. CASE EraseTable(w) \/ GetDatabase(w) \/ CheckDir(w) \/ CheckFolder(w) \/ MakeFolder(w)
  BY <1>4 DEF EraseTable, GetDatabase, CheckDir, CheckFolder, MakeFolder
<1>5. CASE WriteInfo(w) \/ MakeColumn(w) \/ FindSlot(w) \/ LinkTable(w)
  BY <1>5 DEF WriteInfo, MakeColumn, FindSlot, LinkTable
<1>6. CASE ShareDatabase(w) \/ FindTable(w) \/ ShareTable(w) \/ CheckValues(w)
  BY <1>6 DEF ShareDatabase, FindTable, ShareTable, CheckValues
<1>7. CASE AppendColumn(w) \/ ReadColumn(w) \/ Show(w)
  BY <1>7 DEF AppendColumn, ReadColumn, Show
<1> QED BY <1>1, <1>2, <1>3, <1>4, <1>5, <1>6, <1>7 DEF Step

LEMMA ThreadsKept ==
  ASSUME TypeInv, NEW w \in Worker, Alone(w), Object \subseteq Object',
         th'[w] \in Thread, th'[w].done <= MaxStatements[w], Proper(w, th'[w])
  PROVE  ThreadsOK'
<1>1. th' \in [Worker -> Thread] /\ \A v \in Worker \ {w} : th'[v] = th[v]
  BY DEF TypeInv, ThreadsOK, Alone
<1>2. Thread \subseteq Thread'
  BY DEF Thread
<1>3. th' \in [Worker -> Thread']
  BY <1>1, <1>2
<1>4. ASSUME NEW v \in Worker
      PROVE  th'[v].done <= MaxStatements[v] /\ Proper(v, th'[v])
  BY <1>1 DEF TypeInv, ThreadsOK
<1> QED BY <1>3, <1>4 DEF ThreadsOK, Proper

\* What a statement knows of itself at each of its steps.
LEMMA Running ==
  ASSUME TypeInv, NEW w \in Worker, th[w].pc # "idle"
  PROVE  /\ th[w] \in Thread /\ Proper(w, th[w])
         /\ th[w].s \in Script[w] /\ th[w].s \in Statement
         /\ D(w) \in Db /\ T(w) \in Table
         /\ th[w].done + 1 <= MaxStatements[w] /\ th[w].done \in Nat
         /\ Row(w) \in Rows
<1>1. th[w] \in Thread /\ Proper(w, th[w])
  BY DEF TypeInv, ThreadsOK
<1>2. th[w].s \in Script[w] /\ th[w].done < MaxStatements[w]
  BY <1>1 DEF Proper
<1>3. D(w) \in Db /\ T(w) \in Table /\ th[w].s \in Statement
  BY <1>2, StatementType DEF D, T
<1>4. th[w].done \in Nat /\ MaxStatements[w] \in Nat
  BY <1>1, CatalogAssumption DEF Thread, CatalogAssumption
<1>5. Row(w) \in {w} \X (0 .. MaxStatements[w])
  BY <1>2, <1>4 DEF Row
<1>6. Row(w) \in Rows
  BY <1>5 DEF Rows
<1> QED BY <1>1, <1>2, <1>3, <1>4, <1>6

\* Where a statement ends, its thread is ready for the next.
LEMMA EndThread ==
  ASSUME TypeInv, NEW w \in Worker, th[w].pc # "idle", End(w)
  PROVE  /\ th'[w] \in Thread /\ th'[w].done <= MaxStatements[w] /\ Proper(w, th'[w])
         /\ mutex' \in {mutex, NoOne} /\ excl' \subseteq excl /\ shar' \subseteq shar
         /\ th'[w].pc = "idle" /\ th'[w].db = Null /\ th'[w].tb = Null /\ th'[w].seen = <<>>
<1>1. th'[w] = [Idle EXCEPT !.done = th[w].done + 1]
  BY DEF End, TypeInv, ThreadsOK
<1>2. th[w].done \in Nat /\ th[w].done + 1 <= MaxStatements[w] /\ Len(heap) \in Nat /\ NCols \in Nat \ {0}
  BY Running, Objects0, CatalogAssumption DEF TypeInv, CatalogAssumption
<1>3. 0 \in Object /\ 1 \in 1 .. NCols + 1 /\ 1 \in Col
  BY <1>2 DEF Object, Col
<1>4. th'[w] = [pc |-> "idle", s |-> Nothing, db |-> 0, tb |-> 0, at |-> 1,
                seen |-> <<>>, list |-> NoTables, done |-> th[w].done + 1]
  BY <1>1 DEF Idle, Null
<1>5. NoTables \in [Table -> Object]
  BY <1>3 DEF NoTables, Null
<1>6. "idle" \in Labels /\ <<>> \in Seq(Nat)
  BY DEF Labels
<1>7. th'[w] \in Thread
  BY <1>2, <1>3, <1>4, <1>5, <1>6 DEF Thread
<1>8. Proper(w, th'[w])
  BY <1>1, <1>3 DEF Proper, Idle, BeforeDb, WithTable, Null
<1>9. mutex' \in {mutex, NoOne} /\ excl' \subseteq excl /\ shar' \subseteq shar
  BY DEF End, Unlock
<1>a. th'[w].done <= MaxStatements[w]
  BY <1>1, <1>2 DEF Idle
<1> QED BY <1>1, <1>7, <1>8, <1>9, <1>a DEF Idle

\* Where it goes on, with the pointers it has.
LEMMA GotoThread ==
  ASSUME TypeInv, NEW w \in Worker, NEW l \in Labels, Goto(w, l),
         th[w].pc # "idle", l # "idle", th[w].s.op \in OpsAt(l),
         l \in BeforeDb <=> th[w].pc \in BeforeDb,
         l \in WithTable => th[w].tb # Null, l # "share_db",
         l \notin {"find_slot", "link_table"} => th[w].at \in Col,
         l \notin {"make_column", "find_slot", "link_table", "append",
                   "lock_table", "read", "show"} => th[w].at = 1,
         l = "lock_table" /\ th[w].s.op \in {"insert", "delete_table"} => th[w].at = 1
  PROVE  th'[w] \in Thread /\ th'[w].done <= MaxStatements[w] /\ Proper(w, th'[w])
<1>1. th'[w] = [th[w] EXCEPT !.pc = l] /\ th[w] \in Thread
  BY DEF Goto, TypeInv, ThreadsOK
<1>2. th'[w] \in Thread
  BY <1>1 DEF Thread
<1>3. th'[w].done <= MaxStatements[w]
  BY <1>1 DEF Thread, TypeInv, ThreadsOK
<1>4. Proper(w, th[w])
  BY DEF TypeInv, ThreadsOK
<1>5. Proper(w, th'[w])
  <2>1. /\ th'[w].pc = l /\ th'[w].s = th[w].s /\ th'[w].done = th[w].done /\ th'[w].db = th[w].db
        /\ th'[w].tb = th[w].tb /\ th'[w].at = th[w].at
    BY <1>1 DEF Thread
  <2> QED BY <1>4, <2>1 DEF Proper
<1> QED BY <1>2, <1>3, <1>5

ThreadOK(w) == th'[w] \in Thread /\ th'[w].done <= MaxStatements[w] /\ Proper(w, th'[w])
LocksMove(w) == /\ mutex' \in {mutex, NoOne, w}
                /\ excl' \subseteq excl \cup (DOMAIN heap) \X {w}
                /\ shar' \subseteq shar \cup (DOMAIN heap) \X {w}

\* A step that leaves the lists alone.
LEMMA DiskType ==
  ASSUME TypeInv, NEW w \in Worker, up, UNCHANGED <<memory, process>>,
         Alone(w), ThreadOK(w), LocksMove(w), DiskOK',
         acked' \subseteq Db \X Table \X Rows, ub' \in BOOLEAN
  PROVE  TypeInv'
<1>1. MemoryOK' /\ Object' = Object
  BY DEF TypeInv, MemoryOK, memory, Object
<1>2. LocksOK'
  BY DEF TypeInv, LocksOK, LocksMove, memory
<1>3. RestOK'
  BY DEF TypeInv, RestOK, process
<1>4. ThreadsOK'
  BY <1>1, ThreadsKept DEF ThreadOK
<1>5. Down'
  BY DEF Down, process
<1> QED BY <1>1, <1>2, <1>3, <1>4, <1>5 DEF TypeInv

\* A step that leaves the disk alone, too.
LEMMA QuietType ==
  ASSUME TypeInv, NEW w \in Worker, up, UNCHANGED <<disk, memory, process>>,
         Alone(w), ThreadOK(w), LocksMove(w), acked' = acked, ub' \in BOOLEAN
  PROVE  TypeInv'
<1>1. DiskOK' /\ acked' \subseteq Db \X Table \X Rows
  BY DEF TypeInv, DiskOK, RestOK, disk
<1> QED BY <1>1, DiskType

LEMMA EndType ==
  ASSUME TypeInv, NEW w \in Worker, th[w].pc # "idle", End(w)
  PROVE  ThreadOK(w) /\ LocksMove(w)
BY EndThread DEF ThreadOK, LocksMove

LEMMA LockType ==
  ASSUME TypeInv, NEW w \in Worker, NEW o \in Object, o # Null,
         LockUnique(w, o) \/ LockShared(w, o)
  PROVE  LocksMove(w) /\ ub' \in BOOLEAN
<1>1. o \in DOMAIN heap
  BY Objects0 DEF TypeInv
<1>2. LocksMove(w)
  BY <1>1 DEF LocksMove, LockUnique, LockShared
<1>3. ub' \in BOOLEAN
  BY DEF LockUnique, LockShared, Use
<1> QED BY <1>2, <1>3

LEMMA ReceiveType ==
  ASSUME TypeInv, NEW w \in Worker, Receive(w)  PROVE TypeInv'
<1>1. PICK s \in Script[w] : th' = [th EXCEPT ![w].s = s, ![w].pc = First[s.op]]
  BY DEF Receive
<1>2. th[w] \in Thread /\ Proper(w, th[w]) /\ th[w].pc = "idle" /\ th[w].done < MaxStatements[w]
      /\ th[w].done <= MaxStatements[w] /\ th \in [Worker -> Thread] /\ up
  BY DEF Receive, At, TypeInv, ThreadsOK
<1>3. th'[w] = [th[w] EXCEPT !.s = s, !.pc = First[s.op]]
  BY <1>1, <1>2
<1>4. /\ s \in Statement /\ s.op \in OpsAt(First[s.op]) /\ First[s.op] \in Labels
      /\ First[s.op] \in BeforeDb \ {"idle"}
  BY StatementType
<1>5. th'[w] \in Thread
  BY <1>2, <1>3, <1>4 DEF Thread
<1>6. Proper(w, th'[w])
  <2>1. /\ th'[w].pc = First[s.op] /\ th'[w].s = s /\ th'[w].done = th[w].done /\ th'[w].db = th[w].db
        /\ th'[w].tb = th[w].tb /\ th'[w].at = th[w].at
    BY <1>2, <1>3 DEF Thread
  <2> HIDE <1>1
  <2> DEFINE l == First[s.op]
  <2>2. l \in BeforeDb \ {"idle"} /\ s.op \in OpsAt(l) /\ th'[w].pc = l
    BY <1>4, <2>1
  <2> HIDE DEF l
  <2>3. l \notin WithTable /\ l \notin {"make_column", "find_slot", "link_table", "append",
                         "lock_table", "read", "show"}
    BY <2>2 DEF BeforeDb, WithTable
  <2>4. th[w].db = Null /\ th[w].tb = Null /\ th[w].at = 1 /\ th[w].at \in Col
    BY <1>2 DEF Proper, BeforeDb
  <2> QED BY <1>2, <2>1, <2>2, <2>3, <2>4 DEF Proper
<1>7. ThreadOK(w)
  BY <1>2, <1>3, <1>5, <1>6 DEF ThreadOK, Thread
<1> QED BY <1>2, <1>7, StepAlone, QuietType DEF Receive, locks, history, LocksMove, TypeInv, RestOK

\* The steps that only look, lock or go on.
Looks(w) ==
    \/ CheckDatabase(w) \/ Names(w) \/ LockDatabase(w) \/ LockTables(w)
    \/ CheckDir(w) \/ CheckFolder(w) \/ ShareDatabase(w) \/ ShareTable(w)
    \/ CheckValues(w) \/ LockTable(w) \/ Show(w)

LEMMA LooksType ==
  ASSUME TypeInv, NEW w \in Worker, Looks(w)  PROVE TypeInv'
<1>1. th[w].pc # "idle" /\ up /\ UNCHANGED <<disk, memory, process>> /\ acked' = acked
  BY DEF Looks, At, CheckDatabase, Names, LockDatabase, LockTables, CheckDir, CheckFolder,
         ShareDatabase, ShareTable, CheckValues, LockTable, Show, history
<1>2. /\ Alone(w) /\ th[w] \in Thread /\ Proper(w, th[w]) /\ th[w].db \in Object /\ th[w].tb \in Object
      /\ th \in [Worker -> Thread]
  BY <1>1, StepAlone, Running DEF Looks, Step, Thread, TypeInv, ThreadsOK
<1>3. LocksMove(w) /\ ub' \in BOOLEAN
  <2>1. CASE LockDatabase(w) \/ ShareDatabase(w)
    BY <1>2, <2>1, LockType DEF LockDatabase, ShareDatabase, Proper, BeforeDb, At
  <2>2. CASE LockTable(w) \/ ShareTable(w)
    BY <1>2, <2>2, LockType DEF LockTable, TableLock, ShareTable, Proper, WithTable, At
  <2>3. CASE LockTables(w)
    <3>1. heap[th[w].db] \in [Table -> Object]
      <4>1. th[w].db \in DOMAIN heap
        BY <1>2, <2>3, Objects0 DEF LockTables, At, Proper, BeforeDb, TypeInv
      <4> QED BY <4>1 DEF TypeInv, MemoryOK
    <3>2. TablesToLock(w) \subseteq Object \ {Null}
      BY <3>1 DEF TablesToLock, Range
    <3> QED BY <2>3, <3>2, LockType DEF LockTables, locks, LocksMove, TypeInv, RestOK
  <2>4. CASE CheckDatabase(w) \/ Names(w) \/ CheckDir(w) \/ CheckFolder(w)
    BY <1>1, <2>4, EndType DEF CheckDatabase, Names, CheckDir, CheckFolder, locks, LocksMove,
                               history, TypeInv, RestOK
  <2>5. CASE CheckValues(w) \/ Show(w)
    BY <1>1, <2>5, EndType DEF CheckValues, Show, locks, LocksMove, Use
  <2> QED BY <2>1, <2>2, <2>3, <2>4, <2>5 DEF Looks
<1>4. ThreadOK(w)
  <2>1. CASE End(w)
    BY <1>1, <2>1, EndType
  <2>2. CASE th' = th
    BY <1>2, <2>2 DEF ThreadOK, TypeInv, ThreadsOK
  <2>3. ASSUME NEW l \in Labels, Goto(w, l), l # "idle", th[w].s.op \in OpsAt(l),
               l \in BeforeDb <=> th[w].pc \in BeforeDb,
               l \in WithTable => th[w].tb # Null,
               l \notin {"find_slot", "link_table", "share_db"},
               l = "lock_table" => th[w].pc = "check_values",
               l \in {"make_column", "append", "read", "show", "lock_table"} \/ th[w].at = 1
        PROVE  ThreadOK(w)
    <3>1. th[w].at \in Col \/ th[w].pc \in {"find_slot", "link_table"}
      BY <1>2 DEF Proper
    <3>2. th[w].at \in Col
      BY <1>1, <3>1 DEF Looks, At, CheckDatabase, Names, LockDatabase, LockTables, CheckDir, CheckFolder,
         ShareDatabase, ShareTable, CheckValues, LockTable, Show
    <3>3. l = "lock_table" => th[w].at = 1
      BY <1>2, <2>3 DEF Proper
    <3> QED BY <1>1, <2>3, <3>2, <3>3, GotoThread DEF ThreadOK
  <2>4. CASE CheckDatabase(w) \/ CheckDir(w) \/ CheckFolder(w)
    BY <1>2, <2>1, <2>3, <2>4 DEF CheckDatabase, CheckDir, CheckFolder, At, Proper, OpsAt, BeforeDb,
                                  WithTable, Labels, Creation
  <2>5. CASE Names(w) \/ Show(w)
    BY <2>1, <2>5 DEF Names, Show
  <2>6. CASE LockDatabase(w) \/ LockTables(w)
    BY <1>2, <2>1, <2>2, <2>3, <2>6 DEF LockDatabase, LockTables, At, Proper, OpsAt, BeforeDb, WithTable,
                                  Labels, Creation, Op
  <2>7. CASE ShareDatabase(w) \/ ShareTable(w) \/ CheckValues(w)
    BY <1>2, <2>1, <2>3, <2>7 DEF ShareDatabase, ShareTable, CheckValues, At, Proper, OpsAt, BeforeDb,
                                  WithTable, Labels, Creation, Op, Shows
  <2>8. CASE LockTable(w)
    <3>1. th[w].pc = "lock_table" /\ th[w].tb # Null
          /\ Op(w) \in {"delete_table", "insert", "show_column", "show_data"}
      BY <1>2, <2>8 DEF LockTable, At, Proper, OpsAt, WithTable, Op, Creation
    <3>2. \E l \in {"remove_table", "append", "read"} : Goto(w, l) /\ Op(w) \in OpsAt(l)
      BY <2>8, <3>1 DEF LockTable, OpsAt, Creation
    <3>3. PICK l \in {"remove_table", "append", "read"} : Goto(w, l) /\ Op(w) \in OpsAt(l)
      BY <3>2
    <3>4. l = "remove_table" => th[w].at = 1
      <4>1. SUFFICES ASSUME l = "remove_table" PROVE th[w].at = 1
        OBVIOUS
      <4>2. Op(w) = "delete_table"
        BY <3>1, <3>3, <4>1 DEF OpsAt, Creation
      <4> QED BY <1>2, <3>1, <4>2 DEF Proper, Op
    <3> QED BY <1>2, <2>3, <3>1, <3>3, <3>4 DEF Proper, BeforeDb, WithTable, Labels, Op
  <2> QED BY <2>4, <2>5, <2>6, <2>7, <2>8 DEF Looks
<1> QED BY <1>1, <1>2, <1>3, <1>4, QuietType

\* The lists of the objects a statement points to.
LEMMA TablesOf ==
  ASSUME TypeInv, NEW w \in Worker, th[w].pc \notin BeforeDb
  PROVE  /\ th[w].db \in DOMAIN heap /\ th[w].db \in Object
         /\ heap[th[w].db] \in [Table -> Object]
         /\ T(w) \in Table /\ D(w) \in Db
<1>1. th[w].db \in DOMAIN heap /\ th[w].db \in Object
  BY Objects0 DEF TypeInv, ThreadsOK, Proper, Thread
<1>2. heap[th[w].db] \in [Table -> Object]
  BY <1>1 DEF TypeInv, MemoryOK
<1>3. th[w].pc # "idle"
  BY DEF BeforeDb
<1> QED BY <1>1, <1>2, <1>3, Running

\* The steps that take a pointer, a copy of a list or the length of a column.
Takes(w) == \/ LockDatabases(w) \/ GetTable(w) \/ GetDatabase(w) \/ FindTable(w)
            \/ FindSlot(w) \/ ReadColumn(w)

LEMMA TakesType ==
  ASSUME TypeInv, NEW w \in Worker, Takes(w)  PROVE TypeInv'
<1>1. th[w].pc # "idle" /\ up /\ UNCHANGED <<disk, memory, process>> /\ acked' = acked
  BY DEF Takes, At, LockDatabases, GetTable, GetDatabase, FindTable, FindSlot, ReadColumn, history
<1>2. /\ Alone(w) /\ th[w] \in Thread /\ Proper(w, th[w]) /\ th \in [Worker -> Thread]
      /\ th[w].done <= MaxStatements[w] /\ D(w) \in Db /\ T(w) \in Table
  BY <1>1, StepAlone, Running DEF Takes, Step, TypeInv, ThreadsOK
<1>3. dbs[D(w)] \in Object
  BY <1>2 DEF TypeInv, MemoryOK
<1>4. ub \in BOOLEAN
  BY DEF TypeInv, RestOK
<1>5. th[w].pc \notin BeforeDb =>
        heap[th[w].db] \in [Table -> Object] /\ heap[th[w].db][T(w)] \in Object
  BY TablesOf
<1> DEFINE Goal == ThreadOK(w) /\ LocksMove(w) /\ ub' \in BOOLEAN
<1> SUFFICES Goal
  BY <1>1, <1>2, QuietType
<1>6. ASSUME End(w), ub' \in BOOLEAN PROVE Goal
  BY <1>1, <1>6, EndType
<1>7. CASE LockDatabases(w)
  <2>1. ASSUME dbs[D(w)] # Null, mutex' = w, UNCHANGED <<excl, shar>>,
               th' = [th EXCEPT ![w].db = dbs[D(w)], ![w].pc = "lock_db"],
               th[w].pc = "delete"
        PROVE  ThreadOK(w) /\ LocksMove(w)
    <3>1. th'[w] = [th[w] EXCEPT !.db = dbs[D(w)], !.pc = "lock_db"]
      BY <1>2, <2>1
    <3>2. th'[w] \in Thread
      BY <1>2, <1>3, <3>1 DEF Thread, Labels
    <3>3. Proper(w, th'[w])
      BY <1>2, <2>1, <3>1 DEF Thread, Proper, OpsAt, BeforeDb, WithTable, Creation
    <3>4. th'[w].done = th[w].done
      BY <1>2, <3>1 DEF Thread
    <3> QED BY <1>2, <2>1, <3>2, <3>3, <3>4 DEF ThreadOK, LocksMove
  <2> QED BY <1>4, <1>6, <1>7, <2>1 DEF LockDatabases, At, history
<1>8. CASE GetDatabase(w)
  <2>1. ASSUME dbs[D(w)] # Null, UNCHANGED locks, th[w].pc = "get_db",
               NEW l \in {"check_dir", "find_table", "share_db"}, Op(w) \in OpsAt(l),
               th' = [th EXCEPT ![w].db = dbs[D(w)], ![w].pc = l]
        PROVE  ThreadOK(w) /\ LocksMove(w)
    <3>1. th'[w] = [th[w] EXCEPT !.db = dbs[D(w)], !.pc = l]
      BY <1>2, <2>1
    <3>2. th'[w] \in Thread
      BY <1>2, <1>3, <3>1 DEF Thread, Labels
    <3>a. /\ th'[w].pc = l /\ th'[w].s = th[w].s /\ th'[w].done = th[w].done
          /\ th'[w].db = dbs[D(w)] /\ th'[w].tb = th[w].tb /\ th'[w].at = th[w].at
      BY <1>2, <3>1 DEF Thread
    <3>3. Proper(w, th'[w])
      BY <1>2, <2>1, <3>a DEF Proper, BeforeDb, WithTable, Op
    <3>4. th'[w].done = th[w].done
      BY <1>2, <3>1 DEF Thread
    <3> QED BY <1>2, <2>1, <3>2, <3>3, <3>4 DEF ThreadOK, LocksMove, locks
  <2>2. th[w].pc = "get_db" /\ Op(w) \in Shows \cup {"create_table", "insert"}
    BY <1>2, <1>8 DEF GetDatabase, At, Proper, OpsAt, Creation, Op
  <2>3. CASE dbs[D(w)] = Null
    BY <1>4, <1>6, <1>8, <2>3 DEF GetDatabase, history
  <2>4. CASE dbs[D(w)] # Null
    <3>1. \E l \in {"check_dir", "find_table", "share_db"} :
            Op(w) \in OpsAt(l) /\ th' = [th EXCEPT ![w].db = dbs[D(w)], ![w].pc = l]
      BY <1>8, <2>2, <2>4 DEF GetDatabase, OpsAt, Shows, Creation
    <3> QED BY <1>4, <1>8, <2>1, <2>2, <2>4, <3>1 DEF GetDatabase, history
  <2> QED BY <2>3, <2>4
<1>9. CASE GetTable(w) \/ FindTable(w)
  <2> DEFINE o == heap[th[w].db][T(w)]
  <2>0. th[w].pc \in {"get_table", "find_table"} /\ o \in Object
    BY <1>5, <1>9 DEF GetTable, FindTable, At, BeforeDb
  <2>1. ASSUME o # Null, UNCHANGED locks,
               NEW l \in {"lock_table", "check_values", "share_table"}, Op(w) \in OpsAt(l),
               th' = [th EXCEPT ![w].tb = o, ![w].pc = l]
        PROVE  ThreadOK(w) /\ LocksMove(w)
    <3>1. th'[w] = [th[w] EXCEPT !.tb = o, !.pc = l]
      BY <1>2, <2>1
    <3> HIDE DEF o
    <3>2. th'[w] \in Thread
      BY <1>2, <2>0, <3>1 DEF Thread, Labels
    <3>a. /\ th'[w].pc = l /\ th'[w].s = th[w].s /\ th'[w].done = th[w].done
          /\ th'[w].db = th[w].db /\ th'[w].tb = o /\ th'[w].at = th[w].at
      BY <1>2, <3>1 DEF Thread
    <3>3. Proper(w, th'[w])
      BY <1>2, <2>0, <2>1, <3>a DEF Proper, BeforeDb, WithTable, Op
    <3>4. th'[w].done = th[w].done
      BY <1>2, <3>1 DEF Thread
    <3> QED BY <1>2, <2>1, <3>2, <3>3, <3>4 DEF ThreadOK, LocksMove, locks
  <2>2. Op(w) \in {"delete_table"} \cup {"insert", "show_table", "show_column", "show_data"}
        /\ (th[w].pc = "get_table" => Op(w) = "delete_table")
        /\ (th[w].pc = "find_table" => Op(w) # "delete_table")
    BY <1>2, <2>0 DEF Proper, OpsAt, Creation, Op, Shows
  <2>3. ub' \in BOOLEAN
    BY <1>4, <1>9 DEF GetTable, FindTable, Use, history
  <2>4. CASE o = Null
    BY <1>6, <1>9, <2>3, <2>4 DEF GetTable, FindTable
  <2>5. CASE o # Null
    <3>1. \E l \in {"lock_table", "check_values", "share_table"} :
            Op(w) \in OpsAt(l) /\ th' = [th EXCEPT ![w].tb = o, ![w].pc = l]
      BY <1>9, <2>0, <2>2, <2>5 DEF GetTable, FindTable, At, OpsAt, Creation
    <3> QED BY <1>9, <2>1, <2>3, <2>5, <3>1 DEF GetTable, FindTable
  <2> QED BY <2>4, <2>5
<1>10. CASE FindSlot(w)
  <2>1. th[w].pc = "find_slot" /\ heap[th[w].db] \in [Table -> Object] /\ ub' \in BOOLEAN
    BY <1>5, <1>10 DEF FindSlot, At, BeforeDb, Use
  <2>2. CASE UNCHANGED locks /\ th' = [th EXCEPT ![w].list = heap[th[w].db], ![w].pc = "link_table"]
    <3>1. th'[w] = [th[w] EXCEPT !.list = heap[th[w].db], !.pc = "link_table"]
      BY <1>2, <2>2
    <3>2. th'[w] \in Thread
      BY <1>2, <2>1, <3>1 DEF Thread, Labels
    <3>3. Proper(w, th'[w])
      BY <1>2, <2>1, <3>1 DEF Thread, Proper, BeforeDb, WithTable, OpsAt, Creation
    <3>4. th'[w].done = th[w].done
      BY <1>2, <3>1 DEF Thread
    <3> QED BY <1>2, <2>1, <2>2, <3>2, <3>3, <3>4 DEF ThreadOK, LocksMove, locks
  <2> QED BY <1>6, <1>10, <2>1, <2>2 DEF FindSlot
<1>11. CASE ReadColumn(w)
  <2>1. th[w].pc = "read" /\ ub' \in BOOLEAN /\ LocksMove(w) /\ th[w].at \in Col
    BY <1>2, <1>11 DEF ReadColumn, At, Use, LocksMove, Proper
  <2>2. \E i \in Nat, rows \in Nat, b \in BOOLEAN :
          /\ b => i = th[w].at
          /\ ~b => Op(w) = "show_data" /\ i = th[w].at + 1 /\ th[w].at # NCols
          /\ th' = [th EXCEPT ![w].at = i,
                              ![w].seen = IF rows = 0 THEN @ ELSE Append(@, rows),
                              ![w].pc = IF b THEN "show" ELSE "lock_table"]
    <3>1. PICK c \in IF Op(w) = "show_data" THEN {th[w].at} ELSE Col :
             LET path == <<D(w), T(w), c>>
                 rows == IF path \in DOMAIN files THEN Len(files[path]) ELSE 0
                 last == ~(Op(w) = "show_data") \/ th[w].at = NCols
             IN  th' = [th EXCEPT ![w].at = IF last THEN th[w].at ELSE th[w].at + 1,
                                  ![w].seen = IF rows = 0 THEN @ ELSE Append(@, rows),
                                  ![w].pc = IF last THEN "show" ELSE "lock_table"]
      BY <1>11 DEF ReadColumn
    <3> DEFINE path == <<D(w), T(w), c>>
               rows == IF path \in DOMAIN files THEN Len(files[path]) ELSE 0
               last == ~(Op(w) = "show_data") \/ th[w].at = NCols
    <3>2. c \in Col /\ NCols \in Nat /\ th[w].at \in Nat /\ th[w].at + 1 \in Nat
      BY <2>1, CatalogAssumption DEF CatalogAssumption, Col
    <3>3. rows \in Nat
      <4>1. CASE path \notin DOMAIN files
        BY <4>1
      <4>2. CASE path \in DOMAIN files
        <5>1. path[3] # Info
          BY <3>2 DEF Col, Info
        <5>2. files[path] \in Seq(Rows)
          BY <4>2, <5>1 DEF TypeInv, DiskOK
        <5> QED BY <4>2, <5>2
      <4> QED BY <4>1, <4>2
    <3>4. (IF last THEN th[w].at ELSE th[w].at + 1) \in Nat /\ last \in BOOLEAN
      BY <3>2
    <3>5. th' = [th EXCEPT ![w].at = IF last THEN th[w].at ELSE th[w].at + 1,
                           ![w].seen = IF rows = 0 THEN @ ELSE Append(@, rows),
                           ![w].pc = IF last THEN "show" ELSE "lock_table"]
      BY <3>1
    <3> HIDE DEF rows
    <3> QED BY <3>2, <3>3, <3>4, <3>5
  <2>3. PICK i \in Nat, rows \in Nat, b \in BOOLEAN :
          /\ b => i = th[w].at
          /\ ~b => Op(w) = "show_data" /\ i = th[w].at + 1 /\ th[w].at # NCols
          /\ th' = [th EXCEPT ![w].at = i,
                              ![w].seen = IF rows = 0 THEN @ ELSE Append(@, rows),
                              ![w].pc = IF b THEN "show" ELSE "lock_table"]
    BY <2>2
  <2> DEFINE sn == IF rows = 0 THEN th[w].seen ELSE Append(th[w].seen, rows)
             l == IF b THEN "show" ELSE "lock_table"
  <2>4. th'[w] = [th[w] EXCEPT !.at = i, !.seen = sn, !.pc = l]
    BY <1>2, <2>3
  <2>5. sn \in Seq(Nat)
    BY <1>2 DEF Thread
  <2>6. i \in Col /\ i \in 1 .. NCols + 1
    BY <2>1, <2>3, CatalogAssumption DEF CatalogAssumption, Col
  <2>7. l \in {"show", "lock_table"} /\ Op(w) \in OpsAt(l) /\ (l = "lock_table" => Op(w) = "show_data")
    BY <1>2, <2>1, <2>3 DEF Proper, OpsAt, Op, Shows, Creation
  <2> HIDE DEF sn, l
  <2>8. th'[w] \in Thread
    BY <1>2, <2>4, <2>5, <2>6, <2>7 DEF Thread, Labels
  <2>9. Proper(w, th'[w])
    BY <1>2, <2>1, <2>4, <2>6, <2>7 DEF Thread, Proper, BeforeDb, WithTable, Op
  <2>10. th'[w].done = th[w].done
    BY <1>2, <2>4 DEF Thread
  <2> QED BY <1>2, <2>1, <2>8, <2>9, <2>10 DEF ThreadOK
<1> QED
  BY <1>7, <1>8, <1>9, <1>10, <1>11 DEF Takes

LEMMA PutType ==
  ASSUME DiskOK, NEW path \in Path, NEW contents, files' = Put(path, contents),
         IF path[3] = Info THEN contents \in {<<>>, Layout} ELSE contents \in Seq(Rows),
         dirs' \subseteq Db, folders' \subseteq Db \X Table
  PROVE  DiskOK'
<1>1. DOMAIN files' = DOMAIN files \cup {path}
      /\ \A p \in DOMAIN files' : files'[p] = IF p = path THEN contents ELSE files[p]
  BY DEF Put
<1> QED BY <1>1 DEF DiskOK

LEMMA RemoveType ==
  ASSUME DiskOK, acked \subseteq Db \X Table \X Rows, NEW gone, Remove(gone),
         dirs' \subseteq Db, folders' \subseteq Db \X Table
  PROVE  DiskOK' /\ acked' \subseteq Db \X Table \X Rows
<1>1. DOMAIN files' \subseteq DOMAIN files /\ \A p \in DOMAIN files' : files'[p] = files[p]
  BY DEF Remove, Restrict
<1>2. acked' \subseteq acked
  BY DEF Remove, Forget
<1> QED BY <1>1, <1>2 DEF DiskOK

\* The steps that work on the disk.
Works(w) == \/ MakeDatabase(w) \/ MakeFolder(w) \/ WriteInfo(w) \/ MakeColumn(w)
            \/ AppendColumn(w) \/ RemoveDatabase(w) \/ RemoveTable(w)

LEMMA WorksType ==
  ASSUME TypeInv, NEW w \in Worker, Works(w)  PROVE TypeInv'
<1>1. th[w].pc # "idle" /\ up /\ UNCHANGED <<memory, process>>
  BY DEF Works, At, MakeDatabase, MakeFolder, WriteInfo, MakeColumn, AppendColumn,
         RemoveDatabase, RemoveTable
<1>2. /\ Alone(w) /\ th[w] \in Thread /\ Proper(w, th[w]) /\ th \in [Worker -> Thread]
      /\ th[w].done <= MaxStatements[w] /\ D(w) \in Db /\ T(w) \in Table /\ Row(w) \in Rows
  BY <1>1, StepAlone, Running DEF Works, Step, TypeInv, ThreadsOK
<1>3. ub \in BOOLEAN /\ DiskOK /\ acked \subseteq Db \X Table \X Rows
  BY DEF TypeInv, RestOK
<1>4. dirs \subseteq Db /\ folders \subseteq Db \X Table
  BY <1>3 DEF DiskOK
<1> DEFINE Goal == /\ ThreadOK(w) /\ LocksMove(w) /\ ub' \in BOOLEAN
                   /\ DiskOK' /\ acked' \subseteq Db \X Table \X Rows
<1> SUFFICES Goal
  BY <1>1, <1>2, DiskType
<1>a. ASSUME NEW l \in {"add_db", "write_info", "make_column", "erase_db", "erase_table"}, Goto(w, l),
             Op(w) \in OpsAt(l), l \in BeforeDb <=> th[w].pc \in BeforeDb,
             l = "erase_table" => th[w].tb # Null, th[w].at = 1
      PROVE  ThreadOK(w)
  <2>1. l \in Labels /\ l # "idle" /\ l \notin {"find_slot", "link_table", "lock_table", "share_db"}
        /\ (l \in WithTable => l = "erase_table")
    BY DEF Labels, WithTable
  <2>2. th[w].at \in Col
    BY <1>a, CatalogAssumption DEF CatalogAssumption, Col
  <2> QED BY <1>1, <1>a, <2>1, <2>2, GotoThread DEF Op, ThreadOK
<1>5. CASE MakeDatabase(w) \/ MakeFolder(w)
  <2>1. dirs' \subseteq Db /\ folders' \subseteq Db \X Table /\ files' = files
    BY <1>2, <1>4, <1>5 DEF MakeDatabase, MakeFolder
  <2>2. DiskOK'
    BY <1>3, <2>1 DEF DiskOK
  <2>3. UNCHANGED history
    BY <1>5 DEF MakeDatabase, MakeFolder
  <2>4. th[w].at = 1
    BY <1>2, <1>5 DEF Proper, MakeDatabase, MakeFolder, At
  <2>5. ThreadOK(w) /\ LocksMove(w)
    <3>1. CASE End(w)
      BY <1>1, <3>1, EndType
    <3>2. CASE ~End(w) /\ MakeDatabase(w)
      <4>1. Goto(w, "add_db") /\ UNCHANGED locks
        BY <3>2 DEF MakeDatabase
      <4>2. ThreadOK(w)
        BY <1>2, <1>a, <2>4, <3>2, <4>1 DEF MakeDatabase, At, Proper, OpsAt, BeforeDb, Op
      <4> QED BY <4>1, <4>2 DEF LocksMove, locks
    <3>3. CASE ~End(w) /\ MakeFolder(w)
      <4>1. Goto(w, "write_info") /\ UNCHANGED locks
        BY <3>3 DEF MakeFolder
      <4>2. ThreadOK(w)
        BY <1>2, <1>a, <2>4, <3>3, <4>1 DEF MakeFolder, At, Proper, OpsAt, BeforeDb, Creation, Op
      <4> QED BY <4>1, <4>2 DEF LocksMove, locks
    <3> QED BY <1>5, <3>1, <3>2, <3>3
  <2> QED BY <1>3, <2>2, <2>3, <2>5 DEF history
<1>6. CASE WriteInfo(w)
  <2>1. DiskOK'
    <3>1. <<D(w), T(w), Info>> \in Path /\ <<D(w), T(w), Info>>[3] = Info
      BY <1>2 DEF Path
    <3> QED BY <1>3, <1>4, <1>6, <3>1, PutType DEF WriteInfo, DiskOK
  <2>3. ThreadOK(w)
    BY <1>2, <1>6, <1>a DEF WriteInfo, At, Proper, OpsAt, BeforeDb, Creation, Op
  <2> QED BY <1>3, <1>6, <2>1, <2>3 DEF WriteInfo, LocksMove, locks, history
<1>7. CASE MakeColumn(w) \/ AppendColumn(w)
  <2> DEFINE path == <<D(w), T(w), th[w].at>>
  <2>1. th[w].at \in Col /\ th[w].pc \in {"make_column", "append"}
    BY <1>2, <1>7 DEF Proper, MakeColumn, AppendColumn, At
  <2>2. path \in Path /\ path[3] # Info
    BY <1>2, <2>1 DEF Path, Col, Info
  <2>3. DiskOK' /\ ub' \in BOOLEAN
    <3>1. CASE files' = files
      <4>1. dirs' = dirs /\ folders' = folders
        BY <1>7 DEF MakeColumn, AppendColumn
      <4>2. ub' \in BOOLEAN
        BY <1>3, <1>7 DEF MakeColumn, AppendColumn, Use, history
      <4>3. DiskOK'
        BY <1>3, <3>1, <4>1 DEF DiskOK
      <4> QED BY <4>2, <4>3
    <3>2. CASE MakeColumn(w) /\ files' = Put(path, <<>>)
      <4>1. ub' = ub /\ dirs' = dirs /\ folders' = folders
        BY <3>2 DEF MakeColumn, history
      <4>2. <<>> \in Seq(Rows)
        OBVIOUS
      <4>3. DiskOK'
        <5> HIDE DEF path
        <5> QED BY <1>3, <1>4, <2>2, <3>2, <4>1, <4>2, PutType
      <4> QED BY <1>3, <4>1, <4>3
    <3>3. CASE AppendColumn(w) /\ path \in DOMAIN files /\ files' = Put(path, Append(files[path], Row(w)))
      <4>1. files[path] \in Seq(Rows)
        BY <1>3, <2>2, <3>3 DEF DiskOK
      <4>2. Append(files[path], Row(w)) \in Seq(Rows)
        BY <1>2, <4>1
      <4>3. DiskOK'
        <5> HIDE DEF path
        <5> QED BY <1>3, <1>4, <2>2, <3>3, <4>2, PutType DEF AppendColumn
      <4> QED BY <3>3, <4>3 DEF AppendColumn, Use
    <3> QED BY <1>7, <3>1, <3>2, <3>3 DEF MakeColumn, AppendColumn, NewColumn
  <2>4. acked' \subseteq Db \X Table \X Rows
    BY <1>2, <1>3, <1>7 DEF MakeColumn, AppendColumn, history
  <2>5. ThreadOK(w) /\ LocksMove(w)
    <3>1. CASE End(w)
      BY <1>1, <3>1, EndType
    <3>2. ASSUME UNCHANGED locks, NEW l \in Labels,
                 l = th[w].pc \/ (l = "find_slot" /\ th[w].pc = "make_column"),
                 l # "find_slot" => th[w].at # NCols,
                 th' = [th EXCEPT ![w].at = th[w].at + 1, ![w].pc = l]
          PROVE  ThreadOK(w) /\ LocksMove(w)
      <4>1. th'[w] = [th[w] EXCEPT !.at = th[w].at + 1, !.pc = l]
        BY <1>2, <3>2
      <4>2. /\ th'[w].pc = l /\ th'[w].s = th[w].s /\ th'[w].done = th[w].done
            /\ th'[w].db = th[w].db /\ th'[w].tb = th[w].tb /\ th'[w].at = th[w].at + 1
        BY <1>2, <4>1 DEF Thread
      <4>3. th[w].at + 1 \in 1 .. NCols + 1 /\ (l # "find_slot" => th[w].at + 1 \in Col)
        BY <2>1, <3>2, CatalogAssumption DEF CatalogAssumption, Col
      <4>4. th'[w] \in Thread
        BY <1>2, <4>1, <4>3, <3>2 DEF Thread
      <4>5. Proper(w, th'[w])
        BY <1>2, <2>1, <3>2, <4>2, <4>3 DEF Proper, BeforeDb, WithTable, OpsAt, Creation
      <4> QED BY <1>2, <3>2, <4>2, <4>4, <4>5 DEF ThreadOK, LocksMove, locks
    <3>3. CASE MakeColumn(w)
      <4>1. CASE th[w].at = NCols
        <5>1. End(w) \/ (UNCHANGED locks
                          /\ th' = [th EXCEPT ![w].at = th[w].at + 1, ![w].pc = "find_slot"])
          BY <3>3, <4>1 DEF MakeColumn
        <5> QED BY <3>1, <3>2, <3>3, <5>1 DEF Labels, MakeColumn, At
      <4>2. CASE th[w].at # NCols
        <5>1. End(w) \/ (UNCHANGED locks
                          /\ th' = [th EXCEPT ![w].at = th[w].at + 1, ![w].pc = "make_column"])
          <6>1. ASSUME th' = [th EXCEPT ![w].at = th[w].at + 1,
                                  ![w].pc = IF th[w].at = NCols THEN "find_slot" ELSE @]
                PROVE  th' = [th EXCEPT ![w].at = th[w].at + 1, ![w].pc = "make_column"]
            BY <1>2, <2>1, <3>3, <4>2, <6>1 DEF Thread, MakeColumn, At
          <6> QED BY <3>3, <6>1 DEF MakeColumn
        <5> QED BY <3>1, <3>2, <3>3, <4>2, <5>1 DEF Labels, MakeColumn, At
      <4> QED BY <4>1, <4>2
    <3>4. CASE AppendColumn(w)
      <4>1. End(w) \/ (UNCHANGED locks /\ th[w].at # NCols
                        /\ th' = [th EXCEPT ![w].at = th[w].at + 1])
        BY <3>4 DEF AppendColumn, LastValue
      <4>2. ASSUME th' = [th EXCEPT ![w].at = th[w].at + 1]
            PROVE  th' = [th EXCEPT ![w].at = th[w].at + 1, ![w].pc = th[w].pc]
        BY <1>2, <4>2 DEF Thread
      <4> QED BY <1>2, <3>1, <3>2, <4>1, <4>2 DEF Thread
    <3> QED BY <1>7, <3>3, <3>4
  <2> QED BY <2>3, <2>4, <2>5
<1>8. CASE RemoveDatabase(w) \/ RemoveTable(w)
  <2>1. DiskOK' /\ acked' \subseteq Db \X Table \X Rows
    <3>1. dirs' \subseteq Db /\ folders' \subseteq Db \X Table
      BY <1>4, <1>8 DEF RemoveDatabase, RemoveTable, BeingFilled, disk
    <3>2. (files' = files /\ acked' = acked) \/ \E gone : Remove(gone)
      BY <1>8 DEF RemoveDatabase, RemoveTable, disk
    <3> QED BY <1>3, <3>1, <3>2, RemoveType DEF DiskOK
  <2>2. ub' \in BOOLEAN
    BY <1>3, <1>8 DEF RemoveDatabase, RemoveTable
  <2>3. CASE End(w)
    BY <1>1, <2>1, <2>2, <2>3, EndType
  <2>4. CASE ~End(w)
    <3>1. LocksMove(w)
      BY <1>8, <2>4 DEF RemoveDatabase, RemoveTable, LocksMove
    <3>2. ASSUME RemoveDatabase(w) PROVE ThreadOK(w)
      BY <1>2, <1>a, <2>4, <3>2 DEF RemoveDatabase, At, Proper, OpsAt, BeforeDb, Creation, Op
    <3>3. ASSUME RemoveTable(w) PROVE ThreadOK(w)
      BY <1>2, <1>a, <2>4, <3>3 DEF RemoveTable, At, Proper, OpsAt, BeforeDb, Creation, Op, WithTable
    <3> QED BY <1>8, <2>1, <2>2, <3>1, <3>2, <3>3
  <2> QED BY <2>3, <2>4
<1> QED BY <1>5, <1>6, <1>7, <1>8 DEF Works

\* The steps that change the lists.
Changes(w) == AddDatabase(w) \/ EraseDatabase(w) \/ EraseTable(w) \/ LinkTable(w)

LEMMA ChangeType ==
  ASSUME TypeInv, NEW w \in Worker, up, UNCHANGED <<disk, process>>, acked' = acked,
         ub' \in BOOLEAN, Alone(w), ThreadOK(w), LocksMove(w), MemoryOK',
         Len(heap') \in Nat, Len(heap') >= Len(heap)
  PROVE  TypeInv'
<1>1. DiskOK' /\ RestOK' /\ Down'
  BY DEF TypeInv, DiskOK, disk, RestOK, process, Down
<1>2. DOMAIN heap \subseteq DOMAIN heap' /\ Object \subseteq Object'
  BY Objects0 DEF TypeInv, MemoryOK, Object
<1>3. LocksOK'
  BY <1>2 DEF TypeInv, LocksOK, LocksMove
<1>4. ThreadsOK'
  BY <1>2, ThreadsKept DEF ThreadOK
<1> QED BY <1>1, <1>3, <1>4 DEF TypeInv, MemoryOK

LEMMA SeqDomain == ASSUME NEW S, NEW s \in Seq(S) PROVE DOMAIN s = 1 .. Len(s)
OBVIOUS

LEMMA SeqWider == ASSUME NEW S, NEW U, S \subseteq U, NEW s \in Seq(S) PROVE s \in Seq(U)
OBVIOUS

LEMMA NewObject ==
  ASSUME MemoryOK, NEW h \in Seq([Table -> 0 .. Len(heap) + 1]), Len(h) = Len(heap),
         heap' = Append(h, NoTables), live' = live \cup {Len(heap')},
         dbs' \in [Db -> Object'] \/ dbs' = dbs
  PROVE  MemoryOK' /\ Len(heap') = Len(heap) + 1
<1>1. Len(heap) \in Nat /\ live \subseteq 1 .. Len(heap)
  BY Objects0 DEF MemoryOK
<1>2. Len(heap') = Len(heap) + 1
  BY DEF MemoryOK
<1>3. Object' = 0 .. Len(heap) + 1 /\ Object \subseteq Object'
  BY <1>1, <1>2 DEF Object
<1>4. NoTables \in [Table -> 0 .. Len(heap) + 1]
  BY <1>1 DEF NoTables, Null
<1>5. heap' \in Seq([Table -> 0 .. Len(heap) + 1])
  BY <1>4
<1>6. heap' \in Seq([Table -> Object'])
  BY <1>3, <1>5
<1>7. DOMAIN heap' = 1 .. Len(heap) + 1
  BY <1>2, <1>5, SeqDomain
<1>8. live' \subseteq DOMAIN heap'
  <2>1. Len(heap') \in 1 .. Len(heap) + 1 /\ 1 .. Len(heap) \subseteq 1 .. Len(heap) + 1
    BY <1>1, <1>2
  <2> QED BY <1>1, <1>7, <2>1
<1>9. dbs' \in [Db -> Object']
  BY <1>3 DEF MemoryOK
<1> QED BY <1>2, <1>6, <1>8, <1>9 DEF MemoryOK

LEMMA ChangesType ==
  ASSUME TypeInv, NEW w \in Worker, Changes(w)  PROVE TypeInv'
<1>1. th[w].pc # "idle" /\ up /\ UNCHANGED <<disk, process>> /\ acked' = acked
  BY DEF Changes, At, AddDatabase, EraseDatabase, EraseTable, LinkTable, history
<1>2. /\ Alone(w) /\ th[w] \in Thread /\ Proper(w, th[w]) /\ th \in [Worker -> Thread]
      /\ D(w) \in Db /\ T(w) \in Table
  BY <1>1, StepAlone, Running DEF Changes, Step, TypeInv, ThreadsOK
<1>3. MemoryOK /\ Len(heap) \in Nat /\ ub \in BOOLEAN
  BY Objects0 DEF TypeInv, RestOK
<1>4. ub' \in BOOLEAN
  BY <1>3 DEF Changes, AddDatabase, EraseDatabase, EraseTable, LinkTable, Destroy, history
<1>5. CASE AddDatabase(w)
  <2>1. ThreadOK(w)
    <3>1. th[w].pc = "add_db" /\ Op(w) = "create_db" /\ th[w].at = 1 /\ th[w].at \in Col
      BY <1>2, <1>5 DEF AddDatabase, At, Proper, OpsAt, Op
    <3>2. "create_db" \in OpsAt("names") /\ "names" \in Labels
      BY DEF OpsAt, Labels
    <3> QED BY <1>1, <1>5, <3>1, <3>2, GotoThread
            DEF AddDatabase, BeforeDb, WithTable, ThreadOK, Op
  <2>2. CASE UNCHANGED memory
    BY <1>1, <1>2, <1>4, <1>5, <2>1, <2>2, QuietType DEF AddDatabase, LocksMove, locks
  <2>3. CASE ~UNCHANGED memory
    <3>1. heap' = Append(heap, NoTables) /\ live' = live \cup {Len(heap')}
          /\ dbs' = [dbs EXCEPT ![D(w)] = Len(heap')] /\ UNCHANGED locks
      BY <1>5, <2>3 DEF AddDatabase
    <3>2. heap \in Seq([Table -> 0 .. Len(heap) + 1])
      <4>1. 0 .. Len(heap) \subseteq 0 .. Len(heap) + 1
        BY <1>3
      <4> QED BY <1>3, <4>1 DEF MemoryOK, Object
    <3>3. Len(heap') = Len(heap) + 1
      BY <1>3, <3>1 DEF MemoryOK
    <3>4. dbs' \in [Db -> Object']
      <4>1. Object' = 0 .. Len(heap) + 1 /\ Len(heap') \in Object' /\ Object \subseteq Object'
        BY <1>3, <3>3 DEF Object
      <4> QED BY <1>3, <3>1, <4>1 DEF MemoryOK
    <3>5. MemoryOK'
      BY <1>3, <3>1, <3>2, <3>4, NewObject
    <3> QED BY <1>1, <1>2, <1>3, <1>4, <2>1, <3>1, <3>3, <3>5, ChangeType DEF LocksMove, locks
  <2> QED BY <2>2, <2>3
<1>6. CASE EraseDatabase(w) \/ EraseTable(w)
  <2>1. End(w) /\ ThreadOK(w) /\ LocksMove(w)
    BY <1>1, <1>6, EndType DEF EraseDatabase, EraseTable
  <2>2. live' \subseteq live
    BY <1>6 DEF EraseDatabase, EraseTable, Destroy
  <2>3. heap' \in Seq([Table -> Object]) /\ Len(heap') = Len(heap)
    <3>1. CASE heap' = heap
      BY <1>3, <3>1 DEF MemoryOK
    <3>2. CASE heap' = [heap EXCEPT ![th[w].db] = [heap[th[w].db] EXCEPT ![T(w)] = Null]]
               /\ th[w].pc = "erase_table"
      <4>1. th[w].db \in DOMAIN heap /\ heap[th[w].db] \in [Table -> Object] /\ Null \in Object
        BY <1>3, <3>2, TablesOf DEF BeforeDb, Object, Null
      <4>2. [heap[th[w].db] EXCEPT ![T(w)] = Null] \in [Table -> Object]
        BY <4>1
      <4> QED BY <1>3, <3>2, <4>1, <4>2 DEF MemoryOK
    <3> QED BY <1>6, <3>1, <3>2 DEF EraseDatabase, EraseTable, Unlisted, At
  <2>4. dbs' \in [Db -> Object]
    <3>1. Null \in Object
      BY <1>3 DEF Object, Null
    <3> QED BY <1>3, <1>6, <3>1 DEF EraseDatabase, EraseTable, MemoryOK
  <2>5. Object' = Object /\ DOMAIN heap' = DOMAIN heap
    BY <1>3, <2>3 DEF Object, MemoryOK
  <2>6. MemoryOK'
    BY <1>3, <2>2, <2>3, <2>4, <2>5 DEF MemoryOK
  <2> QED BY <1>1, <1>2, <1>3, <1>4, <2>1, <2>3, <2>6, ChangeType
<1>7. CASE LinkTable(w)
  <2>1. End(w) /\ ThreadOK(w) /\ LocksMove(w)
    BY <1>1, <1>7, EndType DEF LinkTable
  <2> DEFINE new == Len(heap) + 1
             row == [th[w].list EXCEPT ![T(w)] = new]
             h == [heap EXCEPT ![th[w].db] = row]
  <2>2. th[w].list \in [Table -> Object] /\ th[w].db \in DOMAIN heap
    BY <1>2, <1>7, TablesOf DEF LinkTable, At, BeforeDb, Thread
  <2>3. new \in 0 .. Len(heap) + 1 /\ Object \subseteq 0 .. Len(heap) + 1
    BY <1>3 DEF Object
  <2>4. row \in [Table -> 0 .. Len(heap) + 1]
    BY <2>2, <2>3
  <2>5. heap \in Seq([Table -> 0 .. Len(heap) + 1])
    <3>1. [Table -> Object] \subseteq [Table -> 0 .. Len(heap) + 1]
      BY <2>3
    <3>2. heap \in Seq([Table -> Object])
      BY <1>3 DEF MemoryOK
    <3> QED BY <3>1, <3>2, SeqWider
  <2> HIDE DEF row
  <2>6. h \in Seq([Table -> 0 .. Len(heap) + 1]) /\ Len(h) = Len(heap)
    BY <2>2, <2>4, <2>5
  <2>7. heap' = Append(h, NoTables) /\ live' = live \cup {new} /\ dbs' = dbs
    BY <1>7 DEF LinkTable, row
  <2> HIDE DEF h
  <2>8. Len(heap') = new
    BY <2>6, <2>7
  <2>9. MemoryOK'
    BY <1>3, <2>6, <2>7, <2>8, NewObject
  <2> QED BY <1>1, <1>2, <1>3, <1>4, <2>1, <2>8, <2>9, ChangeType
<1> QED BY <1>5, <1>6, <1>7 DEF Changes

\* What Load finds in data/ and how it numbers it.
Listed == {f \in folders : <<f[1], f[2], Info>> \in DOMAIN files}
Found == dirs \cup Listed
Number == CHOOSE n \in Bijection(Found, 1 .. Cardinality(Found)) : TRUE

LEMMA NumberType ==
  ASSUME DiskOK
  PROVE  /\ Cardinality(Found) \in Nat
         /\ Number \in [Found -> 1 .. Cardinality(Found)]
         /\ \A a, b \in Found : Number[a] = Number[b] => a = b
<1>1. IsFiniteSet(dirs) /\ IsFiniteSet(Db \X Table)
  BY CatalogAssumption, FS_Subset, FS_Product DEF DiskOK, CatalogAssumption
<1>2. IsFiniteSet(Listed)
  BY <1>1, FS_Subset DEF Listed, DiskOK
<1>3. IsFiniteSet(Found)
  BY <1>1, <1>2, FS_Union DEF Found
<1>4. Cardinality(Found) \in Nat /\ ExistsBijection(1 .. Cardinality(Found), Found)
  BY <1>3, FS_CardinalityType
<1>5. ExistsBijection(Found, 1 .. Cardinality(Found))
  BY <1>4, Fun_ExistsBijEquiv
<1>6. Number \in Bijection(Found, 1 .. Cardinality(Found))
  BY <1>5 DEF Number, ExistsBijection
<1> QED BY <1>4, <1>6, Fun_BijectionProperties

LEMMA LoadType == ASSUME TypeInv, Load PROVE TypeInv'
<1> DEFINE n == Cardinality(Found)
           cell(o, t) == IF \E f \in Listed : f[2] = t /\ f[1] \in dirs /\ Number[f[1]] = o
                         THEN Number[CHOOSE f \in Listed : f[2] = t /\ Number[f[1]] = o]
                         ELSE Null
           row(o) == [t \in Table |-> cell(o, t)]
<1>1. /\ ~up /\ up' = TRUE /\ UNCHANGED <<disk, locks, th, crashes, history>>
      /\ dbs' = [d \in Db |-> IF d \in dirs THEN Number[d] ELSE Null]
      /\ heap' = [o \in 1 .. n |-> row(o)]
      /\ live' = 1 .. n
  BY DEF Load, Listed, Found, Number
<1>2. n \in Nat /\ Number \in [Found -> 1 .. n]
  BY NumberType DEF TypeInv
<1>3. ASSUME NEW o, NEW t PROVE cell(o, t) \in 0 .. n
  <2>1. (CHOOSE f \in Listed : f[2] = t /\ Number[f[1]] = o) \in Found
        \/ ~(\E f \in Listed : f[2] = t /\ f[1] \in dirs /\ Number[f[1]] = o)
    BY DEF Found
  <2> HIDE DEF n
  <2> QED BY <1>2, <2>1 DEF Null
<1> HIDE DEF n, cell
<1>4. \A o \in 1 .. n : row(o) \in [Table -> 0 .. n]
  BY <1>3
<1> HIDE DEF row
<1>5. heap' \in [1 .. n -> [Table -> 0 .. n]]
  BY <1>1, <1>4
<1>6. heap' \in Seq([Table -> 0 .. n]) /\ Len(heap') = n
  BY <1>2, <1>5
<1>7. Object' = 0 .. n /\ DOMAIN heap' = 1 .. n
  BY <1>5, <1>6 DEF Object
<1>8. dbs' \in [Db -> 0 .. n]
  <2>1. \A d \in dirs : Number[d] \in 0 .. n
    BY <1>2 DEF Found
  <2> QED BY <1>1, <1>2, <2>1 DEF Null
<1>9. MemoryOK'
  BY <1>1, <1>6, <1>7, <1>8 DEF MemoryOK
<1>10. LocksOK'
  BY <1>1 DEF TypeInv, Down, LocksOK, locks
<1>11. DiskOK' /\ RestOK' /\ Down'
  BY <1>1 DEF TypeInv, DiskOK, RestOK, Down, disk, history
<1>12. ThreadsOK'
  <2>1. th \in [Worker -> Thread] /\ \A w \in Worker : th[w].pc = "idle"
    BY <1>1 DEF TypeInv, ThreadsOK, Down
  <2>2. Object = {Null}
    BY <1>1 DEF TypeInv, Down, Object, Null
  <2>3. Object \subseteq Object'
    BY <1>2, <1>7, <2>2 DEF Null
  <2>4. Thread \subseteq Thread'
    BY <2>3 DEF Thread
  <2>5. th' = th
    BY <1>1
  <2> QED BY <2>1, <2>4, <2>5 DEF ThreadsOK, TypeInv, Proper
<1> QED BY <1>9, <1>10, <1>11, <1>12 DEF TypeInv

LEMMA CrashType == ASSUME TypeInv, Crash PROVE TypeInv'
<1>1. /\ up /\ crashes < MaxCrashes /\ up' = FALSE /\ crashes' = crashes + 1
      /\ dbs' = [d \in Db |-> Null] /\ heap' = <<>> /\ live' = {}
      /\ mutex' = NoOne /\ excl' = {} /\ shar' = {} /\ dirs' = dirs /\ ub' = ub
      /\ th' = [w \in Worker |-> [Idle EXCEPT !.done = th[w].done + IF th[w].pc = "idle" THEN 0 ELSE 1]]
  BY DEF Crash
<1>2. DiskOK /\ dirs \subseteq Db /\ folders \subseteq Db \X Table /\ acked \subseteq Db \X Table \X Rows
  BY DEF TypeInv, DiskOK, RestOK
<1>3. DiskOK' /\ acked' \subseteq Db \X Table \X Rows
  <2>1. CASE UNCHANGED <<folders, files, acked>>
    BY <1>1, <1>2, <2>1 DEF DiskOK
  <2>2. CASE \E w \in Worker : Torn(w)
    <3>1. PICK w \in Worker : Torn(w)
      BY <2>2
    <3>2. th[w].pc # "idle"
      BY <3>1 DEF Torn
    <3>3. <<D(w), T(w), Info>> \in Path /\ <<D(w), T(w), Info>>[3] = Info
      BY <3>2, Running DEF Path
    <3>4. CASE UNCHANGED <<folders, acked>> /\ files' = Put(<<D(w), T(w), Info>>, <<>>)
      BY <1>1, <1>2, <3>3, <3>4, PutType
    <3>5. CASE \E gone : Remove(gone) /\ folders' \subseteq folders
      BY <1>1, <1>2, <3>5, RemoveType
    <3>6. \/ UNCHANGED <<folders, acked>> /\ files' = Put(<<D(w), T(w), Info>>, <<>>)
          \/ \E gone : Remove(gone) /\ folders' \subseteq folders
      BY <3>1 DEF Torn
    <3> QED BY <3>4, <3>5, <3>6
  <2> QED BY <2>1, <2>2 DEF Crash
<1>4. MemoryOK' /\ Object' = {Null} /\ LocksOK'
  BY <1>1 DEF MemoryOK, Object, Null, LocksOK
<1>5. RestOK'
  <2>1. crashes' \in 0 .. MaxCrashes
    BY <1>1, CatalogAssumption DEF TypeInv, RestOK, CatalogAssumption
  <2> QED BY <1>1, <1>3, <2>1 DEF TypeInv, RestOK
<1>6. ASSUME NEW w \in Worker
      PROVE th'[w] \in Thread' /\ th'[w].done <= MaxStatements[w] /\ Proper(w, th'[w]) /\ th'[w].pc = "idle"
  <2> DEFINE more == IF th[w].pc = "idle" THEN 0 ELSE 1
  <2>1. th'[w] = [pc |-> "idle", s |-> Nothing, db |-> 0, tb |-> 0, at |-> 1, seen |-> <<>>,
                  list |-> NoTables, done |-> th[w].done + more]
    BY <1>1 DEF Idle, Null
  <2>2. th[w].done \in Nat /\ th[w].done <= MaxStatements[w]
        /\ (th[w].pc # "idle" => th[w].done + 1 <= MaxStatements[w])
    BY Running DEF TypeInv, ThreadsOK, Thread
  <2>3. th[w].done + more \in Nat /\ th[w].done + more <= MaxStatements[w]
    BY <2>2
  <2> HIDE DEF more
  <2>4. NoTables \in [Table -> Object'] /\ 0 \in Object' /\ 1 \in 1 .. NCols + 1 /\ 1 \in Col
    BY <1>4, CatalogAssumption DEF CatalogAssumption, NoTables, Null, Col
  <2>5. "idle" \in Labels /\ <<>> \in Seq(Nat)
    BY DEF Labels
  <2>6. th'[w] \in Thread'
    BY <2>1, <2>3, <2>4, <2>5 DEF Thread
  <2> QED BY <2>1, <2>3, <2>4, <2>6 DEF Proper, BeforeDb, WithTable, Null
<1>7. ThreadsOK'
  BY <1>1, <1>6 DEF ThreadsOK, Proper
<1>8. Down'
  BY <1>1, <1>6 DEF Down
<1> QED BY <1>3, <1>4, <1>5, <1>7, <1>8 DEF TypeInv

LEMMA InitType == ASSUME Init PROVE TypeInv
<1>1. /\ dirs \subseteq Db /\ folders \subseteq dirs \X Table
      /\ dbs = [d \in Db |-> Null] /\ heap = <<>> /\ live = {} /\ mutex = NoOne
      /\ excl = {} /\ shar = {} /\ th = [w \in Worker |-> Idle] /\ up = FALSE
      /\ crashes = 0 /\ ub = FALSE
  BY DEF Init
<1> DEFINE paths == {<<f[1], f[2], n>> : f \in folders, n \in Col \cup {Info}}
<1>3. PICK full \in SUBSET folders : files = Left(full) /\ acked = LeftRows(full)
  BY DEF Init
<1>a. /\ DOMAIN files = paths
      /\ \A p \in DOMAIN files : files[p] \in IF p[3] = Info THEN {Layout} ELSE {<<OldRow>>, <<>>}
  BY <1>3 DEF Left
<1>b. acked \subseteq Db \X Table \X {OldRow}
  BY <1>1, <1>3 DEF LeftRows
<1> HIDE DEF paths
<1>c. DiskOK
  <2>1. DOMAIN files \subseteq Path
    <3>1. \A f \in folders, n \in Col \cup {Info} : <<f[1], f[2], n>> \in Path
      BY <1>1 DEF Path
    <3> QED BY <1>a, <3>1 DEF paths
  <2>2. <<OldRow>> \in Seq(Rows) /\ <<>> \in Seq(Rows)
    BY DEF Rows
  <2>3. \A p \in DOMAIN files :
         IF p[3] = Info THEN files[p] \in {<<>>, Layout} ELSE files[p] \in Seq(Rows)
    BY <1>a, <2>2
  <2>4. folders \subseteq Db \X Table
    BY <1>1
  <2> QED BY <1>1, <2>1, <2>3, <2>4 DEF DiskOK
<1>4. MemoryOK /\ LocksOK /\ Object = {Null}
  BY <1>1 DEF MemoryOK, LocksOK, Object, Null
<1>5. RestOK
  <2>1. acked \subseteq Db \X Table \X Rows
    BY <1>b DEF Rows
  <2>2. crashes \in 0 .. MaxCrashes
    BY <1>1, CatalogAssumption DEF CatalogAssumption
  <2> QED BY <1>1, <2>1, <2>2 DEF RestOK
<1>6. ThreadsOK
  <2>1. Idle = [pc |-> "idle", s |-> Nothing, db |-> 0, tb |-> 0, at |-> 1, seen |-> <<>>,
                list |-> NoTables, done |-> 0]
    BY DEF Idle, Null
  <2>2. NoTables \in [Table -> Object] /\ 0 \in Object /\ 1 \in 1 .. NCols + 1 /\ 1 \in Col
    BY <1>4, CatalogAssumption DEF CatalogAssumption, NoTables, Null, Col
  <2>3. "idle" \in Labels /\ <<>> \in Seq(Nat)
    BY DEF Labels
  <2>4. Idle \in Thread
    BY <2>1, <2>2, <2>3 DEF Thread
  <2>5. \A w \in Worker : Idle.done <= MaxStatements[w] /\ Proper(w, Idle)
    BY <2>1, <2>2, CatalogAssumption DEF CatalogAssumption, Proper, BeforeDb, WithTable, Null
  <2> QED BY <1>1, <2>4, <2>5 DEF ThreadsOK
<1>7. Down
  BY <1>1 DEF Down, Idle
<1> QED BY <1>c, <1>4, <1>5, <1>6, <1>7 DEF TypeInv

\* A thread takes a step only when it is running a statement.
LEMMA StepAwake == ASSUME NEW w \in Worker, Step(w) PROVE th[w].pc # "idle" /\ up /\ up'
<1>1. CASE Looks(w) \/ Takes(w)
  <2>1. th[w].pc # "idle" /\ up /\ UNCHANGED process
    BY <1>1 DEF Looks, Takes, At, CheckDatabase, Names, LockDatabase, LockTables, CheckDir, CheckFolder,
           ShareDatabase, ShareTable, CheckValues, LockTable, Show,
           LockDatabases, GetTable, GetDatabase, FindTable, FindSlot, ReadColumn
  <2> QED BY <2>1 DEF process
<1>2. CASE Works(w) \/ Changes(w)
  <2>1. th[w].pc # "idle" /\ up /\ UNCHANGED process
    BY <1>2 DEF Works, Changes, At, MakeDatabase, MakeFolder, WriteInfo, MakeColumn, AppendColumn,
         RemoveDatabase, RemoveTable, AddDatabase, EraseDatabase, EraseTable, LinkTable
  <2> QED BY <2>1 DEF process
<1> QED BY <1>1, <1>2 DEF Step, Looks, Takes, Works, Changes

LEMMA NextType == ASSUME TypeInv, [Next]_vars PROVE TypeInv'
<1>1. CASE UNCHANGED vars
  BY <1>1 DEF vars, disk, memory, locks, process, history, TypeInv, DiskOK, MemoryOK, LocksOK,
     RestOK, ThreadsOK, Down, Object, Thread, Proper
<1>2. ASSUME NEW w \in Worker, Step(w) PROVE TypeInv'
  BY <1>2, LooksType, TakesType, WorksType, ChangesType DEF Step, Looks, Takes, Works, Changes
<1> QED BY <1>1, <1>2, ReceiveType, CrashType, LoadType DEF Next

\* The folders left over are there, and what is contested are tables.
LEMMA TracesNext == ASSUME TypeInv, TracesOK, [Next]_vars PROVE TracesOK'
<1>0. folders \subseteq Db \X Table
  BY DEF TypeInv, DiskOK
<1>1. CASE UNCHANGED traces /\ folders \subseteq folders'
  BY <1>1 DEF TracesOK, traces
<1>2. CASE UNCHANGED vars
  BY <1>1, <1>2 DEF vars, disk
<1>3. ASSUME NEW w \in Worker, Receive(w) PROVE TracesOK'
  BY <1>1, <1>3 DEF Receive, disk
<1>4. CASE Crash
  BY <1>4 DEF Crash, TracesOK
<1>5. CASE Load
  BY <1>1, <1>5 DEF Load, disk
<1>6. ASSUME NEW w \in Worker, Step(w) PROVE TracesOK'
  <2>0. th[w].pc # "idle"
    BY <1>6, StepAwake
  <2>1. D(w) \in Db /\ T(w) \in Table
    BY <2>0, Running
  <2>2. CASE Looks(w) \/ Takes(w) \/ Changes(w)
    <3>1. UNCHANGED disk
      BY <2>2 DEF Looks, Takes, Changes, CheckDatabase, Names, LockDatabase, LockTables, CheckDir,
           CheckFolder, ShareDatabase, ShareTable, CheckValues, LockTable, Show, LockDatabases,
           GetTable, GetDatabase, FindTable, FindSlot, ReadColumn, AddDatabase, EraseDatabase,
           EraseTable, LinkTable
    <3> QED BY <1>1, <3>1 DEF disk
  <2>3. CASE MakeDatabase(w) \/ MakeFolder(w) \/ WriteInfo(w) \/ AppendColumn(w)
    BY <1>1, <2>3 DEF MakeDatabase, MakeFolder, WriteInfo, AppendColumn
  <2>4. CASE MakeColumn(w)
    <3>1. InUse(w) \subseteq Db \X Table
      BY <2>1 DEF InUse
    <3>2. folders' = folders /\ left' \subseteq left \cup folders
      BY <2>4 DEF MakeColumn
    <3>3. contested' \subseteq contested \cup InUse(w)
      BY <2>4 DEF MakeColumn
    <3> QED BY <3>1, <3>2, <3>3 DEF TracesOK
  <2>5. CASE RemoveDatabase(w)
    <3>1. left' \subseteq left \ FoldersOf(D(w)) /\ folders \ FoldersOf(D(w)) \subseteq folders'
      BY <2>5 DEF RemoveDatabase
    <3>2. contested' \subseteq contested \cup folders
      BY <2>5 DEF RemoveDatabase, BeingFilled
    <3> QED BY <1>0, <3>1, <3>2 DEF TracesOK
  <2>6. CASE RemoveTable(w)
    <3>1. left' \subseteq left \ {F(w)} /\ folders \ {F(w)} \subseteq folders'
      BY <2>6 DEF RemoveTable, F
    <3>2. contested' \subseteq contested \cup folders
      BY <2>6 DEF RemoveTable, BeingFilled
    <3> QED BY <1>0, <3>1, <3>2 DEF TracesOK
  <2> QED BY <1>6, <2>2, <2>3, <2>4, <2>5, <2>6 DEF Step, Looks, Takes, Works, Changes
<1> QED BY <1>2, <1>3, <1>4, <1>5, <1>6 DEF Next

\* What TypeInv says of the lists, the locks, the disk and the threads stays so,
\* whatever the connections send and whenever the process dies.
THEOREM InvariantType == Spec => []TypeInv
<1>1. Init => TypeInv
  BY InitType
<1>2. TypeInv /\ [Next]_vars => TypeInv'
  BY NextType
<1> QED BY <1>1, <1>2, PTL DEF Spec

LEMMA InvariantTraces == Spec => []TracesOK
<1>1. Init => TracesOK
  BY DEF Init, TracesOK
<1>2. TypeInv /\ TracesOK /\ [Next]_vars => TracesOK'
  BY TracesNext
<1> QED BY <1>1, <1>2, InvariantType, PTL DEF Spec

\* Whatever the connections send and whenever the process dies, the variables
\* keep their types: a pointer of a statement is that of an object there was.
THEOREM TypeCorrect == Spec => []TypeOK
BY InvariantType, InvariantTraces, TypeInvImplies, PTL

-----------------------------------------------------------------------------
(* The safety properties of Catalog, for connections of which at most one     *)
(* creates tables and deletes databases and tables (OneRewriter).            *)

\* A step in which the files of folder f stay as they are.
Same(f) ==
    \A n \in Col \cup {Info} :
      /\ Place(f, n) \in DOMAIN files' <=> Place(f, n) \in DOMAIN files
      /\ Place(f, n) \in DOMAIN files => files'[Place(f, n)] = files[Place(f, n)]

\* Each step is that of the action for the label its thread is at.
LEMMA StepAt ==
  ASSUME NEW w \in Worker, Step(w)
  PROVE  /\ th[w].pc = "add_db" => AddDatabase(w)
         /\ th[w].pc = "delete" => LockDatabases(w)
         /\ th[w].pc = "lock_db" => LockDatabase(w)
         /\ th[w].pc = "lock_tables" => LockTables(w)
         /\ th[w].pc = "remove_db" => RemoveDatabase(w)
         /\ th[w].pc = "erase_db" => EraseDatabase(w)
         /\ th[w].pc = "get_table" => GetTable(w)
         /\ th[w].pc = "lock_table" => LockTable(w)
         /\ th[w].pc = "remove_table" => RemoveTable(w)
         /\ th[w].pc = "erase_table" => EraseTable(w)
         /\ th[w].pc = "get_db" => GetDatabase(w)
         /\ th[w].pc = "check_folder" => CheckFolder(w)
         /\ th[w].pc = "make_folder" => MakeFolder(w)
         /\ th[w].pc = "write_info" => WriteInfo(w)
         /\ th[w].pc = "make_column" => MakeColumn(w)
         /\ th[w].pc = "find_slot" => FindSlot(w)
         /\ th[w].pc = "link_table" => LinkTable(w)
         /\ th[w].pc = "share_db" => ShareDatabase(w)
         /\ th[w].pc = "find_table" => FindTable(w)
         /\ th[w].pc = "share_table" => ShareTable(w)
         /\ th[w].pc = "check_values" => CheckValues(w)
         /\ th[w].pc = "append" => AppendColumn(w)
         /\ th[w].pc = "read" => ReadColumn(w)
BY DEF Step, At, CheckDatabase, MakeDatabase, AddDatabase, Names, LockDatabases, LockDatabase,
   LockTables, RemoveDatabase, EraseDatabase, GetTable, LockTable, RemoveTable, EraseTable,
   GetDatabase, CheckDir, CheckFolder, MakeFolder, WriteInfo, MakeColumn, FindSlot, LinkTable,
   ShareDatabase, FindTable, ShareTable, CheckValues, AppendColumn, ReadColumn, Show

\* What a step of w leaves alone.
LEMMA Frame ==
  ASSUME TypeInv, NEW w \in Worker, Step(w)
  PROVE  /\ th[w].pc # "idle" /\ up /\ up' /\ crashes' = crashes
         /\ th[w].pc \notin {"add_db", "erase_db", "erase_table", "link_table"} => UNCHANGED memory
         /\ th[w].pc \notin {"make_folder", "remove_db", "remove_table"} => folders' = folders
         /\ th[w].pc \notin {"make_db", "make_folder", "remove_db"} => dirs' = dirs
         /\ th[w].pc \notin {"make_column", "remove_db", "remove_table"} => left' = left
         /\ th[w].pc \notin {"write_info", "make_column", "append", "remove_db", "remove_table"} =>
              files' = files /\ acked' = acked
<1>1. CASE Looks(w) \/ Takes(w)
  <2>1. th[w].pc # "idle" /\ up /\ UNCHANGED <<disk, memory, process>> /\ acked' = acked
    BY <1>1 DEF Looks, Takes, At, CheckDatabase, Names, LockDatabase, LockTables, CheckDir, CheckFolder,
           ShareDatabase, ShareTable, CheckValues, LockTable, Show, history,
           LockDatabases, GetTable, GetDatabase, FindTable, FindSlot, ReadColumn
  <2> QED BY <2>1 DEF disk, traces, process
<1>2. CASE Works(w)
  <2>1. th[w].pc # "idle" /\ up /\ UNCHANGED <<memory, process>>
    BY <1>2 DEF Works, At, MakeDatabase, MakeFolder, WriteInfo, MakeColumn, AppendColumn,
         RemoveDatabase, RemoveTable
  <2>2. /\ th[w].pc \notin {"make_folder", "remove_db", "remove_table"} => folders' = folders
        /\ th[w].pc \notin {"make_db", "make_folder", "remove_db"} => dirs' = dirs
        /\ th[w].pc \notin {"make_column", "remove_db", "remove_table"} => left' = left
        /\ th[w].pc \notin {"write_info", "make_column", "append", "remove_db", "remove_table"} =>
              files' = files /\ acked' = acked
    BY <1>2 DEF Works, At, MakeDatabase, MakeFolder, WriteInfo, MakeColumn, AppendColumn,
         RemoveDatabase, RemoveTable, history, traces
  <2> QED BY <2>1, <2>2 DEF process
<1>3. CASE Changes(w)
  <2>1. th[w].pc \in {"add_db", "erase_db", "erase_table", "link_table"} /\ up
        /\ UNCHANGED <<disk, process>> /\ acked' = acked
    BY <1>3 DEF Changes, At, AddDatabase, EraseDatabase, EraseTable, LinkTable, history
  <2> QED BY <2>1 DEF disk, traces, process
<1> QED BY <1>1, <1>2, <1>3 DEF Step, Looks, Takes, Works, Changes

LEMMA TurnFrame ==
  ASSUME NEW w \in Worker,
         \/ End(w) \/ UNCHANGED locks
         \/ \E o : LockUnique(w, o) \/ LockShared(w, o)
         \/ mutex' = w /\ UNCHANGED <<excl, shar>>
         \/ excl' = excl \ {<<th[w].tb, w>>} /\ UNCHANGED shar
         \/ excl' = {p \in excl : p[2] # w} /\ UNCHANGED shar
  PROVE  /\ \A o : \A v \in Worker \ {w} : /\ <<o, v>> \in excl' <=> <<o, v>> \in excl
                                           /\ <<o, v>> \in shar' <=> <<o, v>> \in shar
         /\ \/ excl' \subseteq excl /\ shar' \subseteq shar
            \/ \E o : LockUnique(w, o) \/ LockShared(w, o)
BY DEF End, locks, LockUnique, LockShared

\* The locks of the others, and what is undefined, stay.
LEMMA LockFrame ==
  ASSUME TypeInv, NEW w \in Worker, Step(w)
  PROVE  /\ \A o : \A v \in Worker \ {w} : /\ <<o, v>> \in excl' <=> <<o, v>> \in excl
                                           /\ <<o, v>> \in shar' <=> <<o, v>> \in shar
         /\ \/ excl' \subseteq excl /\ shar' \subseteq shar
            \/ \E o : LockUnique(w, o) \/ LockShared(w, o)
         /\ ub => ub'
<1> DEFINE Turn == \/ End(w) \/ UNCHANGED locks
                   \/ \E o : LockUnique(w, o) \/ LockShared(w, o)
                   \/ mutex' = w /\ UNCHANGED <<excl, shar>>
                   \/ excl' = excl \ {<<th[w].tb, w>>} /\ UNCHANGED shar
                   \/ excl' = {p \in excl : p[2] # w} /\ UNCHANGED shar
<1>1. CASE Looks(w)
  <2>1. Turn
    BY <1>1 DEF Looks, CheckDatabase, Names, LockDatabase, LockTables, CheckDir, CheckFolder,
         ShareDatabase, ShareTable, CheckValues, LockTable, TableLock, Show
  <2>2. ub => ub'
    BY <1>1 DEF Looks, CheckDatabase, Names, LockDatabase, LockTables, CheckDir, CheckFolder,
         ShareDatabase, ShareTable, CheckValues, LockTable, TableLock, Show, history,
         LockUnique, LockShared, Use
  <2> QED BY <2>1, <2>2, TurnFrame
<1>2. CASE Takes(w)
  <2>1. Turn
    BY <1>2 DEF Takes, LockDatabases, GetTable, GetDatabase, FindTable, FindSlot, ReadColumn
  <2>2. ub => ub'
    BY <1>2 DEF Takes, LockDatabases, GetTable, GetDatabase, FindTable, FindSlot, ReadColumn, history, Use
  <2> QED BY <2>1, <2>2, TurnFrame
<1>3. CASE Works(w)
  <2>1. Turn
    BY <1>3 DEF Works, MakeDatabase, MakeFolder, WriteInfo, MakeColumn, AppendColumn,
         RemoveDatabase, RemoveTable
  <2>2. ub => ub'
    BY <1>3 DEF Works, MakeDatabase, MakeFolder, WriteInfo, MakeColumn, AppendColumn,
         RemoveDatabase, RemoveTable, history, Use
  <2> QED BY <2>1, <2>2, TurnFrame
<1>4. CASE Changes(w)
  <2>1. Turn
    BY <1>4 DEF Changes, AddDatabase, EraseDatabase, EraseTable, LinkTable
  <2>2. ub => ub'
    BY <1>4 DEF Changes, AddDatabase, EraseDatabase, EraseTable, LinkTable, history, Destroy
  <2> QED BY <2>1, <2>2, TurnFrame
<1> QED BY <1>1, <1>2, <1>3, <1>4 DEF Step, Looks, Takes, Works, Changes

\* The steps a step of interest comes from.
Reached(from, to) ==
    /\ to = "append" => from \in {"lock_table", "append"}
    /\ to = "read" => from = "lock_table"
    /\ to = "remove_table" => from = "lock_table"
    /\ to = "lock_tables" => from \in {"lock_db", "lock_tables"}
    /\ to = "remove_db" => from = "lock_tables"
    /\ to = "get_table" => from = "lock_db"
    /\ to = "erase_table" => from = "remove_table"
    /\ to = "erase_db" => from = "remove_db"
    /\ to = "find_table" => from \in {"get_db", "share_db"}
    /\ to = "share_table" => from = "find_table"
    /\ to = "show" => from \in {"share_db", "share_table", "read"}
    /\ to = "lock_table" => from \in {"get_table", "find_table", "check_values", "read"}
    /\ to = "add_db" => from = "make_db"
    /\ to = "make_folder" => from = "check_folder"
    /\ to = "write_info" => from = "make_folder"
    /\ to = "make_column" => from \in {"write_info", "make_column"}
    /\ to = "find_slot" => from = "make_column"
    /\ to = "link_table" => from = "find_slot"

\* A statement goes from step to step with its pointers, or it ends.
LEMMA Moves ==
  ASSUME TypeInv, NEW w \in Worker, Step(w), th'[w].pc # "idle"
  PROVE  /\ th'[w].s = th[w].s /\ th'[w].done = th[w].done
         /\ th[w].pc \notin {"delete", "get_db"} => th'[w].db = th[w].db
         /\ th[w].pc \notin {"get_table", "find_table"} => th'[w].tb = th[w].tb
         /\ th[w].pc # "read" => th'[w].seen = th[w].seen
         /\ th[w].pc \notin {"make_column", "append", "read"} => th'[w].at = th[w].at
         /\ Reached(th[w].pc, th'[w].pc)
<1>0. th \in [Worker -> Thread]
  BY DEF TypeInv, ThreadsOK
<1>1. ~End(w)
  BY EndThread, Frame
<1> USE <1>0, <1>1 DEF At, Goto, Thread, Reached
<1>2. CASE Looks(w)
  <2>1. CASE CheckDatabase(w) \/ Names(w) \/ CheckDir(w) \/ CheckFolder(w)
    BY <2>1 DEF CheckDatabase, Names, CheckDir, CheckFolder
  <2>2. CASE LockDatabase(w)
    BY <2>2 DEF LockDatabase
  <2>3. CASE LockTables(w)
    BY <2>3 DEF LockTables
  <2>4. CASE ShareDatabase(w) \/ ShareTable(w)
    BY <2>4 DEF ShareDatabase, ShareTable
  <2>5. CASE CheckValues(w) \/ Show(w)
    BY <2>5 DEF CheckValues, Show
  <2>6. CASE LockTable(w)
    BY <2>6 DEF LockTable
  <2> QED BY <1>2, <2>1, <2>2, <2>3, <2>4, <2>5, <2>6 DEF Looks
<1>3. CASE Takes(w)
  <2>1. CASE LockDatabases(w)
    BY <2>1 DEF LockDatabases
  <2>2. CASE GetTable(w)
    BY <2>2 DEF GetTable
  <2>3. CASE GetDatabase(w)
    BY <2>3 DEF GetDatabase
  <2>4. CASE FindTable(w) \/ FindSlot(w)
    BY <2>4 DEF FindTable, FindSlot
  <2>5. CASE ReadColumn(w)
    BY <2>5 DEF ReadColumn
  <2> QED BY <1>3, <2>1, <2>2, <2>3, <2>4, <2>5 DEF Takes
<1>4. CASE Works(w)
  <2>1. CASE MakeDatabase(w) \/ MakeFolder(w) \/ WriteInfo(w)
    BY <2>1 DEF MakeDatabase, MakeFolder, WriteInfo
  <2>2. CASE MakeColumn(w)
    BY <2>2 DEF MakeColumn
  <2>4. CASE AppendColumn(w)
    BY <2>4 DEF AppendColumn
  <2>3. CASE RemoveDatabase(w) \/ RemoveTable(w)
    <3>1. \/ th[w].pc = "remove_db" /\ th' = [th EXCEPT ![w].pc = "erase_db"]
          \/ th[w].pc = "remove_table" /\ th' = [th EXCEPT ![w].pc = "erase_table"]
      BY <2>3 DEF RemoveDatabase, RemoveTable
    <3>2. \/ th[w].pc = "remove_db" /\ th'[w] = [th[w] EXCEPT !.pc = "erase_db"]
          \/ th[w].pc = "remove_table" /\ th'[w] = [th[w] EXCEPT !.pc = "erase_table"]
      BY <3>1
    <3> QED BY <3>2
  <2> QED BY <1>4, <2>1, <2>2, <2>3, <2>4 DEF Works
<1>5. CASE Changes(w)
  BY <1>5 DEF Changes, AddDatabase, EraseDatabase, EraseTable, LinkTable
<1> QED BY <1>2, <1>3, <1>4, <1>5 DEF Step, Looks, Takes, Works, Changes

-----------------------------------------------------------------------------
(* The lists. *)

LEMMA TabsType ==
  ASSUME TypeInv
  PROVE  /\ tabs \in [Db \X Table -> Object] /\ dbs \in [Db -> Object]
         /\ live \subseteq 1 .. Len(heap) /\ Len(heap) \in Nat /\ Null \notin live
<1>1. MemoryOK /\ Len(heap) \in Nat /\ DOMAIN heap = 1 .. Len(heap) /\ Object = {Null} \cup DOMAIN heap
  BY Objects0 DEF TypeInv
<1>2. ASSUME NEW f \in Db \X Table
      PROVE  (IF dbs[f[1]] = Null THEN Null ELSE heap[dbs[f[1]]][f[2]]) \in Object
  <2>1. dbs[f[1]] \in Object /\ f[2] \in Table /\ Null \in Object
    BY <1>1 DEF MemoryOK
  <2>2. dbs[f[1]] # Null => heap[dbs[f[1]]] \in [Table -> Object]
    BY <1>1, <2>1 DEF MemoryOK
  <2> QED BY <2>1, <2>2
<1> QED BY <1>1, <1>2 DEF MemoryOK, tabs, Null

\* The pointers of a statement.
LEMMA PointerType ==
  ASSUME TypeInv, NEW w \in Worker
  PROVE  th[w].db \in 0 .. Len(heap) /\ th[w].tb \in 0 .. Len(heap)
BY DEF TypeInv, ThreadsOK, Thread, Object

\* The table a statement looks for is the one listed under its names.
LEMMA TabsAt ==
  ASSUME TypeInv, NEW w \in Worker, th[w].pc \notin BeforeDb, dbs[D(w)] = th[w].db
  PROVE  /\ F(w) \in Db \X Table
         /\ \A t \in Table : tabs[<<D(w), t>>] = heap[th[w].db][t]
         /\ tabs[F(w)] = heap[th[w].db][T(w)]
<1>1. D(w) \in Db /\ T(w) \in Table
  BY Running DEF BeforeDb
<1>2. th[w].db # Null
  BY DEF TypeInv, ThreadsOK, Proper
<1> QED BY <1>1, <1>2 DEF tabs, F

LEMMA SameTabs ==
  ASSUME UNCHANGED memory  PROVE tabs' = tabs /\ dbs' = dbs /\ live' = live
BY DEF memory, tabs

LEMMA AddTabs ==
  ASSUME TypeInv, NEW w \in Worker, AddDatabase(w)
  PROVE  /\ tabs' = tabs
         /\ \/ dbs' = dbs /\ live' = live
            \/ /\ dbs' = [dbs EXCEPT ![D(w)] = Len(heap) + 1]
               /\ live' = live \cup {Len(heap) + 1}
               /\ dbs[D(w)] = Null
<1>1. CASE UNCHANGED memory
  BY <1>1, SameTabs
<1>2. CASE ~UNCHANGED memory
  <2>1. /\ heap' = Append(heap, NoTables) /\ live' = live \cup {Len(heap')}
        /\ dbs' = [dbs EXCEPT ![D(w)] = Len(heap')] /\ dbs[D(w)] = Null
    BY <1>2 DEF AddDatabase
  <2>2. Len(heap') = Len(heap) + 1 /\ \A o \in 1 .. Len(heap) : heap'[o] = heap[o]
    BY <2>1 DEF TypeInv, MemoryOK
  <2>3. heap'[Len(heap) + 1] = NoTables
    BY <2>1 DEF TypeInv, MemoryOK
  <2>4. ASSUME NEW f \in Db \X Table
        PROVE  (IF dbs'[f[1]] = Null THEN Null ELSE heap'[dbs'[f[1]]][f[2]])
                 = (IF dbs[f[1]] = Null THEN Null ELSE heap[dbs[f[1]]][f[2]])
    <3>1. dbs[f[1]] \in 0 .. Len(heap) /\ f[1] \in Db /\ f[2] \in Table /\ Len(heap) \in Nat
      BY TabsType DEF Object
    <3>2. CASE f[1] = D(w)
      <4>1. dbs'[f[1]] = Len(heap) + 1 /\ Len(heap) + 1 # Null
        BY <2>1, <2>2, <3>1, <3>2, TabsType DEF Null
      <4>2. heap'[dbs'[f[1]]][f[2]] = Null
        BY <2>3, <3>1, <4>1 DEF NoTables
      <4> QED BY <2>1, <3>2, <4>1, <4>2
    <3>3. CASE f[1] # D(w)
      <4>1. dbs'[f[1]] = dbs[f[1]]
        BY <2>1, <3>1, <3>3, TabsType
      <4> QED BY <2>2, <3>1, <4>1 DEF Null
    <3> QED BY <3>2, <3>3
  <2>5. tabs' = tabs
    BY <2>4 DEF tabs
  <2> QED BY <2>1, <2>2, <2>5
<1> QED BY <1>1, <1>2

\* What Objects says of the numbers in the lists.
LEMMA DbsApart ==
  ASSUME Objects, NEW d \in Db, NEW e \in Db, dbs[d] = dbs[e], dbs[d] # Null  PROVE d = e
BY DEF Objects

LEMMA LinkTabs ==
  ASSUME TypeInv, Objects, NEW w \in Worker, LinkTable(w), ~ub', dbs[D(w)] = th[w].db
  PROVE  /\ F(w) \in Db \X Table
         /\ tabs' = [tabs EXCEPT ![F(w)] = Len(heap) + 1]
         /\ dbs' = dbs /\ live' = live \cup {Len(heap) + 1}
<1> DEFINE new == Len(heap) + 1
           o == th[w].db
           h == [heap EXCEPT ![o] = [th[w].list EXCEPT ![T(w)] = new]]
<1>1. th[w].pc = "link_table" /\ heap' = Append(h, NoTables) /\ live' = live \cup {new} /\ dbs' = dbs
  BY DEF LinkTable, At
<1>2. th[w].list = heap[o]
  BY DEF LinkTable
<1>3. o \in DOMAIN heap /\ heap[o] \in [Table -> Object] /\ T(w) \in Table /\ D(w) \in Db
  BY <1>1, TablesOf DEF BeforeDb
<1>4. /\ Len(h) = Len(heap) /\ h[o] = [heap[o] EXCEPT ![T(w)] = new]
      /\ \A x \in 1 .. Len(heap) : x # o => h[x] = heap[x]
  BY <1>2, <1>3 DEF TypeInv, MemoryOK
<1>5. h \in Seq([Table -> Object \cup {new}])
  <2>1. heap \in Seq([Table -> Object \cup {new}])
    <3>1. [Table -> Object] \subseteq [Table -> Object \cup {new}]
      OBVIOUS
    <3>2. heap \in Seq([Table -> Object])
      BY DEF TypeInv, MemoryOK
    <3> QED BY <3>1, <3>2, SeqWider
  <2>2. [heap[o] EXCEPT ![T(w)] = new] \in [Table -> Object \cup {new}]
    BY <1>3
  <2> QED BY <1>2, <1>3, <2>1, <2>2
<1> HIDE DEF h
<1>6. \A x \in 1 .. Len(heap) : heap'[x] = h[x]
  BY <1>1, <1>4, <1>5
<1>7. ASSUME NEW f \in Db \X Table
      PROVE  (IF dbs'[f[1]] = Null THEN Null ELSE heap'[dbs'[f[1]]][f[2]])
               = IF f = F(w) THEN new ELSE tabs[f]
  <2>1. dbs[f[1]] \in 0 .. Len(heap) /\ f[1] \in Db /\ f[2] \in Table /\ Len(heap) \in Nat
        /\ f = <<f[1], f[2]>>
    BY TabsType DEF Object
  <2>2. o \in 1 .. Len(heap) /\ o # Null
    BY <1>3, Objects0 DEF TypeInv, Null
  <2>3. CASE f[1] = D(w)
    <3>1. dbs'[f[1]] = o /\ heap'[o] = [heap[o] EXCEPT ![T(w)] = new]
      BY <1>1, <1>4, <1>6, <2>2, <2>3
    <3>2. tabs[f] = heap[o][f[2]]
      BY <2>2, <2>3 DEF tabs
    <3>3. heap'[o][f[2]] = IF f[2] = T(w) THEN new ELSE heap[o][f[2]]
      BY <1>3, <2>1, <3>1
    <3>4. f = F(w) <=> f[2] = T(w)
      BY <2>1, <2>3 DEF F
    <3> QED BY <2>2, <3>1, <3>2, <3>3, <3>4
  <2>4. CASE f[1] # D(w)
    <3>1. dbs[f[1]] = Null \/ dbs[f[1]] # o
      BY <1>3, <2>1, <2>4, DbsApart
    <3>2. dbs[f[1]] # Null => heap'[dbs'[f[1]]] = heap[dbs[f[1]]]
      BY <1>1, <1>4, <1>6, <2>1, <3>1 DEF Null
    <3>3. tabs[f] = IF dbs[f[1]] = Null THEN Null ELSE heap[dbs[f[1]]][f[2]]
      BY DEF tabs
    <3>4. f # F(w)
      BY <2>1, <2>4 DEF F
    <3>5. dbs'[f[1]] = dbs[f[1]]
      BY <1>1
    <3> HIDE DEF new
    <3> QED BY <3>2, <3>3, <3>4, <3>5
  <2> QED BY <2>3, <2>4
<1>8. tabs' = [f \in Db \X Table |-> IF f = F(w) THEN new ELSE tabs[f]]
  BY <1>7 DEF tabs
<1>9. F(w) \in Db \X Table
  BY <1>3 DEF F
<1> QED BY <1>1, <1>8, <1>9, TabsType

LEMMA EraseTableTabs ==
  ASSUME TypeInv, Objects, NEW w \in Worker, EraseTable(w), dbs[D(w)] = th[w].db
  PROVE  /\ F(w) \in Db \X Table
         /\ tabs' = [tabs EXCEPT ![F(w)] = Null]
         /\ dbs' = dbs /\ live' = live \ {th[w].tb}
         /\ ~ub' => \A p \in excl \cup shar : p[1] = th[w].tb => p[2] = w
<1> DEFINE o == th[w].db
<1>1. th[w].pc = "erase_table" /\ dbs' = dbs
      /\ heap' = [heap EXCEPT ![o] = [heap[o] EXCEPT ![T(w)] = Null]]
  BY DEF EraseTable, At, Unlisted
<1>2. /\ live' = live \ {th[w].tb}
      /\ ~ub' => \A p \in excl \cup shar : p[1] = th[w].tb => p[2] = w
  BY DEF EraseTable, Destroy
<1>3. o \in DOMAIN heap /\ heap[o] \in [Table -> Object] /\ T(w) \in Table /\ D(w) \in Db
  BY <1>1, TablesOf DEF BeforeDb
<1>4. /\ heap'[o] = [heap[o] EXCEPT ![T(w)] = Null]
      /\ \A x \in 1 .. Len(heap) : x # o => heap'[x] = heap[x]
  BY <1>1, <1>3 DEF TypeInv, MemoryOK
<1>5. ASSUME NEW f \in Db \X Table
      PROVE  (IF dbs'[f[1]] = Null THEN Null ELSE heap'[dbs'[f[1]]][f[2]])
               = IF f = F(w) THEN Null ELSE tabs[f]
  <2>1. dbs[f[1]] \in 0 .. Len(heap) /\ f[1] \in Db /\ f[2] \in Table /\ Len(heap) \in Nat
        /\ f = <<f[1], f[2]>>
    BY TabsType DEF Object
  <2>2. o \in 1 .. Len(heap) /\ o # Null
    BY <1>3, Objects0 DEF TypeInv, Null
  <2>3. CASE f[1] = D(w)
    <3>1. dbs'[f[1]] = o
      BY <1>1, <2>3
    <3>2. tabs[f] = heap[o][f[2]]
      BY <2>2, <2>3 DEF tabs
    <3>3. heap'[o][f[2]] = IF f[2] = T(w) THEN Null ELSE heap[o][f[2]]
      BY <1>3, <1>4, <2>1
    <3>4. f = F(w) <=> f[2] = T(w)
      BY <2>1, <2>3 DEF F
    <3> QED BY <2>2, <3>1, <3>2, <3>3, <3>4
  <2>4. CASE f[1] # D(w)
    <3>1. dbs[f[1]] = Null \/ dbs[f[1]] # o
      BY <1>3, <2>1, <2>4, DbsApart
    <3>2. dbs[f[1]] # Null => heap'[dbs'[f[1]]] = heap[dbs[f[1]]]
      BY <1>1, <1>4, <2>1, <3>1 DEF Null
    <3>3. tabs[f] = IF dbs[f[1]] = Null THEN Null ELSE heap[dbs[f[1]]][f[2]]
      BY DEF tabs
    <3>4. f # F(w)
      BY <2>1, <2>4 DEF F
    <3>5. dbs'[f[1]] = dbs[f[1]]
      BY <1>1
    <3> QED BY <3>2, <3>3, <3>4, <3>5
  <2> QED BY <2>3, <2>4
<1>6. tabs' = [f \in Db \X Table |-> IF f = F(w) THEN Null ELSE tabs[f]]
  BY <1>5 DEF tabs
<1>7. F(w) \in Db \X Table
  BY <1>3 DEF F
<1> QED BY <1>1, <1>2, <1>6, <1>7, TabsType

LEMMA EraseDbTabs ==
  ASSUME TypeInv, Objects, NEW w \in Worker, EraseDatabase(w), dbs[D(w)] = th[w].db
  PROVE  /\ D(w) \in Db
         /\ tabs' = [f \in Db \X Table |-> IF f[1] = D(w) THEN Null ELSE tabs[f]]
         /\ dbs' = [dbs EXCEPT ![D(w)] = Null]
         /\ live' = live \ ({th[w].db} \cup {tabs[<<D(w), t>>] : t \in Table})
         /\ ~ub' => \A p \in excl \cup shar :
                      p[1] \in {th[w].db} \cup {tabs[<<D(w), t>>] : t \in Table} => p[2] = w
<1>1. th[w].pc = "erase_db" /\ dbs' = [dbs EXCEPT ![D(w)] = Null] /\ heap' = heap
  BY DEF EraseDatabase, At
<1>2. /\ live' = live \ ({th[w].db} \cup Range(heap[th[w].db]))
      /\ ~ub' => \A p \in excl \cup shar :
                   p[1] \in {th[w].db} \cup Range(heap[th[w].db]) => p[2] = w
  BY DEF EraseDatabase, Destroy
<1>3. heap[th[w].db] \in [Table -> Object] /\ T(w) \in Table /\ D(w) \in Db
  BY <1>1, TablesOf DEF BeforeDb
<1>4. \A t \in Table : tabs[<<D(w), t>>] = heap[th[w].db][t]
  BY <1>1, TabsAt DEF BeforeDb
<1>5. {tabs[<<D(w), t>>] : t \in Table} = Range(heap[th[w].db])
  BY <1>3, <1>4 DEF Range
<1>6. ASSUME NEW f \in Db \X Table
      PROVE  (IF dbs'[f[1]] = Null THEN Null ELSE heap'[dbs'[f[1]]][f[2]])
               = IF f[1] = D(w) THEN Null ELSE tabs[f]
  <2>1. f[1] \in Db /\ dbs \in [Db -> Object] /\ Null \in Object
    BY TabsType DEF Object, Null
  <2>2. dbs'[f[1]] = IF f[1] = D(w) THEN Null ELSE dbs[f[1]]
    BY <1>1, <2>1
  <2>3. tabs[f] = IF dbs[f[1]] = Null THEN Null ELSE heap[dbs[f[1]]][f[2]]
    BY DEF tabs
  <2> QED BY <1>1, <2>2, <2>3
<1>7. tabs' = [f \in Db \X Table |-> IF f[1] = D(w) THEN Null ELSE tabs[f]]
  BY <1>6 DEF tabs
<1> QED BY <1>1, <1>2, <1>3, <1>5, <1>7

-----------------------------------------------------------------------------
(* The connection that rewrites. *)

LEMMA RewriteOps ==
  ASSUME TypeInv, NEW w \in Worker
  PROVE  /\ th[w].pc \in {"delete", "lock_db", "lock_tables", "remove_db", "erase_db", "get_table",
                          "remove_table", "erase_table", "check_dir", "check_folder"} \cup Creation =>
              Op(w) \in Rewrites
         /\ th[w].pc \in {"append", "check_values"} => Op(w) = "insert"
         /\ th[w].pc \in {"lock_tables", "remove_db", "erase_db"} => Op(w) = "delete_db"
         /\ th[w].pc \in {"get_table", "remove_table", "erase_table"} => Op(w) = "delete_table"
         /\ th[w].pc \in {"check_dir", "check_folder"} \cup Creation => Op(w) = "create_table"
BY DEF TypeInv, ThreadsOK, Proper, OpsAt, Creation, Rewrites, Op

LEMMA OnlyOne ==
  ASSUME TypeInv, OneRewriter, NEW v \in Worker, NEW w \in Worker,
         th[v].pc # "idle", th[w].pc # "idle", Op(v) \in Rewrites, Op(w) \in Rewrites
  PROVE  v = w
<1>1. \A x \in {v, w} : th[x].s \in Script[x]
  BY DEF TypeInv, ThreadsOK, Proper
<1> QED BY <1>1 DEF OneRewriter, Rewriter, Op

\* A pointer of the connection that rewrites does not dangle.
LEMMA RewriterPointers ==
  ASSUME TypeInv, Pointers, NEW w \in Worker, th[w].pc \notin BeforeDb, Op(w) \in Rewrites
  PROVE  /\ dbs[D(w)] = th[w].db /\ th[w].db # Null
         /\ D(w) \in Db /\ T(w) \in Table /\ F(w) \in Db \X Table
         /\ th[w].pc \in WithTable => tabs[F(w)] = th[w].tb /\ th[w].tb # Null
<1>1. th[w].db # Null /\ (th[w].pc \in WithTable => th[w].tb # Null)
  BY DEF TypeInv, ThreadsOK, Proper
<1>2. D(w) \in Db /\ T(w) \in Table
  BY Running DEF BeforeDb
<1> QED BY <1>1, <1>2 DEF Pointers, DbPointer, TablePointer, F

Added(w) ==
    /\ D(w) \in Db /\ dbs[D(w)] = Null /\ tabs' = tabs
    /\ dbs' = [dbs EXCEPT ![D(w)] = Len(heap) + 1]
    /\ live' = live \cup {Len(heap) + 1}
Linked(w) ==
    /\ F(w) \in Db \X Table /\ tabs[F(w)] = Null /\ dbs' = dbs
    /\ tabs' = [tabs EXCEPT ![F(w)] = Len(heap) + 1]
    /\ live' = live \cup {Len(heap) + 1}
TableErased(w) ==
    /\ F(w) \in Db \X Table /\ dbs' = dbs
    /\ tabs' = [tabs EXCEPT ![F(w)] = Null]
    /\ live' = live \ {tabs[F(w)]}
    /\ \A p \in excl \cup shar : p[1] = tabs[F(w)] => p[2] = w
DatabaseErased(w) ==
    /\ D(w) \in Db /\ dbs' = [dbs EXCEPT ![D(w)] = Null]
    /\ tabs' = [f \in Db \X Table |-> IF f[1] = D(w) THEN Null ELSE tabs[f]]
    /\ live' = live \ ({dbs[D(w)]} \cup {tabs[<<D(w), t>>] : t \in Table})
    /\ \A p \in excl \cup shar :
         p[1] \in {dbs[D(w)]} \cup {tabs[<<D(w), t>>] : t \in Table} => p[2] = w

\* What a step does to the lists.
LEMMA ListStep ==
  ASSUME TypeInv, Objects, Pointers, NEW w \in Worker, Created(w), Step(w), ~ub'
  PROVE  \/ /\ th[w].pc \notin {"erase_db", "erase_table", "link_table"}
            /\ tabs' = tabs /\ dbs' = dbs /\ live' = live
         \/ th[w].pc = "add_db" /\ Added(w)
         \/ th[w].pc = "link_table" /\ Linked(w)
         \/ th[w].pc = "erase_table" /\ TableErased(w)
         \/ th[w].pc = "erase_db" /\ DatabaseErased(w)
<1>1. CASE th[w].pc \notin {"add_db", "erase_db", "erase_table", "link_table"}
  BY <1>1, Frame, SameTabs
<1>2. CASE th[w].pc = "add_db"
  <2>1. D(w) \in Db
    BY <1>2, Running
  <2> QED BY <1>2, <2>1, StepAt, AddTabs DEF Added
<1>3. CASE th[w].pc = "link_table"
  <2>1. dbs[D(w)] = th[w].db
    BY <1>3, RewriteOps, RewriterPointers DEF BeforeDb, Creation
  <2>2. tabs[F(w)] = Null
    BY <1>3 DEF Created, Creation
  <2> QED BY <1>3, <2>1, <2>2, StepAt, LinkTabs DEF Linked
<1>4. CASE th[w].pc = "erase_table"
  <2>1. dbs[D(w)] = th[w].db /\ tabs[F(w)] = th[w].tb
    BY <1>4, RewriteOps, RewriterPointers DEF BeforeDb, WithTable
  <2> QED BY <1>4, <2>1, StepAt, EraseTableTabs DEF TableErased
<1>5. CASE th[w].pc = "erase_db"
  <2>1. dbs[D(w)] = th[w].db
    BY <1>5, RewriteOps, RewriterPointers DEF BeforeDb
  <2> QED BY <1>5, <2>1, StepAt, EraseDbTabs DEF DatabaseErased
<1> QED BY <1>1, <1>2, <1>3, <1>4, <1>5

LEMMA ObjectsStep ==
  ASSUME TypeInv, Objects, Pointers, NEW w \in Worker, Created(w), Step(w), ~ub'
  PROVE  Objects'
<1> DEFINE new == Len(heap) + 1
<1>0. /\ tabs \in [Db \X Table -> Object] /\ dbs \in [Db -> Object]
      /\ new \notin live /\ new # Null /\ Null \notin live
  BY TabsType DEF Null
<1>1. /\ \A d \in Db : dbs[d] \in live \cup {Null}
      /\ \A f \in Db \X Table : tabs[f] \in live \cup {Null}
  BY DEF Objects
<1>2. \A d, e \in Db : dbs[d] = dbs[e] /\ dbs[d] # Null => d = e
  BY DEF Objects
<1>3. \A d \in Db, f \in Db \X Table : dbs[d] = tabs[f] => dbs[d] = Null
  BY DEF Objects
<1>4. \A f, g \in Db \X Table : tabs[f] = tabs[g] /\ tabs[f] # Null => f = g
  BY DEF Objects
<1> HIDE DEF new
<1>5. CASE tabs' = tabs /\ dbs' = dbs /\ live' = live
  BY <1>5 DEF Objects
<1>6. CASE Added(w)
  <2>1. \A d \in Db : dbs'[d] = IF d = D(w) THEN new ELSE dbs[d]
    BY <1>0, <1>6 DEF Added, new
  <2>2. tabs' = tabs /\ live' = live \cup {new}
    BY <1>6 DEF Added, new
  <2> QED BY <1>0, <1>1, <1>2, <1>3, <1>4, <2>1, <2>2 DEF Objects
<1>7. CASE Linked(w)
  <2>1. \A f \in Db \X Table : tabs'[f] = IF f = F(w) THEN new ELSE tabs[f]
    BY <1>0, <1>7 DEF Linked, new
  <2>2. dbs' = dbs /\ live' = live \cup {new}
    BY <1>7 DEF Linked, new
  <2> QED BY <1>0, <1>1, <1>2, <1>3, <1>4, <2>1, <2>2 DEF Objects
<1>8. CASE TableErased(w)
  <2>1. \A f \in Db \X Table : tabs'[f] = IF f = F(w) THEN Null ELSE tabs[f]
    BY <1>0, <1>8 DEF TableErased
  <2>2. dbs' = dbs /\ live' = live \ {tabs[F(w)]} /\ F(w) \in Db \X Table
    BY <1>8 DEF TableErased
  <2> QED BY <1>0, <1>1, <1>2, <1>3, <1>4, <2>1, <2>2 DEF Objects
<1>9. CASE DatabaseErased(w)
  <2>1. /\ \A d \in Db : dbs'[d] = IF d = D(w) THEN Null ELSE dbs[d]
        /\ \A f \in Db \X Table : tabs'[f] = IF f[1] = D(w) THEN Null ELSE tabs[f]
    BY <1>0, <1>9 DEF DatabaseErased
  <2>2. live' = live \ ({dbs[D(w)]} \cup {tabs[<<D(w), t>>] : t \in Table}) /\ D(w) \in Db
    BY <1>9 DEF DatabaseErased
  <2>3. \A f \in Db \X Table, t \in Table : f[1] # D(w) => f # <<D(w), t>>
    OBVIOUS
  <2>4. \A f \in Db \X Table : f[1] # D(w) => tabs[f] \in live' \cup {Null}
    BY <1>1, <1>3, <1>4, <2>2, <2>3
  <2>5. \A d \in Db : d # D(w) => dbs[d] \in live' \cup {Null}
    <3> SUFFICES ASSUME NEW d \in Db, d # D(w), dbs[d] # Null  PROVE dbs[d] \in live'
      BY <2>2
    <3>1. dbs[d] \in live /\ dbs[d] # dbs[D(w)]
      BY <1>1, <1>2, <2>2
    <3>2. \A t \in Table : dbs[d] # tabs[<<D(w), t>>]
      BY <1>3, <2>2
    <3> QED BY <2>2, <3>1, <3>2
  <2> QED BY <1>2, <1>3, <1>4, <2>1, <2>4, <2>5 DEF Objects
<1> QED BY <1>5, <1>6, <1>7, <1>8, <1>9, ListStep

LEMMA LocksStep ==
  ASSUME TypeInv, Objects, Pointers, Locks, NEW w \in Worker, Created(w), Step(w), ~ub'
  PROVE  Locks'
<1>1. /\ \A p \in excl \cup shar : p[1] \in live
      /\ \A p \in excl, q \in excl \cup shar : p[1] = q[1] => p[2] = q[2]
  BY DEF Locks
<1>2. CASE th[w].pc \in {"erase_table", "erase_db"}
  <2>1. End(w)
    BY <1>2, StepAt DEF EraseTable, EraseDatabase
  <2>2. excl' = {p \in excl : p[2] # w} /\ shar' = {p \in shar : p[2] # w}
    BY <2>1 DEF End
  <2>3. \A p \in excl' \cup shar' : p[1] \in live'
    <3>1. TableErased(w) \/ DatabaseErased(w)
      BY <1>2, ListStep
    <3>2. \E gone : live' = live \ gone /\ \A p \in excl \cup shar : p[1] \in gone => p[2] = w
      <4>1. CASE TableErased(w)
        <5>1. /\ live' = live \ {tabs[F(w)]}
              /\ \A p \in excl \cup shar : p[1] \in {tabs[F(w)]} => p[2] = w
          BY <4>1 DEF TableErased
        <5> QED BY <5>1
      <4>2. CASE DatabaseErased(w)
        BY <4>2 DEF DatabaseErased
      <4> QED BY <3>1, <4>1, <4>2
    <3> QED BY <1>1, <2>2, <3>2
  <2> QED BY <1>1, <2>2, <2>3 DEF Locks
<1>3. CASE th[w].pc \notin {"erase_table", "erase_db"}
  <2>1. live \subseteq live'
    BY <1>3, ListStep DEF Added, Linked
  <2>2. CASE excl' \subseteq excl /\ shar' \subseteq shar
    BY <1>1, <2>1, <2>2 DEF Locks
  <2>3. ASSUME NEW o, LockUnique(w, o)  PROVE Locks'
    <3>1. /\ \A p \in excl \cup shar : p[1] # o
          /\ excl' = excl \cup {<<o, w>>} /\ shar' = shar /\ o \in live
      BY <2>3 DEF LockUnique, Use
    <3> QED BY <1>1, <2>1, <3>1 DEF Locks
  <2>4. ASSUME NEW o, LockShared(w, o)  PROVE Locks'
    <3>1. /\ \A p \in excl : p[1] # o
          /\ shar' = shar \cup {<<o, w>>} /\ excl' = excl /\ o \in live
      BY <2>4 DEF LockShared, Use
    <3> QED BY <1>1, <2>1, <3>1 DEF Locks
  <2> QED BY <2>2, <2>3, <2>4, LockFrame
<1> QED BY <1>2, <1>3

-----------------------------------------------------------------------------
(* Pointers and locks. *)

\* What a statement that goes on does to the locks.
LEMMA LocksKept ==
  ASSUME TypeInv, NEW w \in Worker, Step(w), th'[w].pc # "idle"
  PROVE  /\ shar \subseteq shar'
         /\ th[w].pc \notin {"share_db", "share_table"} => shar' = shar
         /\ th[w].pc \notin {"lock_db", "lock_tables", "lock_table"} => excl' \subseteq excl
         /\ th[w].pc \notin {"remove_db", "remove_table", "read"} => excl \subseteq excl'
         /\ th[w].pc \in {"remove_table", "read"} => excl' = excl \ {<<th[w].tb, w>>}
<1>1. ~End(w)
  BY EndThread, Frame
<1> USE <1>1 DEF At, locks
<1>2. CASE Looks(w)
  <2>1. CASE CheckDatabase(w) \/ Names(w) \/ CheckDir(w) \/ CheckFolder(w)
    BY <2>1 DEF CheckDatabase, Names, CheckDir, CheckFolder
  <2>2. CASE LockDatabase(w) \/ LockTables(w)
    BY <2>2 DEF LockDatabase, LockTables, LockUnique
  <2>3. CASE ShareDatabase(w) \/ ShareTable(w) \/ CheckValues(w) \/ Show(w)
    BY <2>3 DEF ShareDatabase, ShareTable, CheckValues, Show, LockShared
  <2>4. CASE LockTable(w)
    BY <2>4 DEF LockTable, TableLock, LockUnique
  <2> QED BY <1>2, <2>1, <2>2, <2>3, <2>4 DEF Looks
<1>3. CASE Takes(w)
  BY <1>3 DEF Takes, LockDatabases, GetTable, GetDatabase, FindTable, FindSlot, ReadColumn
<1>4. CASE Works(w)
  <2>1. CASE RemoveDatabase(w) \/ RemoveTable(w)
    BY <2>1 DEF RemoveDatabase, RemoveTable
  <2>2. CASE MakeDatabase(w) \/ MakeFolder(w) \/ WriteInfo(w) \/ MakeColumn(w) \/ AppendColumn(w)
    BY <2>2 DEF MakeDatabase, MakeFolder, WriteInfo, MakeColumn, AppendColumn
  <2> QED BY <1>4, <2>1, <2>2 DEF Works
<1>5. CASE Changes(w)
  BY <1>5 DEF Changes, AddDatabase, EraseDatabase, EraseTable, LinkTable
<1> QED BY <1>2, <1>3, <1>4, <1>5 DEF Step, Looks, Takes, Works, Changes

\* A statement that ends has no lock and has seen nothing.
LEMMA Ends ==
  ASSUME TypeInv, NEW w \in Worker, Step(w), th'[w].pc = "idle"
  PROVE  End(w) /\ th'[w].seen = <<>> /\ \A p \in excl' \cup shar' : p[2] # w
<1>0. th[w] \in Thread /\ th[w].pc # "idle" /\ th \in [Worker -> Thread]
  BY Frame DEF TypeInv, ThreadsOK
<1>1. End(w)
  <2> USE <1>0 DEF At, Goto, Thread
  <2>2. CASE Looks(w)
    <3>1. CASE CheckDatabase(w) \/ Names(w) \/ CheckDir(w) \/ CheckFolder(w)
      BY <3>1 DEF CheckDatabase, Names, CheckDir, CheckFolder
    <3>2. CASE LockDatabase(w) \/ LockTables(w)
      BY <3>2 DEF LockDatabase, LockTables
    <3>3. CASE ShareDatabase(w) \/ ShareTable(w) \/ CheckValues(w) \/ Show(w)
      BY <3>3 DEF ShareDatabase, ShareTable, CheckValues, Show
    <3>4. CASE LockTable(w)
      BY <3>4 DEF LockTable
    <3> QED BY <2>2, <3>1, <3>2, <3>3, <3>4 DEF Looks
  <2>3. CASE Takes(w)
    <3>1. CASE LockDatabases(w)
      BY <3>1 DEF LockDatabases
    <3>2. CASE GetTable(w)
      BY <3>2 DEF GetTable
    <3>3. CASE GetDatabase(w)
      BY <3>3 DEF GetDatabase
    <3>4. CASE FindTable(w)
      BY <3>4 DEF FindTable
    <3>6. CASE FindSlot(w)
      BY <3>6 DEF FindSlot
    <3>5. CASE ReadColumn(w)
      BY <3>5 DEF ReadColumn
    <3> QED BY <2>3, <3>1, <3>2, <3>3, <3>4, <3>5, <3>6 DEF Takes
  <2>4. CASE Works(w)
    <3>1. CASE MakeDatabase(w) \/ MakeFolder(w) \/ WriteInfo(w)
      BY <3>1 DEF MakeDatabase, MakeFolder, WriteInfo
    <3>2. CASE MakeColumn(w)
      BY <3>2 DEF MakeColumn
    <3>3. CASE AppendColumn(w)
      BY <3>3 DEF AppendColumn
    <3>4. CASE RemoveDatabase(w) \/ RemoveTable(w)
      <4>1. End(w) \/ Goto(w, "erase_db") \/ Goto(w, "erase_table")
        BY <3>4 DEF RemoveDatabase, RemoveTable
      <4> QED BY <4>1
    <3> QED BY <2>4, <3>1, <3>2, <3>3, <3>4 DEF Works
  <2>5. CASE Changes(w)
    BY <2>5 DEF Changes, AddDatabase, EraseDatabase, EraseTable, LinkTable
  <2> QED BY <2>2, <2>3, <2>4, <2>5 DEF Step, Looks, Takes, Works, Changes
<1> QED BY <1>0, <1>1, EndThread DEF End

\* The names of a statement stay while it runs, and while others run.
LEMMA Still ==
  ASSUME TypeInv, NEW w \in Worker, Receive(w) \/ Step(w), NEW v \in Worker, v # w
  PROVE  /\ th'[v] = th[v] /\ D(v)' = D(v) /\ T(v)' = T(v) /\ F(v)' = F(v)
         /\ Op(v)' = Op(v) /\ Row(v)' = Row(v)
<1>1. th'[v] = th[v]
  BY StepAlone DEF Alone, TypeInv, ThreadsOK
<1> QED BY <1>1 DEF D, T, F, Op, Row

LEMMA NamesKept ==
  ASSUME TypeInv, NEW w \in Worker, Step(w), th'[w].pc # "idle"
  PROVE  /\ D(w)' = D(w) /\ T(w)' = T(w) /\ F(w)' = F(w)
         /\ Op(w)' = Op(w) /\ Row(w)' = Row(w)
BY Moves DEF D, T, F, Op, Row

\* The lists are unchanged by a statement that goes on after the step.
LEMMA ListsStill ==
  ASSUME TypeInv, NEW w \in Worker, Step(w), th'[w].pc # "idle", th[w].pc # "add_db"
  PROVE  tabs' = tabs /\ dbs' = dbs /\ live' = live
<1>1. th[w].pc \notin {"erase_db", "erase_table", "link_table"}
  BY EndThread, StepAt DEF EraseDatabase, EraseTable, LinkTable
<1> QED BY <1>1, Frame, SameTabs

LEMMA PointersStay ==
  ASSUME TypeInv, OneRewriter, Objects, Pointers, Locks, NEW w \in Worker, Created(w), Held(w),
         Step(w), ~ub', NEW v \in Worker, v # w
  PROVE  DbPointer(v)' /\ TablePointer(v)'
<1>1. /\ th'[v] = th[v] /\ D(v)' = D(v) /\ F(v)' = F(v) /\ Op(v)' = Op(v)
      /\ <<th[v].db, v>> \in shar' <=> <<th[v].db, v>> \in shar
  BY Still, LockFrame
<1>2. DbPointer(v) /\ TablePointer(v) /\ DbPointer(w) /\ TablePointer(w)
  BY DEF Pointers
<1>3. /\ th[v].db \in 0 .. Len(heap) /\ th[v].tb \in 0 .. Len(heap) /\ Len(heap) \in Nat
      /\ tabs \in [Db \X Table -> Object] /\ dbs \in [Db -> Object]
  BY PointerType, TabsType
<1>4. th[v].db # Null => D(v) \in Db /\ F(v) \in Db \X Table /\ F(v)[1] = D(v) /\ T(v) \in Table
  <2>1. th[v].db # Null => th[v].pc # "idle"
    BY DEF TypeInv, ThreadsOK, Proper, BeforeDb
  <2> QED BY <2>1, Running DEF F
<1>5. th[v].tb # Null => th[v].db # Null
  BY DEF TypeInv, ThreadsOK, Proper
<1>6. CASE tabs' = tabs /\ dbs' = dbs /\ live' = live
  BY <1>1, <1>2, <1>6 DEF DbPointer, TablePointer
<1>7. CASE Added(w)
  <2>1. /\ \A d \in Db : dbs'[d] = IF d = D(w) THEN Len(heap) + 1 ELSE dbs[d]
        /\ live' = live \cup {Len(heap) + 1} /\ tabs' = tabs /\ dbs[D(w)] = Null
    BY <1>3, <1>7 DEF Added
  <2>2. /\ th[v].db \in live' => th[v].db \in live
        /\ th[v].tb \in live' => th[v].tb \in live
    BY <1>3, <2>1
  <2>3. DbPointer(v)'
    BY <1>1, <1>2, <1>4, <2>1, <2>2 DEF DbPointer, Null
  <2>4. TablePointer(v)'
    BY <1>1, <1>2, <2>1, <2>2 DEF TablePointer, Null
  <2> QED BY <2>3, <2>4
<1>8. CASE Linked(w)
  <2>1. /\ \A f \in Db \X Table : tabs'[f] = IF f = F(w) THEN Len(heap) + 1 ELSE tabs[f]
        /\ live' = live \cup {Len(heap) + 1} /\ dbs' = dbs /\ tabs[F(w)] = Null
    BY <1>3, <1>8 DEF Linked
  <2>2. /\ th[v].db \in live' => th[v].db \in live
        /\ th[v].tb \in live' => th[v].tb \in live
    BY <1>3, <2>1
  <2>3. DbPointer(v)'
    BY <1>1, <1>2, <2>1, <2>2 DEF DbPointer, Null
  <2>4. TablePointer(v)'
    BY <1>1, <1>2, <1>4, <1>5, <2>1, <2>2 DEF TablePointer, Null
  <2> QED BY <2>3, <2>4
<1>9. CASE th[w].pc = "erase_table" /\ TableErased(w)
  <2>1. /\ \A f \in Db \X Table : tabs'[f] = IF f = F(w) THEN Null ELSE tabs[f]
        /\ live' = live \ {tabs[F(w)]} /\ dbs' = dbs
    BY <1>3, <1>9 DEF TableErased
  <2>2. DbPointer(v)'
    BY <1>1, <1>2, <2>1 DEF DbPointer, Null
  <2>3. SUFFICES ASSUME th[v].tb # Null, F(v) = F(w),
                        Op(v) \in Rewrites \/ <<th[v].db, v>> \in shar
                 PROVE FALSE
    BY <1>1, <1>2, <1>4, <1>5, <2>1, <2>2 DEF TablePointer
  <2>4. th[v].pc # "idle" /\ th[w].pc # "idle" /\ Op(w) \in Rewrites
    BY <1>5, <1>9, <2>3, RewriteOps DEF TypeInv, ThreadsOK, Proper, BeforeDb
  <2>5. <<th[v].db, v>> \in shar
    BY <2>3, <2>4, OnlyOne
  <2>6. th[v].db \in live
    BY <2>5 DEF Locks
  <2>7. dbs[D(w)] = th[v].db /\ dbs[D(w)] = th[w].db
    <3>1. D(v) = D(w)
      BY <2>3 DEF F
    <3>2. dbs[D(v)] = th[v].db
      BY <1>2, <1>5, <2>3, <2>6 DEF DbPointer
    <3>3. dbs[D(w)] = th[w].db
      BY <1>9, <2>4, RewriterPointers DEF BeforeDb
    <3> QED BY <3>1, <3>2, <3>3
  <2>8. <<th[w].db, w>> \in excl
    BY <1>9 DEF Held
  <2> QED BY <2>5, <2>7, <2>8 DEF Locks
<1>a. CASE th[w].pc = "erase_db" /\ DatabaseErased(w)
  <2>1. /\ \A f \in Db \X Table : tabs'[f] = IF f[1] = D(w) THEN Null ELSE tabs[f]
        /\ \A d \in Db : dbs'[d] = IF d = D(w) THEN Null ELSE dbs[d]
        /\ live' = live \ ({dbs[D(w)]} \cup {tabs[<<D(w), t>>] : t \in Table})
        /\ \A p \in excl \cup shar : p[1] = dbs[D(w)] => p[2] = w
    BY <1>3, <1>a DEF DatabaseErased
  <2>2. th[w].pc # "idle" /\ Op(w) \in Rewrites
    BY <1>a, RewriteOps
  <2>3. th[v].db # Null => Op(v) \notin Rewrites
    BY <2>2, OnlyOne DEF TypeInv, ThreadsOK, Proper, BeforeDb
  <2>4. live' \subseteq live /\ dbs[D(w)] \notin live' /\ \A t \in Table : tabs[<<D(w), t>>] \notin live'
    BY <2>1
  <2>5. DbPointer(v)'
    BY <1>1, <1>2, <1>4, <2>1, <2>3, <2>4 DEF DbPointer
  <2>6. ASSUME th[v].tb # Null, th[v].tb \in live' \/ <<th[v].db, v>> \in shar
        PROVE  tabs'[F(v)] = th[v].tb
    <3>1. tabs[F(v)] = th[v].tb
      BY <1>2, <2>4, <2>6 DEF TablePointer
    <3>2. SUFFICES ASSUME D(v) = D(w)  PROVE FALSE
      BY <1>4, <1>5, <2>1, <2>6, <3>1
    <3>3. <<th[v].db, v>> \in shar
      BY <2>4, <2>6, <1>4, <1>5, <3>1, <3>2 DEF F
    <3>4. th[v].db \in live
      BY <3>3 DEF Locks
    <3>5. dbs[D(w)] = th[v].db
      BY <1>2, <1>5, <2>6, <3>2, <3>4 DEF DbPointer
    <3> QED BY <2>1, <3>3, <3>5
  <2>7. TablePointer(v)'
    BY <1>1, <1>5, <2>3, <2>6 DEF TablePointer
  <2> QED BY <2>5, <2>7
<1> QED BY <1>6, <1>7, <1>8, <1>9, <1>a, ListStep

LEMMA PointersMove ==
  ASSUME TypeInv, Pointers, NEW w \in Worker, Step(w), ~ub'
  PROVE  DbPointer(w)' /\ TablePointer(w)'
<1>0. DbPointer(w) /\ TablePointer(w) /\ th[w].pc # "idle"
  BY Frame DEF Pointers
<1>1. CASE th'[w].pc = "idle"
  <2>1. th'[w].db = Null /\ th'[w].tb = Null
    BY <1>0, <1>1, Ends, EndThread
  <2> QED BY <2>1 DEF DbPointer, TablePointer
<1>2. CASE th'[w].pc # "idle" /\ th[w].pc = "add_db"
  <2>1. th'[w].db = Null /\ th'[w].tb = Null
    BY <1>2, Moves DEF TypeInv, ThreadsOK, Proper, BeforeDb
  <2> QED BY <2>1 DEF DbPointer, TablePointer
<1>3. CASE th'[w].pc # "idle" /\ th[w].pc # "add_db"
  <2>1. tabs' = tabs /\ dbs' = dbs /\ live' = live
    BY <1>3, ListsStill
  <2>2. D(w)' = D(w) /\ F(w)' = F(w) /\ Op(w)' = Op(w)
    BY <1>3, NamesKept
  <2>3. th[w].pc \notin {"delete", "get_db"} => th'[w].db = th[w].db
    BY <1>3, Moves
  <2>4. DbPointer(w)'
    <3>1. CASE th[w].pc \in {"delete", "get_db"}
      <4>1. th'[w].db = dbs[D(w)]
        <5> USE DEF TypeInv, ThreadsOK, Thread
        <5>0. ~End(w)
          BY <1>3, Frame, EndThread
        <5>1. CASE th[w].pc = "delete"
          <6>1. \E l : th' = [th EXCEPT ![w].db = dbs[D(w)], ![w].pc = l]
            BY <1>3, <5>1, <5>0, StepAt DEF LockDatabases
          <6>2. \E l : th'[w] = [th[w] EXCEPT !.db = dbs[D(w)], !.pc = l]
            BY <6>1
          <6> QED BY <6>2
        <5>2. CASE th[w].pc = "get_db"
          <6>1. \E l : th' = [th EXCEPT ![w].db = dbs[D(w)], ![w].pc = l]
            BY <1>3, <5>2, <5>0, StepAt DEF GetDatabase
          <6>2. \E l : th'[w] = [th[w] EXCEPT !.db = dbs[D(w)], !.pc = l]
            BY <6>1
          <6> QED BY <6>2
        <5> QED BY <3>1, <5>1, <5>2
      <4> QED BY <2>1, <2>2, <4>1 DEF DbPointer
    <3>2. CASE th[w].pc \notin {"delete", "get_db"}
      BY <1>0, <2>1, <2>2, <2>3, <3>2 DEF DbPointer
    <3> QED BY <3>1, <3>2
  <2>5. TablePointer(w)'
    <3>1. CASE th[w].pc \in {"get_table", "find_table"}
      <4>1. th'[w].tb = heap[th[w].db][T(w)]
        <5> USE DEF TypeInv, ThreadsOK, Thread
        <5>0. ~End(w)
          BY <1>3, Frame, EndThread
        <5>1. CASE th[w].pc = "get_table"
          <6>1. \E l : th' = [th EXCEPT ![w].tb = heap[th[w].db][T(w)], ![w].pc = l]
            BY <1>3, <5>1, <5>0, StepAt DEF GetTable
          <6>2. \E l : th'[w] = [th[w] EXCEPT !.tb = heap[th[w].db][T(w)], !.pc = l]
            BY <6>1
          <6> QED BY <6>2
        <5>2. CASE th[w].pc = "find_table"
          <6>1. \E l : th' = [th EXCEPT ![w].tb = heap[th[w].db][T(w)], ![w].pc = l]
            BY <1>3, <5>2, <5>0, StepAt DEF FindTable
          <6>2. \E l : th'[w] = [th[w] EXCEPT !.tb = heap[th[w].db][T(w)], !.pc = l]
            BY <6>1
          <6> QED BY <6>2
        <5> QED BY <3>1, <5>1, <5>2
      <4>2. Op(w) \in Rewrites \/ th[w].db \in live
        <5>1. CASE th[w].pc = "get_table"
          BY <5>1, RewriteOps
        <5>2. CASE th[w].pc = "find_table"
          BY <5>2, StepAt DEF FindTable, Use
        <5> QED BY <3>1, <5>1, <5>2
      <4>3. dbs[D(w)] = th[w].db
        BY <1>0, <3>1, <4>2, TablesOf DEF DbPointer, BeforeDb, TypeInv, ThreadsOK, Proper
      <4>4. tabs[F(w)] = heap[th[w].db][T(w)]
        BY <3>1, <4>3, TabsAt DEF BeforeDb
      <4> QED BY <2>1, <2>2, <4>1, <4>4 DEF TablePointer
    <3>2. CASE th[w].pc = "share_db"
      <4>1. th'[w].tb = Null
        BY <1>3, <3>2, Moves DEF TypeInv, ThreadsOK, Proper
      <4> QED BY <4>1 DEF TablePointer
    <3>3. CASE th[w].pc = "share_table"
      <4>1. th[w].tb \in live /\ th'[w].tb = th[w].tb
        BY <1>3, <3>3, StepAt, Moves DEF ShareTable, LockShared, Use
      <4> QED BY <1>0, <2>1, <2>2, <4>1 DEF TablePointer
    <3>4. CASE th[w].pc \in {"delete", "get_db"}
      <4>1. th'[w].tb = Null
        BY <1>3, <3>4, Moves DEF TypeInv, ThreadsOK, Proper, BeforeDb
      <4> QED BY <4>1 DEF TablePointer
    <3>5. CASE th[w].pc \notin {"get_table", "find_table", "share_db", "share_table", "delete", "get_db"}
      <4>1. th'[w].tb = th[w].tb /\ th'[w].db = th[w].db /\ shar' = shar
        BY <1>3, <3>5, Moves, LocksKept
      <4> QED BY <1>0, <2>1, <2>2, <4>1 DEF TablePointer
    <3> QED BY <3>1, <3>2, <3>3, <3>4, <3>5
  <2> QED BY <2>4, <2>5
<1> QED BY <1>1, <1>2, <1>3

LEMMA PointersStep ==
  ASSUME TypeInv, OneRewriter, Objects, Pointers, Locks, NEW w \in Worker, Created(w), Held(w),
         Step(w), ~ub'
  PROVE  Pointers'
BY PointersStay, PointersMove DEF Pointers

\* Only the connection that rewrites changes what the tables are listed as.
LEMMA TabsByRewriter ==
  ASSUME TypeInv, Objects, Pointers, NEW w \in Worker, Created(w), Step(w), ~ub'
  PROVE  /\ Op(w) \notin Rewrites => tabs' = tabs /\ folders' = folders
         /\ th[w].pc \notin {"erase_db", "erase_table", "link_table"} => tabs' = tabs
<1>1. Op(w) \notin Rewrites => th[w].pc \notin {"erase_db", "erase_table", "link_table",
                                               "make_folder", "remove_db", "remove_table"}
  BY RewriteOps DEF Creation
<1> QED BY <1>1, Frame, ListStep DEF Added

LEMMA HeldStay ==
  ASSUME TypeInv, OneRewriter, Objects, Pointers, NEW w \in Worker, Created(w),
         Step(w), ~ub', NEW v \in Worker, v # w, Held(v)
  PROVE  Held(v)'
<1>1. /\ th'[v] = th[v] /\ D(v)' = D(v) /\ F(v)' = F(v) /\ Op(v)' = Op(v)
      /\ \A o : /\ <<o, v>> \in shar' <=> <<o, v>> \in shar
                /\ <<o, v>> \in excl' <=> <<o, v>> \in excl
  BY Still, LockFrame
<1>2. th[v].pc = "remove_db" => tabs' = tabs
  <2>1. th[v].pc = "remove_db" => Op(v) \in Rewrites
    BY RewriteOps
  <2>2. th[w].pc # "idle"
    BY Frame
  <2> QED BY <2>1, <2>2, OnlyOne, TabsByRewriter
<1> QED BY <1>1, <1>2 DEF Held

LEMMA HeldMove ==
  ASSUME TypeInv, TypeInv', Objects, Pointers, NEW w \in Worker, Step(w), ~ub', Held(w)
  PROVE  Held(w)'
<1>1. CASE th'[w].pc = "idle"
  BY <1>1 DEF Held
<1>2. CASE th'[w].pc # "idle"
  <2> DEFINE pc == th[w].pc
             to == th'[w].pc
             db == th[w].db
             tb == th[w].tb
  <2>1. /\ Reached(pc, to) /\ Op(w)' = Op(w) /\ D(w)' = D(w)
        /\ pc \notin {"delete", "get_db"} => th'[w].db = db
        /\ pc \notin {"get_table", "find_table"} => th'[w].tb = tb
    BY <1>2, Moves, NamesKept
  <2>2. /\ shar \subseteq shar'
        /\ pc \notin {"remove_db", "remove_table", "read"} => excl \subseteq excl'
        /\ pc \in {"remove_table", "read"} => excl' = excl \ {<<tb, w>>}
    BY <1>2, LocksKept
  <2>3. Op(w) \in OpsAt(pc) /\ Op(w) \in OpsAt(to)
    <3>1. Op(w) \in OpsAt(pc) /\ th[w].pc # "idle"
      BY Frame DEF TypeInv, ThreadsOK, Proper, Op
    <3>2. Op(w)' \in OpsAt(to)
      BY <1>2 DEF TypeInv, ThreadsOK, Proper, Op, OpsAt
    <3> QED BY <2>1, <3>1, <3>2
  <2>4. to \in {"append", "read", "remove_table"} => <<th'[w].tb, w>> \in excl'
    <3>1. CASE pc = "lock_table"
      <4>1. <<tb, w>> \in excl'
        BY <3>1, StepAt DEF LockTable, TableLock, LockUnique
      <4> QED BY <2>1, <3>1, <4>1
    <3>2. CASE pc = "append"
      BY <2>1, <2>2, <3>2 DEF Held
    <3> QED BY <2>1, <3>1, <3>2 DEF Reached
  <2>5. to \in {"lock_tables", "remove_db", "get_table", "remove_table", "erase_table"} =>
          <<th'[w].db, w>> \in excl'
    <3>1. CASE pc = "lock_db"
      <4>1. <<db, w>> \in excl'
        BY <3>1, StepAt DEF LockDatabase, LockUnique
      <4> QED BY <2>1, <3>1, <4>1
    <3>2. CASE pc = "lock_tables"
      BY <2>1, <2>2, <3>2 DEF Held
    <3>3. CASE pc = "lock_table" /\ to = "remove_table"
      <4>1. Op(w) = "delete_table"
        BY <2>3, <3>3 DEF OpsAt
      <4> QED BY <2>1, <2>2, <3>3, <4>1 DEF Held
    <3>4. CASE pc = "remove_table"
      <4>1. dbs[D(w)] = db /\ db # Null /\ tabs[F(w)] = tb /\ D(w) \in Db /\ F(w) \in Db \X Table
        BY <3>4, RewriteOps, RewriterPointers DEF BeforeDb, WithTable
      <4>2. db # tb
        BY <4>1 DEF Objects
      <4> QED BY <2>1, <2>2, <3>4, <4>2 DEF Held
    <3> QED BY <2>1, <3>1, <3>2, <3>3, <3>4 DEF Reached
  <2>6. to = "lock_table" /\ Op(w) = "delete_table" => <<th'[w].db, w>> \in excl'
    <3>1. to = "lock_table" /\ Op(w) = "delete_table" => pc = "get_table"
      BY <2>1, <2>3 DEF Reached, OpsAt, Shows
    <3> QED BY <2>1, <2>2, <3>1 DEF Held
  <2>7. to \in {"find_table", "share_table", "lock_table", "read", "show"} /\ Op(w) \in Shows =>
          <<th'[w].db, w>> \in shar'
    <3>1. CASE pc = "share_db"
      <4>1. <<db, w>> \in shar'
        BY <3>1, StepAt DEF ShareDatabase, LockShared
      <4> QED BY <2>1, <3>1, <4>1
    <3>2. CASE pc \in {"find_table", "share_table", "lock_table", "read"}
      BY <2>1, <2>2, <3>2 DEF Held
    <3>3. CASE pc = "get_db" /\ to = "find_table"
      <4>1. ~End(w) /\ th \in [Worker -> Thread]
        BY <1>2, Frame, EndThread DEF TypeInv, ThreadsOK
      <4>2. Op(w) = "insert"
        <5>1. \E l : th' = [th EXCEPT ![w].db = dbs[D(w)], ![w].pc = l]
                  /\ (l = "find_table" => Op(w) \in {"create_table", "insert"})
          BY <3>3, <4>1, StepAt DEF GetDatabase
        <5>2. \E l : th'[w] = [th[w] EXCEPT !.db = dbs[D(w)], !.pc = l]
                  /\ (l = "find_table" => Op(w) \in {"create_table", "insert"})
          BY <4>1, <5>1
        <5>3. Op(w) \in {"create_table", "insert"}
          BY <3>3, <4>1, <5>2 DEF Thread
        <5> QED BY <2>3, <3>3, <5>3 DEF OpsAt, Shows, Creation
      <4> QED BY <4>2 DEF Shows
    <3>4. CASE pc \in {"get_table", "check_values"}
      BY <2>3, <3>4 DEF OpsAt, Shows
    <3> QED BY <2>1, <3>1, <3>2, <3>3, <3>4 DEF Reached
  <2>8. to = "remove_db" => \A t \in Table : tabs'[<<D(w), t>>] = Null
                                              \/ <<tabs'[<<D(w), t>>], w>> \in excl'
    <3> SUFFICES ASSUME to = "remove_db"  PROVE \A t \in Table : tabs[<<D(w), t>>] = Null
                                              \/ <<tabs[<<D(w), t>>], w>> \in excl
      <4>1. to = "remove_db" => pc = "lock_tables"
        BY <2>1 DEF Reached
      <4>2. to = "remove_db" => tabs' = tabs
        BY <1>2, <4>1, ListsStill
      <4>3. to = "remove_db" => excl \subseteq excl'
        BY <2>2, <4>1
      <4> QED BY <4>2, <4>3
    <3>1. pc = "lock_tables"
      BY <2>1 DEF Reached
    <3>2. TablesToLock(w) = {}
      BY <3>1, StepAt DEF LockTables
    <3>3. \A t \in Table : tabs[<<D(w), t>>] = heap[db][t]
      <4>1. dbs[D(w)] = db
        BY <3>1, RewriteOps, RewriterPointers DEF BeforeDb
      <4> QED BY <3>1, <4>1, TabsAt DEF BeforeDb
    <3>4. heap[db] \in [Table -> Object]
      BY <3>1, TablesOf DEF BeforeDb
    <3> QED BY <3>2, <3>3, <3>4 DEF TablesToLock, Range
  <2> QED BY <2>1, <2>4, <2>5, <2>6, <2>7, <2>8 DEF Held
<1> QED BY <1>1, <1>2

-----------------------------------------------------------------------------
(* The files. *)

LEMMA PlaceAt ==
  ASSUME NEW w
  PROVE  \A n : Place(F(w), n) = <<D(w), T(w), n>>
BY DEF Place, F

\* With one connection to rewrite, no folder is filled while it is removed.
LEMMA NotFilled ==
  ASSUME TypeInv, OneRewriter, NEW w \in Worker, th[w].pc # "idle", Op(w) \in Rewrites, NEW f
  PROVE  ~BeingFilled(w, f)
<1>1. \A v \in Worker : th[v].pc \in {"write_info", "make_column"} => v = w
  BY RewriteOps, OnlyOne DEF Creation
<1> QED BY <1>1 DEF BeingFilled

\* The files of the folders in gone are removed, and the folders with them.
Emptied(gone) == folders' = folders \ gone /\ Remove(FilesOf(gone))

\* An INSERT appends its row to the column it is at, if the file is there.
LEMMA AppendFiles ==
  ASSUME TypeInv, NEW w \in Worker, Step(w), th[w].pc = "append"
  PROVE  LET path == Place(F(w), th[w].at)
         IN \/ /\ files' = files /\ acked' = acked /\ path \notin DOMAIN files
               /\ th'[w].pc = "idle"
            \/ /\ path \in DOMAIN files
               /\ files' = Put(path, Append(files[path], Row(w)))
               /\ \/ /\ th[w].at = NCols /\ th'[w].pc = "idle"
                     /\ acked' = acked \cup {<<D(w), T(w), Row(w)>>}
                  \/ /\ th[w].at # NCols /\ th'[w].pc = "append"
                     /\ th'[w].at = th[w].at + 1 /\ acked' = acked
<1>0. /\ \A n : Place(F(w), n) = <<D(w), T(w), n>>
      /\ th[w] \in Thread /\ th \in [Worker -> Thread] /\ th[w].pc # "idle"
      /\ End(w) => th'[w].pc = "idle"
  BY PlaceAt, Frame, EndThread DEF TypeInv, ThreadsOK
<1> DEFINE path == Place(F(w), th[w].at)
<1>1. AppendColumn(w) /\ path = <<D(w), T(w), th[w].at>>
  BY <1>0, StepAt
<1> HIDE DEF path
<1>2. CASE path \notin DOMAIN files
  BY <1>0, <1>1, <1>2 DEF AppendColumn
<1>3. CASE path \in DOMAIN files
  <2>1. files' = Put(path, Append(files[path], Row(w)))
    BY <1>1, <1>3 DEF AppendColumn
  <2>2. \/ /\ th[w].at = NCols /\ acked' = acked \cup {<<D(w), T(w), Row(w)>>} /\ End(w)
        \/ /\ th[w].at # NCols /\ th' = [th EXCEPT ![w].at = th[w].at + 1] /\ acked' = acked
    BY <1>1, <1>3 DEF AppendColumn, LastValue
  <2>3. th' = [th EXCEPT ![w].at = th[w].at + 1] =>
          th'[w].pc = "append" /\ th'[w].at = th[w].at + 1
    BY <1>0 DEF Thread
  <2> QED BY <1>0, <1>3, <2>1, <2>2, <2>3 DEF path
<1> QED BY <1>2, <1>3 DEF path

\* What a step does to the files.
LEMMA FileStep ==
  ASSUME TypeInv, OneRewriter, NEW w \in Worker, Step(w)
  PROVE  LET at == th[w].at
             path == Place(F(w), at)
         IN
         /\ th[w].pc \notin {"make_column", "append", "remove_db", "remove_table"} =>
              /\ acked' = acked
              /\ \/ files' = files
                 \/ /\ th[w].pc = "write_info" /\ F(w) \in folders
                    /\ files' = Put(Place(F(w), Info), Layout)
         /\ th[w].pc = "make_column" =>
              /\ acked' = acked
              /\ \/ files' = files /\ th'[w].pc = "idle"
                 \/ /\ F(w) \in folders /\ files' = Put(path, <<>>)
                    /\ th'[w].at = at + 1
                    /\ th'[w].pc = IF at = NCols THEN "find_slot" ELSE "make_column"
         /\ th[w].pc = "append" =>
              \/ files' = files /\ acked' = acked /\ path \notin DOMAIN files /\ th'[w].pc = "idle"
              \/ /\ path \in DOMAIN files
                 /\ files' = Put(path, Append(files[path], Row(w)))
                 /\ \/ /\ at = NCols /\ th'[w].pc = "idle"
                       /\ acked' = acked \cup {<<D(w), T(w), Row(w)>>}
                    \/ at # NCols /\ th'[w].pc = "append" /\ th'[w].at = at + 1 /\ acked' = acked
         /\ th[w].pc = "remove_db" =>
              \/ UNCHANGED <<dirs, folders, files, acked>> /\ th'[w].pc = "idle"
              \/ Emptied(FoldersOf(D(w))) /\ dirs' = dirs \ {D(w)} /\ th'[w].pc = "erase_db"
         /\ th[w].pc = "remove_table" => Emptied({F(w)}) /\ th'[w].pc = "erase_table"
<1>0. /\ \A n : Place(F(w), n) = <<D(w), T(w), n>>
      /\ th[w] \in Thread /\ th \in [Worker -> Thread] /\ th[w].pc # "idle"
      /\ End(w) => th'[w].pc = "idle"
  BY PlaceAt, Frame, EndThread DEF TypeInv, ThreadsOK
<1>1. ASSUME th[w].pc \notin {"make_column", "append", "remove_db", "remove_table"}
      PROVE  /\ acked' = acked
             /\ \/ files' = files
                \/ /\ th[w].pc = "write_info" /\ F(w) \in folders
                   /\ files' = Put(Place(F(w), Info), Layout)
  <2>1. CASE th[w].pc = "write_info"
    BY <1>0, <2>1, StepAt DEF WriteInfo, history, F
  <2>2. CASE th[w].pc # "write_info"
    BY <1>1, <2>2, Frame
  <2> QED BY <2>1, <2>2
<1>2. ASSUME th[w].pc = "make_column"
      PROVE  /\ acked' = acked
             /\ \/ files' = files /\ th'[w].pc = "idle"
                \/ /\ F(w) \in folders /\ files' = Put(Place(F(w), th[w].at), <<>>)
                   /\ th'[w].at = th[w].at + 1
                   /\ th'[w].pc = IF th[w].at = NCols THEN "find_slot" ELSE "make_column"
  <2>1. MakeColumn(w)
    BY <1>2, StepAt
  <2>2. acked' = acked
    BY <2>1 DEF MakeColumn, history
  <2>3. CASE End(w) /\ files' = files
    BY <1>0, <2>2, <2>3
  <2>4. CASE ~(End(w) /\ files' = files)
    <3>1. /\ F(w) \in folders /\ files' = Put(Place(F(w), th[w].at), <<>>)
          /\ th' = [th EXCEPT ![w].at = th[w].at + 1,
                              ![w].pc = IF th[w].at = NCols THEN "find_slot" ELSE @]
      BY <1>0, <2>1, <2>4 DEF MakeColumn, NewColumn, F
    <3>2. th'[w] = [th[w] EXCEPT !.at = th[w].at + 1,
                                 !.pc = IF th[w].at = NCols THEN "find_slot" ELSE @]
      BY <1>0, <3>1
    <3> QED BY <1>0, <1>2, <2>2, <3>1, <3>2 DEF Thread
  <2> QED BY <2>3, <2>4
<1>3. ASSUME th[w].pc = "append"
      PROVE  LET path == Place(F(w), th[w].at)
             IN \/ /\ files' = files /\ acked' = acked /\ path \notin DOMAIN files
                   /\ th'[w].pc = "idle"
                \/ /\ path \in DOMAIN files
                   /\ files' = Put(path, Append(files[path], Row(w)))
                   /\ \/ /\ th[w].at = NCols /\ th'[w].pc = "idle"
                         /\ acked' = acked \cup {<<D(w), T(w), Row(w)>>}
                      \/ /\ th[w].at # NCols /\ th'[w].pc = "append"
                         /\ th'[w].at = th[w].at + 1 /\ acked' = acked
  BY <1>3, AppendFiles
<1>4. ASSUME th[w].pc = "remove_db"
      PROVE  \/ UNCHANGED <<dirs, folders, files, acked>> /\ th'[w].pc = "idle"
             \/ Emptied(FoldersOf(D(w))) /\ dirs' = dirs \ {D(w)} /\ th'[w].pc = "erase_db"
  <2>1. RemoveDatabase(w) /\ \A f : ~BeingFilled(w, f)
    BY <1>0, <1>4, StepAt, NotFilled, RewriteOps
  <2>2. Goto(w, "erase_db") => th'[w].pc = "erase_db"
    BY <1>0 DEF Goto, Thread
  <2> QED BY <1>0, <2>1, <2>2 DEF RemoveDatabase, Emptied
<1>5. ASSUME th[w].pc = "remove_table"
      PROVE  Emptied({F(w)}) /\ th'[w].pc = "erase_table"
  <2>1. RemoveTable(w) /\ \A f : ~BeingFilled(w, f)
    BY <1>0, <1>5, StepAt, NotFilled, RewriteOps
  <2>2. Goto(w, "erase_table") => th'[w].pc = "erase_table"
    BY <1>0 DEF Goto, Thread
  <2> QED BY <1>0, <2>1, <2>2 DEF RemoveTable, Emptied, F
<1> QED BY <1>1, <1>2, <1>3, <1>4, <1>5

LEMMA Places ==
  /\ \A f, g \in Db \X Table : \A m, n : Place(f, m) = Place(g, n) <=> f = g /\ m = n
  /\ \A f \in Db \X Table : \A n : <<Place(f, n)[1], Place(f, n)[2]>> = f /\ Place(f, n)[3] = n
  /\ \A p \in Path : /\ <<p[1], p[2]>> \in Db \X Table
                     /\ p = Place(<<p[1], p[2]>>, p[3]) /\ p[3] \in Col \cup {Info}
<1>1. \A f, g \in Db \X Table : \A m, n : Place(f, m) = Place(g, n) <=> f = g /\ m = n
  BY DEF Place
<1>2. \A f \in Db \X Table : \A n : <<Place(f, n)[1], Place(f, n)[2]>> = f /\ Place(f, n)[3] = n
  BY DEF Place
<1>3. \A p \in Path : /\ <<p[1], p[2]>> \in Db \X Table
                      /\ p = Place(<<p[1], p[2]>>, p[3]) /\ p[3] \in Col \cup {Info}
  BY DEF Place, Path
<1> QED BY <1>1, <1>2, <1>3

LEMMA PutFiles ==
  ASSUME NEW path, NEW x, files' = Put(path, x)
  PROVE  /\ DOMAIN files' = DOMAIN files \cup {path}
         /\ files'[path] = x
         /\ \A p \in DOMAIN files : p # path => files'[p] = files[p]
BY DEF Put

LEMMA EmptiedFiles ==
  ASSUME NEW gone, Emptied(gone)
  PROVE  /\ \A p : p \in DOMAIN files' <=> p \in DOMAIN files /\ <<p[1], p[2]>> \notin gone
         /\ \A p \in DOMAIN files' : files'[p] = files[p]
         /\ folders' = folders \ gone
         /\ acked' \subseteq acked
         /\ \A a \in acked' : \A c \in Col : <<a[1], a[2], c>> \in DOMAIN files =>
                                               <<<<a[1], a[2], c>>[1], <<a[1], a[2], c>>[2]>> \notin gone
<1>1. /\ files' = [p \in DOMAIN files \ FilesOf(gone) |-> files[p]]
      /\ folders' = folders \ gone
      /\ acked' = {a \in acked : \A c \in Col : <<a[1], a[2], c>> \notin FilesOf(gone)}
  BY DEF Emptied, Remove, Restrict, Forget
<1> QED BY <1>1 DEF FilesOf

\* What a step does to the files of a folder.
LEMMA FolderStep ==
  ASSUME TypeInv, OneRewriter, Folders, NEW w \in Worker, Step(w), NEW f \in Db \X Table
  PROVE  \/ Same(f)
         \/ /\ f = F(w) /\ F(w) \in folders
            /\ \/ th[w].pc = "write_info" /\ files' = Put(Place(f, Info), Layout)
               \/ th[w].pc = "make_column" /\ files' = Put(Place(f, th[w].at), <<>>)
               \/ /\ th[w].pc = "append" /\ Place(f, th[w].at) \in DOMAIN files
                  /\ files' = Put(Place(f, th[w].at), Append(files[Place(f, th[w].at)], Row(w)))
         \/ /\ \/ th[w].pc = "remove_table" /\ f = F(w)
               \/ th[w].pc = "remove_db" /\ f[1] = D(w)
            /\ f \notin folders' /\ \A n : Place(f, n) \notin DOMAIN files'
<1>1. CASE files' = files
  BY <1>1 DEF Same
<1>2. F(w) \in Db \X Table
  BY Frame, Running DEF F
<1>3. ASSUME NEW n, NEW x, files' = Put(Place(F(w), n), x), f # F(w)
      PROVE  Same(f)
  <2>1. \A m : Place(f, m) # Place(F(w), n)
    BY <1>2, <1>3, Places
  <2> DEFINE q == Place(F(w), n)
  <2>2. /\ DOMAIN files' = DOMAIN files \cup {q}
        /\ \A p \in DOMAIN files : p # q => files'[p] = files[p]
    BY <1>3, PutFiles
  <2> QED BY <2>1, <2>2 DEF Same
<1>4. CASE th[w].pc = "append"
  <2>1. CASE Place(F(w), th[w].at) \in DOMAIN files
    <3>1. F(w) \in folders
      BY <1>2, <2>1, Places DEF Folders
    <3>2. files' = Put(Place(F(w), th[w].at), Append(files[Place(F(w), th[w].at)], Row(w)))
      BY <1>4, <2>1, FileStep
    <3> QED BY <1>3, <1>4, <2>1, <3>1, <3>2
  <2>2. CASE Place(F(w), th[w].at) \notin DOMAIN files
    BY <1>1, <1>4, <2>2, FileStep
  <2> QED BY <2>1, <2>2
<1>5. CASE th[w].pc \in {"write_info", "make_column"}
  <2>1. \/ files' = files
        \/ /\ F(w) \in folders
           /\ \/ th[w].pc = "write_info" /\ files' = Put(Place(F(w), Info), Layout)
              \/ th[w].pc = "make_column" /\ files' = Put(Place(F(w), th[w].at), <<>>)
    BY <1>5, FileStep
  <2> QED BY <1>1, <1>3, <2>1
<1>6. ASSUME NEW gone, Emptied(gone)
      PROVE  /\ f \notin gone => Same(f)
             /\ f \in gone \/ f \notin folders => f \notin folders' /\ \A n : Place(f, n) \notin DOMAIN files'
  <2>1. \A n : <<Place(f, n)[1], Place(f, n)[2]>> = f
    BY Places
  <2>2. f \notin folders => \A n : Place(f, n) \notin DOMAIN files
    BY <2>1 DEF Folders
  <2> QED BY <1>6, <2>1, <2>2, EmptiedFiles DEF Same
<1>7. CASE th[w].pc = "remove_db"
  <2>1. files' = files \/ Emptied(FoldersOf(D(w)))
    BY <1>7, FileStep DEF disk
  <2>2. f[1] = D(w) <=> f \in FoldersOf(D(w)) \/ (f \notin folders /\ f[1] = D(w))
    BY DEF FoldersOf
  <2> QED BY <1>1, <1>6, <1>7, <2>1, <2>2
<1>8. CASE th[w].pc = "remove_table"
  <2>1. Emptied({F(w)})
    BY <1>8, FileStep
  <2>2. /\ f # F(w) => Same(f)
        /\ f = F(w) => f \notin folders' /\ \A n : Place(f, n) \notin DOMAIN files'
    BY <1>6, <2>1
  <2> QED BY <1>8, <2>2
<1>9. CASE th[w].pc \notin {"write_info", "make_column", "append", "remove_db", "remove_table"}
  BY <1>1, <1>9, FileStep
<1> QED BY <1>4, <1>5, <1>7, <1>8, <1>9

\* A statement that has its table locked has the one that is listed.
LEMMA LockedTable ==
  ASSUME TypeInv, Pointers, Locks, NEW v \in Worker, Held(v),
         th[v].pc \in {"append", "read", "remove_table"}
  PROVE  /\ <<th[v].tb, v>> \in excl /\ th[v].tb \in live /\ th[v].tb # Null
         /\ tabs[F(v)] = th[v].tb
         /\ F(v) \in Db \X Table /\ D(v) \in Db /\ T(v) \in Table
<1>1. <<th[v].tb, v>> \in excl
  BY DEF Held
<1>2. th[v].tb \in live
  BY <1>1 DEF Locks
<1>3. th[v].tb # Null
  BY <1>2, TabsType
<1>4. tabs[F(v)] = th[v].tb
  BY <1>2, <1>3 DEF Pointers, TablePointer
<1>5. D(v) \in Db /\ T(v) \in Table
  BY Running
<1> QED BY <1>1, <1>2, <1>3, <1>4, <1>5 DEF F

\* While an INSERT holds the lock of its table, no step of another statement
\* touches the files of that table.
LEMMA Undisturbed ==
  ASSUME TypeInv, OneRewriter, Pointers, Locks, Folders, NEW w \in Worker, Created(w), Held(w),
         Step(w), NEW v \in Worker, v # w, Held(v), th[v].pc = "append"
  PROVE  Same(F(v))
<1>1. /\ <<th[v].tb, v>> \in excl /\ th[v].tb # Null /\ tabs[F(v)] = th[v].tb
      /\ F(v) \in Db \X Table /\ T(v) \in Table
  BY LockedTable
<1>2. ASSUME F(v) = F(w), th[w].pc \in {"append", "remove_table"}  PROVE FALSE
  <2>1. <<th[w].tb, w>> \in excl /\ tabs[F(w)] = th[w].tb
    BY <1>2, LockedTable
  <2> QED BY <1>1, <1>2, <2>1 DEF Locks
<1>3. ASSUME F(v) = F(w), th[w].pc \in {"write_info", "make_column"}  PROVE FALSE
  BY <1>1, <1>3 DEF Created, Creation
<1>4. ASSUME F(v)[1] = D(w), th[w].pc = "remove_db"  PROVE FALSE
  <2>1. F(v) = <<D(w), T(v)>>
    BY <1>4 DEF F
  <2>2. <<tabs[F(v)], w>> \in excl
    BY <1>1, <1>4, <2>1 DEF Held
  <2> QED BY <1>1, <2>2 DEF Locks
<1> QED BY <1>1, <1>2, <1>3, <1>4, FolderStep

LEMMA FoldersStep ==
  ASSUME TypeInv, OneRewriter, Objects, Pointers, Folders, NEW w \in Worker, Created(w),
         Step(w), ~ub'
  PROVE  Folders'
<1>0. th[w].pc # "idle" /\ F(w) \in Db \X Table /\ F(w) = <<D(w), T(w)>> /\ th \in [Worker -> Thread]
  BY Frame, Running DEF F, TypeInv, ThreadsOK
<1>1. /\ \A p \in DOMAIN files : <<p[1], p[2]>> \in folders
      /\ folders \subseteq dirs \X Table /\ DOMAIN files \subseteq Path
  BY DEF Folders, TypeInv, DiskOK
<1>2. \A p \in DOMAIN files' : <<p[1], p[2]>> \in folders'
  <2>1. ASSUME NEW gone, Emptied(gone)  PROVE \A p \in DOMAIN files' : <<p[1], p[2]>> \in folders'
    BY <1>1, <2>1, EmptiedFiles
  <2>2. ASSUME NEW n, NEW x, files' = Put(Place(F(w), n), x), F(w) \in folders, folders' = folders
        PROVE  \A p \in DOMAIN files' : <<p[1], p[2]>> \in folders'
    <3>1. DOMAIN files' = DOMAIN files \cup {Place(F(w), n)}
      BY <2>2, PutFiles
    <3>2. <<Place(F(w), n)[1], Place(F(w), n)[2]>> = F(w)
      BY <1>0, Places
    <3> QED BY <1>1, <2>2, <3>1, <3>2
  <2>3. CASE th[w].pc \in {"remove_db", "remove_table"}
    <3>1. UNCHANGED <<files, folders>> \/ \E gone : Emptied(gone)
      <4>1. CASE th[w].pc = "remove_db"
        BY <4>1, FileStep DEF disk
      <4>2. CASE th[w].pc = "remove_table"
        BY <4>2, FileStep
      <4> QED BY <2>3, <4>1, <4>2
    <3> QED BY <1>1, <2>1, <3>1
  <2>4. CASE th[w].pc \in {"write_info", "make_column", "append"}
    <3>1. folders' = folders
      BY <2>4, Frame
    <3>2. Place(F(w), th[w].at) \in DOMAIN files => F(w) \in folders
      BY <1>0, <1>1, Places
    <3>3. \/ files' = files
          \/ \E n, x : F(w) \in folders /\ files' = Put(Place(F(w), n), x)
      <4>1. CASE th[w].pc = "write_info"
        BY <4>1, FileStep
      <4>2. CASE th[w].pc = "make_column"
        BY <4>2, FileStep
      <4>3. CASE th[w].pc = "append"
        BY <3>2, <4>3, FileStep
      <4> QED BY <2>4, <4>1, <4>2, <4>3
    <3> QED BY <1>1, <2>2, <3>1, <3>3
  <2>5. CASE th[w].pc \notin {"write_info", "make_column", "append", "remove_db", "remove_table"}
    <3>1. folders \subseteq folders'
      BY <2>5, Frame, StepAt DEF MakeFolder
    <3> QED BY <1>1, <2>5, <3>1, Frame
  <2> QED BY <2>3, <2>4, <2>5
<1>3. folders' \subseteq dirs' \X Table
  <2>1. CASE th[w].pc = "remove_db"
    <3>1. UNCHANGED <<folders, dirs>> \/ (folders' = folders \ FoldersOf(D(w)) /\ dirs' = dirs \ {D(w)})
      BY <2>1, FileStep DEF disk, Emptied
    <3> QED BY <1>1, <3>1 DEF FoldersOf
  <2>2. CASE th[w].pc = "remove_table"
    <3>1. folders' = folders \ {F(w)} /\ dirs' = dirs
      BY <2>2, FileStep, Frame DEF Emptied
    <3> QED BY <1>1, <3>1
  <2>3. CASE th[w].pc = "make_folder"
    <3>1. \/ folders' = folders \cup {F(w)} /\ dirs' = dirs \cup {D(w)}
          \/ UNCHANGED <<folders, dirs>>
      BY <2>3, StepAt DEF MakeFolder, F
    <3> QED BY <1>0, <1>1, <3>1
  <2>4. CASE th[w].pc \notin {"remove_db", "remove_table", "make_folder"}
    <3>1. folders' = folders
      BY <2>4, Frame
    <3>2. dirs \subseteq dirs'
      <4>1. CASE th[w].pc = "make_db"
        BY <4>1 DEF Step, At, MakeDatabase, CheckDatabase, AddDatabase, Names, LockDatabases,
          LockDatabase, LockTables, RemoveDatabase, EraseDatabase, GetTable, LockTable, RemoveTable,
          EraseTable, GetDatabase, CheckDir, CheckFolder, MakeFolder, WriteInfo, MakeColumn,
          FindSlot, LinkTable, ShareDatabase, FindTable, ShareTable, CheckValues, AppendColumn,
          ReadColumn, Show
      <4>2. CASE th[w].pc # "make_db"
        BY <2>4, <4>2, Frame
      <4> QED BY <4>1, <4>2
    <3> QED BY <1>1, <3>1, <3>2
  <2> QED BY <2>1, <2>2, <2>3, <2>4
<1>4. ASSUME NEW f \in Db \X Table
      PROVE  \/ tabs'[f] = Null
             \/ f \in folders'
             \/ \E v \in Worker : \/ th'[v].pc = "erase_db" /\ D(v)' = f[1]
                                  \/ th'[v].pc = "erase_table" /\ F(v)' = f
  <2> DEFINE Off(v) == \/ th'[v].pc = "erase_db" /\ D(v)' = f[1]
                       \/ th'[v].pc = "erase_table" /\ F(v)' = f
  <2>1. ASSUME NEW v \in Worker, v # w, \/ th[v].pc = "erase_db" /\ D(v) = f[1]
                                        \/ th[v].pc = "erase_table" /\ F(v) = f
        PROVE  Off(v)
    BY <2>1, Still
  <2>2. CASE th[w].pc = "remove_db"
    <3>1. tabs' = tabs
      BY <2>2, Frame, SameTabs
    <3>2. CASE folders' = folders
      BY <2>1, <2>2, <3>1, <3>2 DEF Folders
    <3>3. CASE folders' # folders
      <4>1. folders' = folders \ FoldersOf(D(w)) /\ th'[w].pc = "erase_db"
        BY <2>2, <3>3, FileStep DEF Emptied, disk
      <4>2. D(w)' = D(w)
        BY <4>1, NamesKept
      <4>3. f[1] = D(w) => Off(w)
        BY <4>1, <4>2
      <4> QED BY <2>1, <2>2, <3>1, <4>1, <4>3 DEF Folders, FoldersOf
    <3> QED BY <3>2, <3>3
  <2>3. CASE th[w].pc = "remove_table"
    <3>1. tabs' = tabs
      BY <2>3, Frame, SameTabs
    <3>2. folders' = folders \ {F(w)} /\ th'[w].pc = "erase_table"
      BY <2>3, FileStep DEF Emptied
    <3>3. F(w)' = F(w)
      BY <3>2, NamesKept
    <3>4. f = F(w) => Off(w)
      BY <3>2, <3>3
    <3> QED BY <2>1, <2>3, <3>1, <3>2, <3>4 DEF Folders
  <2>4. CASE th[w].pc \notin {"remove_db", "remove_table"}
    <3>1. f \in folders => f \in folders'
      BY <2>4, Frame, StepAt DEF MakeFolder
    <3>2. CASE tabs' = tabs /\ th[w].pc \notin {"erase_db", "erase_table"}
      BY <2>1, <3>1, <3>2 DEF Folders
    <3>3. CASE th[w].pc = "erase_table" /\ TableErased(w)
      <4>1. tabs'[f] = IF f = F(w) THEN Null ELSE tabs[f]
        BY <3>3, TabsType DEF TableErased
      <4> QED BY <2>1, <3>1, <3>3, <4>1 DEF Folders
    <3>4. CASE th[w].pc = "erase_db" /\ DatabaseErased(w)
      <4>1. tabs'[f] = IF f[1] = D(w) THEN Null ELSE tabs[f]
        BY <3>4 DEF DatabaseErased
      <4> QED BY <2>1, <3>1, <3>4, <4>1 DEF Folders
    <3>5. CASE th[w].pc = "link_table" /\ Linked(w)
      <4>1. f # F(w) => tabs'[f] = tabs[f]
        BY <3>5, TabsType DEF Linked
      <4>2. F(w) \in folders'
        BY <3>5, Frame DEF Created, Creation
      <4> QED BY <2>1, <3>1, <3>5, <4>1, <4>2 DEF Folders
    <3> QED BY <3>2, <3>3, <3>4, <3>5, ListStep DEF Added
  <2> QED BY <2>2, <2>3, <2>4
<1> QED BY <1>2, <1>3, <1>4 DEF Folders

LEMMA CreatedStay ==
  ASSUME TypeInv, OneRewriter, Objects, Pointers, Locks, Folders,
         NEW w \in Worker, Created(w), Held(w), Step(w), ~ub',
         NEW v \in Worker, v # w, Created(v)
  PROVE  Created(v)'
<1>1. th'[v] = th[v] /\ F(v)' = F(v)
  BY Still
<1>2. SUFFICES ASSUME th[v].pc \in Creation  PROVE Created(v)'
  BY <1>1 DEF Created
<1>3. th[v].pc # "idle" /\ Op(v) \in Rewrites /\ F(v) \in Db \X Table
  BY <1>2, RewriteOps, Running DEF Creation, F
<1>4. Op(w) \notin Rewrites
  BY <1>3, Frame, OnlyOne
<1>5. tabs' = tabs /\ folders' = folders
  BY <1>4, TabsByRewriter
<1>6. th[w].pc \notin {"write_info", "make_column", "remove_db", "remove_table"}
  BY <1>4, RewriteOps DEF Creation
<1>7. ~(th[w].pc = "append" /\ F(v) = F(w))
  BY <1>2, LockedTable DEF Created
<1>8. Same(F(v))
  BY <1>3, <1>6, <1>7, FolderStep
<1>9. \A c \in Col : /\ Place(F(v), c) \in DOMAIN files' <=> Place(F(v), c) \in DOMAIN files
                     /\ Place(F(v), c) \in DOMAIN files => files'[Place(F(v), c)] = files[Place(F(v), c)]
  BY <1>8 DEF Same
<1>a. th[v].pc = "make_column" => 1 .. th[v].at - 1 \subseteq Col
  BY CatalogAssumption DEF CatalogAssumption, TypeInv, ThreadsOK, Thread, Col
<1> QED BY <1>1, <1>5, <1>9, <1>a DEF Created

LEMMA CreatedMove ==
  ASSUME TypeInv, OneRewriter, Objects, Pointers, Folders, NEW w \in Worker, Created(w), Step(w), ~ub'
  PROVE  Created(w)'
<1>1. SUFFICES ASSUME th'[w].pc \in Creation  PROVE Created(w)'
  BY DEF Created
<1>2. Reached(th[w].pc, th'[w].pc) /\ F(w)' = F(w) /\ F(w) \in Db \X Table /\ th[w].pc # "idle"
  BY <1>1, Moves, NamesKept, Frame, Running DEF Creation, F
<1>3. th[w].pc \in (Creation \cup {"check_folder"}) \ {"link_table"}
  BY <1>1, <1>2 DEF Reached, Creation
<1>4. tabs' = tabs
  BY <1>3, TabsByRewriter DEF Creation
<1>5. /\ NCols \in Nat \ {0} /\ th[w].at \in 1 .. NCols + 1
      /\ \A f, g \in Db \X Table : \A m, n : Place(f, m) = Place(g, n) <=> f = g /\ m = n
  BY CatalogAssumption, Places DEF CatalogAssumption, TypeInv, ThreadsOK, Thread
<1>6. CASE th[w].pc = "check_folder"
  <2>1. F(w) \notin folders /\ th'[w].pc = "make_folder"
    <3>1. ~Exists(w)
      BY <1>1, <1>6, StepAt, EndThread DEF CheckFolder, Creation
    <3>2. F(w) \notin folders
      BY <3>1 DEF Exists, F
    <3>3. th'[w].pc = "make_folder"
      BY <1>1, <1>2, <1>6 DEF Reached, Creation
    <3> QED BY <3>2, <3>3
  <2>2. tabs[F(w)] = Null
    <3>1. \A v \in Worker : th[v].pc \in {"erase_db", "erase_table"} => v = w
      BY <1>2, <1>6, RewriteOps, OnlyOne
    <3> QED BY <1>2, <1>6, <2>1, <3>1 DEF Folders
  <2>3. \A c \in Col : Place(F(w), c) \notin DOMAIN files
    BY <1>2, <2>1, Places DEF Folders
  <2>4. folders' = folders /\ files' = files
    BY <1>6, Frame
  <2> QED BY <1>2, <1>4, <2>1, <2>2, <2>3, <2>4 DEF Created
<1>7. CASE th[w].pc = "make_folder"
  <2>1. th'[w].pc = "write_info"
    BY <1>1, <1>2, <1>7 DEF Reached, Creation
  <2>2. F(w) \in folders' /\ files' = files
    <3>1. ~End(w)
      BY <1>2, <2>1, EndThread
    <3> QED BY <1>7, <3>1, StepAt, Frame DEF MakeFolder, F
  <2>3. Created(w) /\ th[w].pc \in Creation
    BY <1>7 DEF Creation
  <2> QED BY <1>2, <1>4, <2>1, <2>2, <2>3 DEF Created
<1>8. CASE th[w].pc = "write_info"
  <2>1. th'[w].pc = "make_column" /\ th'[w].at = th[w].at /\ th[w].at = 1
    BY <1>1, <1>2, <1>8, Moves DEF Reached, Creation, TypeInv, ThreadsOK, Proper
  <2>2. folders' = folders
    BY <1>8, Frame
  <2>3. \A c \in Col : /\ Place(F(w), c) \in DOMAIN files' <=> Place(F(w), c) \in DOMAIN files
                       /\ Place(F(w), c) \in DOMAIN files => files'[Place(F(w), c)] = files[Place(F(w), c)]
    <3>1. files' = files \/ files' = Put(Place(F(w), Info), Layout)
      BY <1>8, FileStep
    <3>2. \A c \in Col : Place(F(w), c) # Place(F(w), Info)
      BY <1>2, <1>5 DEF Col, Info
    <3> QED BY <3>1, <3>2, PutFiles
  <2>4. Created(w) /\ th[w].pc \in Creation
    BY <1>8 DEF Creation
  <2>5. 1 .. th'[w].at - 1 = {}
    BY <2>1
  <2> QED BY <1>2, <1>4, <1>8, <2>1, <2>2, <2>3, <2>4, <2>5 DEF Created
<1>9. CASE th[w].pc = "make_column"
  <2> DEFINE at == th[w].at
             path == Place(F(w), at)
  <2>1. /\ F(w) \in folders /\ files' = Put(path, <<>>) /\ th'[w].at = at + 1
        /\ th'[w].pc = IF at = NCols THEN "find_slot" ELSE "make_column"
    BY <1>1, <1>9, FileStep DEF Creation
  <2>2. folders' = folders
    BY <1>9, Frame
  <2>3. DOMAIN files' = DOMAIN files \cup {path} /\ files'[path] = <<>>
        /\ \A p \in DOMAIN files : p # path => files'[p] = files[p]
    BY <2>1, PutFiles
  <2>4. /\ tabs[F(w)] = Null
        /\ \A c \in Col : Place(F(w), c) \in DOMAIN files => files[Place(F(w), c)] = <<>>
        /\ \A c \in 1 .. at - 1 : Place(F(w), c) \in DOMAIN files
    BY <1>9 DEF Created, Creation
  <2>5. \A c \in 1 .. at : Place(F(w), c) \in DOMAIN files'
    <3>1. \A c \in 1 .. at : c = at \/ c \in 1 .. at - 1
      BY <1>5
    <3> QED BY <2>3, <2>4, <3>1
  <2>6. \A c \in Col : Place(F(w), c) \in DOMAIN files' => files'[Place(F(w), c)] = <<>>
    BY <2>3, <2>4
  <2>7. 1 .. th'[w].at - 1 = 1 .. at /\ (at = NCols => Col = 1 .. at)
    BY <1>5, <2>1 DEF Col
  <2> QED BY <1>2, <1>4, <2>1, <2>2, <2>4, <2>5, <2>6, <2>7 DEF Created
<1>a. CASE th[w].pc = "find_slot"
  <2>1. th'[w].pc = "link_table"
    BY <1>1, <1>2, <1>a DEF Reached, Creation
  <2>2. folders' = folders /\ files' = files
    BY <1>a, Frame
  <2>3. Created(w) /\ th[w].pc \in Creation
    BY <1>a DEF Creation
  <2> QED BY <1>2, <1>4, <1>a, <2>1, <2>2, <2>3 DEF Created
<1> QED BY <1>3, <1>6, <1>7, <1>8, <1>9, <1>a DEF Creation

-----------------------------------------------------------------------------
(* The columns. *)

LEMMA Columns ==
  ASSUME TypeInv
  PROVE  /\ NCols \in Nat \ {0} /\ Col = 1 .. NCols /\ 1 \in Col /\ Info = 0 /\ Info \notin Col
         /\ \A w \in Worker : /\ th[w].at \in 1 .. NCols + 1
                              /\ 1 .. th[w].at - 1 \subseteq Col
                              /\ th[w].pc \in {"append", "read", "make_column"} => th[w].at \in Col
         /\ \A f \in Db \X Table : \A c \in Col :
              Place(f, c) \in DOMAIN files => files[Place(f, c)] \in Seq(Rows)
<1>1. NCols \in Nat \ {0} /\ Col = 1 .. NCols /\ 1 \in Col /\ Info = 0 /\ Info \notin Col
  BY CatalogAssumption DEF CatalogAssumption, Col, Info
<1>2. \A w \in Worker : /\ th[w].at \in 1 .. NCols + 1
                        /\ th[w].pc \in {"append", "read", "make_column"} => th[w].at \in Col
  BY DEF TypeInv, ThreadsOK, Thread, Proper
<1>3. \A w \in Worker : 1 .. th[w].at - 1 \subseteq Col
  BY <1>1, <1>2
<1>4. ASSUME NEW f \in Db \X Table, NEW c \in Col, Place(f, c) \in DOMAIN files
      PROVE  files[Place(f, c)] \in Seq(Rows)
  <2>1. Place(f, c)[3] # Info
    BY <1>1, Places
  <2> QED BY <1>4, <2>1 DEF TypeInv, DiskOK
<1> QED BY <1>1, <1>2, <1>3, <1>4

\* What an INSERT does to a column.
LEMMA AppendStep ==
  ASSUME TypeInv, NEW w \in Worker, Step(w), th[w].pc = "append",
         NEW path, path = Place(F(w), th[w].at)
  PROVE  \/ files' = files /\ acked' = acked /\ path \notin DOMAIN files /\ th'[w].pc = "idle"
         \/ /\ path \in DOMAIN files /\ DOMAIN files' = DOMAIN files
            /\ \A p \in DOMAIN files : p # path => files'[p] = files[p]
            /\ files[path] \in Seq(Rows) /\ files'[path] = Append(files[path], Row(w))
            /\ Len(files[path]) \in Nat /\ Len(files'[path]) = Len(files[path]) + 1
            /\ files'[path][Len(files'[path])] = Row(w) /\ files'[path] # <<>>
            /\ \A i \in 1 .. Len(files[path]) : files'[path][i] = files[path][i]
            /\ \/ /\ th[w].at = NCols /\ th'[w].pc = "idle"
                  /\ acked' = acked \cup {<<D(w), T(w), Row(w)>>}
               \/ /\ th[w].at # NCols /\ th'[w].pc = "append"
                  /\ th'[w].at = th[w].at + 1 /\ acked' = acked
<1>1. CASE path \notin DOMAIN files
  BY <1>1, AppendFiles
<1>2. CASE path \in DOMAIN files
  <2>1. /\ files' = Put(path, Append(files[path], Row(w)))
        /\ \/ /\ th[w].at = NCols /\ th'[w].pc = "idle"
              /\ acked' = acked \cup {<<D(w), T(w), Row(w)>>}
           \/ th[w].at # NCols /\ th'[w].pc = "append" /\ th'[w].at = th[w].at + 1 /\ acked' = acked
    BY <1>2, AppendFiles
  <2>2. files[path] \in Seq(Rows) /\ Row(w) \in Rows
    <3>1. F(w) \in Db \X Table /\ Row(w) \in Rows
      BY Running DEF F
    <3> QED BY <1>2, <3>1, Columns
  <2>3. /\ DOMAIN files' = DOMAIN files /\ files'[path] = Append(files[path], Row(w))
        /\ \A p \in DOMAIN files : p # path => files'[p] = files[p]
    <3> DEFINE x == Append(files[path], Row(w))
    <3>1. files' = Put(path, x)
      BY <2>1
    <3> HIDE DEF x
    <3>2. /\ DOMAIN files' = DOMAIN files \cup {path} /\ files'[path] = x
          /\ \A p \in DOMAIN files : p # path => files'[p] = files[p]
      BY <3>1, PutFiles
    <3> QED BY <1>2, <3>2 DEF x
  <2>4. /\ Len(files[path]) \in Nat /\ Len(files'[path]) = Len(files[path]) + 1
        /\ files'[path][Len(files'[path])] = Row(w) /\ files'[path] # <<>>
        /\ \A i \in 1 .. Len(files[path]) : files'[path][i] = files[path][i]
    BY <2>2, <2>3
  <2> QED BY <1>2, <2>1, <2>2, <2>3, <2>4
<1> QED BY <1>1, <1>2

-----------------------------------------------------------------------------
(* The rows reported as inserted, whoever creates and deletes tables. *)

\* What a step does to the files and to the rows reported as inserted.
LEMMA FileMoves ==
  ASSUME TypeInv, NEW w \in Worker, Step(w)
  PROVE  /\ contested \subseteq contested'
         /\ \/ files' = files /\ acked' = acked
            \/ /\ th[w].pc = "write_info" /\ acked' = acked
               /\ files' = Put(Place(F(w), Info), Layout)
            \/ /\ th[w].pc = "make_column" /\ acked' = acked
               /\ files' = Put(Place(F(w), th[w].at), <<>>)
               /\ InUse(w) \subseteq contested'
            \/ th[w].pc = "append" /\ Place(F(w), th[w].at) \in DOMAIN files
            \/ \E g, part : /\ Remove(FilesOf(g) \ part)
                            /\ \A p \in part : <<p[1], p[2]>> \in contested'
<1>0. \A n : Place(F(w), n) = <<D(w), T(w), n>>
  BY PlaceAt
<1>1. CASE Looks(w) \/ Takes(w) \/ Changes(w)
  <2>1. UNCHANGED disk /\ acked' = acked
    BY <1>1 DEF Looks, Takes, Changes, CheckDatabase, Names, LockDatabase, LockTables, CheckDir,
         CheckFolder, ShareDatabase, ShareTable, CheckValues, LockTable, Show, LockDatabases,
         GetTable, GetDatabase, FindTable, FindSlot, ReadColumn, AddDatabase, EraseDatabase,
         EraseTable, LinkTable, history
  <2> QED BY <2>1 DEF disk, traces
<1>2. CASE MakeDatabase(w) \/ MakeFolder(w)
  BY <1>2 DEF MakeDatabase, MakeFolder, traces, history
<1>3. CASE WriteInfo(w)
  BY <1>0, <1>3 DEF WriteInfo, traces, history, At
<1>4. CASE MakeColumn(w)
  <2>1. th[w].pc = "make_column" /\ acked' = acked
    BY <1>4 DEF MakeColumn, At, history
  <2>2. \/ UNCHANGED <<files, contested>>
        \/ files' = Put(NewColumn(w), <<>>) /\ contested' = contested \cup InUse(w)
    BY <1>4 DEF MakeColumn
  <2>3. NewColumn(w) = Place(F(w), th[w].at)
    BY <1>0 DEF NewColumn
  <2> QED BY <2>1, <2>2, <2>3
<1>5. CASE AppendColumn(w)
  <2>1. th[w].pc = "append" /\ UNCHANGED traces
    BY <1>5 DEF AppendColumn, At
  <2>2. \/ Place(F(w), th[w].at) \in DOMAIN files
        \/ files' = files /\ acked' = acked
    BY <2>1, AppendFiles
  <2> QED BY <2>1, <2>2 DEF traces
<1>6. CASE RemoveDatabase(w)
  <2> DEFINE g == FoldersOf(D(w))
  <2>1. CASE UNCHANGED <<files, contested, acked>>
    BY <2>1
  <2>2. CASE Remove(FilesOf(g)) /\ UNCHANGED contested
    <3> DEFINE none == {}
    <3>1. FilesOf(g) \ none = FilesOf(g) /\ \A p \in none : <<p[1], p[2]>> \in contested'
      OBVIOUS
    <3> HIDE DEF none
    <3>2. Remove(FilesOf(g) \ none)
      BY <2>2, <3>1
    <3>3. \E h, part : /\ Remove(FilesOf(h) \ part)
                      /\ \A p \in part : <<p[1], p[2]>> \in contested'
      BY <3>1, <3>2
    <3> QED BY <2>2, <3>3
  <2>3. ASSUME NEW f, NEW new \in SUBSET FilesOf({f}), Remove(FilesOf(g) \ new),
               contested' = contested \cup {f}
        PROVE  contested \subseteq contested' /\ \A p \in new : <<p[1], p[2]>> \in contested'
    BY <2>3 DEF FilesOf
  <2> HIDE DEF g
  <2>4. \/ UNCHANGED <<files, contested, acked>>
        \/ Remove(FilesOf(g)) /\ UNCHANGED contested
        \/ \E f : /\ \E new \in SUBSET FilesOf({f}) : Remove(FilesOf(g) \ new)
                  /\ contested' = contested \cup {f}
    BY <1>6 DEF RemoveDatabase, g
  <2> QED BY <2>1, <2>2, <2>3, <2>4
<1>7. CASE RemoveTable(w)
  <2> DEFINE f == <<D(w), T(w)>>
  <2>1. CASE Remove(FilesOf({f})) /\ UNCHANGED contested
    <3> DEFINE none == {}
    <3>1. FilesOf({f}) \ none = FilesOf({f}) /\ \A p \in none : <<p[1], p[2]>> \in contested'
      OBVIOUS
    <3> HIDE DEF none
    <3>2. Remove(FilesOf({f}) \ none)
      BY <2>1, <3>1
    <3>3. \E h, part : /\ Remove(FilesOf(h) \ part)
                      /\ \A p \in part : <<p[1], p[2]>> \in contested'
      BY <3>1, <3>2
    <3> QED BY <2>1, <3>3
  <2>2. ASSUME NEW new \in SUBSET FilesOf({f}), Remove(FilesOf({f}) \ new),
               contested' = contested \cup {f}
        PROVE  contested \subseteq contested' /\ \A p \in new : <<p[1], p[2]>> \in contested'
    BY <2>2 DEF FilesOf
  <2> HIDE DEF f
  <2>3. \/ Remove(FilesOf({f})) /\ UNCHANGED contested
        \/ /\ \E new \in SUBSET FilesOf({f}) : Remove(FilesOf({f}) \ new)
           /\ contested' = contested \cup {f}
    BY <1>7 DEF RemoveTable, f
  <2> QED BY <2>1, <2>2, <2>3
<1> QED BY <1>1, <1>2, <1>3, <1>4, <1>5, <1>6, <1>7 DEF Step, Looks, Takes, Works, Changes

\* The columns of a table are as they were, or none is left.
Untouched(f) ==
    \A c \in Col : /\ Place(f, c) \in DOMAIN files' <=> Place(f, c) \in DOMAIN files
                   /\ Place(f, c) \in DOMAIN files => files'[Place(f, c)] = files[Place(f, c)]
Gone(f) == \A c \in Col : Place(f, c) \notin DOMAIN files'

\* No row that is to stay is among the files removed.
LEMMA RemoveRows ==
  ASSUME NEW f \in Db \X Table, NEW g, NEW part, Remove(FilesOf(g) \ part),
         \A p \in part : <<p[1], p[2]>> # f
  PROVE  /\ Untouched(f) \/ Gone(f)
         /\ acked' \subseteq acked
         /\ \A a \in acked' : <<a[1], a[2]>> = f =>
              \A c \in Col : Place(f, c) \in DOMAIN files => Place(f, c) \in DOMAIN files'
<1> DEFINE gone == FilesOf(g) \ part
<1>1. /\ files' = [p \in DOMAIN files \ gone |-> files[p]]
      /\ acked' = {a \in acked : \A c \in Col : <<a[1], a[2], c>> \notin gone}
  BY DEF Remove, Restrict, Forget
<1>2. \A c \in Col : <<Place(f, c)[1], Place(f, c)[2]>> = f
  BY Places
<1>3. \A c \in Col : Place(f, c) \in gone <=> Place(f, c) \in DOMAIN files /\ f \in g
  BY <1>2 DEF FilesOf
<1> HIDE DEF gone
<1>4. Untouched(f) \/ Gone(f)
  BY <1>1, <1>3 DEF Untouched, Gone
<1>5. ASSUME NEW a \in acked', <<a[1], a[2]>> = f, NEW c \in Col, Place(f, c) \in DOMAIN files
      PROVE  Place(f, c) \in DOMAIN files'
  <2>1. <<a[1], a[2], c>> = Place(f, c)
    BY <1>5 DEF Place
  <2> QED BY <1>1, <1>5, <2>1
<1> QED BY <1>1, <1>4, <1>5

\* What a step does to the columns of a table that is not contested.
LEMMA RowsMove ==
  ASSUME TypeInv, NEW w \in Worker, Step(w), NEW f \in Db \X Table, f \notin contested'
  PROVE  \/ Untouched(f) /\ \A a \in acked' : <<a[1], a[2]>> = f => a \in acked
         \/ /\ Gone(f) /\ acked' \subseteq acked
            /\ \A a \in acked' : <<a[1], a[2]>> = f =>
                 \A c \in Col : Place(f, c) \in DOMAIN files => Place(f, c) \in DOMAIN files'
         \/ /\ th[w].pc = "make_column" /\ f = F(w) /\ f \notin InUse(w) /\ acked' = acked
            /\ files' = Put(Place(f, th[w].at), <<>>)
         \/ th[w].pc = "append" /\ f = F(w) /\ Place(f, th[w].at) \in DOMAIN files
<1>0. F(w) \in Db \X Table /\ F(w) = <<D(w), T(w)>>
  BY Frame, Running DEF F
<1>1. CASE files' = files /\ acked' = acked
  BY <1>1 DEF Untouched
<1>2. ASSUME NEW n, NEW x, files' = Put(Place(F(w), n), x), f # F(w) \/ n \notin Col
      PROVE  Untouched(f)
  <2> DEFINE q == Place(F(w), n)
  <2>1. \A c \in Col : Place(f, c) # q
    BY <1>0, <1>2, Places
  <2>2. /\ DOMAIN files' = DOMAIN files \cup {q}
        /\ \A p \in DOMAIN files : p # q => files'[p] = files[p]
    BY <1>2, PutFiles
  <2> HIDE DEF q
  <2> QED BY <2>1, <2>2 DEF Untouched
<1>3. CASE th[w].pc = "write_info" /\ acked' = acked /\ files' = Put(Place(F(w), Info), Layout)
  BY <1>2, <1>3, Columns
<1>4. CASE /\ th[w].pc = "make_column" /\ acked' = acked
           /\ files' = Put(Place(F(w), th[w].at), <<>>)
           /\ InUse(w) \subseteq contested'
  BY <1>2, <1>4
<1>5. CASE th[w].pc = "append" /\ Place(F(w), th[w].at) \in DOMAIN files
  <2>1. CASE f = F(w)
    BY <1>5, <2>1
  <2>2. CASE f # F(w)
    <3> DEFINE x == Append(files[Place(F(w), th[w].at)], Row(w))
    <3>1. /\ files' = Put(Place(F(w), th[w].at), x)
          /\ acked' \subseteq acked \cup {<<D(w), T(w), Row(w)>>}
      BY <1>5, AppendFiles
    <3> HIDE DEF x
    <3>2. Untouched(f)
      BY <1>2, <2>2, <3>1
    <3>3. \A a \in acked' : <<a[1], a[2]>> = f => a \in acked
      BY <1>0, <2>2, <3>1
    <3> QED BY <3>2, <3>3
  <2> QED BY <2>1, <2>2
<1>6. ASSUME NEW g, NEW part, Remove(FilesOf(g) \ part), \A p \in part : <<p[1], p[2]>> \in contested'
      PROVE  /\ Untouched(f) \/ Gone(f)
             /\ acked' \subseteq acked
             /\ \A a \in acked' : <<a[1], a[2]>> = f =>
                  \A c \in Col : Place(f, c) \in DOMAIN files => Place(f, c) \in DOMAIN files'
  <2>1. \A p \in part : <<p[1], p[2]>> # f
    BY <1>6
  <2> QED BY <1>6, <2>1, RemoveRows
<1> QED BY <1>1, <1>3, <1>4, <1>5, <1>6, FileMoves

\* The row is in column c of folder f after the step.
HoldsNext(f, c, row) == Place(f, c) \in DOMAIN files' /\ row \in Range(files'[Place(f, c)])

LEMMA UntouchedHolds ==
  ASSUME NEW f, Untouched(f), NEW c \in Col, NEW row, Holds(f, c, row)
  PROVE  HoldsNext(f, c, row)
BY DEF Untouched, Holds, HoldsNext

\* An INSERT keeps the rows of its table, and adds its own to its column.
LEMMA AppendHolds ==
  ASSUME TypeInv, NEW w \in Worker, Step(w), th[w].pc = "append",
         Place(F(w), th[w].at) \in DOMAIN files
  PROVE  /\ \A c \in Col : \A row : Holds(F(w), c, row) => HoldsNext(F(w), c, row)
         /\ HoldsNext(F(w), th[w].at, Row(w))
         /\ \/ /\ th[w].at = NCols /\ th'[w].pc = "idle"
               /\ acked' = acked \cup {<<D(w), T(w), Row(w)>>}
            \/ /\ th[w].at # NCols /\ th'[w].pc = "append"
               /\ th'[w].at = th[w].at + 1 /\ acked' = acked
<1> DEFINE path == Place(F(w), th[w].at)
<1>1. /\ path \in DOMAIN files /\ DOMAIN files' = DOMAIN files
      /\ \A p \in DOMAIN files : p # path => files'[p] = files[p]
      /\ files[path] \in Seq(Rows) /\ files'[path] = Append(files[path], Row(w))
      /\ Len(files[path]) \in Nat /\ Len(files'[path]) = Len(files[path]) + 1
      /\ files'[path][Len(files'[path])] = Row(w) /\ files'[path] # <<>>
      /\ \A i \in 1 .. Len(files[path]) : files'[path][i] = files[path][i]
      /\ \/ /\ th[w].at = NCols /\ th'[w].pc = "idle"
            /\ acked' = acked \cup {<<D(w), T(w), Row(w)>>}
         \/ /\ th[w].at # NCols /\ th'[w].pc = "append"
            /\ th'[w].at = th[w].at + 1 /\ acked' = acked
  BY AppendStep
<1> HIDE DEF path
<1>2. Row(w) \in Rows
  BY Running
<1>3. DOMAIN files[path] = 1 .. Len(files[path]) /\ DOMAIN files'[path] = 1 .. Len(files[path]) + 1
  BY <1>1, <1>2
<1>4. Range(files[path]) \subseteq Range(files'[path])
  BY <1>1, <1>3 DEF Range
<1>5. Row(w) \in Range(files'[path])
  BY <1>1, <1>3 DEF Range
<1>6. ASSUME NEW c \in Col, NEW row, Holds(F(w), c, row)
      PROVE  HoldsNext(F(w), c, row)
  BY <1>1, <1>4, <1>6 DEF Holds, HoldsNext
<1>7. HoldsNext(F(w), th[w].at, Row(w))
  BY <1>1, <1>5 DEF path, HoldsNext
<1> QED BY <1>1, <1>6, <1>7

\* The rows reported stay, and the last column completes the row of an INSERT.
LEMMA ReportedStep ==
  ASSUME TypeInv, Reported, NEW w \in Worker, Filed(w), Step(w)
  PROVE  Reported'
<1>0. acked \subseteq Db \X Table \X Rows /\ F(w) \in Db \X Table /\ F(w) = <<D(w), T(w)>>
  BY Frame, Running DEF TypeInv, RestOK, F
<1>1. contested \subseteq contested'
  BY FileMoves
<1> SUFFICES ASSUME NEW a \in acked', <<a[1], a[2]>> \notin contested', NEW c \in Col
             PROVE  HoldsNext(<<a[1], a[2]>>, c, a[3])
  BY DEF Reported, Holds, HoldsNext, Place
<1> DEFINE f == <<a[1], a[2]>>
<1>2. a \in acked => f \in Db \X Table /\ \A d \in Col : Holds(f, d, a[3])
  BY <1>0, <1>1 DEF Reported
<1>3. f = <<a[1], a[2]>> /\ f \notin contested'
  OBVIOUS
<1> HIDE DEF f
<1>4. CASE th[w].pc = "append" /\ f = F(w) /\ Place(f, th[w].at) \in DOMAIN files
  <2>1. CASE a \in acked
    BY <1>2, <1>3, <1>4, <2>1, AppendHolds
  <2>2. CASE a \notin acked
    <3>1. th[w].at = NCols /\ a = <<D(w), T(w), Row(w)>>
      BY <1>4, <2>2, AppendHolds
    <3>2. a[3] = Row(w) /\ th[w].at \in Col
      BY <3>1, Columns
    <3>3. CASE c = NCols
      BY <1>3, <1>4, <3>1, <3>2, <3>3, AppendHolds
    <3>4. CASE c # NCols
      <4>1. c \in 1 .. th[w].at - 1
        BY <3>1, <3>4, Columns
      <4>2. F(w) \notin contested
        BY <1>1, <1>3, <1>4
      <4>3. Holds(F(w), c, Row(w))
        BY <1>4, <3>2, <4>1, <4>2 DEF Filed
      <4> QED BY <1>3, <1>4, <3>2, <4>3, AppendHolds
    <3> QED BY <3>3, <3>4
  <2> QED BY <2>1, <2>2
<1>5. ASSUME a \in acked  PROVE HoldsNext(f, c, a[3])
  <2>1. f \in Db \X Table /\ Holds(f, c, a[3]) /\ Place(f, c) \in DOMAIN files
    BY <1>2, <1>5 DEF Holds
  <2>2. CASE Untouched(f)
    BY <2>1, <2>2, UntouchedHolds
  <2>3. CASE Gone(f) /\ Place(f, c) \in DOMAIN files'
    BY <2>3 DEF Gone
  <2>4. CASE /\ th[w].pc = "make_column" /\ f = F(w) /\ f \notin InUse(w)
             /\ files' = Put(Place(f, th[w].at), <<>>)
    <3> DEFINE q == Place(f, th[w].at)
    <3>1. NewColumn(w) = q
      BY <2>4, PlaceAt DEF NewColumn
    <3>2. q \in DOMAIN files => files[q] = <<>>
      BY <1>0, <2>4, <3>1 DEF InUse
    <3>3. a[3] \notin Range(<<>>)
      BY DEF Range
    <3>4. Place(f, c) # q
      BY <2>1, <3>2, <3>3 DEF Holds
    <3>5. /\ DOMAIN files' = DOMAIN files \cup {q}
          /\ \A p \in DOMAIN files : p # q => files'[p] = files[p]
      BY <2>4, PutFiles
    <3> HIDE DEF q
    <3> QED BY <2>1, <3>4, <3>5 DEF Holds, HoldsNext
  <2> QED BY <1>3, <1>4, <2>1, <2>2, <2>3, <2>4, RowsMove
<1>6. ASSUME a \notin acked  PROVE th[w].pc = "append" /\ f = F(w) /\ Place(f, th[w].at) \in DOMAIN files
  <2>1. CASE acked' \subseteq acked
    BY <1>6, <2>1
  <2>2. CASE th[w].pc = "append" /\ Place(F(w), th[w].at) \in DOMAIN files
    <3>1. a = <<D(w), T(w), Row(w)>>
      BY <1>6, <2>2, AppendHolds
    <3> QED BY <1>0, <1>3, <2>2, <3>1
  <2>3. ASSUME NEW g, NEW part, Remove(FilesOf(g) \ part)  PROVE acked' \subseteq acked
    BY <2>3 DEF Remove, Forget
  <2> QED BY <2>1, <2>2, <2>3, FileMoves
<1> QED BY <1>3, <1>4, <1>5, <1>6

\* A step of another statement leaves an INSERT its row, or no column at all.
LEMMA FiledStay ==
  ASSUME TypeInv, NEW w \in Worker, Step(w), NEW v \in Worker, v # w, Filed(v)
  PROVE  Filed(v)'
<1>1. th'[v] = th[v] /\ F(v)' = F(v) /\ Row(v)' = Row(v)
  BY Still
<1>2. SUFFICES ASSUME th[v].pc = "append", F(v) \notin contested'
               PROVE  Filed(v)'
  BY <1>1 DEF Filed
<1>3. F(v) \in Db \X Table /\ 1 .. th[v].at - 1 \subseteq Col
  <2>1. th[v] \in Thread /\ NCols \in Nat
    BY Running, Columns, <1>2
  <2> QED BY <1>2, <2>1, Running DEF F, Thread, Col
<1>4. F(v) \notin contested
  BY <1>2, FileMoves
<1>5. \/ \A c \in Col : Place(F(v), c) \notin DOMAIN files
      \/ \A c \in 1 .. th[v].at - 1 : Holds(F(v), c, Row(v))
  BY <1>2, <1>4 DEF Filed
<1>6. \/ Gone(F(v))
      \/ \A c \in 1 .. th[v].at - 1 : HoldsNext(F(v), c, Row(v))
  <2>1. CASE Untouched(F(v))
    <3>1. CASE \A c \in Col : Place(F(v), c) \notin DOMAIN files
      BY <2>1, <3>1 DEF Untouched, Gone
    <3>2. CASE \A c \in 1 .. th[v].at - 1 : Holds(F(v), c, Row(v))
      BY <1>3, <2>1, <3>2, UntouchedHolds
    <3> QED BY <1>5, <3>1, <3>2
  <2>2. CASE th[w].pc = "append" /\ F(v) = F(w) /\ Place(F(v), th[w].at) \in DOMAIN files
    <3>1. th[w].at \in Col
      BY <2>2, Running DEF Proper
    <3>2. \A c \in 1 .. th[v].at - 1 : Holds(F(v), c, Row(v))
      BY <1>5, <2>2, <3>1
    <3> QED BY <1>3, <2>2, <3>2, AppendHolds
  <2>3. ~(F(v) = F(w) /\ F(v) \notin InUse(w))
    BY <1>2 DEF InUse, F
  <2> QED BY <1>2, <1>3, <2>1, <2>2, <2>3, RowsMove
<1> QED BY <1>1, <1>6 DEF Filed, Gone, HoldsNext, Holds, Place

LEMMA FiledMove ==
  ASSUME TypeInv, NEW w \in Worker, Step(w), Filed(w)
  PROVE  Filed(w)'
<1>1. SUFFICES ASSUME th'[w].pc = "append", F(w)' \notin contested'  PROVE Filed(w)'
  BY DEF Filed
<1>2. th[w].pc # "idle" /\ F(w)' = F(w) /\ Row(w)' = Row(w) /\ Reached(th[w].pc, th'[w].pc)
  BY <1>1, Moves, NamesKept, Frame
<1>3. CASE th[w].pc = "append"
  <2>1. F(w) \notin contested
    BY <1>1, <1>2, FileMoves
  <2>2. Place(F(w), th[w].at) \in DOMAIN files
    BY <1>1, <1>3, AppendFiles
  <2>3. th[w].at \in Col /\ th'[w].at = th[w].at + 1
    BY <1>1, <1>3, <2>2, AppendHolds, Running DEF Proper
  <2>4. \A c \in 1 .. th[w].at - 1 : Holds(F(w), c, Row(w))
    BY <1>3, <2>1, <2>2, <2>3 DEF Filed
  <2>5. \A c \in 1 .. th'[w].at - 1 : HoldsNext(F(w), c, Row(w))
    <3>1. \A c \in 1 .. th'[w].at - 1 : c \in Col /\ (c = th[w].at \/ c \in 1 .. th[w].at - 1)
      BY <2>3, Columns
    <3> QED BY <1>3, <2>2, <2>4, <3>1, AppendHolds
  <2> QED BY <1>2, <2>5 DEF Filed, HoldsNext, Holds, Place
<1>4. CASE th[w].pc # "append"
  <2>1. th[w].pc = "lock_table"
    BY <1>1, <1>2, <1>4 DEF Reached
  <2>2. th'[w].at = 1
    <3>1. LockTable(w) /\ th[w] \in Thread /\ Proper(w, th[w]) /\ th \in [Worker -> Thread]
      BY <2>1, StepAt, Running DEF TypeInv, ThreadsOK
    <3>2. th'[w].at = th[w].at
      BY <3>1 DEF LockTable, Goto, Thread
    <3>3. th'[w].pc = IF Op(w) = "delete_table" THEN "remove_table"
                      ELSE IF Op(w) = "insert" THEN "append" ELSE "read"
      BY <3>1 DEF LockTable, Goto, Thread
    <3>4. th[w].s.op = "insert"
      BY <1>1, <3>3 DEF Op
    <3>5. th[w].at = 1
      BY <2>1, <3>1, <3>4 DEF Proper
    <3> QED BY <3>2, <3>5
  <2>3. 1 .. th'[w].at - 1 = {}
    BY <2>2
  <2> QED BY <2>3 DEF Filed
<1> QED BY <1>3, <1>4

LEMMA WrittenStay ==
  ASSUME TypeInv, OneRewriter, Pointers, Locks, Folders, NEW w \in Worker, Created(w), Held(w),
         Step(w), NEW v \in Worker, v # w, Held(v), Written(v)
  PROVE  Written(v)'
<1>1. th'[v] = th[v] /\ F(v)' = F(v) /\ Row(v)' = Row(v)
  BY Still
<1>2. CASE th[v].pc = "append"
  <2>1. \A c \in Col : /\ Place(F(v), c) \in DOMAIN files' <=> Place(F(v), c) \in DOMAIN files
                       /\ Place(F(v), c) \in DOMAIN files => files'[Place(F(v), c)] = files[Place(F(v), c)]
    BY <1>2, Undisturbed DEF Same
  <2>2. 1 .. th[v].at - 1 \subseteq Col
    BY Columns
  <2> QED BY <1>1, <1>2, <2>1, <2>2 DEF Written
<1>3. CASE th[v].pc # "append"
  BY <1>1, <1>3 DEF Written
<1> QED BY <1>2, <1>3

\* An INSERT starts with the first column.
LEMMA FirstColumn ==
  ASSUME TypeInv, NEW w \in Worker, Step(w), th[w].pc = "lock_table", th'[w].pc = "append"
  PROVE  th'[w].at = 1 /\ Op(w) = "insert"
<1>1. th'[w].at = th[w].at
  BY Moves
<1>2. Op(w) \in {"insert", "delete_table", "show_column", "show_data"}
  BY DEF TypeInv, ThreadsOK, Proper, OpsAt, Op, Shows, Creation
<1>3. LockTable(w)
  BY StepAt
<1>4. \E l : Goto(w, l) /\ (l = "append" => Op(w) = "insert")
  BY <1>2, <1>3 DEF LockTable
<1>5. Op(w) = "insert"
  BY <1>4 DEF Goto, TypeInv, ThreadsOK, Thread
<1> QED BY <1>1, <1>5 DEF TypeInv, ThreadsOK, Proper, Op

LEMMA WrittenMove ==
  ASSUME TypeInv, OneRewriter, NEW w \in Worker, Step(w), Written(w)
  PROVE  Written(w)'
<1>1. SUFFICES ASSUME th'[w].pc = "append"  PROVE Written(w)'
  BY DEF Written
<1>2. /\ th[w].pc \in {"lock_table", "append"} /\ F(w)' = F(w) /\ Row(w)' = Row(w)
      /\ F(w) \in Db \X Table
  BY <1>1, Moves, NamesKept, Frame, Running DEF Reached, F
<1>3. CASE th[w].pc = "lock_table"
  <2>1. th'[w].at = 1
    BY <1>1, <1>3, FirstColumn
  <2> QED BY <2>1 DEF Written
<1>4. CASE th[w].pc = "append"
  <2> DEFINE at == th[w].at
             path == Place(F(w), at)
  <2>1. /\ DOMAIN files' = DOMAIN files /\ path \in DOMAIN files
        /\ \A p \in DOMAIN files : p # path => files'[p] = files[p]
        /\ files'[path][Len(files'[path])] = Row(w) /\ files'[path] # <<>>
        /\ th'[w].at = at + 1
    BY <1>1, <1>4, AppendStep
  <2>2. at \in 1 .. NCols + 1 /\ NCols \in Nat
    BY Columns
  <2>3. ASSUME NEW c \in 1 .. th'[w].at - 1
        PROVE  LET p == Place(F(w), c)
               IN  p \in DOMAIN files' /\ files'[p] # <<>> /\ files'[p][Len(files'[p])] = Row(w)
    <3>1. CASE c = at
      BY <2>1, <3>1
    <3>2. CASE c # at
      <4>1. c \in 1 .. at - 1
        BY <2>1, <2>2, <3>2
      <4>2. Place(F(w), c) # path
        BY <1>2, <3>2, Places
      <4>3. /\ Place(F(w), c) \in DOMAIN files /\ files[Place(F(w), c)] # <<>>
            /\ files[Place(F(w), c)][Len(files[Place(F(w), c)])] = Row(w)
        BY <1>4, <4>1 DEF Written
      <4>4. files'[Place(F(w), c)] = files[Place(F(w), c)]
        BY <2>1, <4>2, <4>3
      <4> QED BY <2>1, <4>3, <4>4
    <3> QED BY <3>1, <3>2
  <2> QED BY <1>2, <2>3 DEF Written
<1> QED BY <1>2, <1>3, <1>4

LEMMA CompleteStep ==
  ASSUME TypeInv, OneRewriter, Objects, Pointers, Folders, Complete, NEW w \in Worker, Created(w),
         Step(w), ~ub'
  PROVE  Complete'
<1>1. crashes' = crashes /\ up' /\ F(w) \in Db \X Table
  BY Frame, Running DEF F
<1>2. ASSUME crashes = 0, NEW f \in folders', tabs'[f] # Null, NEW c \in Col
      PROVE  Place(f, c) \in DOMAIN files'
  <2>1. f \in Db \X Table
    <3>1. folders' \subseteq folders \cup {F(w)}
      <4>1. th[w].pc = "make_folder" => folders' \subseteq folders \cup {F(w)}
        BY StepAt DEF MakeFolder, F
      <4>2. th[w].pc = "remove_db" => folders' \subseteq folders
        BY FileStep DEF Emptied, disk
      <4>3. th[w].pc = "remove_table" => folders' \subseteq folders
        BY FileStep DEF Emptied
      <4> QED BY <4>1, <4>2, <4>3, Frame
    <3> QED BY <1>1, <1>2, <3>1 DEF TypeInv, DiskOK
  <2>2. Place(f, c) \in DOMAIN files => Place(f, c) \in DOMAIN files'
    <3>1. CASE Same(f)
      BY <3>1 DEF Same
    <3>2. CASE \E n, x : files' = Put(Place(f, n), x)
      BY <3>2, PutFiles
    <3>3. Same(f) \/ \E n, x : files' = Put(Place(f, n), x)
      BY <1>2, <2>1, FolderStep
    <3> QED BY <3>1, <3>2, <3>3
  <2>3. CASE tabs[f] # Null /\ f \in folders
    BY <1>2, <2>2, <2>3 DEF Complete
  <2>4. CASE f \notin folders
    <3>1. th[w].pc = "make_folder" /\ f = F(w)
      <4>1. th[w].pc = "make_folder" => folders' \subseteq folders \cup {F(w)}
        BY StepAt DEF MakeFolder, F
      <4>2. th[w].pc = "remove_db" => folders' \subseteq folders
        BY FileStep DEF Emptied, disk
      <4>3. th[w].pc = "remove_table" => folders' \subseteq folders
        BY FileStep DEF Emptied
      <4> QED BY <1>2, <2>4, <4>1, <4>2, <4>3, Frame
    <3>2. tabs' = tabs
      BY <3>1, Frame, SameTabs
    <3> QED BY <1>2, <3>1, <3>2 DEF Created, Creation
  <2>5. CASE tabs[f] = Null
    <3>1. th[w].pc = "link_table" /\ f = F(w)
      <4>1. Linked(w) => \A g \in Db \X Table : g # F(w) => tabs'[g] = tabs[g]
        BY TabsType DEF Linked
      <4>2. TableErased(w) => \A g \in Db \X Table : tabs'[g] \in {tabs[g], Null}
        BY TabsType DEF TableErased
      <4>3. DatabaseErased(w) => \A g \in Db \X Table : tabs'[g] \in {tabs[g], Null}
        BY TabsType DEF DatabaseErased
      <4> QED BY <1>2, <2>1, <2>5, <4>1, <4>2, <4>3, ListStep DEF Added
    <3> QED BY <2>2, <3>1 DEF Created, Creation
  <2> QED BY <2>3, <2>4, <2>5
<1> QED BY <1>1, <1>2 DEF Complete

\* Two columns of a table that an INSERT does not hold are equal.
LEMMA AlignedAt ==
  ASSUME TypeInv, RowsAligned, ~ub, crashes = 0, NEW f \in Db \X Table, NEW b \in Col, NEW c \in Col,
         Place(f, b) \in DOMAIN files, Place(f, c) \in DOMAIN files
  PROVE  \/ files[Place(f, b)] = files[Place(f, c)]
         \/ \E v \in Worker : th[v].pc = "append" /\ F(v) = f
<1>1. \A n : Place(f, n)[1] = f[1] /\ Place(f, n)[2] = f[2] /\ Place(f, n)[3] = n
  BY DEF Place
<1>2. Info \notin {b, c}
  BY Columns
<1>3. \A v : D(v) = f[1] /\ T(v) = f[2] => F(v) = f
  BY DEF F
<1>4. \/ files[Place(f, b)] = files[Place(f, c)]
      \/ \E v \in Worker : th[v].pc = "append" /\ D(v) = f[1] /\ T(v) = f[2]
  BY <1>1, <1>2 DEF RowsAligned
<1> QED BY <1>3, <1>4

\* Two statements do not hold one table.
LEMMA OneHolder ==
  ASSUME TypeInv, Pointers, Locks, NEW v \in Worker, NEW w \in Worker, Held(v), Held(w),
         th[v].pc \in {"append", "read", "remove_table"}, th[w].pc \in {"append", "read", "remove_table"},
         F(v) = F(w)
  PROVE  v = w
<1>1. <<th[v].tb, v>> \in excl /\ <<th[w].tb, w>> \in excl /\ th[v].tb = th[w].tb
  BY LockedTable
<1> QED BY <1>1 DEF Locks

\* As long as no process died, an INSERT finds the columns it appends to.
LEMMA PathThere ==
  ASSUME TypeInv, Pointers, Locks, Folders, Complete, crashes = 0, NEW w \in Worker, Held(w),
         th[w].pc = "append", NEW b \in Col, Place(F(w), b) \in DOMAIN files, NEW c \in Col
  PROVE  Place(F(w), c) \in DOMAIN files
<1>1. tabs[F(w)] # Null /\ F(w) \in Db \X Table
  BY LockedTable
<1>2. F(w) \in folders
  BY <1>1, Places DEF Folders
<1> QED BY <1>1, <1>2 DEF Complete

LEMMA RowsAlignedStep ==
  ASSUME TypeInv, TypeInv', OneRewriter, ~ub, Objects, Pointers, Locks, Folders, Complete, RowsAligned,
         NEW w \in Worker, Held(w), Created(w), Level(w), Step(w), ~ub'
  PROVE  RowsAligned'
<1> SUFFICES ASSUME crashes = 0, NEW f \in Db \X Table, NEW b \in Col, NEW c \in Col,
                    Place(f, b) \in DOMAIN files', Place(f, c) \in DOMAIN files'
             PROVE  \/ files'[Place(f, b)] = files'[Place(f, c)]
                    \/ \E v \in Worker : th'[v].pc = "append" /\ F(v)' = f
  <2>1. crashes' = crashes
    BY Frame
  <2>2. SUFFICES ASSUME crashes = 0, NEW p \in DOMAIN files', NEW q \in DOMAIN files',
                        p[1] = q[1], p[2] = q[2], Info \notin {p[3], q[3]}
                 PROVE  \/ files'[p] = files'[q]
                        \/ \E v \in Worker : th'[v].pc = "append" /\ D(v)' = p[1] /\ T(v)' = p[2]
    BY <2>1 DEF RowsAligned
  <2> DEFINE f == <<p[1], p[2]>>
  <2>3. p \in Path /\ q \in Path
    BY DEF TypeInv, DiskOK
  <2>4. f \in Db \X Table /\ p = Place(f, p[3]) /\ q = Place(f, q[3]) /\ p[3] \in Col /\ q[3] \in Col
    BY <2>2, <2>3, Places
  <2>5. \A v : F(v)' = f => D(v)' = p[1] /\ T(v)' = p[2]
    BY DEF F
  <2> HIDE DEF f
  <2> QED BY <2>2, <2>4, <2>5
<1> DEFINE p == Place(f, b)
           q == Place(f, c)
           Busy(v) == th[v].pc = "append" /\ F(v) = f
<1>1. ASSUME NEW v \in Worker, v # w, Busy(v)
      PROVE  th'[v].pc = "append" /\ F(v)' = f
  BY <1>1, Still
<1>2. CASE Same(f)
  <2>1. /\ p \in DOMAIN files /\ q \in DOMAIN files
        /\ files'[p] = files[p] /\ files'[q] = files[q]
    BY <1>2 DEF Same
  <2>2. CASE files[p] = files[q]
    BY <2>1, <2>2
  <2>3. CASE \E v \in Worker : Busy(v)
    <3>1. ~Busy(w)
      <4> SUFFICES ASSUME Busy(w)  PROVE FALSE
        OBVIOUS
      <4> DEFINE path == Place(F(w), th[w].at)
      <4>1. th[w].at \in Col
        BY Columns
      <4>2. path \in DOMAIN files
        BY <2>1, <4>1, PathThere
      <4>3. Len(files'[path]) = Len(files[path]) + 1 /\ Len(files[path]) \in Nat
        BY <4>2, AppendStep
      <4>4. files'[path] = files[path]
        BY <1>2, <4>1, <4>2 DEF Same
      <4> QED BY <4>3, <4>4
    <3> QED BY <1>1, <2>3, <3>1
  <2> QED BY <2>1, <2>2, <2>3, AlignedAt
<1>3. CASE f = F(w) /\ th[w].pc = "write_info" /\ files' = Put(Place(f, Info), Layout)
  <2>1. p # Place(f, Info) /\ q # Place(f, Info)
    BY Places, Columns
  <2>2. /\ p \in DOMAIN files /\ q \in DOMAIN files
        /\ files'[p] = files[p] /\ files'[q] = files[q]
    <3> DEFINE i == Place(f, Info)
    <3>1. /\ DOMAIN files' = DOMAIN files \cup {i}
          /\ \A r \in DOMAIN files : r # i => files'[r] = files[r]
      BY <1>3, PutFiles
    <3> QED BY <2>1, <3>1
  <2>3. ~Busy(w)
    BY <1>3
  <2> QED BY <1>1, <2>2, <2>3, AlignedAt
<1>4. CASE f = F(w) /\ th[w].pc = "make_column" /\ files' = Put(Place(f, th[w].at), <<>>)
  <2>1. \A n \in Col : Place(f, n) \in DOMAIN files => files[Place(f, n)] = <<>>
    BY <1>4 DEF Created, Creation
  <2> DEFINE path == Place(f, th[w].at)
  <2>2. /\ DOMAIN files' = DOMAIN files \cup {path} /\ files'[path] = <<>>
        /\ \A r \in DOMAIN files : r # path => files'[r] = files[r]
    BY <1>4, PutFiles
  <2>3. \A n \in Col : Place(f, n) \in DOMAIN files' => files'[Place(f, n)] = <<>>
    BY <2>1, <2>2
  <2> QED BY <2>3
<1>5. CASE f = F(w) /\ th[w].pc = "append" /\ Place(f, th[w].at) \in DOMAIN files
  <2> DEFINE at == th[w].at
             path == Place(f, at)
  <2>1. /\ DOMAIN files' = DOMAIN files
        /\ \A r \in DOMAIN files : r # path => files'[r] = files[r]
        /\ files'[path] = Append(files[path], Row(w))
        /\ at = NCols \/ th'[w].pc = "append"
    BY <1>5, AppendStep
  <2>2. CASE th'[w].pc = "append"
    BY <1>5, <2>2, NamesKept
  <2>3. CASE at = NCols
    <3>1. ASSUME NEW n \in Col, Place(f, n) \in DOMAIN files
          PROVE  files'[Place(f, n)] = Append(files[path], Row(w))
      <4>1. CASE n = at
        BY <2>1, <4>1
      <4>2. CASE n # at
        <5>1. n < at /\ at \in Col /\ at >= at
          BY <2>3, <4>2, Columns
        <5>2. files[Place(f, n)] = Append(files[path], Row(w))
          BY <1>5, <3>1, <5>1 DEF Level
        <5>3. Place(f, n) # path
          BY <4>2, Places
        <5> QED BY <2>1, <3>1, <5>2, <5>3
      <4> QED BY <4>1, <4>2
    <3> QED BY <2>1, <3>1
  <2> QED BY <2>1, <2>2, <2>3
<1> QED BY <1>2, <1>3, <1>4, <1>5, FolderStep

LEMMA LevelStay ==
  ASSUME TypeInv, OneRewriter, Pointers, Locks, Folders, NEW w \in Worker, Created(w), Held(w),
         Step(w), NEW v \in Worker, v # w, Held(v), Level(v)
  PROVE  Level(v)'
<1>1. th'[v] = th[v] /\ F(v)' = F(v) /\ Row(v)' = Row(v) /\ crashes' = crashes
  BY Still, Frame
<1>2. CASE th[v].pc = "append"
  <2>1. \A c \in Col : /\ Place(F(v), c) \in DOMAIN files' <=> Place(F(v), c) \in DOMAIN files
                       /\ Place(F(v), c) \in DOMAIN files => files'[Place(F(v), c)] = files[Place(F(v), c)]
    BY <1>2, Undisturbed DEF Same
  <2> QED BY <1>1, <1>2, <2>1 DEF Level
<1>3. CASE th[v].pc # "append"
  BY <1>1, <1>3 DEF Level
<1> QED BY <1>2, <1>3

\* A statement that has just locked its table is the only one at its files.
LEMMA FirstHolder ==
  ASSUME TypeInv, Pointers, Locks, NEW w \in Worker, Step(w), ~ub', th[w].pc = "lock_table",
         NEW v \in Worker, Held(v), th[v].pc = "append"
  PROVE  F(v) # F(w)
<1>1. th[w].tb \in live /\ \A p \in excl \cup shar : p[1] # th[w].tb
  BY StepAt DEF LockTable, TableLock, LockUnique, Use
<1>2. tabs[F(w)] = th[w].tb
  BY <1>1, TabsType DEF Pointers, TablePointer
<1>3. <<th[v].tb, v>> \in excl /\ tabs[F(v)] = th[v].tb
  BY LockedTable
<1> QED BY <1>1, <1>2, <1>3

LEMMA LevelMove ==
  ASSUME TypeInv, OneRewriter, ~ub, Pointers, Locks, RowsAligned, NEW w \in Worker,
         \A v \in Worker : Held(v), Level(w), Step(w), ~ub'
  PROVE  Level(w)'
<1>1. SUFFICES ASSUME th'[w].pc = "append", crashes = 0  PROVE Level(w)'
  BY Frame DEF Level
<1>2. /\ th[w].pc \in {"lock_table", "append"} /\ F(w)' = F(w) /\ Row(w)' = Row(w)
      /\ F(w) \in Db \X Table
  BY <1>1, Moves, NamesKept, Frame, Running DEF Reached, F
<1> DEFINE P(c) == Place(F(w), c)
<1>3. SUFFICES ASSUME NEW b \in Col, NEW c \in Col, P(b) \in DOMAIN files', P(c) \in DOMAIN files'
               PROVE  /\ (b < th'[w].at <=> c < th'[w].at) => files'[P(b)] = files'[P(c)]
                      /\ b < th'[w].at /\ c >= th'[w].at => files'[P(b)] = Append(files'[P(c)], Row(w))
  BY <1>2 DEF Level
<1>4. CASE th[w].pc = "lock_table"
  <2>1. th'[w].at = 1 /\ files' = files
    BY <1>1, <1>4, FirstColumn, Frame
  <2>2. files[P(b)] = files[P(c)]
    BY <1>1, <1>2, <1>3, <1>4, <2>1, AlignedAt, FirstHolder
  <2>3. ~(b < 1)
    BY Columns
  <2> QED BY <2>1, <2>2, <2>3
<1>5. CASE th[w].pc = "append"
  <2> DEFINE at == th[w].at
             path == P(at)
  <2>1. /\ DOMAIN files' = DOMAIN files /\ path \in DOMAIN files
        /\ \A r \in DOMAIN files : r # path => files'[r] = files[r]
        /\ files'[path] = Append(files[path], Row(w))
        /\ th'[w].at = at + 1
    BY <1>1, <1>5, AppendStep
  <2>2. at \in Col /\ Col = 1 .. NCols /\ NCols \in Nat
    BY <1>5, Columns
  <2>3. \A n \in Col : P(n) \in DOMAIN files => files'[P(n)] = IF n = at THEN Append(files[path], Row(w))
                                                              ELSE files[P(n)]
    <3>1. \A n : P(n) = path <=> n = at
      BY <1>2, Places
    <3> QED BY <2>1, <3>1
  <2>4. \A m, n \in Col : P(m) \in DOMAIN files /\ P(n) \in DOMAIN files =>
          /\ (m < at <=> n < at) => files[P(m)] = files[P(n)]
          /\ m < at /\ n >= at => files[P(m)] = Append(files[P(n)], Row(w))
    BY <1>1, <1>5 DEF Level
  <2> DEFINE x(n) == files[P(n)]
             y(n) == files'[P(n)]
             longer == Append(files[path], Row(w))
  <2>5. \A n \in Col : P(n) \in DOMAIN files => /\ n < at + 1 => y(n) = longer
                                                /\ n >= at + 1 => y(n) = x(n) /\ x(n) = x(at)
    <3> SUFFICES ASSUME NEW n \in Col, P(n) \in DOMAIN files
                 PROVE  /\ n < at + 1 => y(n) = longer
                        /\ n >= at + 1 => y(n) = x(n) /\ x(n) = x(at)
      OBVIOUS
    <3>1. CASE n < at
      <4>1. x(n) = longer
        BY <2>1, <2>2, <2>4, <3>1
      <4> QED BY <2>2, <2>3, <3>1, <4>1
    <3>2. CASE n = at
      <4>1. y(n) = longer
        BY <2>3, <3>2
      <4>2. ~(n >= at + 1)
        BY <2>2, <3>2
      <4> QED BY <4>1, <4>2
    <3>3. CASE n > at
      <4>1. x(n) = x(at)
        BY <2>1, <2>2, <2>4, <3>3
      <4> QED BY <2>2, <2>3, <3>3, <4>1
    <3> QED BY <2>2, <3>1, <3>2, <3>3
  <2>6. /\ b < at + 1 => y(b) = longer
        /\ b >= at + 1 => y(b) = x(at)
        /\ c < at + 1 => y(c) = longer
        /\ c >= at + 1 => y(c) = x(at)
    BY <1>3, <2>1, <2>5
  <2>7. longer = Append(x(at), Row(w))
    OBVIOUS
  <2> HIDE DEF x, y, longer
  <2>8. /\ (b < at + 1 <=> c < at + 1) => y(b) = y(c)
        /\ b < at + 1 /\ c >= at + 1 => y(b) = Append(y(c), Row(w))
    BY <2>2, <2>6, <2>7
  <2> QED BY <2>1, <2>8 DEF y
<1> QED BY <1>2, <1>4, <1>5

\* What ColumnsInStep says of an earlier column x and a later column y.
Contains(x, y) ==
    \A m, n \in DOMAIN y : m <= n =>
      \E k, l \in DOMAIN x : k <= l /\ x[k] = y[m] /\ x[l] = y[n]

\* A row that is at the end of the earlier column may follow in the later one.
LEMMA ContainsLater ==
  ASSUME NEW S, NEW x \in Seq(S), NEW y \in Seq(S), NEW r \in S, Contains(x, y), x # <<>>, x[Len(x)] = r
  PROVE  Contains(x, Append(y, r))
<1> DEFINE z == Append(y, r)
<1>1. /\ Len(x) \in Nat /\ Len(y) \in Nat /\ Len(x) \in DOMAIN x
      /\ DOMAIN x = 1 .. Len(x) /\ DOMAIN y = 1 .. Len(y) /\ DOMAIN z = 1 .. Len(y) + 1
      /\ z[Len(y) + 1] = r /\ \A i \in DOMAIN y : z[i] = y[i]
  OBVIOUS
<1> HIDE DEF z
<1>2. ASSUME NEW m \in DOMAIN z, NEW n \in DOMAIN z, m <= n
      PROVE  \E k, l \in DOMAIN x : k <= l /\ x[k] = z[m] /\ x[l] = z[n]
  <2>1. CASE n \in DOMAIN y
    <3>1. m \in DOMAIN y /\ z[m] = y[m] /\ z[n] = y[n]
      BY <1>1, <1>2, <2>1
    <3> QED BY <1>2, <2>1, <3>1 DEF Contains
  <2>2. CASE n = Len(y) + 1 /\ m \in DOMAIN y
    <3>1. PICK k \in DOMAIN x : x[k] = y[m]
      <4>1. m <= m
        BY <1>1, <2>2
      <4> QED BY <2>2, <4>1 DEF Contains
    <3>2. k <= Len(x) /\ x[k] = z[m] /\ x[Len(x)] = z[n]
      BY <1>1, <2>2, <3>1
    <3> QED BY <1>1, <3>2
  <2>3. CASE m = Len(y) + 1
    <3>1. n = Len(y) + 1
      BY <1>1, <1>2, <2>3
    <3>2. Len(x) <= Len(x) /\ x[Len(x)] = z[m] /\ x[Len(x)] = z[n]
      BY <1>1, <2>3, <3>1
    <3> QED BY <1>1, <3>2
  <2> QED BY <1>1, <2>1, <2>2, <2>3
<1> QED BY <1>2 DEF Contains, z

LEMMA ContainsEarlier ==
  ASSUME NEW S, NEW x \in Seq(S), NEW y \in Seq(S), NEW r \in S, Contains(x, y)
  PROVE  Contains(Append(x, r), y)
<1> DEFINE z == Append(x, r)
<1>1. /\ DOMAIN x \subseteq DOMAIN z /\ \A i \in DOMAIN x : z[i] = x[i]
  OBVIOUS
<1> HIDE DEF z
<1>2. Contains(z, y)
  BY <1>1 DEF Contains
<1> QED BY <1>2 DEF z

LEMMA ColumnsInStepStep ==
  ASSUME TypeInv, TypeInv', OneRewriter, ~ub, Pointers, Locks, Folders, ColumnsInStep,
         NEW w \in Worker, Created(w), Written(w), Step(w)
  PROVE  ColumnsInStep'
<1> DEFINE P(f, c) == Place(f, c)
<1> SUFFICES ASSUME NEW f \in Db \X Table, NEW b \in Col, NEW c \in Col, b < c,
                    P(f, b) \in DOMAIN files', P(f, c) \in DOMAIN files'
             PROVE  Contains(files'[P(f, b)], files'[P(f, c)])
  <2>1. SUFFICES ASSUME NEW p \in DOMAIN files', NEW q \in DOMAIN files',
                        p[1] = q[1], p[2] = q[2], Info < p[3], p[3] < q[3]
                 PROVE  Contains(files'[p], files'[q])
    BY DEF ColumnsInStep, Contains
  <2> DEFINE f == <<p[1], p[2]>>
  <2>2. p \in Path /\ q \in Path
    BY DEF TypeInv, DiskOK
  <2>3. f \in Db \X Table /\ p = P(f, p[3]) /\ q = P(f, q[3])
        /\ p[3] \in Col \cup {Info} /\ q[3] \in Col \cup {Info}
    BY <2>1, <2>2, Places
  <2>4. p[3] \in Col /\ q[3] \in Col
    BY <2>1, <2>3, Columns
  <2> HIDE DEF f, P
  <2> QED BY <2>1, <2>3, <2>4
<1> DEFINE p == P(f, b)
           q == P(f, c)
<1>1. p \in DOMAIN files /\ q \in DOMAIN files => Contains(files[p], files[q])
  <2>1. /\ p[1] = f[1] /\ p[2] = f[2] /\ p[3] = b
        /\ q[1] = f[1] /\ q[2] = f[2] /\ q[3] = c
    BY DEF Place
  <2>2. Info < b
    BY Columns
  <2> HIDE DEF p, q
  <2> QED BY <2>1, <2>2 DEF ColumnsInStep, Contains
<1>2. CASE Same(f)
  <2>1. /\ p \in DOMAIN files /\ q \in DOMAIN files
        /\ files'[p] = files[p] /\ files'[q] = files[q]
    BY <1>2 DEF Same
  <2> QED BY <1>1, <2>1
<1>3. CASE f = F(w) /\ th[w].pc = "write_info" /\ files' = Put(P(f, Info), Layout)
  <2> DEFINE i == P(f, Info)
  <2>1. p # i /\ q # i
    BY Places, Columns
  <2>2. /\ DOMAIN files' = DOMAIN files \cup {i}
        /\ \A r \in DOMAIN files : r # i => files'[r] = files[r]
    BY <1>3, PutFiles
  <2> QED BY <1>1, <2>1, <2>2
<1>4. CASE f = F(w) /\ th[w].pc = "make_column" /\ files' = Put(P(f, th[w].at), <<>>)
  <2> DEFINE path == P(f, th[w].at)
  <2>1. /\ DOMAIN files' = DOMAIN files \cup {path} /\ files'[path] = <<>>
        /\ \A r \in DOMAIN files : r # path => files'[r] = files[r]
    BY <1>4, PutFiles
  <2>2. q \in DOMAIN files => files[q] = <<>>
    BY <1>4 DEF Created, Creation
  <2>3. files'[q] = <<>>
    BY <2>1, <2>2
  <2> QED BY <2>3 DEF Contains
<1>5. CASE f = F(w) /\ th[w].pc = "append" /\ P(f, th[w].at) \in DOMAIN files
  <2> DEFINE at == th[w].at
             path == P(f, at)
  <2>1. /\ DOMAIN files' = DOMAIN files
        /\ \A r \in DOMAIN files : r # path => files'[r] = files[r]
        /\ files'[path] = Append(files[path], Row(w))
    BY <1>5, AppendStep
  <2>2. files[p] \in Seq(Rows) /\ files[q] \in Seq(Rows) /\ Row(w) \in Rows /\ Contains(files[p], files[q])
    <3>1. Row(w) \in Rows
      BY <1>5, Running
    <3> QED BY <1>1, <2>1, <3>1, Columns
  <2>3. (p = path <=> b = at) /\ (q = path <=> c = at)
    BY Places
  <2>4. at \in 1 .. NCols + 1 /\ Col = 1 .. NCols /\ NCols \in Nat
    BY Columns
  <2>5. CASE b = at
    <3>1. files'[p] = Append(files[p], Row(w)) /\ files'[q] = files[q]
      BY <2>1, <2>3, <2>4, <2>5
    <3> QED BY <2>2, <3>1, ContainsEarlier
  <2>6. CASE c = at
    <3>1. files'[q] = Append(files[q], Row(w)) /\ files'[p] = files[p]
      BY <2>1, <2>3, <2>4, <2>6
    <3>2. b \in 1 .. at - 1
      BY <2>4, <2>6
    <3>3. files[p] # <<>> /\ files[p][Len(files[p])] = Row(w)
      BY <1>5, <3>2 DEF Written
    <3> QED BY <2>2, <3>1, <3>3, ContainsLater
  <2>7. CASE b # at /\ c # at
    BY <2>1, <2>2, <2>3, <2>7
  <2> QED BY <2>5, <2>6, <2>7
<1> QED BY <1>2, <1>3, <1>4, <1>5, FolderStep

-----------------------------------------------------------------------------
(* What a SHOW has seen. *)

\* A statement that shows a table goes from lock to read and back.
LEMMA ShowMoves ==
  ASSUME TypeInv, NEW w \in Worker, Step(w), th'[w].pc # "idle"
  PROVE  /\ Shown(w) => Shown(w)' /\ th[w].pc \in {"lock_table", "read"}
         /\ th[w].pc = "read" =>
              /\ Shown(w)
              /\ excl' = excl \ {<<th[w].tb, w>>}
              /\ \E c \in Col :
                   LET path == Place(F(w), c)
                       rows == IF path \in DOMAIN files THEN Len(files[path]) ELSE 0
                   IN  th'[w].seen = IF rows = 0 THEN th[w].seen ELSE Append(th[w].seen, rows)
<1>0. /\ th[w] \in Thread /\ Op(w) \in OpsAt(th[w].pc) /\ th \in [Worker -> Thread] /\ Op(w)' = Op(w)
      /\ ~End(w) /\ th[w].at \in 1 .. NCols + 1 /\ th[w].pc # "idle"
  BY Frame, EndThread, NamesKept DEF TypeInv, ThreadsOK, Proper, Op, Thread
<1>1. CASE th[w].pc = "read"
  <2>1. ReadColumn(w)
    BY <1>1, StepAt
  <2>2. Op(w) \in {"show_column", "show_data"}
    BY <1>0, <1>1 DEF OpsAt, Shows, Creation
  <2>3. PICK c \in IF Op(w) = "show_data" THEN {th[w].at} ELSE Col :
          LET path == <<D(w), T(w), c>>
              rows == IF path \in DOMAIN files THEN Len(files[path]) ELSE 0
              last == Op(w) # "show_data" \/ th[w].at = NCols
          IN  th' = [th EXCEPT ![w].at = IF last THEN th[w].at ELSE th[w].at + 1,
                               ![w].seen = IF rows = 0 THEN @ ELSE Append(@, rows),
                               ![w].pc = IF last THEN "show" ELSE "lock_table"]
    BY <2>1 DEF ReadColumn
  <2> DEFINE path == Place(F(w), c)
             rows == IF path \in DOMAIN files THEN Len(files[path]) ELSE 0
             more == IF rows = 0 THEN th[w].seen ELSE Append(th[w].seen, rows)
  <2>4. path = <<D(w), T(w), c>>
    BY PlaceAt
  <2>5. \E at, pc : pc \in {"show", "lock_table"} /\
          th' = [th EXCEPT ![w].at = at, ![w].seen = more, ![w].pc = pc]
    <3> HIDE DEF rows
    <3>1. rows = IF <<D(w), T(w), c>> \in DOMAIN files THEN Len(files[<<D(w), T(w), c>>]) ELSE 0
      BY <2>4 DEF rows
    <3> QED BY <2>3, <3>1
  <2> HIDE DEF more
  <2>6. PICK at, pc : /\ pc \in {"show", "lock_table"}
                      /\ th' = [th EXCEPT ![w].at = at, ![w].seen = more, ![w].pc = pc]
    BY <2>5
  <2>7. th'[w].seen = more /\ th'[w].pc \in {"show", "lock_table"}
    <3>1. th'[w] = [th[w] EXCEPT !.at = at, !.seen = more, !.pc = pc]
      BY <1>0, <2>6
    <3> QED BY <1>0, <2>6, <3>1 DEF Thread
  <2>8. c \in Col
    BY <1>1, <2>3, Columns
  <2>9. Shown(w) /\ Shown(w)'
    BY <1>0, <1>1, <2>2, <2>7 DEF Shown, Shows
  <2>a. excl' = excl \ {<<th[w].tb, w>>}
    BY <2>1 DEF ReadColumn
  <2> QED BY <1>1, <2>7, <2>8, <2>9, <2>a DEF more
<1>2. CASE th[w].pc = "lock_table"
  <2>1. Shown(w) => th'[w].pc = "read"
    <3>1. Shown(w) => Goto(w, "read")
      BY <1>2, StepAt DEF LockTable, Shown, Shows
    <3> QED BY <1>0, <3>1 DEF Goto, Thread
  <2> QED BY <1>0, <1>2, <2>1 DEF Shown
<1>3. CASE th[w].pc = "show"
  <2>1. Show(w)
    BY <1>3 DEF Step, At, MakeDatabase, CheckDatabase, AddDatabase, Names, LockDatabases,
          LockDatabase, LockTables, RemoveDatabase, EraseDatabase, GetTable, LockTable, RemoveTable,
          EraseTable, GetDatabase, CheckDir, CheckFolder, MakeFolder, WriteInfo, MakeColumn,
          FindSlot, LinkTable, ShareDatabase, FindTable, ShareTable, CheckValues, AppendColumn,
          ReadColumn, Show
  <2> QED BY <1>0, <2>1 DEF Show
<1>4. CASE th[w].pc \notin {"read", "lock_table", "show"}
  BY <1>4 DEF Shown
<1> QED BY <1>1, <1>2, <1>3, <1>4

LEMMA SeenStay ==
  ASSUME TypeInv, OneRewriter, Pointers, Locks, Folders, NEW w \in Worker, Created(w),
         Step(w), NEW v \in Worker, v # w, Held(v), Seen(v)
  PROVE  Seen(v)'
<1>1. th'[v] = th[v] /\ F(v)' = F(v) /\ Op(v)' = Op(v) /\ crashes' = crashes
  BY Still, Frame
<1>2. CASE th[v].seen = <<>>
  BY <1>1, <1>2 DEF Seen, Shown
<1>3. CASE th[v].seen # <<>>
  <2>1. Shown(v)
    BY <1>3 DEF Seen
  <2>2. F(v) \in Db \X Table /\ th[v].seen[1] \in Nat
    <3>1. th[v].pc # "idle" /\ th[v].seen \in Seq(Nat)
      BY <2>1 DEF Shown, TypeInv, ThreadsOK, Thread
    <3> QED BY <1>3, <3>1, Running DEF F
  <2>3. SUFFICES ASSUME crashes = 0, th[v].pc # "show", NEW c \in Col, Place(F(v), c) \in DOMAIN files'
                 PROVE  Len(files'[Place(F(v), c)]) >= th[v].seen[1]
    BY <1>1, <2>1 DEF Seen, Shown
  <2> DEFINE q == Place(F(v), c)
  <2>4. q \in DOMAIN files => Len(files[q]) >= th[v].seen[1]
    BY <1>3, <2>3 DEF Seen
  <2>5. CASE Same(F(v))
    <3>1. q \in DOMAIN files /\ files'[q] = files[q]
      BY <2>3, <2>5 DEF Same
    <3> QED BY <2>4, <3>1
  <2>6. CASE F(v) = F(w) /\ th[w].pc = "write_info" /\ files' = Put(Place(F(v), Info), Layout)
    <3> DEFINE i == Place(F(v), Info)
    <3>1. /\ DOMAIN files' = DOMAIN files \cup {i}
          /\ \A r \in DOMAIN files : r # i => files'[r] = files[r]
      BY <2>6, PutFiles
    <3>2. q # i
      BY <2>2, Places, Columns
    <3>3. q \in DOMAIN files /\ files'[q] = files[q]
      BY <2>3, <3>1, <3>2
    <3> QED BY <2>4, <3>3
  <2>7. CASE F(v) = F(w) /\ th[w].pc = "make_column"
    <3>1. <<th[v].db, v>> \in shar /\ th[v].tb # Null
      BY <2>1, <2>3 DEF Shown, Held, TypeInv, ThreadsOK, Proper, WithTable
    <3>2. tabs[F(v)] = th[v].tb
      BY <3>1 DEF Pointers, TablePointer
    <3> QED BY <2>7, <3>1, <3>2 DEF Created, Creation
  <2>8. CASE F(v) = F(w) /\ th[w].pc = "append" /\ Place(F(v), th[w].at) \in DOMAIN files
    <3> DEFINE path == Place(F(v), th[w].at)
    <3>1. /\ DOMAIN files' = DOMAIN files
          /\ \A r \in DOMAIN files : r # path => files'[r] = files[r]
          /\ Len(files'[path]) = Len(files[path]) + 1 /\ Len(files[path]) \in Nat
      BY <2>8, AppendStep
    <3>2. CASE q = path
      <4> HIDE DEF q, path
      <4> QED BY <2>2, <2>3, <2>4, <3>1, <3>2 DEF q
    <3>3. CASE q # path
      BY <2>3, <2>4, <3>1, <3>3
    <3> QED BY <3>2, <3>3
  <2>9. CASE \A n : Place(F(v), n) \notin DOMAIN files'
    BY <2>3, <2>9
  <2> QED BY <2>2, <2>5, <2>6, <2>7, <2>8, <2>9, FolderStep
<1> QED BY <1>2, <1>3

LEMMA SeenMove ==
  ASSUME TypeInv, TypeInv', ~ub, Pointers, Locks, RowsAligned, NEW w \in Worker,
         \A v \in Worker : Held(v), Seen(w), Step(w), ~ub'
  PROVE  Seen(w)'
<1>0. crashes' = crashes
  BY Frame
<1>1. CASE th'[w].pc = "idle"
  <2>1. th'[w].seen = <<>>
    BY <1>1, Ends
  <2> QED BY <2>1 DEF Seen
<1>2. CASE th'[w].pc # "idle" /\ th[w].pc # "read"
  <2>1. th'[w].seen = th[w].seen /\ F(w)' = F(w)
    BY <1>2, Moves, NamesKept
  <2>2. CASE th[w].seen = <<>>
    BY <2>1, <2>2 DEF Seen
  <2>3. CASE th[w].seen # <<>>
    <3>1. Shown(w)
      BY <2>3 DEF Seen
    <3>2. Shown(w)' /\ th[w].pc = "lock_table"
      BY <1>2, <3>1, ShowMoves
    <3>3. files' = files
      BY <3>2, Frame
    <3> QED BY <1>0, <2>1, <3>2, <3>3 DEF Seen
  <2> QED BY <2>2, <2>3
<1>3. CASE th'[w].pc # "idle" /\ th[w].pc = "read"
  <2>1. Shown(w)' /\ F(w)' = F(w) /\ files' = files
    BY <1>3, ShowMoves, NamesKept, Frame
  <2>2. PICK c \in Col :
          LET path == Place(F(w), c)
              rows == IF path \in DOMAIN files THEN Len(files[path]) ELSE 0
          IN  th'[w].seen = IF rows = 0 THEN th[w].seen ELSE Append(th[w].seen, rows)
    BY <1>3, ShowMoves
  <2> DEFINE path == Place(F(w), c)
             rows == IF path \in DOMAIN files THEN Len(files[path]) ELSE 0
             seen == th[w].seen
             more == th'[w].seen
  <2>3. F(w) \in Db \X Table /\ seen \in Seq(Nat)
    BY <1>3, Running DEF F, Thread
  <2>4. SUFFICES ASSUME crashes = 0
                 PROVE  /\ \A k \in DOMAIN more : more[k] >= more[1]
                        /\ more # <<>> => \A b \in Col : Place(F(w), b) \in DOMAIN files =>
                                                          Len(files[Place(F(w), b)]) >= more[1]
    BY <1>0, <2>1 DEF Seen
  <2>5. /\ \A k \in DOMAIN seen : seen[k] >= seen[1]
        /\ seen # <<>> => \A b \in Col : Place(F(w), b) \in DOMAIN files =>
                                          Len(files[Place(F(w), b)]) >= seen[1]
    BY <1>3, <2>4 DEF Seen
  <2>6. CASE rows = 0
    <3>1. more = seen
      BY <2>2, <2>6
    <3> QED BY <2>5, <3>1
  <2>7. CASE rows # 0
    <3>1. more = Append(seen, rows) /\ path \in DOMAIN files /\ rows = Len(files[path])
      BY <2>2, <2>7
    <3>2. files[path] \in Seq(Rows)
      BY <2>3, <3>1, Columns
    <3>3. rows \in Nat
      BY <3>1, <3>2
    <3> HIDE DEF rows
    <3>4. CASE seen = <<>>
      <4>1. more = <<rows>>
        BY <3>1, <3>4
      <4>2. ASSUME NEW b \in Col, Place(F(w), b) \in DOMAIN files
            PROVE  Len(files[Place(F(w), b)]) = rows
        <5>1. \A v \in Worker : th[v].pc = "append" => F(v) # F(w)
          <6> SUFFICES ASSUME NEW v \in Worker, th[v].pc = "append", F(v) = F(w)  PROVE FALSE
            OBVIOUS
          <6>1. v = w
            BY <1>3, OneHolder
          <6> QED BY <1>3, <6>1
        <5>2. files[Place(F(w), b)] = files[path]
          BY <2>3, <2>4, <3>1, <4>2, <5>1, AlignedAt
        <5> QED BY <3>1, <5>2
      <4> QED BY <3>3, <4>1, <4>2
    <3>5. CASE seen # <<>>
      <4>1. rows >= seen[1] /\ Len(seen) \in Nat /\ seen[1] \in Nat
        BY <2>3, <2>5, <3>1, <3>5
      <4>2. /\ DOMAIN more = 1 .. Len(seen) + 1 /\ DOMAIN seen = 1 .. Len(seen)
            /\ more[Len(seen) + 1] = rows /\ \A k \in DOMAIN seen : more[k] = seen[k]
        <5> HIDE DEF seen, more
        <5>1. Append(seen, rows) \in Seq(Nat) /\ Len(Append(seen, rows)) = Len(seen) + 1
          BY <2>3, <3>3
        <5>2. Append(seen, rows)[Len(seen) + 1] = rows
              /\ \A k \in 1 .. Len(seen) : Append(seen, rows)[k] = seen[k]
          BY <2>3, <3>3
        <5>3. DOMAIN Append(seen, rows) = 1 .. Len(seen) + 1 /\ DOMAIN seen = 1 .. Len(seen)
          BY <2>3, <5>1, SeqDomain
        <5> QED BY <3>1, <5>2, <5>3
      <4>3. more[1] = seen[1]
        BY <2>3, <3>5, <4>2
      <4>4. \A k \in DOMAIN more : more[k] >= more[1]
        BY <2>5, <4>1, <4>2, <4>3
      <4> QED BY <2>5, <3>5, <4>3, <4>4
    <3> QED BY <3>4, <3>5
  <2> QED BY <2>6, <2>7
<1> QED BY <1>1, <1>2, <1>3

\* A step of a connection keeps what Safe says.
LEMMA StepSafe ==
  ASSUME TypeInv, TypeInv', OneRewriter, ~ub, Safe, NEW w \in Worker, Step(w), ~ub'
  PROVE  Safe'
<1>1. /\ Objects /\ Pointers /\ Locks /\ Folders /\ Complete
      /\ ColumnsInStep /\ RowsAligned
  BY DEF Safe
<1>2. \A v \in Worker : Held(v) /\ Created(v) /\ Written(v) /\ Level(v) /\ Seen(v)
  BY DEF Safe
<1>3. Objects' /\ Locks'
  BY <1>1, <1>2, ObjectsStep, LocksStep
<1>4. Pointers'
  BY <1>1, <1>2, PointersStep
<1>5. Folders' /\ Complete'
  BY <1>1, <1>2, FoldersStep, CompleteStep
<1>6. ColumnsInStep'
  BY <1>1, <1>2, ColumnsInStepStep
<1>7. RowsAligned'
  BY <1>1, <1>2, RowsAlignedStep
<1>8. ASSUME NEW v \in Worker, v # w
      PROVE  Held(v)' /\ Created(v)' /\ Written(v)' /\ Level(v)' /\ Seen(v)'
  <2>1. Held(v)' /\ Created(v)'
    BY <1>1, <1>2, <1>8, HeldStay, CreatedStay
  <2>2. Written(v)' /\ Level(v)' /\ Seen(v)'
    BY <1>1, <1>2, <1>8, WrittenStay, LevelStay, SeenStay
  <2> QED BY <2>1, <2>2
<1>9. Held(w)' /\ Created(w)' /\ Written(w)' /\ Level(w)' /\ Seen(w)'
  <2>1. Held(w)' /\ Created(w)'
    BY <1>1, <1>2, HeldMove, CreatedMove
  <2>2. Written(w)' /\ Level(w)'
    BY <1>1, <1>2, WrittenMove, LevelMove
  <2>3. Seen(w)'
    BY <1>1, <1>2, SeenMove
  <2> QED BY <2>1, <2>2, <2>3
<1>a. \A v \in Worker : Held(v)' /\ Created(v)' /\ Written(v)' /\ Level(v)' /\ Seen(v)'
  BY <1>8, <1>9
<1> QED BY <1>3, <1>4, <1>5, <1>6, <1>7, <1>a DEF Safe

-----------------------------------------------------------------------------
(* The process. *)

\* No statement runs, and nothing is listed.
Asleep ==
    /\ dbs = [d \in Db |-> Null] /\ live = {} /\ excl = {} /\ shar = {}
    /\ \A w \in Worker : /\ th[w].pc = "idle" /\ th[w].seen = <<>>
                         /\ th[w].db = Null /\ th[w].tb = Null

LEMMA AsleepSafe ==
  Asleep => /\ Objects /\ Pointers /\ Locks
            /\ \A w \in Worker : Held(w) /\ Created(w) /\ Written(w) /\ Level(w) /\ Seen(w)
            /\ \A f \in Db \X Table : tabs[f] = Null
<1> SUFFICES ASSUME Asleep
             PROVE  /\ Objects /\ Pointers /\ Locks
                    /\ \A w \in Worker : Held(w) /\ Created(w) /\ Written(w) /\ Level(w) /\ Seen(w)
                    /\ \A f \in Db \X Table : tabs[f] = Null
  OBVIOUS
<1>1. \A f \in Db \X Table : tabs[f] = Null
  BY DEF Asleep, tabs
<1>2. Objects
  BY <1>1 DEF Asleep, Objects
<1>3. Pointers /\ Locks
  BY DEF Asleep, Pointers, DbPointer, TablePointer, Locks
<1>4. ASSUME NEW w \in Worker
      PROVE  Held(w) /\ Created(w) /\ Written(w) /\ Level(w) /\ Seen(w)
  <2>1. Held(w) /\ Created(w)
    BY DEF Asleep, Held, Created, Creation
  <2>2. Written(w) /\ Level(w)
    BY DEF Asleep, Written, Level
  <2>3. Seen(w)
    BY DEF Asleep, Seen
  <2> QED BY <2>1, <2>2, <2>3
<1> QED BY <1>1, <1>2, <1>3, <1>4

LEMMA ReceiveSafe ==
  ASSUME TypeInv, Safe, NEW w \in Worker, Receive(w)  PROVE Safe'
<1>1. UNCHANGED <<dirs, folders, files, dbs, heap, live, excl, shar, up, crashes, acked, ub>>
  BY DEF Receive, disk, memory, locks, process, history
<1>2. tabs' = tabs
  BY <1>1 DEF tabs
<1>3. PICK s \in Script[w] : th' = [th EXCEPT ![w].s = s, ![w].pc = First[s.op]]
  BY DEF Receive
<1>4. th[w] \in Thread /\ Proper(w, th[w]) /\ th[w].pc = "idle" /\ th \in [Worker -> Thread]
  BY DEF Receive, At, TypeInv, ThreadsOK
<1>5. /\ th'[w].pc \in BeforeDb \ {"idle"} /\ th'[w].db = Null /\ th'[w].tb = Null
      /\ th'[w].seen = th[w].seen
  <2>1. th'[w] = [th[w] EXCEPT !.s = s, !.pc = First[s.op]]
    BY <1>3, <1>4
  <2>2. th'[w].pc = First[s.op] /\ th'[w].db = th[w].db /\ th'[w].tb = th[w].tb /\ th'[w].seen = th[w].seen
    BY <1>4, <2>1 DEF Thread
  <2>3. th[w].db = Null /\ th[w].tb = Null
    BY <1>4 DEF Proper, BeforeDb
  <2>4. First[s.op] \in BeforeDb \ {"idle"}
    BY StatementType
  <2> QED BY <2>2, <2>3, <2>4
<1>6. ASSUME NEW v \in Worker, v # w
      PROVE  /\ th'[v] = th[v] /\ D(v)' = D(v) /\ T(v)' = T(v) /\ F(v)' = F(v)
             /\ Op(v)' = Op(v) /\ Row(v)' = Row(v)
  BY <1>6, Still
<1>7. Objects' /\ Locks' /\ ColumnsInStep'
  BY <1>1, <1>2 DEF Safe, Objects, Locks, ColumnsInStep
<1>8. Pointers'
  <2>1. DbPointer(w)' /\ TablePointer(w)'
    BY <1>5 DEF DbPointer, TablePointer
  <2>2. ASSUME NEW v \in Worker, v # w  PROVE DbPointer(v)' /\ TablePointer(v)'
    BY <1>1, <1>2, <1>6, <2>2 DEF Safe, Pointers, DbPointer, TablePointer
  <2> QED BY <2>1, <2>2 DEF Pointers
<1>9. Folders'
  <2>1. /\ \A p \in DOMAIN files' : <<p[1], p[2]>> \in folders'
        /\ folders' \subseteq dirs' \X Table
    BY <1>1 DEF Safe, Folders
  <2>2. ASSUME NEW f \in Db \X Table
        PROVE  \/ tabs'[f] = Null
               \/ f \in folders'
               \/ \E v \in Worker : \/ th'[v].pc = "erase_db" /\ D(v)' = f[1]
                                    \/ th'[v].pc = "erase_table" /\ F(v)' = f
    <3>1. ASSUME NEW v \in Worker, \/ th[v].pc = "erase_db" /\ D(v) = f[1]
                                   \/ th[v].pc = "erase_table" /\ F(v) = f
          PROVE  \/ th'[v].pc = "erase_db" /\ D(v)' = f[1]
                 \/ th'[v].pc = "erase_table" /\ F(v)' = f
      BY <1>4, <1>6, <3>1
    <3> QED BY <1>1, <1>2, <3>1 DEF Safe, Folders
  <2> QED BY <2>1, <2>2 DEF Folders
<1>a. Complete'
  BY <1>1, <1>2 DEF Safe, Complete
<1>b. RowsAligned'
  <2>1. ASSUME NEW p, NEW q, NEW v \in Worker, th[v].pc = "append" /\ D(v) = p[1] /\ T(v) = p[2]
        PROVE  th'[v].pc = "append" /\ D(v)' = p[1] /\ T(v)' = p[2]
    BY <1>4, <1>6, <2>1
  <2> QED BY <1>1, <2>1 DEF Safe, RowsAligned
<1>c. ASSUME NEW v \in Worker
      PROVE  Held(v)' /\ Created(v)' /\ Written(v)' /\ Level(v)' /\ Seen(v)'
  <2>1. CASE v = w
    <3>1. Held(w)' /\ Created(w)'
      BY <1>5 DEF Held, Created, BeforeDb, Creation
    <3>2. Written(w)' /\ Level(w)'
      BY <1>5 DEF Written, Level, BeforeDb
    <3>3. th'[w].seen = <<>>
      BY <1>4, <1>5 DEF Safe, Seen, Shown
    <3>4. Seen(w)'
      BY <3>3 DEF Seen
    <3> QED BY <2>1, <3>1, <3>2, <3>4
  <2>2. CASE v # w
    <3>0. Held(v) /\ Created(v) /\ Written(v) /\ Level(v) /\ Seen(v)
      BY DEF Safe
    <3>1. Held(v)' /\ Created(v)'
      BY <1>1, <1>2, <1>6, <2>2, <3>0 DEF Held, Created
    <3>2. Written(v)' /\ Level(v)'
      BY <1>1, <1>6, <2>2, <3>0 DEF Written, Level
    <3>3. Seen(v)'
      BY <1>1, <1>6, <2>2, <3>0 DEF Seen, Shown
    <3> QED BY <3>1, <3>2, <3>3
  <2> QED BY <2>1, <2>2
<1> QED BY <1>7, <1>8, <1>9, <1>a, <1>b, <1>c DEF Safe

LEMMA CrashSafe ==
  ASSUME TypeInv, TypeInv', Safe, ~ub, Crash  PROVE Safe'
<1>1. /\ crashes' = crashes + 1 /\ dirs' = dirs
      /\ dbs' = [d \in Db |-> Null] /\ live' = {} /\ excl' = {} /\ shar' = {}
      /\ th' = [w \in Worker |-> [Idle EXCEPT !.done = th[w].done + IF th[w].pc = "idle" THEN 0 ELSE 1]]
      /\ (UNCHANGED <<folders, files, acked>>) \/ \E w \in Worker : Torn(w)
  BY DEF Crash
<1>2. Asleep'
  <2>1. \A w \in Worker : /\ th'[w].pc = "idle" /\ th'[w].seen = <<>>
                          /\ th'[w].db = Null /\ th'[w].tb = Null
    BY <1>1 DEF Idle, Null
  <2> QED BY <1>1, <2>1 DEF Asleep
<1>3. Asleep' => (/\ Objects /\ Pointers /\ Locks
                  /\ \A w \in Worker : Held(w) /\ Created(w) /\ Written(w) /\ Level(w) /\ Seen(w)
                  /\ \A f \in Db \X Table : tabs[f] = Null)'
  BY AsleepSafe, PTL
<1>4. crashes' # 0
  BY <1>1, CatalogAssumption DEF TypeInv, RestOK, CatalogAssumption
<1>5. Complete' /\ RowsAligned'
  BY <1>4 DEF Complete, RowsAligned
\* What a death leaves of the files: some are gone with their folders, or an
\* info.tbl is empty.
<1> DEFINE Less == /\ DOMAIN files' \subseteq DOMAIN files /\ \A p \in DOMAIN files' : files'[p] = files[p]
                   /\ folders' \subseteq folders
                   /\ \A p \in DOMAIN files' : <<p[1], p[2]>> \in folders'
           Torn2 == \E w \in Worker : /\ F(w) \in Db \X Table /\ F(w) \in folders
                                      /\ files' = Put(Place(F(w), Info), <<>>)
                                      /\ UNCHANGED <<folders, acked>>
<1>6. /\ \A p \in DOMAIN files : <<p[1], p[2]>> \in folders
      /\ folders \subseteq dirs \X Table /\ ColumnsInStep
  BY DEF Safe, Folders
<1>7. Less \/ Torn2
  <2>1. CASE UNCHANGED <<folders, files, acked>>
    BY <1>6, <2>1
  <2>2. ASSUME NEW w \in Worker, Torn(w)  PROVE Less \/ Torn2
    <3>1. th[w].pc # "idle"
      BY <2>2 DEF Torn
    <3>2. CASE th[w].pc = "write_info"
      <4>1. /\ F(w) \in folders /\ files' = Put(Place(F(w), Info), <<>>)
            /\ UNCHANGED <<folders, acked>>
        BY <2>2, <3>2, PlaceAt DEF Torn, F
      <4>2. F(w) \in Db \X Table
        BY <3>1, Running DEF F
      <4> QED BY <4>1, <4>2
    <3>3. CASE th[w].pc \in {"remove_db", "remove_table"}
      <4> DEFINE doomed == IF Op(w) = "delete_db" THEN FoldersOf(D(w)) ELSE {<<D(w), T(w)>>}
      <4>1. PICK gone \in SUBSET FilesOf(doomed) :
              /\ Remove(gone)
              /\ \E empty \in SUBSET {e \in doomed : FilesOf({e}) \subseteq gone} :
                   folders' = folders \ empty
        BY <2>2, <3>3 DEF Torn
      <4>2. PICK empty \in SUBSET {e \in doomed : FilesOf({e}) \subseteq gone} :
                   folders' = folders \ empty
        BY <4>1
      <4>3. /\ files' = [p \in DOMAIN files \ gone |-> files[p]]
            /\ acked' = {a \in acked : \A c \in Col : <<a[1], a[2], c>> \notin gone}
        BY <4>1 DEF Remove, Restrict, Forget
      <4>4. ASSUME NEW p \in DOMAIN files'  PROVE <<p[1], p[2]>> \in folders'
        <5>1. p \in DOMAIN files /\ p \notin gone /\ <<p[1], p[2]>> \in folders
          BY <1>6, <4>3
        <5>2. p \in FilesOf({<<p[1], p[2]>>})
          BY <5>1 DEF FilesOf
        <5> QED BY <4>2, <5>1, <5>2
      <4>5. folders' \subseteq folders
        BY <4>2
      <4> QED BY <4>3, <4>4, <4>5
    <3> QED BY <2>2, <3>2, <3>3 DEF Torn
  <2> QED BY <1>1, <2>1, <2>2
<1>8. Folders' /\ ColumnsInStep'
  <2>1. CASE Less
    <3>1. Folders'
      BY <1>1, <1>2, <1>3, <1>6, <2>1 DEF Folders
    <3>2. ColumnsInStep'
      BY <1>6, <2>1 DEF ColumnsInStep
    <3> QED BY <3>1, <3>2
  <2>2. CASE Torn2
    <3>1. PICK w \in Worker : /\ F(w) \in Db \X Table /\ F(w) \in folders
                              /\ files' = Put(Place(F(w), Info), <<>>)
                              /\ UNCHANGED <<folders, acked>>
      BY <2>2
    <3> DEFINE i == Place(F(w), Info)
    <3>2. /\ DOMAIN files' = DOMAIN files \cup {i}
          /\ \A r \in DOMAIN files : r # i => files'[r] = files[r]
      BY <3>1, PutFiles
    <3>3. i[3] = Info /\ <<i[1], i[2]>> = F(w)
      BY <3>1, Places
    <3> HIDE DEF i
    <3>4. Folders'
      <4>1. \A p \in DOMAIN files' : <<p[1], p[2]>> \in folders'
        BY <1>6, <3>1, <3>2, <3>3
      <4> QED BY <1>1, <1>2, <1>3, <1>6, <3>1, <4>1 DEF Folders
    <3>5. \A p \in DOMAIN files' : p[3] # Info => p \in DOMAIN files /\ files'[p] = files[p]
      BY <3>2, <3>3
    <3>6. ColumnsInStep'
      <4>1. \A p \in DOMAIN files' : p[3] \in Col \cup {Info}
        BY Places DEF TypeInv, DiskOK
      <4>2. \A p, q \in DOMAIN files' : Info < p[3] /\ p[3] < q[3] => p[3] # Info /\ q[3] # Info
        BY <4>1, Columns
      <4> QED BY <1>6, <3>5, <4>2 DEF ColumnsInStep
    <3> QED BY <3>4, <3>6
  <2> QED BY <1>7, <2>1, <2>2
<1> QED BY <1>2, <1>3, <1>5, <1>8 DEF Safe

\* Load lists every directory, and every folder that has an info.tbl, under
\* numbers of their own.
LEMMA LoadTabs ==
  ASSUME TypeInv, Folders, Load
  PROVE  /\ \A d \in Db : dbs'[d] = IF d \in dirs THEN Number[d] ELSE Null
         /\ \A f \in Db \X Table : tabs'[f] = IF f \in Listed THEN Number[f] ELSE Null
<1> DEFINE n == Cardinality(Found)
           cell(o, t) == IF \E f \in Listed : f[2] = t /\ f[1] \in dirs /\ Number[f[1]] = o
                         THEN Number[CHOOSE f \in Listed : f[2] = t /\ Number[f[1]] = o]
                         ELSE Null
           row(o) == [t \in Table |-> cell(o, t)]
<1>1. /\ dbs' = [d \in Db |-> IF d \in dirs THEN Number[d] ELSE Null]
      /\ heap' = [o \in 1 .. n |-> row(o)]
  BY DEF Load, Listed, Found, Number
<1>2. /\ n \in Nat /\ Number \in [Found -> 1 .. n]
      /\ \A a, b \in Found : Number[a] = Number[b] => a = b
  BY NumberType DEF TypeInv
<1>3. /\ Listed \subseteq dirs \X Table /\ dirs \subseteq Db
      /\ dirs \subseteq Found /\ Listed \subseteq Found
  BY DEF Folders, Listed, Found, TypeInv, DiskOK
<1>4. \A d \in Db : dbs'[d] = IF d \in dirs THEN Number[d] ELSE Null
  BY <1>1
<1> HIDE DEF n
<1>5. ASSUME NEW f \in Db \X Table  PROVE tabs'[f] = IF f \in Listed THEN Number[f] ELSE Null
  <2>1. tabs'[f] = IF dbs'[f[1]] = Null THEN Null ELSE heap'[dbs'[f[1]]][f[2]]
    BY DEF tabs
  <2>2. CASE f[1] \notin dirs
    <3>1. f \notin Listed
      BY <1>3, <2>2
    <3> QED BY <1>4, <2>1, <2>2, <3>1
  <2>3. CASE f[1] \in dirs
    <3> DEFINE o == Number[f[1]]
    <3>1. o \in 1 .. n /\ dbs'[f[1]] = o /\ o # Null
      BY <1>2, <1>3, <1>4, <2>3 DEF Null
    <3>2. heap'[o] = row(o) /\ row(o)[f[2]] = cell(o, f[2])
      BY <1>1, <3>1
    <3>3. tabs'[f] = cell(o, f[2])
      BY <2>1, <3>1, <3>2
    <3>4. ASSUME NEW g \in Listed, g[2] = f[2], Number[g[1]] = o  PROVE g = f
      <4>1. g[1] \in Found /\ f[1] \in Found
        BY <1>3, <2>3
      <4>2. g[1] = f[1]
        BY <1>2, <3>4, <4>1
      <4> QED BY <1>3, <3>4, <4>2
    <3> HIDE DEF o
    <3>5. CASE f \in Listed
      <4>1. f[2] = f[2] /\ f[1] \in dirs /\ Number[f[1]] = o
        BY <2>3 DEF o
      <4>2. (CHOOSE g \in Listed : g[2] = f[2] /\ Number[g[1]] = o) = f
        BY <3>4, <3>5, <4>1
      <4>3. \E g \in Listed : g[2] = f[2] /\ g[1] \in dirs /\ Number[g[1]] = o
        BY <3>5, <4>1
      <4> QED BY <3>3, <3>5, <4>2, <4>3
    <3>6. CASE f \notin Listed
      <4>1. ~ \E g \in Listed : g[2] = f[2] /\ g[1] \in dirs /\ Number[g[1]] = o
        BY <3>4, <3>6
      <4> QED BY <3>3, <3>6, <4>1
    <3> QED BY <3>5, <3>6
  <2> QED BY <2>2, <2>3
<1> QED BY <1>4, <1>5

LEMMA LoadSafe ==
  ASSUME TypeInv, Safe, Load  PROVE Safe'
<1>1. /\ ~up /\ up' = TRUE /\ UNCHANGED <<dirs, folders, files, excl, shar, th, crashes, acked, ub>>
      /\ live' = 1 .. Cardinality(Found)
  BY DEF Load, Found, Listed, disk, locks, history
<1>2. /\ excl = {} /\ shar = {} /\ \A w \in Worker : th[w].pc = "idle"
  BY <1>1 DEF TypeInv, Down
<1>3. \A w \in Worker : th[w].db = Null /\ th[w].tb = Null /\ th[w].seen = <<>>
  <2>1. ASSUME NEW w \in Worker  PROVE th[w].db = Null /\ th[w].tb = Null
    BY <1>2 DEF TypeInv, ThreadsOK, Proper, BeforeDb
  <2>2. ASSUME NEW w \in Worker  PROVE th[w].seen = <<>>
    BY <1>2 DEF Safe, Seen, Shown
  <2> QED BY <2>1, <2>2
<1>4. /\ \A d \in Db : dbs'[d] = IF d \in dirs THEN Number[d] ELSE Null
      /\ \A f \in Db \X Table : tabs'[f] = IF f \in Listed THEN Number[f] ELSE Null
  BY LoadTabs DEF Safe
<1>5. /\ Cardinality(Found) \in Nat /\ Number \in [Found -> 1 .. Cardinality(Found)]
      /\ \A a, b \in Found : Number[a] = Number[b] => a = b
  BY NumberType DEF TypeInv
<1>6. dirs \subseteq Found /\ Listed \subseteq Found /\ Listed \subseteq folders
  BY DEF Found, Listed
<1> DEFINE n == Cardinality(Found)
<1>7. \A a \in Found : Number[a] \in 1 .. n /\ Number[a] # Null
  BY <1>5 DEF Null
<1> HIDE DEF n
<1>8. Objects'
  <2>1. /\ \A d \in Db : dbs'[d] \in live' \cup {Null}
        /\ \A f \in Db \X Table : tabs'[f] \in live' \cup {Null}
    BY <1>1, <1>4, <1>6, <1>7 DEF n
  <2>2. \A d, e \in Db : dbs'[d] = dbs'[e] /\ dbs'[d] # Null => d = e
    BY <1>4, <1>5, <1>6, <1>7
  <2>3. \A d \in Db, f \in Db \X Table : dbs'[d] = tabs'[f] => dbs'[d] = Null
    <3>1. \A d \in Db, f \in Db \X Table : d # f
      BY CatalogAssumption DEF CatalogAssumption
    <3> QED BY <1>4, <1>5, <1>6, <1>7, <3>1
  <2>4. \A f, g \in Db \X Table : tabs'[f] = tabs'[g] /\ tabs'[f] # Null => f = g
    BY <1>4, <1>5, <1>6, <1>7
  <2> QED BY <2>1, <2>2, <2>3, <2>4 DEF Objects
<1>9. Pointers' /\ Locks'
  BY <1>1, <1>2, <1>3 DEF Pointers, DbPointer, TablePointer, Locks
<1>10. Folders'
  <2>1. \A f \in Db \X Table : tabs'[f] # Null => f \in folders
    BY <1>4, <1>6
  <2> QED BY <1>1, <2>1 DEF Safe, Folders
<1>11. Complete'
  <2>1. crashes = 0 => \A f \in folders, m \in Col \cup {Info} : Place(f, m) \in DOMAIN files
    BY <1>1 DEF Safe, Complete
  <2> QED BY <1>1, <2>1 DEF Complete, Place
<1>12. ASSUME NEW w \in Worker
      PROVE  Held(w)' /\ Created(w)' /\ Written(w)' /\ Level(w)' /\ Seen(w)'
  <2>1. th'[w].pc = "idle" /\ th'[w].seen = <<>>
    BY <1>1, <1>2, <1>3
  <2>2. Held(w)' /\ Created(w)'
    BY <2>1 DEF Held, Created, Creation
  <2>3. Written(w)' /\ Level(w)' /\ Seen(w)'
    BY <2>1 DEF Written, Level, Seen
  <2> QED BY <2>2, <2>3
<1>13. RowsAligned' /\ ColumnsInStep'
  BY <1>1 DEF Safe, RowsAligned, ColumnsInStep, D, T
<1> QED BY <1>8, <1>9, <1>10, <1>11, <1>12, <1>13 DEF Safe

LEMMA InitSafe == ASSUME Init PROVE Safe
<1>0. TypeInv
  BY InitType
<1>1. Asleep /\ folders \subseteq dirs \X Table /\ dirs \subseteq Db
  BY DEF Init, Asleep, Idle, Null
<1>2. /\ Objects /\ Pointers /\ Locks
      /\ \A w \in Worker : Held(w) /\ Created(w) /\ Written(w) /\ Level(w) /\ Seen(w)
      /\ \A f \in Db \X Table : tabs[f] = Null
  BY <1>1, AsleepSafe
<1>3. PICK full \in SUBSET folders : files = Left(full) /\ acked = LeftRows(full)
  BY DEF Init
<1> DEFINE paths == {<<f[1], f[2], n>> : f \in folders, n \in Col \cup {Info}}
<1>4. /\ DOMAIN files = paths
      /\ \A p \in paths : files[p] = IF p[3] = Info THEN Layout
                                     ELSE IF <<p[1], p[2]>> \in full THEN <<OldRow>> ELSE <<>>
  BY <1>3 DEF Left
<1>5. \A f \in folders, n \in Col \cup {Info} : Place(f, n) \in paths
  BY DEF Place
<1>6. \A p \in paths : <<p[1], p[2]>> \in folders
  BY <1>1
<1> HIDE DEF paths
<1>7. Folders /\ Complete
  BY <1>1, <1>2, <1>4, <1>5, <1>6 DEF Folders, Complete
<1>8. \A p, q \in DOMAIN files : p[1] = q[1] /\ p[2] = q[2] /\ p[3] # Info /\ q[3] # Info =>
        files[p] = files[q] /\ (files[p] = <<OldRow>> \/ files[p] = <<>>)
  BY <1>4
<1>9. RowsAligned
  BY <1>8 DEF RowsAligned
<1>10. ColumnsInStep
  <2>1. ASSUME NEW p \in DOMAIN files, NEW q \in DOMAIN files,
               p[1] = q[1], p[2] = q[2], Info < p[3], p[3] < q[3],
               NEW m \in DOMAIN files[q], NEW k \in DOMAIN files[q], m <= k
        PROVE  /\ m \in DOMAIN files[p] /\ k \in DOMAIN files[p]
               /\ files[p][m] = files[q][m] /\ files[p][k] = files[q][k]
    <3>1. p[3] # Info /\ q[3] # Info
      <4>1. p[3] \in Col \cup {Info} /\ q[3] \in Col \cup {Info}
        BY <1>0, Places DEF TypeInv, DiskOK
      <4>2. Info = 0 /\ Col = 1 .. NCols /\ NCols \in Nat
        BY <1>0, Columns
      <4> QED BY <2>1, <4>1, <4>2
    <3>2. files[p] = files[q]
      BY <1>8, <2>1, <3>1
    <3> QED BY <3>2
  <2> QED BY <2>1 DEF ColumnsInStep
<1> QED BY <1>2, <1>7, <1>9, <1>10 DEF Safe

\* No death takes a row reported as inserted, or the file of one it leaves.
LEMMA CrashKept == ASSUME TypeInv, Kept, Crash PROVE Kept'
<1>1. /\ contested' = contested
      /\ (UNCHANGED <<files, acked>>) \/ \E w \in Worker : Torn(w)
      /\ \A w \in Worker : th'[w].pc = "idle"
  BY DEF Crash, Idle
<1>2. \A w \in Worker : Filed(w)'
  BY <1>1 DEF Filed
<1>3. acked \subseteq Db \X Table \X Rows
  BY DEF TypeInv, RestOK
<1>4. Reported'
  <2> SUFFICES ASSUME NEW a \in acked', <<a[1], a[2]>> \notin contested', NEW c \in Col
               PROVE  HoldsNext(<<a[1], a[2]>>, c, a[3])
    BY DEF Reported, Holds, HoldsNext, Place
  <2> DEFINE f == <<a[1], a[2]>>
  <2>1. a \in acked => f \in Db \X Table /\ Holds(f, c, a[3])
    BY <1>1, <1>3 DEF Kept, Reported
  <2>2. f = <<a[1], a[2]>>
    OBVIOUS
  <2> HIDE DEF f
  <2>3. CASE UNCHANGED <<files, acked>>
    BY <2>1, <2>2, <2>3 DEF Holds, HoldsNext
  <2>4. ASSUME NEW w \in Worker, acked' = acked, files' = Put(Place(F(w), Info), <<>>), F(w) \in Db \X Table
        PROVE  HoldsNext(f, c, a[3])
    <3> DEFINE i == Place(F(w), Info)
    <3>1. /\ DOMAIN files' = DOMAIN files \cup {i}
          /\ \A r \in DOMAIN files : r # i => files'[r] = files[r]
      BY <2>4, PutFiles
    <3>2. Place(f, c) # i
      BY <2>1, <2>4, Places, Columns
    <3> HIDE DEF i
    <3> QED BY <2>1, <2>4, <3>1, <3>2 DEF Holds, HoldsNext
  <2>5. ASSUME NEW g, NEW gone \in SUBSET FilesOf(g), Remove(gone)  PROVE HoldsNext(f, c, a[3])
    <3>1. /\ files' = [p \in DOMAIN files \ gone |-> files[p]]
          /\ acked' = {b \in acked : \A d \in Col : <<b[1], b[2], d>> \notin gone}
      BY <2>5 DEF Remove, Restrict, Forget
    <3>2. Place(f, c) = <<a[1], a[2], c>>
      BY <2>2 DEF Place
    <3> QED BY <2>1, <3>1, <3>2 DEF Holds, HoldsNext
  <2>6. ASSUME NEW w \in Worker, Torn(w)  PROVE HoldsNext(f, c, a[3])
    <3>1. CASE th[w].pc = "write_info"
      <4>1. acked' = acked /\ files' = Put(Place(F(w), Info), <<>>)
        BY <2>6, <3>1, PlaceAt DEF Torn
      <4>2. F(w) \in Db \X Table
        BY <3>1, Running DEF F
      <4> QED BY <2>4, <4>1, <4>2
    <3>2. CASE th[w].pc # "write_info"
      <4>1. \E g : \E gone \in SUBSET FilesOf(g) : Remove(gone)
        BY <2>6, <3>2 DEF Torn
      <4> QED BY <2>5, <4>1
    <3> QED BY <3>1, <3>2
  <2> QED BY <1>1, <2>2, <2>3, <2>6
<1> QED BY <1>2, <1>4 DEF Kept

LEMMA InitKept == ASSUME Init PROVE Kept
<1>0. TypeInv
  BY InitType
<1>1. folders \subseteq dirs \X Table /\ dirs \subseteq Db
  BY DEF Init
<1>2. \A w \in Worker : Filed(w)
  BY DEF Init, Filed, Idle
<1>3. PICK full \in SUBSET folders : files = Left(full) /\ acked = LeftRows(full)
  BY DEF Init
<1> DEFINE paths == {<<f[1], f[2], n>> : f \in folders, n \in Col \cup {Info}}
<1>4. /\ DOMAIN files = paths
      /\ \A p \in paths : files[p] = IF p[3] = Info THEN Layout
                                     ELSE IF <<p[1], p[2]>> \in full THEN <<OldRow>> ELSE <<>>
  BY <1>3 DEF Left
<1>5. \A f \in folders, n \in Col \cup {Info} : Place(f, n) \in paths
  BY DEF Place
<1> HIDE DEF paths
<1>6. ASSUME NEW a \in acked, NEW c \in Col
      PROVE  Holds(<<a[1], a[2]>>, c, a[3])
  <2> DEFINE p == <<a[1], a[2], c>>
  <2>1. PICK f \in full : a = <<f[1], f[2], OldRow>>
    BY <1>3, <1>6 DEF LeftRows
  <2>2. f \in folders /\ f = <<f[1], f[2]>>
    BY <1>1, <1>3
  <2>3. p = Place(f, c) /\ p[3] # Info /\ <<p[1], p[2]>> = f
    BY <1>0, <2>1, <2>2, Columns DEF Place
  <2>4. p \in DOMAIN files
    BY <1>4, <1>5, <2>2, <2>3
  <2>5. files[p] = <<OldRow>>
    BY <1>4, <2>1, <2>3, <2>4
  <2>6. a[3] = files[p][1] /\ 1 \in DOMAIN files[p]
    BY <2>1, <2>5
  <2> QED BY <2>3, <2>4, <2>6 DEF Range, Holds
<1> QED BY <1>2, <1>6 DEF Kept, Reported

LEMMA NextKept == ASSUME TypeInv, Kept, [Next]_vars PROVE Kept'
<1>1. CASE UNCHANGED <<files, acked, contested>> /\ \A w \in Worker : th'[w] = th[w] \/ th'[w].pc # "append"
  BY <1>1 DEF Kept, Reported, Filed, Holds, F, Row, D, T
<1>2. CASE UNCHANGED vars
  BY <1>1, <1>2 DEF vars, disk, traces, history
<1>3. ASSUME NEW w \in Worker, Receive(w)  PROVE Kept'
  <2>1. UNCHANGED <<files, acked, contested>>
    BY <1>3 DEF Receive, disk, traces, history
  <2>2. ASSUME NEW v \in Worker, v # w  PROVE th'[v] = th[v]
    BY <1>3, <2>2, Still
  <2>3. th'[w].pc # "append"
    <3>1. PICK s \in Script[w] : th' = [th EXCEPT ![w].s = s, ![w].pc = First[s.op]]
      BY <1>3 DEF Receive
    <3>2. th'[w].pc = First[s.op]
      BY <3>1 DEF TypeInv, ThreadsOK, Thread
    <3> QED BY <3>2, StatementType DEF BeforeDb
  <2> QED BY <1>1, <2>1, <2>2, <2>3
<1>4. ASSUME NEW w \in Worker, Step(w)  PROVE Kept'
  <2>1. Reported'
    BY <1>4, ReportedStep DEF Kept
  <2>2. ASSUME NEW v \in Worker  PROVE Filed(v)'
    BY <1>4, FiledStay, FiledMove DEF Kept
  <2> QED BY <2>1, <2>2 DEF Kept
<1>5. CASE Load
  BY <1>1, <1>5 DEF Load, disk, traces, history
<1> QED BY <1>2, <1>3, <1>4, <1>5, CrashKept DEF Next

-----------------------------------------------------------------------------
(* Memory and disk. *)

LEMMA ChangerRewrites == OneChanger => OneRewriter
BY DEF OneChanger, Changer, Changing, OneRewriter, Rewriter, Rewrites

\* The steps that change the lists or the paths on the disk, and those between
\* the two halves of a change.
Moving == Creation \cup {"make_db", "add_db", "remove_db", "erase_db", "remove_table", "erase_table"}
Half == (Creation \ {"make_folder"}) \cup {"add_db", "erase_db", "erase_table"}

LEMMA OneMoves ==
  ASSUME TypeInv, OneChanger, NEW v \in Worker, NEW w \in Worker,
         th[v].pc \in Moving, th[w].pc \in Moving
  PROVE  v = w
<1>1. ASSUME NEW x \in Worker, th[x].pc \in Moving  PROVE Changer(x)
  <2>1. th[x].pc # "idle"
    BY <1>1 DEF Moving, Creation
  <2>2. th[x].s \in Script[x]
    BY <2>1 DEF TypeInv, ThreadsOK, Proper
  <2>3. th[x].s.op \in OpsAt(th[x].pc)
    BY <2>1 DEF TypeInv, ThreadsOK, Proper
  <2>4. OpsAt(th[x].pc) \subseteq Changing
    BY <1>1 DEF Moving, Creation, OpsAt, Changing
  <2> QED BY <2>2, <2>3, <2>4 DEF Changer
<1> QED BY <1>1 DEF OneChanger

LEMMA QuietPaths ==
  ASSUME TypeInv, NEW w \in Worker, Step(w), th[w].pc \notin Moving
  PROVE  /\ dirs' = dirs /\ folders' = folders /\ left' = left /\ DOMAIN files' = DOMAIN files
         /\ tabs' = tabs /\ dbs' = dbs /\ crashes' = crashes /\ th'[w].pc \notin Half
<1>1. dirs' = dirs /\ folders' = folders /\ left' = left /\ crashes' = crashes /\ UNCHANGED memory
  BY Frame DEF Moving, Creation
<1>2. DOMAIN files' = DOMAIN files
  <2>1. CASE th[w].pc = "append"
    <3>1. \/ files' = files
          \/ \E p \in DOMAIN files : \E x : files' = Put(p, x)
      BY <2>1, StepAt DEF AppendColumn
    <3> QED BY <3>1 DEF Put
  <2>2. CASE th[w].pc # "append"
    BY <2>2, Frame DEF Moving, Creation
  <2> QED BY <2>1, <2>2
<1>3. th'[w].pc \notin Half
  BY Moves DEF Half, Reached, Moving, Creation
<1> QED BY <1>1, <1>2, <1>3, SameTabs

\* The file info.tbl of a folder comes and goes with the folder.
LEMMA InfoStep ==
  ASSUME TypeInv, OneRewriter, Folders, NEW w \in Worker, Step(w), NEW f \in Db \X Table
  PROVE  \/ Place(f, Info) \in DOMAIN files' <=> Place(f, Info) \in DOMAIN files
         \/ th[w].pc = "write_info" /\ f = F(w)
         \/ th[w].pc = "remove_table" /\ f = F(w)
         \/ th[w].pc = "remove_db" /\ f[1] = D(w)
<1> DEFINE i == Place(f, Info)
<1>1. CASE Same(f)
  BY <1>1 DEF Same
<1>2. CASE \E n \in Col : \E x : files' = Put(Place(f, n), x)
  <2>1. PICK n \in Col : \E x : files' = Put(Place(f, n), x)
    BY <1>2
  <2>2. DOMAIN files' = DOMAIN files \cup {Place(f, n)}
    BY <2>1, PutFiles
  <2>3. Place(f, n) # i
    BY Places, Columns
  <2> QED BY <2>2, <2>3
<1>3. \/ Same(f)
      \/ th[w].pc = "write_info" /\ f = F(w)
      \/ th[w].pc \in {"make_column", "append"} /\ \E x : files' = Put(Place(f, th[w].at), x)
      \/ th[w].pc = "remove_table" /\ f = F(w)
      \/ th[w].pc = "remove_db" /\ f[1] = D(w)
  BY FolderStep
<1>4. th[w].pc \in {"make_column", "append"} => th[w].at \in Col
  BY Columns
<1> QED BY <1>1, <1>2, <1>3, <1>4

\* When the connection that changes is at w, no other is half-way.
LEMMA Lonely ==
  ASSUME TypeInv, OneChanger, Mirrored, NEW w \in Worker, th[w].pc \in Moving, up
  PROVE  /\ \A v \in Worker : v # w => th[v].pc \notin Half
         /\ \A d \in Db : \/ dbs[d] # Null <=> d \in dirs
                          \/ th[w].pc \in {"add_db", "erase_db"} /\ D(w) = d
         /\ \A f \in Db \X Table :
              \/ tabs[f] # Null <=> f \in folders \ left /\ (crashes = 0 \/ Place(f, Info) \in DOMAIN files)
              \/ th[w].pc \in (Creation \ {"make_folder"}) \cup {"erase_table"} /\ F(w) = f
              \/ th[w].pc = "erase_db" /\ D(w) = f[1]
<1>1. \A v \in Worker : v # w => th[v].pc \notin Half
  BY OneMoves DEF Half, Moving
<1>2. \A v \in Worker : th[v].pc \in {"add_db", "erase_db", "erase_table"} \cup (Creation \ {"make_folder"}) => v = w
  BY <1>1 DEF Half
<1>3. /\ \A d \in Db : DbMirrored(d)
      /\ \A f \in Db \X Table : TableMirrored(f)
  BY DEF Mirrored
<1>4. \A d \in Db : \/ dbs[d] # Null <=> d \in dirs
                    \/ th[w].pc \in {"add_db", "erase_db"} /\ D(w) = d
  BY <1>2, <1>3 DEF DbMirrored
<1>5. \A f \in Db \X Table :
        \/ tabs[f] # Null <=> f \in folders \ left /\ (crashes = 0 \/ Place(f, Info) \in DOMAIN files)
        \/ th[w].pc \in (Creation \ {"make_folder"}) \cup {"erase_table"} /\ F(w) = f
        \/ th[w].pc = "erase_db" /\ D(w) = f[1]
  BY <1>2, <1>3 DEF TableMirrored
<1> QED BY <1>1, <1>4, <1>5

\* It is enough to look at w after a step of its.
LEMMA LonelyAfter ==
  ASSUME TypeInv, OneChanger, Mirrored, NEW w \in Worker, Step(w), th[w].pc \in Moving,
         \A d \in Db : \/ dbs'[d] # Null <=> d \in dirs'
                       \/ th'[w].pc \in {"add_db", "erase_db"} /\ D(w) = d,
         \A f \in Db \X Table :
           \/ tabs'[f] # Null <=> f \in folders' \ left' /\ (crashes = 0 \/ Place(f, Info) \in DOMAIN files')
           \/ th'[w].pc \in (Creation \ {"make_folder"}) \cup {"erase_table"} /\ F(w) = f
           \/ th'[w].pc = "erase_db" /\ D(w) = f[1],
         th'[w].pc = "add_db" => D(w) \in dirs',
         th'[w].pc = "erase_db" => D(w) \notin dirs',
         th'[w].pc = "erase_table" => F(w) \notin folders',
         th'[w].pc \in {"make_column", "find_slot", "link_table"} => Place(F(w), Info) \in DOMAIN files',
         th'[w].pc \in Creation \ {"make_folder"} => F(w) \notin left'
  PROVE  Mirrored'
<1>1. up /\ up' /\ crashes' = crashes
  BY Frame
<1>2. th'[w].pc # "idle" => D(w)' = D(w) /\ F(w)' = F(w)
  BY NamesKept
<1>3. \A d \in Db : DbMirrored(d)'
  BY <1>2 DEF DbMirrored
<1>4. ASSUME NEW f \in Db \X Table  PROVE TableMirrored(f)'
  <2>1. Place(f, Info)' = Place(f, Info)
    BY DEF Place
  <2>2. CASE tabs'[f] # Null <=> f \in folders' \ left' /\ (crashes = 0 \/ Place(f, Info) \in DOMAIN files')
    BY <1>1, <2>1, <2>2 DEF TableMirrored
  <2>3. CASE th'[w].pc \in (Creation \ {"make_folder"}) \cup {"erase_table"} /\ F(w) = f
    <3>1. F(w)' = f
      BY <1>2, <2>3 DEF Creation
    <3> QED BY <2>3, <3>1 DEF TableMirrored
  <2>4. CASE th'[w].pc = "erase_db" /\ D(w) = f[1]
    BY <1>2, <2>4 DEF TableMirrored
  <2> QED BY <2>2, <2>3, <2>4
<1>5. ASSUME NEW v \in Worker  PROVE HalfDone(v)'
  <2>1. CASE v = w
    <3>1. Place(F(w), Info)' = Place(F(w)', Info)
      BY DEF Place
    <3> QED BY <1>2, <2>1, <3>1 DEF HalfDone, Creation
  <2>2. CASE v # w
    <3>1. th'[v] = th[v] /\ th[v].pc \notin Half
      BY <1>1, <2>2, Lonely, Still
    <3> QED BY <3>1 DEF HalfDone, Half, Creation
  <2> QED BY <2>1, <2>2
<1> QED BY <1>1, <1>3, <1>4, <1>5 DEF Mirrored

LEMMA QuietMirror ==
  ASSUME TypeInv, Mirrored, NEW w \in Worker, Step(w), th[w].pc \notin Moving
  PROVE  Mirrored'
<1>1. /\ dirs' = dirs /\ folders' = folders /\ left' = left /\ DOMAIN files' = DOMAIN files
      /\ tabs' = tabs /\ dbs' = dbs /\ crashes' = crashes /\ th'[w].pc \notin Half
  BY QuietPaths
<1>2. th[w].pc \notin Half
  BY DEF Half, Moving
<1>3. \A v \in Worker : v # w => th'[v] = th[v] /\ D(v)' = D(v) /\ F(v)' = F(v)
  BY Still
<1>4. \A v \in Worker : th[v].pc \in Half => v # w /\ th'[v].pc = th[v].pc /\ D(v)' = D(v) /\ F(v)' = F(v)
  BY <1>2, <1>3
<1>5. up /\ up'
  BY Frame
<1>6. ASSUME NEW d \in Db  PROVE DbMirrored(d)'
  <2>1. DbMirrored(d)
    BY <1>5 DEF Mirrored
  <2> QED BY <1>1, <1>4, <2>1 DEF DbMirrored, Half
<1>7. ASSUME NEW f \in Db \X Table  PROVE TableMirrored(f)'
  <2>1. TableMirrored(f) /\ Place(f, Info)' = Place(f, Info)
    BY <1>5 DEF Mirrored, Place
  <2> QED BY <1>1, <1>4, <2>1 DEF TableMirrored, Half
<1>8. ASSUME NEW v \in Worker  PROVE HalfDone(v)'
  <2>1. HalfDone(v) /\ Place(F(v), Info)' = Place(F(v)', Info)
    BY <1>5 DEF Mirrored, Place
  <2>2. CASE v = w
    BY <1>1, <2>2 DEF HalfDone, Half, Creation
  <2>3. CASE v # w
    BY <1>1, <1>3, <2>1, <2>3 DEF HalfDone
  <2> QED BY <2>2, <2>3
<1> QED BY <1>5, <1>6, <1>7, <1>8 DEF Mirrored

\* A database is made on the disk, then listed.
LEMMA CreateMirror ==
  ASSUME TypeInv, OneChanger, ~ub, ~ub', Safe, Mirrored, NEW w \in Worker, Step(w),
         th[w].pc \in {"make_db", "add_db"}
  PROVE  Mirrored'
<1>0. up /\ th[w].pc \in Moving /\ D(w) \in Db /\ th \in [Worker -> Thread] /\ th[w] \in Thread
  BY Frame, Running DEF Moving, TypeInv, ThreadsOK
<1>1. HalfDone(w)
  BY <1>0 DEF Mirrored
<1>2. CASE th[w].pc = "make_db"
  <2>1. MakeDatabase(w)
    BY <1>2 DEF Step, At, CheckDatabase, AddDatabase, Names, LockDatabases, LockDatabase, LockTables,
       RemoveDatabase, EraseDatabase, GetTable, LockTable, RemoveTable, EraseTable, GetDatabase,
       CheckDir, CheckFolder, MakeFolder, WriteInfo, MakeColumn, FindSlot, LinkTable, ShareDatabase,
       FindTable, ShareTable, CheckValues, AppendColumn, ReadColumn, Show
  <2>2. /\ folders' = folders /\ files' = files /\ left' = left
        /\ \/ dirs' = dirs \cup {D(w)} /\ th'[w].pc = "add_db"
           \/ dirs' = dirs /\ th'[w].pc = "idle"
    BY <1>0, <1>2, <2>1, EndThread DEF MakeDatabase, Goto, Thread, traces
  <2>3. tabs' = tabs /\ dbs' = dbs
    BY <2>1, SameTabs DEF MakeDatabase
  <2> QED BY <1>0, <1>2, <2>2, <2>3, Lonely, LonelyAfter DEF Creation
<1>3. CASE th[w].pc = "add_db"
  <2>1. AddDatabase(w)
    BY <1>3, StepAt
  <2>2. /\ dirs' = dirs /\ folders' = folders /\ files' = files /\ left' = left
        /\ th'[w].pc = "names" /\ D(w) \in dirs
    BY <1>0, <1>1, <1>3, <2>1 DEF AddDatabase, Goto, Thread, disk, traces, HalfDone
  <2>3. tabs' = tabs
    BY <2>1, AddTabs
  <2>4. dbs'[D(w)] # Null /\ \A d \in Db : d # D(w) => dbs'[d] = dbs[d]
    <3>1. CASE dbs[D(w)] # Null
      BY <2>1, <3>1 DEF AddDatabase, memory
    <3>2. CASE dbs[D(w)] = Null
      <4>1. dbs' = [dbs EXCEPT ![D(w)] = Len(heap')] /\ heap' = Append(heap, NoTables)
        BY <2>1, <3>2 DEF AddDatabase
      <4>2. dbs \in [Db -> Object] /\ Len(heap') = Len(heap) + 1 /\ Len(heap) \in Nat
        BY <4>1, Objects0 DEF TypeInv, MemoryOK
      <4> QED BY <1>0, <4>1, <4>2 DEF Null
    <3> QED BY <3>1, <3>2
  <2> QED BY <1>0, <1>3, <2>2, <2>3, <2>4, Lonely, LonelyAfter DEF Creation
<1> QED BY <1>2, <1>3

\* A table is made on the disk, folder, layout and columns, then listed.
LEMMA TableMirror ==
  ASSUME TypeInv, TracesOK, OneChanger, ~ub, ~ub', Safe, Mirrored, NEW w \in Worker, Step(w),
         th[w].pc \in Creation
  PROVE  Mirrored'
<1>0. up /\ th[w].pc \in Moving /\ th \in [Worker -> Thread] /\ th[w] \in Thread /\ OneRewriter
  BY Frame, ChangerRewrites DEF Moving, TypeInv, ThreadsOK
<1>1. Folders /\ Pointers /\ Objects /\ Created(w) /\ HalfDone(w)
  BY <1>0 DEF Safe, Mirrored
<1>2. /\ dbs[D(w)] = th[w].db /\ th[w].db # Null
      /\ D(w) \in Db /\ T(w) \in Table /\ F(w) \in Db \X Table
  BY <1>1, RewriteOps, RewriterPointers DEF Creation, BeforeDb
<1>3. /\ D(w) \in dirs
      /\ \A d \in Db : dbs[d] # Null <=> d \in dirs
      /\ \A f \in Db \X Table :
           \/ tabs[f] # Null <=> f \in folders \ left /\ (crashes = 0 \/ Place(f, Info) \in DOMAIN files)
           \/ th[w].pc # "make_folder" /\ F(w) = f
  BY <1>0, <1>2, Lonely DEF Creation
<1>4. \A f \in Db \X Table : f # F(w) => (Place(f, Info) \in DOMAIN files' <=> Place(f, Info) \in DOMAIN files)
  BY <1>0, <1>1, InfoStep DEF Creation
<1>5. /\ tabs[F(w)] = Null /\ tabs[F(w)] = heap[th[w].db][T(w)]
      /\ F(w) \in folders <=> th[w].pc # "make_folder"
      /\ F(w) \notin left
  <2>1. /\ tabs[F(w)] = Null /\ tabs[F(w)] = heap[th[w].db][T(w)]
        /\ F(w) \in folders <=> th[w].pc # "make_folder"
    BY <1>1, <1>2, TabsAt DEF Created, Creation, BeforeDb
  <2>2. F(w) \notin left
    BY <1>1, <2>1 DEF TracesOK, HalfDone
  <2> QED BY <2>1, <2>2
<1>6. CASE th[w].pc = "make_folder"
  <2>1. MakeFolder(w)
    BY <1>6, StepAt
  <2>1a. files' = files /\ left' = left
    BY <2>1 DEF MakeFolder, traces
  <2>2. \/ /\ dirs' = dirs /\ folders' = folders \cup {F(w)} /\ th'[w].pc = "write_info"
        \/ /\ dirs' = dirs /\ folders' = folders /\ th'[w].pc = "idle"
    <3>1. CASE End(w) /\ UNCHANGED <<dirs, folders>>
      BY <1>6, <3>1, EndThread
    <3>2. CASE /\ dirs' = dirs \cup {D(w)} /\ folders' = folders \cup {F(w)}
               /\ Goto(w, "write_info")
      <4>1. th'[w].pc = "write_info"
        BY <1>0, <3>2 DEF Goto, Thread
      <4> QED BY <1>3, <3>2, <4>1
    <3> QED BY <2>1, <3>1, <3>2 DEF MakeFolder, F
  <2>3. tabs' = tabs /\ dbs' = dbs
    BY <2>1, SameTabs DEF MakeFolder
  <2>4. CASE folders' = folders /\ th'[w].pc = "idle"
    BY <1>0, <1>3, <1>6, <2>1a, <2>2, <2>3, <2>4, LonelyAfter DEF Creation
  <2>5. CASE folders' = folders \cup {F(w)} /\ th'[w].pc = "write_info"
    BY <1>0, <1>3, <1>5, <1>6, <2>1a, <2>2, <2>3, <2>5, LonelyAfter DEF Creation
  <2> QED BY <2>2, <2>4, <2>5
<1>7. CASE th[w].pc = "write_info"
  <2>1. WriteInfo(w) /\ F(w) \in folders
    BY <1>5, <1>7, StepAt
  <2>2. /\ dirs' = dirs /\ folders' = folders /\ left' = left /\ th'[w].pc = "make_column"
        /\ files' = Put(Place(F(w), Info), Layout)
    BY <1>0, <2>1, PlaceAt DEF WriteInfo, Goto, Thread, F, traces
  <2>3. tabs' = tabs /\ dbs' = dbs
    BY <2>1, SameTabs DEF WriteInfo
  <2>4. Place(F(w), Info) \in DOMAIN files'
    BY <2>2, PutFiles
  <2> QED BY <1>0, <1>3, <1>4, <1>5, <1>7, <2>2, <2>3, <2>4, LonelyAfter DEF Creation
<1>8. CASE th[w].pc = "make_column"
  <2>1. MakeColumn(w) /\ F(w) \in folders
    BY <1>5, <1>8, StepAt
  <2>2. dirs' = dirs /\ folders' = folders
    BY <2>1 DEF MakeColumn
  <2>3. tabs' = tabs /\ dbs' = dbs
    BY <2>1, SameTabs DEF MakeColumn
  <2>4. CASE End(w) /\ files' = files /\ left' = left \cup (folders \cap {F(w)})
    <3>1. th'[w].pc = "idle"
      BY <1>8, <2>4, EndThread
    <3>2. left' = left \cup {F(w)}
      BY <2>1, <2>4
    <3> QED BY <1>0, <1>3, <1>5, <1>8, <2>2, <2>3, <2>4, <3>1, <3>2, LonelyAfter DEF Creation
  <2>5. CASE /\ \E p : files' = Put(p, <<>>)
             /\ th' = [th EXCEPT ![w].at = th[w].at + 1,
                                 ![w].pc = IF th[w].at = NCols THEN "find_slot" ELSE @]
             /\ left' = left
    <3>1. th'[w] = [th[w] EXCEPT !.at = th[w].at + 1,
                                 !.pc = IF th[w].at = NCols THEN "find_slot" ELSE @]
      BY <1>0, <2>5
    <3>2. th'[w].pc \in {"make_column", "find_slot"}
      BY <1>0, <1>8, <3>1 DEF Thread
    <3>3. Place(F(w), Info) \in DOMAIN files'
      <4>1. Place(F(w), Info) \in DOMAIN files
        BY <1>1, <1>8 DEF HalfDone
      <4> QED BY <2>5, <4>1, PutFiles
    <3> QED BY <1>0, <1>3, <1>4, <1>5, <1>8, <2>2, <2>3, <2>5, <3>2, <3>3, LonelyAfter DEF Creation
  <2> QED BY <2>1, <2>4, <2>5 DEF MakeColumn, F
<1>9. CASE th[w].pc = "find_slot"
  <2>1. FindSlot(w) /\ heap[th[w].db][T(w)] = Null
    BY <1>5, <1>9, StepAt
  <2>2. /\ dirs' = dirs /\ folders' = folders /\ files' = files /\ left' = left
        /\ th' = [th EXCEPT ![w].list = heap[th[w].db], ![w].pc = "link_table"]
    BY <2>1 DEF FindSlot, disk, traces
  <2>3. th'[w] = [th[w] EXCEPT !.list = heap[th[w].db], !.pc = "link_table"]
    BY <1>0, <2>2
  <2>4. th'[w].pc = "link_table"
    BY <1>0, <2>3 DEF Thread
  <2>5. tabs' = tabs /\ dbs' = dbs
    BY <2>1, SameTabs DEF FindSlot
  <2>6. Place(F(w), Info) \in DOMAIN files'
    BY <1>1, <1>9, <2>2 DEF HalfDone
  <2> QED BY <1>0, <1>3, <1>4, <1>5, <1>9, <2>2, <2>4, <2>5, <2>6, LonelyAfter DEF Creation
<1>10. CASE th[w].pc = "link_table"
  <2>1. LinkTable(w)
    BY <1>10, StepAt
  <2>2. /\ dirs' = dirs /\ folders' = folders /\ files' = files /\ left' = left /\ th'[w].pc = "idle"
    BY <1>0, <1>10, <2>1, EndThread DEF LinkTable, disk, traces
  <2>3. tabs' = [tabs EXCEPT ![F(w)] = Len(heap) + 1] /\ dbs' = dbs
    BY <1>1, <1>2, <2>1, LinkTabs
  <2>4. tabs'[F(w)] # Null /\ \A f \in Db \X Table : f # F(w) => tabs'[f] = tabs[f]
    BY <1>2, <2>3, TabsType DEF Null
  <2>5. F(w) \in folders /\ Place(F(w), Info) \in DOMAIN files
    BY <1>1, <1>5, <1>10 DEF HalfDone
  <2>6. \A f \in Db \X Table :
          tabs'[f] # Null <=> f \in folders' \ left' /\ (crashes = 0 \/ Place(f, Info) \in DOMAIN files')
    BY <1>3, <1>5, <2>2, <2>4, <2>5
  <2> QED BY <1>0, <1>3, <2>2, <2>3, <2>6, LonelyAfter DEF Creation
<1> QED BY <1>6, <1>7, <1>8, <1>9, <1>10 DEF Creation

\* A table is removed from the disk, then from the list.
LEMMA DeleteTableMirror ==
  ASSUME TypeInv, OneChanger, ~ub, ~ub', Safe, Mirrored, NEW w \in Worker, Step(w),
         th[w].pc \in {"remove_table", "erase_table"}
  PROVE  Mirrored'
<1>0. up /\ th[w].pc \in Moving /\ th \in [Worker -> Thread] /\ th[w] \in Thread /\ OneRewriter
  BY Frame, ChangerRewrites DEF Moving, TypeInv, ThreadsOK
<1>1. Folders /\ Pointers /\ Objects /\ HalfDone(w)
  BY <1>0 DEF Safe, Mirrored
<1>2. /\ dbs[D(w)] = th[w].db /\ F(w) \in Db \X Table /\ Op(w) \in Rewrites
  BY <1>1, RewriteOps, RewriterPointers DEF BeforeDb
<1>3. /\ \A d \in Db : dbs[d] # Null <=> d \in dirs
      /\ \A f \in Db \X Table :
           \/ tabs[f] # Null <=> f \in folders \ left /\ (crashes = 0 \/ Place(f, Info) \in DOMAIN files)
           \/ th[w].pc = "erase_table" /\ F(w) = f
  BY <1>0, Lonely DEF Creation
<1>4. CASE th[w].pc = "remove_table"
  <2>1. RemoveTable(w) /\ ~BeingFilled(w, F(w))
    BY <1>0, <1>2, <1>4, StepAt, NotFilled
  <2>2. /\ dirs' = dirs /\ folders' = folders \ {F(w)} /\ left' = left \ {F(w)}
        /\ th'[w].pc = "erase_table"
    BY <1>0, <2>1 DEF RemoveTable, Goto, Thread, F
  <2>3. tabs' = tabs /\ dbs' = dbs
    BY <2>1, SameTabs DEF RemoveTable
  <2>4. \A f \in Db \X Table : f # F(w) => (Place(f, Info) \in DOMAIN files' <=> Place(f, Info) \in DOMAIN files)
    BY <1>0, <1>1, <1>4, InfoStep
  <2> QED BY <1>0, <1>3, <1>4, <2>2, <2>3, <2>4, LonelyAfter DEF Creation
<1>5. CASE th[w].pc = "erase_table"
  <2>1. EraseTable(w)
    BY <1>5, StepAt
  <2>2. /\ dirs' = dirs /\ folders' = folders /\ files' = files /\ left' = left /\ th'[w].pc = "idle"
    BY <1>0, <1>5, <2>1, EndThread DEF EraseTable, disk, traces
  <2>3. tabs' = [tabs EXCEPT ![F(w)] = Null] /\ dbs' = dbs
    BY <1>1, <1>2, <2>1, EraseTableTabs
  <2>4. tabs'[F(w)] = Null /\ F(w) \notin folders /\ \A f \in Db \X Table : f # F(w) => tabs'[f] = tabs[f]
    BY <1>1, <1>2, <1>5, <2>3, TabsType DEF HalfDone
  <2>5. \A f \in Db \X Table :
          tabs'[f] # Null <=> f \in folders' \ left' /\ (crashes = 0 \/ Place(f, Info) \in DOMAIN files')
    BY <1>3, <2>2, <2>4
  <2> QED BY <1>0, <1>3, <2>2, <2>3, <2>5, LonelyAfter DEF Creation
<1> QED BY <1>4, <1>5

\* A database is removed from the disk, then from the list.
LEMMA DeleteDbMirror ==
  ASSUME TypeInv, OneChanger, ~ub, ~ub', Safe, Mirrored, NEW w \in Worker, Step(w),
         th[w].pc \in {"remove_db", "erase_db"}
  PROVE  Mirrored'
<1>0. up /\ th[w].pc \in Moving /\ th \in [Worker -> Thread] /\ th[w] \in Thread /\ OneRewriter
  BY Frame, ChangerRewrites DEF Moving, TypeInv, ThreadsOK
<1>1. Folders /\ Pointers /\ Objects /\ HalfDone(w)
  BY <1>0 DEF Safe, Mirrored
<1>2. /\ dbs[D(w)] = th[w].db /\ th[w].db # Null /\ D(w) \in Db /\ Op(w) \in Rewrites
  BY <1>1, RewriteOps, RewriterPointers DEF BeforeDb
<1>3. /\ \A d \in Db : \/ dbs[d] # Null <=> d \in dirs
                       \/ th[w].pc = "erase_db" /\ D(w) = d
      /\ \A f \in Db \X Table :
           \/ tabs[f] # Null <=> f \in folders \ left /\ (crashes = 0 \/ Place(f, Info) \in DOMAIN files)
           \/ th[w].pc = "erase_db" /\ D(w) = f[1]
  BY <1>0, Lonely DEF Creation
<1>4. CASE th[w].pc = "remove_db"
  <2>1. RemoveDatabase(w) /\ \A f \in FoldersOf(D(w)) : ~BeingFilled(w, f)
    BY <1>0, <1>2, <1>4, StepAt, NotFilled
  <2>2. D(w) \in dirs
    BY <1>2, <1>3, <1>4
  <2>3. /\ dirs' = dirs \ {D(w)} /\ folders' = folders \ FoldersOf(D(w))
        /\ left' = left \ FoldersOf(D(w)) /\ th'[w].pc = "erase_db"
    BY <1>0, <2>1, <2>2 DEF RemoveDatabase, Goto, Thread
  <2>4. tabs' = tabs /\ dbs' = dbs
    BY <2>1, SameTabs DEF RemoveDatabase
  <2>5. \A f \in Db \X Table : f[1] # D(w) => (Place(f, Info) \in DOMAIN files' <=> Place(f, Info) \in DOMAIN files)
    BY <1>0, <1>1, <1>4, InfoStep
  <2>6. \A f \in Db \X Table : f[1] # D(w) => (f \in folders' \ left' <=> f \in folders \ left)
    BY <2>3 DEF FoldersOf
  <2> QED BY <1>0, <1>3, <1>4, <2>3, <2>4, <2>5, <2>6, LonelyAfter DEF Creation
<1>5. CASE th[w].pc = "erase_db"
  <2>1. EraseDatabase(w)
    BY <1>5, StepAt
  <2>2. /\ dirs' = dirs /\ folders' = folders /\ files' = files /\ left' = left /\ th'[w].pc = "idle"
    BY <1>0, <1>5, <2>1, EndThread DEF EraseDatabase, disk, traces
  <2>3. /\ tabs' = [f \in Db \X Table |-> IF f[1] = D(w) THEN Null ELSE tabs[f]]
        /\ dbs' = [dbs EXCEPT ![D(w)] = Null] /\ dbs \in [Db -> Object]
    BY <1>1, <1>2, <2>1, EraseDbTabs, TabsType
  <2>4. D(w) \notin dirs /\ \A f \in Db \X Table : f[1] = D(w) => f \notin folders
    BY <1>1, <1>5 DEF HalfDone, Folders
  <2>5. \A d \in Db : dbs'[d] # Null <=> d \in dirs'
    BY <1>3, <2>2, <2>3, <2>4
  <2>6. \A f \in Db \X Table :
          tabs'[f] # Null <=> f \in folders' \ left' /\ (crashes = 0 \/ Place(f, Info) \in DOMAIN files')
    BY <1>3, <2>2, <2>3, <2>4
  <2> QED BY <1>0, <2>2, <2>5, <2>6, LonelyAfter DEF Creation
<1> QED BY <1>4, <1>5

LEMMA NextMirror ==
  ASSUME OneChanger, TypeInv, TypeInv', TracesOK, SafeInv, MirrorInv, [Next]_vars  PROVE MirrorInv'
<1>1. SUFFICES ASSUME ~ub'  PROVE Mirrored'
  BY DEF MirrorInv
<1>2. ~ub
  BY <1>1, LockFrame DEF Next, Receive, Crash, Load, history, vars
<1>3. Safe /\ Mirrored
  BY <1>2, ChangerRewrites DEF SafeInv, MirrorInv
<1>4. CASE UNCHANGED vars
  <2>1. UNCHANGED <<dirs, folders, files, left, dbs, heap, th, up, crashes>>
    BY <1>4 DEF vars, disk, traces, memory, process
  <2>2. tabs' = tabs
    BY <2>1 DEF tabs
  <2> QED BY <1>3, <2>1, <2>2 DEF Mirrored, DbMirrored, TableMirrored, HalfDone, F, D, T, Place
<1>5. ASSUME NEW w \in Worker, Step(w)  PROVE Mirrored'
  BY <1>1, <1>2, <1>3, <1>5, QuietMirror, CreateMirror, TableMirror, DeleteTableMirror, DeleteDbMirror
     DEF Moving
<1>6. ASSUME NEW w \in Worker, Receive(w)  PROVE Mirrored'
  <2>1. UNCHANGED <<dirs, folders, files, left, dbs, heap, up, crashes>> /\ up
    BY <1>6 DEF Receive, At, disk, traces, memory, process
  <2>2. tabs' = tabs
    BY <2>1 DEF tabs
  <2>3. th[w].pc = "idle" /\ th'[w].pc \notin Half
    <3>1. PICK s \in Script[w] : th' = [th EXCEPT ![w].s = s, ![w].pc = First[s.op]]
      BY <1>6 DEF Receive
    <3>2. th[w] \in Thread /\ th \in [Worker -> Thread] /\ th[w].pc = "idle"
      BY <1>6 DEF Receive, At, TypeInv, ThreadsOK
    <3>3. th'[w] = [th[w] EXCEPT !.s = s, !.pc = First[s.op]]
      BY <3>1, <3>2
    <3>4. th'[w].pc = First[s.op]
      BY <3>2, <3>3 DEF Thread
    <3>5. First[s.op] \notin Half
      BY CatalogAssumption DEF CatalogAssumption, First, Half, Creation
    <3> QED BY <3>2, <3>4, <3>5
  <2>4. \A v \in Worker : v # w => th'[v] = th[v] /\ D(v)' = D(v) /\ F(v)' = F(v)
    BY <1>6, Still
  <2>5. \A v \in Worker : th[v].pc \in Half => v # w /\ th'[v].pc = th[v].pc /\ D(v)' = D(v) /\ F(v)' = F(v)
    BY <2>3, <2>4 DEF Half, Creation
  <2>6. ASSUME NEW d \in Db  PROVE DbMirrored(d)'
    <3>1. DbMirrored(d)
      BY <1>3, <2>1 DEF Mirrored
    <3> QED BY <2>1, <2>5, <3>1 DEF DbMirrored, Half
  <2>7. ASSUME NEW f \in Db \X Table  PROVE TableMirrored(f)'
    <3>1. TableMirrored(f) /\ Place(f, Info)' = Place(f, Info)
      BY <1>3, <2>1 DEF Mirrored, Place
    <3> QED BY <2>1, <2>2, <2>5, <3>1 DEF TableMirrored, Half
  <2>8. ASSUME NEW v \in Worker  PROVE HalfDone(v)'
    <3>1. HalfDone(v) /\ Place(F(v), Info)' = Place(F(v)', Info)
      BY <1>3, <2>1 DEF Mirrored, Place
    <3>2. CASE v = w
      BY <2>3, <3>2 DEF HalfDone, Half, Creation
    <3>3. CASE v # w
      BY <2>1, <2>4, <3>1, <3>3 DEF HalfDone
    <3> QED BY <3>2, <3>3
  <2> QED BY <2>1, <2>6, <2>7, <2>8 DEF Mirrored
<1>7. CASE Crash
  BY <1>7 DEF Crash, Mirrored
<1>8. CASE Load
  <2>1. /\ ~up /\ up' /\ left = {} /\ left' = {}
        /\ UNCHANGED <<dirs, folders, files, th, crashes>>
    BY <1>3, <1>8 DEF Load, disk, traces, Mirrored
  <2>2. \A w \in Worker : th[w].pc = "idle"
    BY <2>1 DEF TypeInv, Down
  <2>3. /\ \A d \in Db : dbs'[d] = IF d \in dirs THEN Number[d] ELSE Null
        /\ \A f \in Db \X Table : tabs'[f] = IF f \in Listed THEN Number[f] ELSE Null
    BY <1>3, <1>8, LoadTabs DEF Safe
  <2>4. \A a \in Found : Number[a] # Null
    BY NumberType DEF TypeInv, Null
  <2>5. \A d \in Db : DbMirrored(d)'
    BY <2>1, <2>3, <2>4 DEF DbMirrored, Found
  <2>6. ASSUME NEW f \in Db \X Table  PROVE TableMirrored(f)'
    <3>1. f \in Listed <=> f \in folders /\ Place(f, Info) \in DOMAIN files
      BY DEF Listed, Place
    <3>2. crashes = 0 /\ f \in folders => Place(f, Info) \in DOMAIN files
      BY <1>3, <2>1 DEF Safe, Complete
    <3>3. tabs'[f] # Null <=> f \in Listed
      BY <2>3, <2>4 DEF Found
    <3> QED BY <2>1, <3>1, <3>2, <3>3 DEF TableMirrored, Place
  <2>7. \A w \in Worker : HalfDone(w)'
    BY <2>1, <2>2 DEF HalfDone
  <2> QED BY <2>1, <2>5, <2>6, <2>7 DEF Mirrored
<1> QED BY <1>4, <1>5, <1>6, <1>7, <1>8 DEF Next

----------------------------------------------------------------------------
(* The theorems. *)

LEMMA NextSafe ==
  ASSUME OneRewriter, TypeInv, TypeInv', SafeInv, [Next]_vars  PROVE SafeInv'
<1>1. SUFFICES ASSUME ~ub'  PROVE Safe'
  BY DEF SafeInv
<1>2. CASE UNCHANGED vars
  <2>1. ~ub /\ Safe
    BY <1>1, <1>2 DEF SafeInv, vars, history
  <2>2. UNCHANGED <<dirs, folders, files, dbs, heap, live, excl, shar, th, up, crashes, acked>>
    BY <1>2 DEF vars, disk, memory, locks, process, history
  <2>3. tabs' = tabs
    BY <2>2 DEF tabs
  <2>4. Objects' /\ Pointers' /\ Locks' /\ Folders' /\ Complete'
    BY <2>1, <2>2, <2>3 DEF Safe, Objects, Pointers, DbPointer, TablePointer, Locks, Folders,
       Complete, F, D, T, Op, Place
  <2>5. \A w \in Worker : Held(w)' /\ Created(w)' /\ Written(w)' /\ Level(w)' /\ Seen(w)'
    <3>1. ASSUME NEW w \in Worker  PROVE Held(w)' /\ Created(w)'
      <4>1. Held(w) /\ Created(w)
        BY <2>1 DEF Safe
      <4>2. Held(w)'
        BY <2>2, <2>3, <4>1 DEF Held, D, T, Op
      <4>3. Created(w)'
        BY <2>2, <2>3, <4>1 DEF Created, F, D, T, Place
      <4> QED BY <4>2, <4>3
    <3>2. ASSUME NEW w \in Worker  PROVE Written(w)' /\ Level(w)' /\ Seen(w)'
      <4>1. Written(w) /\ Level(w) /\ Seen(w)
        BY <2>1 DEF Safe
      <4>2. Written(w)' /\ Level(w)'
        BY <2>2, <4>1 DEF Written, Level, F, D, T, Row, Place
      <4>3. Seen(w)'
        BY <2>2, <4>1 DEF Seen, Shown, F, D, T, Op, Place
      <4> QED BY <4>2, <4>3
    <3> QED BY <3>1, <3>2
  <2>6. ColumnsInStep' /\ RowsAligned'
    BY <2>1, <2>2, <1>2 DEF Safe, ColumnsInStep, RowsAligned, D, T, vars, history
  <2> QED BY <2>4, <2>5, <2>6 DEF Safe
<1>3. ASSUME NEW w \in Worker, Step(w)  PROVE Safe'
  <2>1. ~ub
    BY <1>1, <1>3, LockFrame
  <2>2. Safe
    BY <2>1 DEF SafeInv
  <2> QED BY <1>1, <1>3, <2>1, <2>2, StepSafe
<1>4. ASSUME NEW w \in Worker, Receive(w)  PROVE Safe'
  <2>1. ~ub
    BY <1>1, <1>4 DEF Receive, history
  <2> QED BY <1>4, <2>1, ReceiveSafe DEF SafeInv
<1>5. CASE Crash
  <2>1. ~ub
    BY <1>1, <1>5 DEF Crash
  <2> QED BY <1>5, <2>1, CrashSafe DEF SafeInv
<1>6. CASE Load
  <2>1. ~ub
    BY <1>1, <1>6 DEF Load, history
  <2> QED BY <1>6, <2>1, LoadSafe DEF SafeInv
<1> QED BY <1>2, <1>3, <1>4, <1>5, <1>6 DEF Next

\* A CREATE TABLE has its table for itself where one connection rewrites.
LEMMA NextContested ==
  ASSUME OneRewriter, TypeInv, SafeInv, ~ub => contested = {}, [Next]_vars, ~ub'
  PROVE  contested' = {}
<1>1. CASE UNCHANGED <<contested, ub>>
  BY <1>1
<1>2. ASSUME NEW w \in Worker, Step(w)  PROVE contested' = {}
  <2>1. ~ub /\ contested = {} /\ Safe
    BY <1>2, LockFrame DEF SafeInv
  <2>2. CASE UNCHANGED contested
    BY <2>1, <2>2
  <2>3. CASE MakeColumn(w)
    <3>1. th[w].pc = "make_column" /\ th[w].pc # "idle"
      BY <2>3 DEF MakeColumn, At
    <3>2. F(w) \in Db \X Table /\ NewColumn(w) = Place(F(w), th[w].at) /\ th[w].at \in Col
      BY <3>1, PlaceAt, Running DEF F, NewColumn, Proper
    <3>3. tabs[F(w)] = Null /\ (NewColumn(w) \in DOMAIN files => files[NewColumn(w)] = <<>>)
      BY <2>1, <3>1, <3>2 DEF Safe, Created, Creation
    <3>4. ASSUME NEW v \in Worker, th[v].pc = "append"  PROVE F(v) # F(w)
      BY <2>1, <3>3, <3>4, LockedTable DEF Safe
    <3>5. InUse(w) = {}
      BY <3>3, <3>4 DEF InUse, F
    <3> QED BY <2>1, <2>3, <3>5 DEF MakeColumn
  <2>4. CASE RemoveDatabase(w) \/ RemoveTable(w)
    <3>1. \A f : ~BeingFilled(w, f)
      BY <1>2, <2>4, NotFilled, RewriteOps, Frame DEF RemoveDatabase, RemoveTable, At
    <3> QED BY <2>1, <2>4, <3>1 DEF RemoveDatabase, RemoveTable
  <2>5. CASE Looks(w) \/ Takes(w) \/ Changes(w)
    <3>1. UNCHANGED disk
      BY <2>5 DEF Looks, Takes, Changes, CheckDatabase, Names, LockDatabase, LockTables, CheckDir,
           CheckFolder, ShareDatabase, ShareTable, CheckValues, LockTable, Show, LockDatabases,
           GetTable, GetDatabase, FindTable, FindSlot, ReadColumn, AddDatabase, EraseDatabase,
           EraseTable, LinkTable
    <3> QED BY <2>2, <3>1 DEF disk, traces
  <2>6. CASE MakeDatabase(w) \/ MakeFolder(w) \/ WriteInfo(w) \/ AppendColumn(w)
    BY <2>2, <2>6 DEF MakeDatabase, MakeFolder, WriteInfo, AppendColumn, traces
  <2> QED BY <1>2, <2>3, <2>4, <2>5, <2>6 DEF Step, Looks, Takes, Works, Changes
<1>3. ASSUME NEW w \in Worker, Receive(w)  PROVE contested' = {}
  BY <1>1, <1>3 DEF Receive, disk, traces, history
<1> QED BY <1>1, <1>2, <1>3 DEF Next, Crash, Load, vars, disk, traces, history

\* The lists, the locks and the files stay as the parts of Safe say, if one
\* connection rewrites.
THEOREM InvariantSafe == ASSUME OneRewriter PROVE Spec => []SafeInv
<1>1. Init => SafeInv
  BY InitSafe DEF SafeInv
<1>2. TypeInv /\ TypeInv' /\ SafeInv /\ [Next]_vars => SafeInv'
  BY NextSafe
<1> QED BY <1>1, <1>2, InvariantType, PTL DEF Spec

\* A later column never holds a row that an earlier one lacks: what an INSERT
\* that did not finish leaves is a prefix of its row (try_insert), whenever
\* the process dies.
THEOREM ColumnsStayInStep == ASSUME OneRewriter PROVE Spec => []ColumnsInStep
<1>1. SafeInv => ColumnsInStep
  BY DEF SafeInv, Safe, ColumnsInStep
<1> QED BY <1>1, InvariantSafe, PTL

\* Until the process dies, entry i of every column of a table is row i, but
\* for the row an INSERT is appending.
THEOREM RowsStayAligned == ASSUME OneRewriter PROVE Spec => []RowsAligned
<1>1. SafeInv => RowsAligned
  BY DEF SafeInv, Safe, RowsAligned
<1> QED BY <1>1, InvariantSafe, PTL

\* Whoever creates and deletes tables, and whenever the process dies: a row that was
\* reported as inserted stays in every column until a DELETE takes its files or a
\* CREATE TABLE fills the table while it is in use (main.cpp:112).
THEOREM RowsPersist == Spec => []AckedRowsPersist
<1>1. Kept => AckedRowsPersist
  BY DEF Kept, Reported, Holds, Place, AckedRowsPersist
<1>2. Init => Kept
  BY InitKept
<1>3. TypeInv /\ Kept /\ [Next]_vars => Kept'
  BY NextKept
<1> QED BY <1>1, <1>2, <1>3, InvariantType, PTL DEF Spec

\* With one connection that creates and deletes, next to any number that insert
\* and read, no table is ever contested: no reported row is lost at all.
THEOREM NeverContested == ASSUME OneRewriter PROVE Spec => [](~ub => contested = {})
<1> DEFINE Free == ~ub => contested = {}
<1>1. Init => Free
  BY DEF Init
<1>2. TypeInv /\ SafeInv /\ Free /\ [Next]_vars => Free'
  BY NextContested
<1> HIDE DEF Free
<1>3. Spec => []Free
  BY <1>1, <1>2, InvariantType, InvariantSafe, PTL DEF Spec
<1> QED BY <1>3, PTL DEF Free

\* SHOW of all the data indexes no column past its end: those it loaded after
\* the first one are no shorter.
THEOREM ShowStaysInRange == ASSUME OneRewriter PROVE Spec => []ShowInRange
<1>1. SafeInv => ShowInRange
  BY DEF SafeInv, Safe, ShowInRange, Seen
<1> QED BY <1>1, InvariantSafe, PTL

LEMMA WriterStays ==
  ASSUME OneRewriter, TypeInv, SafeInv, [Next]_vars, up', ~ub',
         NEW v \in Worker, th[v].pc = "append", th'[v] = th[v]
  PROVE  LET mine == FilesOf({<<D(v), T(v)>>})
         IN  mine \subseteq DOMAIN files' /\ \A p \in mine : files'[p] = files[p]
<1>1. CASE files' = files
  BY <1>1 DEF FilesOf
<1>2. ASSUME NEW w \in Worker, Step(w), files' # files  PROVE Same(F(v))
  <2>1. ~ub
    BY <1>2, LockFrame
  <2>2. Pointers /\ Locks /\ Folders /\ Created(w) /\ Held(w) /\ Held(v)
    BY <2>1 DEF SafeInv, Safe
  <2>3. CASE w = v
    <3>1. AppendColumn(v)
      BY <1>2, <2>3, StepAt
    <3>2. th \in [Worker -> Thread] /\ th[v].at \in Nat
      BY Columns DEF TypeInv, ThreadsOK
    <3>3. End(v) \/ th' = [th EXCEPT ![v].at = th[v].at + 1]
      BY <3>1 DEF AppendColumn
    <3>4. th'[v] # th[v]
      <4>1. CASE End(v)
        BY <4>1, EndThread
      <4>2. CASE th' = [th EXCEPT ![v].at = th[v].at + 1]
        <5>1. th[v] \in Thread /\ th'[v] = [th[v] EXCEPT !.at = th[v].at + 1]
          BY <3>2, <4>2
        <5>2. th'[v].at = th[v].at + 1
          BY <5>1 DEF Thread
        <5> QED BY <3>2, <5>2
      <4> QED BY <3>3, <4>1, <4>2
    <3> QED BY <3>4
  <2>4. CASE w # v
    BY <1>2, <2>2, <2>4, Undisturbed
  <2> QED BY <2>3, <2>4
<1>3. Same(F(v)) \/ files' = files
  <2>1. files' = files \/ \E w \in Worker : Step(w)
    BY DEF Next, Receive, Crash, Load, disk, vars
  <2> QED BY <1>2, <2>1
<1>4. CASE Same(F(v))
  <2>1. ASSUME NEW p \in FilesOf({<<D(v), T(v)>>})
        PROVE  p \in DOMAIN files' /\ files'[p] = files[p]
    <3>1. p \in DOMAIN files /\ <<p[1], p[2]>> = F(v) /\ p \in Path
      BY <2>1 DEF FilesOf, F, TypeInv, DiskOK
    <3>2. p = Place(F(v), p[3]) /\ p[3] \in Col \cup {Info}
      BY <3>1, Places
    <3> QED BY <1>4, <3>1, <3>2 DEF Same
  <2> QED BY <2>1
<1> QED BY <1>1, <1>3, <1>4

\* No DELETE takes the files an INSERT is filling, no other INSERT puts its
\* row in between.
THEOREM WritersStayUndisturbed == ASSUME OneRewriter PROVE Spec => WritersUndisturbed
<1>1. TypeInv /\ SafeInv /\ [Next]_vars =>
        [up' /\ ~ub' =>
          \A w \in Worker : th[w].pc = "append" /\ th'[w] = th[w] =>
            LET mine == FilesOf({<<D(w), T(w)>>})
            IN  /\ mine \subseteq DOMAIN files'
                /\ \A p \in mine : files'[p] = files[p]]_vars
  BY WriterStays
<1> QED BY <1>1, InvariantType, InvariantSafe, PTL DEF Spec, WritersUndisturbed

\* The lists and the disk differ only between the two halves of a change, and by the
\* folder of a CREATE TABLE that could not make a column (table.cpp:121).
THEOREM InvariantMirror == ASSUME OneChanger PROVE Spec => []MirrorInv
<1>1. Init => MirrorInv
  BY DEF Init, MirrorInv, Mirrored
<1>2. TypeInv /\ TypeInv' /\ TracesOK /\ SafeInv /\ MirrorInv /\ [Next]_vars
        => MirrorInv'
  BY NextMirror
<1>3. Spec => []SafeInv
  BY ChangerRewrites, InvariantSafe
<1> QED BY <1>1, <1>2, <1>3, InvariantType, InvariantTraces, PTL DEF Spec

\* Between the statements that change them, the lists in memory are the
\* directories on the disk, but for the folders of the CREATE TABLE statements
\* of this process that could not make a column.
THEOREM MemoryMirrorsDisk == ASSUME OneChanger PROVE Spec => []MirrorsDisk
<1>1. TypeInv /\ MirrorInv => MirrorsDisk
  <2> SUFFICES ASSUME TypeInv, MirrorInv, up, ~ub,
                      \A w \in Worker : th[w].pc # "idle" => Op(w) \notin Changing,
                      NEW d \in Db
               PROVE  /\ dbs[d] # Null <=> d \in dirs
                      /\ dbs[d] # Null =>
                           \A t \in Table :
                             heap[dbs[d]][t] # Null <=>
                               /\ <<d, t>> \in folders \ left
                               /\ crashes = 0 \/ <<d, t, Info>> \in DOMAIN files
    BY DEF MirrorsDisk
  <2>1. \A w \in Worker : th[w].pc \notin Half
    <3>1. ASSUME NEW w \in Worker, th[w].pc \in Half  PROVE FALSE
      <4>1. th[w].pc # "idle" /\ OpsAt(th[w].pc) \subseteq Changing
        BY <3>1 DEF Half, Creation, OpsAt, Changing
      <4>2. Op(w) \in OpsAt(th[w].pc)
        BY <4>1 DEF TypeInv, ThreadsOK, Proper, Op
      <4> QED BY <4>1, <4>2
    <3> QED BY <3>1
  <2>2. DbMirrored(d) /\ \A t \in Table : TableMirrored(<<d, t>>)
    BY DEF MirrorInv, Mirrored
  <2>3. dbs[d] # Null <=> d \in dirs
    BY <2>1, <2>2 DEF DbMirrored, Half
  <2>4. ASSUME NEW t \in Table, dbs[d] # Null
        PROVE  heap[dbs[d]][t] # Null <=>
                 /\ <<d, t>> \in folders \ left
                 /\ crashes = 0 \/ <<d, t, Info>> \in DOMAIN files
    <3>1. TableMirrored(<<d, t>>) /\ <<d, t>> \in Db \X Table /\ <<d, t>>[1] = d /\ <<d, t>>[2] = t
      BY <2>2
    <3>2. tabs[<<d, t>>] = heap[dbs[d]][t]
      BY <2>4, <3>1 DEF tabs
    <3>3. Place(<<d, t>>, Info) = <<d, t, Info>>
      BY DEF Place
    <3> QED BY <2>1, <3>1, <3>2, <3>3 DEF TableMirrored, Half
  <2> QED BY <2>3, <2>4
<1> QED BY <1>1, InvariantMirror, InvariantType, PTL

=============================================================================
