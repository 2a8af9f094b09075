-------------------------- MODULE CatalogInvariant --------------------------
(***************************************************************************)
(* Why the properties of Catalog hold: the inductive invariants of its     *)
(* proofs.  TypeInv and Kept hold however the statements are divided among *)
(* the connections.  Safe is about one connection that creates and deletes     *)
(* tables and deletes databases, Mirrored about one that also creates the  *)
(* databases, next to any number that insert and read.                     *)
(***************************************************************************)
EXTENDS CatalogProperties

Object == 0 .. Len(heap)

\* What a statement may have left in the record of its thread.
Thread == [pc : Labels, s : Statement \cup {Nothing}, db : Object, tb : Object,
           at : 1 .. NCols + 1, seen : Seq(Nat), list : [Table -> Object], done : Nat]

Shows == {"show_db", "show_table", "show_column", "show_data"}
Creation == {"make_folder", "write_info", "make_column", "find_slot", "link_table"}

\* The statements that have a step l.
OpsAt(l) ==
    IF l \in {"check_db", "make_db", "add_db"} THEN {"create_db"}
    ELSE IF l = "names" THEN {"create_db", "show_dbs"}
    ELSE IF l \in {"delete", "lock_db"} THEN {"delete_db", "delete_table"}
    ELSE IF l \in {"lock_tables", "remove_db", "erase_db"} THEN {"delete_db"}
    ELSE IF l \in {"get_table", "remove_table", "erase_table"} THEN {"delete_table"}
    ELSE IF l = "get_db" THEN Shows \cup {"create_table", "insert"}
    ELSE IF l \in Creation \cup {"check_dir", "check_folder"} THEN {"create_table"}
    ELSE IF l \in {"share_db", "show"} THEN Shows
    ELSE IF l = "find_table" THEN (Shows \ {"show_db"}) \cup {"insert"}
    ELSE IF l = "share_table" THEN {"show_table"}
    ELSE IF l \in {"check_values", "append"} THEN {"insert"}
    ELSE IF l = "lock_table" THEN {"delete_table", "insert", "show_column", "show_data"}
    ELSE {"show_column", "show_data"}

BeforeDb == {"idle", "check_db", "make_db", "add_db", "names", "delete", "get_db"}
WithTable == {"lock_table", "remove_table", "erase_table", "share_table",
              "check_values", "append", "read"}

\* A statement on its way: one of its connection's, at one of its steps, with
\* the pointers it has taken so far.
Proper(w, me) ==
    /\ me.pc # "idle" => /\ me.s \in Script[w]
                         /\ me.done < MaxStatements[w]
                         /\ me.s.op \in OpsAt(me.pc)
    /\ me.db = Null <=> me.pc \in BeforeDb
    /\ me.pc \in BeforeDb \cup {"share_db"} => me.tb = Null
    /\ me.pc \in WithTable => me.tb # Null
    /\ me.pc \notin {"find_slot", "link_table"} => me.at \in Col
    /\ me.pc \notin {"make_column", "find_slot", "link_table", "append",
                     "lock_table", "read", "show"} => me.at = 1
    /\ me.pc = "lock_table" /\ me.s.op \in {"insert", "delete_table"} => me.at = 1

\* A process that is not running remembers nothing.
Down ==
    ~up => /\ dbs = [d \in Db |-> Null] /\ heap = <<>> /\ live = {}
           /\ mutex = NoOne /\ excl = {} /\ shar = {}
           /\ \A w \in Worker : th[w].pc = "idle"

DiskOK ==
    /\ dirs \subseteq Db
    /\ folders \subseteq Db \X Table
    /\ DOMAIN files \subseteq Path
    /\ \A p \in DOMAIN files :
         IF p[3] = Info THEN files[p] \in {<<>>, Layout} ELSE files[p] \in Seq(Rows)
MemoryOK ==
    /\ dbs \in [Db -> Object]
    /\ heap \in Seq([Table -> Object])
    /\ live \subseteq DOMAIN heap
LocksOK ==
    /\ mutex \in Worker \cup {NoOne}
    /\ excl \subseteq (DOMAIN heap) \X Worker
    /\ shar \subseteq (DOMAIN heap) \X Worker
RestOK ==
    /\ up \in BOOLEAN
    /\ crashes \in 0 .. MaxCrashes
    /\ acked \subseteq Db \X Table \X Rows
    /\ ub \in BOOLEAN
ThreadsOK ==
    /\ th \in [Worker -> Thread]
    /\ \A w \in Worker : th[w].done <= MaxStatements[w] /\ Proper(w, th[w])

TypeInv == DiskOK /\ MemoryOK /\ LocksOK /\ RestOK /\ ThreadsOK /\ Down

TracesOK == left \subseteq folders /\ contested \subseteq Db \X Table

F(w) == <<D(w), T(w)>>
Place(f, n) == <<f[1], f[2], n>>

----------------------------------------------------------------------------
(* Any number rewrites. *)

\* The row is in column c of folder f.
Holds(f, c, row) == Place(f, c) \in DOMAIN files /\ row \in Range(files[Place(f, c)])

\* An INSERT has its row in the columns it has been at, or finds none any more.
Filed(w) ==
    th[w].pc = "append" /\ F(w) \notin contested =>
      \/ \A c \in Col : Place(F(w), c) \notin DOMAIN files
      \/ \A c \in 1 .. th[w].at - 1 : Holds(F(w), c, Row(w))

Reported ==
    \A a \in acked : <<a[1], a[2]>> \notin contested =>
      \A c \in Col : Holds(<<a[1], a[2]>>, c, a[3])

Kept == Reported /\ \A w \in Worker : Filed(w)

----------------------------------------------------------------------------
(* One connection rewrites. *)

Rewrites == {"create_table", "delete_table", "delete_db"}
Rewriter(w) == \E s \in Script[w] : s.op \in Rewrites
OneRewriter == \A v, w \in Worker : Rewriter(v) /\ Rewriter(w) => v = w

\* The object each table is listed as, Null if it is not listed.
tabs == [f \in Db \X Table |-> IF dbs[f[1]] = Null THEN Null ELSE heap[dbs[f[1]]][f[2]]]

\* Every object is listed once, and those listed are alive.
Objects ==
    /\ \A d \in Db : dbs[d] \in live \cup {Null}
    /\ \A f \in Db \X Table : tabs[f] \in live \cup {Null}
    /\ \A d, e \in Db : dbs[d] = dbs[e] /\ dbs[d] # Null => d = e
    /\ \A d \in Db, f \in Db \X Table : dbs[d] = tabs[f] => dbs[d] = Null
    /\ \A f, g \in Db \X Table : tabs[f] = tabs[g] /\ tabs[f] # Null => f = g

\* A pointer leads to what is listed under the names of its statement, unless
\* it dangles; it does not where the connection rewrites or holds the database.
DbPointer(w) ==
    th[w].db # Null /\ (th[w].db \in live \/ Op(w) \in Rewrites) => dbs[D(w)] = th[w].db
TablePointer(w) ==
    /\ th[w].tb # Null
    /\ th[w].tb \in live \/ Op(w) \in Rewrites \/ <<th[w].db, w>> \in shar
    => tabs[F(w)] = th[w].tb
Pointers == \A w \in Worker : DbPointer(w) /\ TablePointer(w)

\* A lock is on an object that is alive, and unique against the others.
Locks ==
    /\ \A p \in excl \cup shar : p[1] \in live
    /\ \A p \in excl, q \in excl \cup shar : p[1] = q[1] => p[2] = q[2]

\* The locks a statement holds at each step.
Held(w) ==
    LET me == th[w]
    IN  /\ me.pc \in {"append", "read", "remove_table"} => <<me.tb, w>> \in excl
        /\ me.pc \in {"lock_tables", "remove_db", "get_table", "remove_table", "erase_table"} =>
             <<me.db, w>> \in excl
        /\ me.pc = "lock_table" /\ Op(w) = "delete_table" => <<me.db, w>> \in excl
        /\ me.pc \in {"find_table", "share_table", "lock_table", "read", "show"}
             /\ Op(w) \in Shows => <<me.db, w>> \in shar
        /\ me.pc = "remove_db" =>
             \A t \in Table : tabs[<<D(w), t>>] = Null \/ <<tabs[<<D(w), t>>], w>> \in excl

\* Files are in folders, folders in directories; what is listed has a folder
\* until a DELETE that removed it takes it off the list.
Folders ==
    /\ \A p \in DOMAIN files : <<p[1], p[2]>> \in folders
    /\ folders \subseteq dirs \X Table
    /\ \A f \in Db \X Table :
         \/ tabs[f] = Null
         \/ f \in folders
         \/ \E w \in Worker : \/ th[w].pc = "erase_db" /\ D(w) = f[1]
                              \/ th[w].pc = "erase_table" /\ F(w) = f

\* A table under creation is not listed, and its columns are empty.
Created(w) ==
    th[w].pc \in Creation =>
      /\ tabs[F(w)] = Null
      /\ F(w) \in folders <=> th[w].pc # "make_folder"
      /\ \A c \in Col : Place(F(w), c) \in DOMAIN files => files[Place(F(w), c)] = <<>>
      /\ th[w].pc = "make_column" =>
           \A c \in 1 .. th[w].at - 1 : Place(F(w), c) \in DOMAIN files
      /\ th[w].pc \in {"find_slot", "link_table"} =>
           \A c \in Col : Place(F(w), c) \in DOMAIN files

\* The columns an INSERT has been at end with its row.
Written(w) ==
    th[w].pc = "append" =>
      \A c \in 1 .. th[w].at - 1 :
        LET p == Place(F(w), c)
        IN  /\ p \in DOMAIN files
            /\ files[p] # <<>>
            /\ files[p][Len(files[p])] = Row(w)

\* As long as the process does not die: a listed table has all its columns, ...
Complete ==
    crashes = 0 =>
      /\ \A f \in folders : tabs[f] # Null => \A c \in Col : Place(f, c) \in DOMAIN files
      /\ ~up => \A f \in folders, n \in Col \cup {Info} : Place(f, n) \in DOMAIN files

\* ... they hold the same rows but for the one an INSERT is appending, ...
Level(w) ==
    th[w].pc = "append" /\ crashes = 0 =>
      \A b, c \in Col :
        LET p == Place(F(w), b)
            q == Place(F(w), c)
        IN  p \in DOMAIN files /\ q \in DOMAIN files =>
              /\ (b < th[w].at <=> c < th[w].at) => files[p] = files[q]
              /\ b < th[w].at /\ c >= th[w].at => files[p] = Append(files[q], Row(w))

\* ... and a SHOW has seen no more rows in its first column than there are.
Shown(w) == th[w].pc \in {"lock_table", "read", "show"} /\ Op(w) \in Shows
Seen(w) ==
    LET seen == th[w].seen
    IN  /\ ~Shown(w) => seen = <<>>
        /\ crashes = 0 =>
             /\ \A k \in DOMAIN seen : seen[k] >= seen[1]
             /\ th[w].pc # "show" /\ seen # <<>> =>
                  \A c \in Col : Place(F(w), c) \in DOMAIN files =>
                                  Len(files[Place(F(w), c)]) >= seen[1]

Safe ==
    /\ Objects /\ Pointers /\ Locks /\ Folders /\ Complete
    /\ \A w \in Worker : Held(w) /\ Created(w) /\ Written(w) /\ Level(w) /\ Seen(w)
    /\ ColumnsInStep /\ RowsAligned

SafeInv == OneRewriter /\ ~ub => Safe

----------------------------------------------------------------------------
(* One connection changes: it creates the databases too. *)

Changer(w) == \E s \in Script[w] : s.op \in Changing
OneChanger == \A v, w \in Worker : Changer(v) /\ Changer(w) => v = w

\* The lists and the disk agree on a database, or on a table, except between
\* the two steps by which a statement changes one and then the other.
DbMirrored(d) ==
    \/ dbs[d] # Null <=> d \in dirs
    \/ \E w \in Worker : th[w].pc \in {"add_db", "erase_db"} /\ D(w) = d
TableMirrored(f) ==
    \/ tabs[f] # Null <=>
         f \in folders \ left /\ (crashes = 0 \/ Place(f, Info) \in DOMAIN files)
    \/ \E w \in Worker :
         \/ th[w].pc \in (Creation \ {"make_folder"}) \cup {"erase_table"} /\ F(w) = f
         \/ th[w].pc = "erase_db" /\ D(w) = f[1]

\* What the first of these steps has done.
HalfDone(w) ==
    /\ th[w].pc = "add_db" => D(w) \in dirs
    /\ th[w].pc = "erase_db" => D(w) \notin dirs
    /\ th[w].pc = "erase_table" => F(w) \notin folders
    /\ th[w].pc \in {"make_column", "find_slot", "link_table"} =>
         Place(F(w), Info) \in DOMAIN files
    /\ th[w].pc \in Creation \ {"make_folder"} => F(w) \notin left

Mirrored ==
    /\ ~up => left = {}
    /\ up => /\ \A d \in Db : DbMirrored(d)
             /\ \A f \in Db \X Table : TableMirrored(f)
             /\ \A w \in Worker : HalfDone(w)

MirrorInv == OneChanger /\ ~ub => Mirrored
=============================================================================
