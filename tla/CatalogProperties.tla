-------------------------- MODULE CatalogProperties --------------------------
(***************************************************************************)
(* What the lists and the data/ directory of one process promise to the    *)
(* connections that use them.                                              *)
(***************************************************************************)
EXTENDS Catalog

Path == Db \X Table \X (Col \cup {Info})
Statement == UNION {Script[w] : w \in Worker}
Rows == {OldRow} \cup UNION {{w} \X (0 .. MaxStatements[w]) : w \in Worker}

TypeOK ==
    /\ dirs \subseteq Db
    /\ folders \subseteq Db \X Table
    /\ DOMAIN files \subseteq Path
    /\ \A p \in DOMAIN files :
         IF p[3] = Info THEN files[p] \in {<<>>, Layout} ELSE files[p] \in Seq(Rows)
    /\ dbs \in [Db -> {Null} \cup DOMAIN heap]
    /\ heap \in Seq([Table -> {Null} \cup DOMAIN heap])
    /\ live \subseteq DOMAIN heap
    /\ mutex \in Worker \cup {NoOne}
    /\ excl \subseteq (DOMAIN heap) \X Worker
    /\ shar \subseteq (DOMAIN heap) \X Worker
    /\ \A w \in Worker :
         /\ th[w].pc \in Labels
         /\ th[w].s \in Statement \cup {Nothing}
         /\ {th[w].db, th[w].tb} \subseteq {Null} \cup DOMAIN heap
         /\ th[w].at \in 1 .. NCols + 1
         /\ th[w].seen \in Seq(Nat)
         /\ th[w].list \in [Table -> {Null} \cup DOMAIN heap]
         /\ th[w].done \in 0 .. MaxStatements[w]
    /\ up \in BOOLEAN
    /\ crashes \in 0 .. MaxCrashes
    /\ acked \subseteq Db \X Table \X Rows
    /\ ub \in BOOLEAN
    /\ left \subseteq folders
    /\ contested \subseteq Db \X Table

\* A later column never holds a row that an earlier one lacks, nor in another
\* order: what is left of an INSERT that did not finish is a prefix of its
\* row.  DatabaseTable::try_insert appends the columns in the order of the
\* layout, one row at a time under the lock of the table.
ColumnsInStep ==
    ~ub => \A p, q \in DOMAIN files :
             p[1] = q[1] /\ p[2] = q[2] /\ Info < p[3] /\ p[3] < q[3] =>
               \A m, n \in DOMAIN files[q] : m <= n =>
                 \E k, l \in DOMAIN files[p] :
                   /\ k <= l
                   /\ files[p][k] = files[q][m]
                   /\ files[p][l] = files[q][n]

\* As long as the process does not die, two columns of a table nobody is
\* inserting into hold the same rows at the same places: entry i of every
\* column is row i, which is how SHOW puts the columns side by side.
RowsAligned ==
    ~ub /\ crashes = 0 =>
      \A p, q \in DOMAIN files :
        \/ p[1] # q[1] \/ p[2] # q[2] \/ Info \in {p[3], q[3]}
        \/ files[p] = files[q]
        \/ \E w \in Worker : th[w].pc = "append" /\ D(w) = p[1] /\ T(w) = p[2]

\* A row that was reported as inserted stays in every column, whatever statements
\* run beside it and whoever sends them, until a DELETE takes its files.  INSERT
\* reports a row only if it found every column, and a DELETE takes them all.  Not
\* kept is a table that was contested: CREATE TABLE takes no lock (main.cpp:112),
\* and of two of one name that both found no folder the slower empties the columns
\* the other made, or makes them under an INSERT or a DELETE.
AckedRowsPersist ==
    ~ub => \A a \in acked : <<a[1], a[2]>> \notin contested =>
             \A c \in Col :
               LET p == <<a[1], a[2], c>>
               IN  p \in DOMAIN files /\ a[3] \in Range(files[p])

\* SHOW of a table's data indexes every column with the length of the first
\* one it loaded.  It holds the database but not the table in between, so the
\* columns it loads later may have more rows, never fewer, as long as no
\* process died in an INSERT.
ShowInRange ==
    ~ub /\ crashes = 0 =>
      \A w \in Worker : th[w].pc = "show" =>
        \A k \in DOMAIN th[w].seen : th[w].seen[k] >= th[w].seen[1]

Changing == {"create_db", "delete_db", "create_table", "delete_table"}

\* Between the statements that change them, the lists in memory are the
\* directories on the disk (those with an info.tbl, after a death that left
\* one without): nothing is listed that is gone, and nothing is left behind but
\* the folder of a CREATE TABLE that could not make a column (table.cpp:121),
\* which is not listed until the next start.
MirrorsDisk ==
    up /\ ~ub /\ (\A w \in Worker : th[w].pc # "idle" => Op(w) \notin Changing) =>
      \A d \in Db :
        /\ dbs[d] # Null <=> d \in dirs
        /\ dbs[d] # Null =>
             \A t \in Table :
               heap[dbs[d]][t] # Null <=>
                 /\ <<d, t>> \in folders \ left
                 /\ crashes = 0 \/ <<d, t, Info>> \in DOMAIN files

\* While an INSERT holds the lock of a table and does not move, nothing in the
\* folder of that table changes: no DELETE removes the files it is filling, no
\* other INSERT puts its row in between.
WritersUndisturbed ==
    [][ up' /\ ~ub' =>
          \A w \in Worker : th[w].pc = "append" /\ th'[w] = th[w] =>
            LET mine == FilesOf({<<D(w), T(w)>>})
            IN  /\ mine \subseteq DOMAIN files'
                /\ \A p \in mine : files'[p] = files[p]
      ]_vars

\* Every statement comes to an end, in whatever order the statements take the
\* mutex of the databases and the locks of databases and tables.
StatementsEnd ==
    \A w \in Worker : th[w].pc # "idle" ~> th[w].pc = "idle"

\* No statement touches a database or a table another one has destroyed, nor
\* a list another one is changing.
NeverFreed == ~ub
=============================================================================
