------------------------- MODULE TableStoreProperties -------------------------
(***************************************************************************)
(* What INSERT and SELECT promise together, in terms of the rows of        *)
(* literals that were inserted: neither the bytes of the files nor the     *)
(* counts of the index list appear in it.                                  *)
(***************************************************************************)
EXTENDS TableStore

Cols(t) == DOMAIN Columns[t]
Statements == Inserts \cup Selects \cup {Nothing}

\* The cells of a column file.
Cells(ly) == IF ly.type = "str" THEN Seq(Nat) ELSE Int

Labels == {"idle", "lock", "append", "show", "filter", "dead"}

\* Every variable is of its type, and a statement under way is one of its kind.
TypeOK ==
    /\ DOMAIN file = Table
    /\ \A t \in Table : /\ DOMAIN file[t] = Cols(t)
                        /\ \A c \in Cols(t) : file[t][c] \in Seq(Cells(Columns[t][c]))
    /\ lock \in [Table -> Worker \cup {NoOne}]
    /\ sent \in [Worker -> Nat] /\ \A w \in Worker : sent[w] <= MaxStatements[w]
    /\ DOMAIN th = Worker
    /\ \A w \in Worker :
           /\ DOMAIN th[w] = DOMAIN Idle
           /\ th[w].pc \in Labels
           /\ th[w].s \in Statements
           /\ th[w].at \in Nat \ {0}
           /\ th[w].pc \in {"lock", "append"} => th[w].s \in Inserts
           /\ th[w].pc \in {"show", "filter", "dead"} => th[w].s \in Selects
    /\ down \in BOOLEAN
    /\ DOMAIN rows = Table /\ \A t \in Table : rows[t] \in Seq(Row(t))

\* What a user reads for a literal: the number, text or truth value inserted; of
\* an i64 the number its low four bytes stand for.
Seen(lit, ly) == IF ly.type = "i64" THEN di64(lit.value) ELSE lit.value

\* The rows that are complete in the files of t, and how many more cells column c
\* has: one when an INSERT that is under way has appended to it.
Ahead(t, c) == IF lock[t] # NoOne /\ c < th[lock[t]].at THEN 1 ELSE 0

\* The files hold exactly what was inserted: row i of every column reads back as
\* the i-th row that was inserted, no INSERT that was rejected leaves anything, and
\* only the INSERT that holds the lock is ahead in some columns (table.hpp:360-424,
\* the encodings of the serializer crate and of serializer.hpp).
StoredAsInserted ==
    \A t \in Table : \A c \in Cols(t) :
        /\ Len(file[t][c]) = Len(rows[t]) + Ahead(t, c)
        /\ \A i \in DOMAIN rows[t] :
               deserialize(file[t][c][i], Columns[t][c])
                   = Seen(rows[t][i][c], Columns[t][c])

\* An INSERT that waits for the lock or holds it has values the table takes; the one
\* that appends is the one that holds the lock.
InsertInv ==
    /\ \A w \in Worker : th[w].pc \in {"lock", "append"} => CanInsert(th[w].s)
    /\ \A w \in Worker : th[w].pc = "lock" => th[w].at = 1
    /\ \A w \in Worker : th[w].pc = "append" =>
           lock[th[w].s.t] = w /\ th[w].at <= Len(Columns[th[w].s.t]) + 1
    /\ \A t \in Table : lock[t] # NoOne =>
           th[lock[t]].pc = "append" /\ th[lock[t]].s.t = t

\* The cells an INSERT under way has appended read back as its values.
AheadInv ==
    \A t \in Table : \A c \in Cols(t) : Ahead(t, c) = 1 =>
        deserialize(file[t][c][Len(rows[t]) + 1], Columns[t][c])
            = Seen(th[lock[t]].s.values[c], Columns[t][c])

\* The inductive invariant behind StoredAsInserted.
Inv == TypeOK /\ InsertInv /\ StoredAsInserted /\ AheadInv

\* A row meets a condition if the column's type is one SELECT compares, the literal
\* is one the column takes, and the two compare as the operator says.
Meets(row, r, t) ==
    LET ly == Columns[t][r.column.sub]
    IN  /\ r.column.sub \in Cols(t)
        /\ ly.type \in Compared
        /\ Fits(r.value, ly)
        /\ Holds(row[r.column.sub].value, r.op, r.value.value, ly.type)

\* The rows of the first n of t that meet all conditions, and what a column has there.
Matching(t, rs, n) ==
    {i \in 1 .. n : \A k \in DOMAIN rs : Meets(rows[t][i], rs[k], t)}

ValuesAt(column, t, places) ==
    [j \in DOMAIN places |->
        Seen(rows[t][places[j]][column.sub], Columns[t][column.sub])]

\* What a SELECT with conditions rs should show of these columns of t when the table
\* has its first n rows: the rows that meet all conditions, or nothing.
Expected(t, columns, rs, n) ==
    LET matching == Ascending(Matching(t, rs, n))
    IN  IF matching = <<>> THEN <<>>
        ELSE [k \in DOMAIN columns |->
                [key |-> columns[k], values |-> ValuesAt(columns[k], t, matching)]]

OfTable(s, t) == /\ \A k \in DOMAIN s.columns : s.columns[k].name = t
                 /\ \A k \in DOMAIN s.restrictions :
                        s.restrictions[k].column.name = t

Answered(w) == /\ th[w].pc = "idle" /\ th[w].s \in Selects

\* A SELECT over one table that is answered shows exactly the matching rows of the
\* table as it was when the first column was loaded, whole rows in the order of
\* insertion, whatever was inserted while the other columns were loaded.  It shows the
\* columns it names, each once; one it does not show, because it does not exist or the
\* table was empty, is reported (main.cpp:303-685 under the locks of load_column).
AnswersAreMatchingRows ==
    \A w \in Worker : \A t \in Table : Answered(w) /\ OfTable(th[w].s, t) =>
        LET s == th[w].s
            columns == [k \in DOMAIN th[w].shown |-> th[w].shown[k].key]
        IN  /\ th[w].answer =
                   Expected(t, columns, s.restrictions, Len(th[w].shown[1].values))
            /\ \A j, k \in DOMAIN columns : columns[j] = columns[k] => j = k
            /\ Listed(s.columns) \ th[w].unread \subseteq Listed(columns)
            /\ Listed(columns) \subseteq {col \in Listed(s.columns) : Exists(col)}

(***************************************************************************)
(* The inductive invariant behind it, of the statement x of a connection:  *)
(* a SELECT over the table t.                                              *)
(***************************************************************************)
\* A column it shows is the first rows of t, as they were when it was loaded.
IsLoaded(col, t) ==
    /\ col.key.name = t /\ col.key.sub \in Cols(t)
    /\ DOMAIN col.values = 1 .. Len(col.values)
    /\ Len(col.values) \in 1 .. Len(rows[t])
    /\ \A i \in DOMAIN col.values :
           col.values[i] = Seen(rows[t][i][col.key.sub], Columns[t][col.key.sub])

IsSequence(seq) == Len(seq) \in Nat /\ seq = [k \in 1 .. Len(seq) |-> seq[k]]

\* No column is shorter than the first, none is shown twice, each is one it names.
Showing(x, t) ==
    /\ IsSequence(x.shown)
    /\ \A k \in DOMAIN x.shown :
           /\ IsLoaded(x.shown[k], t)
           /\ Len(x.shown[1].values) <= Len(x.shown[k].values)
           /\ x.shown[k].key \in Listed(x.s.columns)
    /\ \A j, k \in DOMAIN x.shown : x.shown[j].key = x.shown[k].key => j = k

\* Of the columns it names before n, each is shown or reported.
Handled(x, n) ==
    \A j \in DOMAIN x.s.columns : j < n =>
        \/ x.s.columns[j] \in x.unread
        \/ \E k \in DOMAIN x.shown : x.shown[k].key = x.s.columns[j]

\* After the conditions before at, the count of row i of the first column is one more
\* than all of them exactly if the row met them all; that of a later row is less.
Counting(x, t) ==
    LET n == Len(x.shown[1].values)
        ix == x.indexes
    IN  /\ x.at <= Len(x.s.restrictions) + 1
        /\ ix \in Seq([value : Nat, fre : Nat]) /\ n <= Len(ix)
        /\ \A i \in DOMAIN ix : ix[i].fre <= x.at
        /\ \A i \in 1 .. n :
               /\ ix[i].value = i
               /\ ix[i].fre = x.at <=> \A k \in 1 .. x.at - 1 :
                                           Meets(rows[t][i], x.s.restrictions[k], t)
        /\ \A i \in DOMAIN ix : i > n => ix[i].fre < x.at

\* What holds of the SELECT at each of its stages.
Progress(x, t) ==
    /\ x.pc \in {"show", "filter", "idle"} => Showing(x, t)
    /\ x.pc = "show" => Handled(x, x.at)
    /\ x.pc \in {"filter", "idle"} =>
           x.shown # <<>> /\ Handled(x, Len(x.s.columns) + 1)
    /\ x.pc = "filter" => Counting(x, t)
    /\ x.pc = "idle" =>
           x.answer = Expected(t, [k \in DOMAIN x.shown |-> x.shown[k].key],
                               x.s.restrictions, Len(x.shown[1].values))

SelectInv ==
    \A w \in Worker : \A t \in Table :
        th[w].s \in Selects /\ OfTable(th[w].s, t) => Progress(th[w], t)

\* A SELECT of existing columns of one table, once it has loaded a column, does not
\* take the server down, whatever the other connections do meanwhile.
SelectsSurvive ==
    \A w \in Worker : \A t \in Table :
        ~ /\ th[w].pc = "dead"
          /\ OfTable(th[w].s, t)
          /\ \A k \in DOMAIN th[w].s.columns : Exists(th[w].s.columns[k])
          /\ th[w].shown # <<>>
===============================================================================
