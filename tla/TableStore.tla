------------------------------ MODULE TableStore ------------------------------
(***************************************************************************)
(* INSERT and SELECT over the column files of tables that exist.  Each     *)
(* runs on the thread of its connection.  INSERT checks its values without *)
(* a lock and appends to one file after another under the lock of the      *)
(* table (try_insert, table.hpp).  SELECT takes that lock for one column   *)
(* at a time (load_column, columnInstance.hpp): between two columns others *)
(* may insert.  What it filters with is a list of row indexes with counts, *)
(* one for being shown and one per condition met (resolve, main.cpp).      *)
(*                                                                         *)
(* The columns of a table are numbered.  A column that a SELECT names is a *)
(* record of the table and the number, and may not exist.                  *)
(***************************************************************************)
EXTENDS Values, FiniteSets

CONSTANTS
    Worker,         \* the connections
    Table,          \* the tables
    Columns,        \* Columns[t]: the layouts of the columns of t
    Inserts,        \* the INSERTs that may be sent
    Selects,        \* the SELECTs that may be sent
    Stored,         \* the rows the tables may have from the start
    MaxStatements   \* bound: MaxStatements[w] statements of connection w

IsLayout(ly) == ly.type # "str" => ly.size = from_parser_type[ly.type]

\* The rows that the columns of t take.
Row(t) == {values \in Seq(Literal) :
              /\ Len(values) = Len(Columns[t])
              /\ \A c \in DOMAIN values : Fits(values[c], Columns[t][c])}

Listed(seq) == {seq[k] : k \in DOMAIN seq}

ASSUME TableStoreAssumption ==
    /\ Columns \in [Table -> Seq([type : Types, size : Nat])]
    /\ \A t \in Table : \A c \in DOMAIN Columns[t] : IsLayout(Columns[t][c])
    /\ \A s \in Inserts : s.op = "insert" /\ s.t \in Table /\ s.values \in Seq(Literal)
    /\ \A s \in Selects :
           /\ s.op = "select"
           /\ s.columns \in Seq(Listed(s.columns))
           /\ s.restrictions \in Seq(Listed(s.restrictions))
           /\ \A k \in DOMAIN s.restrictions : s.restrictions[k].value \in Literal
    /\ \A stored \in Stored :
           DOMAIN stored = Table /\ \A t \in Table : stored[t] \in Seq(Row(t))
    /\ MaxStatements \in [Worker -> Nat]

NoOne == "no_one"
ASSUME NoOneAssumption == NoOne \notin Worker

VARIABLES
    file,   \* file[t][c]: the cells in the file of column c of table t
    lock,   \* lock[t]: who holds DatabaseTable::mtx_, or NoOne
    th,     \* the statement each connection is running
    sent,   \* how many statements each connection has sent
    down,   \* a SELECT used a null pointer and the process died
    rows    \* rows[t]: the rows of literals INSERTed into t, in order

vars == <<file, lock, th, sent, down, rows>>

Nothing == [op |-> "none"]
Idle == [pc |-> "idle", s |-> Nothing, at |-> 1, shown |-> <<>>,
         unread |-> {}, indexes |-> <<>>, answer |-> <<>>]

Cell(lit, ly) == serialize(resolve_value(lit, ly), ly)

Init == /\ rows \in Stored
        /\ file = [t \in Table |-> [c \in DOMAIN Columns[t] |->
                      [i \in DOMAIN rows[t] |->
                          Cell(rows[t][i][c], Columns[t][c])]]]
        /\ lock = [t \in Table |-> NoOne]
        /\ th = [w \in Worker |-> Idle]
        /\ sent = [w \in Worker |-> 0]
        /\ down = FALSE

At(w, pc) == ~ down /\ th[w].pc = pc
Do(w, step) == th' = [th EXCEPT ![w] = step]
Die(w) == down' = TRUE /\ Do(w, [th[w] EXCEPT !.pc = "dead"])

CanSend(w) == At(w, "idle") /\ sent[w] < MaxStatements[w]

(***************************************************************************)
(* INSERT.  The number of values and each of them are checked before the   *)
(* lock is taken.                                                          *)
(***************************************************************************)
CanInsert_NumberOnly(s) == Len(s.values) = Len(Columns[s.t])

CanInsert(s) ==
    /\ Len(s.values) = Len(Columns[s.t])
    /\ \A c \in DOMAIN s.values : Fits(s.values[c], Columns[s.t][c])

SendInsert(w) ==
    /\ CanSend(w)
    /\ \E s \in Inserts :
           Do(w, [Idle EXCEPT !.pc = IF CanInsert(s) THEN "lock" ELSE "idle", !.s = s])
    /\ sent' = [sent EXCEPT ![w] = @ + 1]
    /\ UNCHANGED <<file, lock, down, rows>>

LockTable(w) ==
    /\ At(w, "lock")
    /\ lock[th[w].s.t] = NoOne
    /\ lock' = [lock EXCEPT ![th[w].s.t] = w]
    /\ Do(w, [th[w] EXCEPT !.pc = "append"])
    /\ UNCHANGED <<file, sent, down, rows>>

AppendColumn(w) ==
    LET t == th[w].s.t
        c == th[w].at
        values == th[w].s.values
    IN  /\ At(w, "append")
        /\ c <= Len(Columns[t])
        /\ file' = [file EXCEPT ![t][c] =
                        Append(@, Cell(values[c], Columns[t][c]))]
        /\ Do(w, [th[w] EXCEPT !.at = c + 1])
        /\ UNCHANGED <<lock, sent, down, rows>>

Unlock(w) ==
    LET t == th[w].s.t
    IN  /\ At(w, "append")
        /\ th[w].at > Len(Columns[t])
        /\ lock' = [lock EXCEPT ![t] = NoOne]
        /\ rows' = [rows EXCEPT ![t] = Append(@, th[w].s.values)]
        /\ Do(w, Idle)
        /\ UNCHANGED <<file, sent, down>>

(***************************************************************************)
(* SELECT.  shown is the Cortina of columns to display, a sequence of      *)
(* columns with their values; unread the columns reported as missing or    *)
(* empty; indexes the ListFre of row indexes, where the index of a row is  *)
(* its number from 1.                                                      *)
(***************************************************************************)
Exists(col) == col.name \in Table /\ col.sub \in DOMAIN Columns[col.name]

\* load_column needs the lock of the table for as long as it reads ...
Readable(col) == col.name \in Table => lock[col.name] = NoOne

\* ... and answers with an error when the column is missing or empty.
Loads(col) == Exists(col) /\ file[col.name][col.sub] # <<>>

load_column(col) ==
    [i \in DOMAIN file[col.name][col.sub] |->
        deserialize(file[col.name][col.sub][i], Columns[col.name][col.sub])]

SendSelect(w) ==
    /\ CanSend(w)
    /\ \E s \in Selects : Do(w, [Idle EXCEPT !.pc = "show", !.s = s])
    /\ sent' = [sent EXCEPT ![w] = @ + 1]
    /\ UNCHANGED <<file, lock, down, rows>>

LoadShown(w) ==
    LET col == th[w].s.columns[th[w].at]
        listed == \E k \in DOMAIN th[w].shown : th[w].shown[k].key = col
    IN  /\ At(w, "show")
        /\ th[w].at <= Len(th[w].s.columns)
        /\ Readable(col) \/ listed
        /\ Do(w, [th[w] EXCEPT
                     !.at = @ + 1,
                     !.unread = IF Loads(col) \/ listed THEN @ ELSE @ \cup {col},
                     !.shown = IF Loads(col) /\ ~ listed
                               THEN Append(@, [key |-> col,
                                               values |-> load_column(col)])
                               ELSE @])
        /\ UNCHANGED <<file, lock, sent, down, rows>>

\* display_columns.first() is null when no column was loaded.
ListIndexes(w) ==
    /\ At(w, "show")
    /\ th[w].at > Len(th[w].s.columns)
    /\ IF th[w].shown = <<>>
       THEN Die(w)
       ELSE /\ Do(w, [th[w] EXCEPT
                         !.pc = "filter", !.at = 1,
                         !.indexes = [i \in DOMAIN th[w].shown[1].values |->
                                         [value |-> i, fre |-> 1]]])
            /\ UNCHANGED down
    /\ UNCHANGED <<file, lock, sent, rows>>

\* The numbers in S in the order of a loop from 1.
Ascending(S) ==
    [j \in 1 .. Cardinality(S) |->
        CHOOSE i \in S : Cardinality({x \in S : x <= i}) = j]

\* ListFre::push of every row in found, in order.
push(indexes, found) ==
    LET listed == {indexes[k].value : k \in DOMAIN indexes}
        new == Ascending(found \ listed)
    IN  [k \in DOMAIN indexes |->
            IF indexes[k].value \in found
            THEN [indexes[k] EXCEPT !.fre = @ + 1] ELSE indexes[k]]
        \o [k \in DOMAIN new |-> [value |-> new[k], fre |-> 1]]

\* The types resolve compares; the others only give an error.
Compared == UnsignedTypes \cup {"f64", "str", "bool"}

Found(values, r, ly) ==
    IF ly.type \in Compared /\ Fits(r.value, ly)
    THEN {i \in DOMAIN values :
             Holds(values[i], r.op, resolve_value(r.value, ly), ly.type)}
    ELSE {}

Filter(w) ==
    LET r == th[w].s.restrictions[th[w].at]
        col == r.column
        values == load_column(col)
    IN  /\ At(w, "filter")
        /\ th[w].at <= Len(th[w].s.restrictions)
        /\ Readable(col)
        /\ Do(w, [th[w] EXCEPT
                     !.at = @ + 1,
                     !.indexes =
                         IF Loads(col)
                         THEN push(@, Found(values, r, Columns[col.name][col.sub]))
                         ELSE @])
        /\ UNCHANGED <<file, lock, sent, down, rows>>

Kept_AnyCondition(values, indexes, conditions) ==
    Ascending({i \in DOMAIN values :
                   indexes[i].fre - 1 >= IF conditions = 0 THEN 0 ELSE 1})

\* The rows of a column that met every condition.
Kept(values, indexes, conditions) ==
    Ascending({i \in DOMAIN values : indexes[i].fre - 1 = conditions})

KeptOf(x, k) == Kept(x.shown[k].values, x.indexes, Len(x.s.restrictions))

\* The columns of which a row is kept, with the values of the rows kept.
Final(x) ==
    LET left == Ascending({k \in DOMAIN x.shown : KeptOf(x, k) # <<>>})
        values(k) == [j \in DOMAIN KeptOf(x, k) |-> x.shown[k].values[KeptOf(x, k)[j]]]
    IN  [k \in DOMAIN left |-> [key |-> x.shown[left[k]].key, values |-> values(left[k])]]

\* indexes.get(i) is null past the end of indexes; get(j) past the end of a column.
Answer(w) ==
    LET x == th[w]
        final == Final(x)
        full == \A k \in DOMAIN x.shown : Len(x.shown[k].values) <= Len(x.indexes)
    IN  /\ At(w, "filter")
        /\ th[w].at > Len(th[w].s.restrictions)
        /\ IF full /\ \A k \in DOMAIN final :
                          Len(final[k].values) >= Len(final[1].values)
           THEN Do(w, [x EXCEPT !.pc = "idle", !.answer = final]) /\ UNCHANGED down
           ELSE Die(w)
        /\ UNCHANGED <<file, lock, sent, rows>>

Insert(w) == SendInsert(w) \/ LockTable(w) \/ AppendColumn(w) \/ Unlock(w)
Select(w) == SendSelect(w) \/ LoadShown(w) \/ ListIndexes(w) \/ Filter(w) \/ Answer(w)

Next == \E w \in Worker : Insert(w) \/ Select(w)

Spec == Init /\ [][Next]_vars
===============================================================================
