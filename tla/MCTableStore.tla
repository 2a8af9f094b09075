---------------------------- MODULE MCTableStore ----------------------------
(***************************************************************************)
(* Instances of TableStore for TLC: a byte of two bits, two tables.        *)
(***************************************************************************)
EXTENDS TableStoreProperties, TLC

CONSTANTS ann, bob, t1, t2

\* Four numbers fit into a byte, 256 into four, 2^16 into eight.
TwoBits == (1 :> 2) @@ (2 :> 8) @@ (4 :> 128) @@ (8 :> 32768)

Ly(type) == [type |-> type, size |-> from_parser_type[type]]
Layouts == (t1 :> <<Ly("u8"), [type |-> "str", size |-> 2], Ly("i64")>>)
           @@ (t2 :> <<Ly("i8"), Ly("bool"), Ly("f64")>>)

U(n) == [kind |-> "UInt", value |-> n]
I(n) == [kind |-> "Int", value |-> n]
D(n) == [kind |-> "Double", value |-> n]
S(s) == [kind |-> "String", value |-> s]
B(b) == [kind |-> "Bool", value |-> b]

Row1 == <<U(0), S(<<1>>), U(127)>>
Row2 == <<U(3), S(<<1, 2>>), I(-128)>>
Row3 == <<U(3), S(<<>>), U(128)>>
RowA == <<U(1), B(1), D(5)>>
RowB == <<I(-2), B(0), D(-3)>>

\* The limits of each type and one past them, a wrong kind, a wrong number.
Rejected == {<<U(4), S(<<1>>), U(0)>>, <<U(0), S(<<1, 2, 3>>), U(0)>>,
             <<U(0), S(<<1>>), U(32768)>>, <<I(-1), S(<<1>>), U(0)>>, <<U(0), S(<<1>>)>>}
Insert_(t, values) == [op |-> "insert", t |-> t, values |-> values]
AllInserts == {Insert_(t1, r) : r \in {Row1, Row2, Row3} \cup Rejected}
              \cup {Insert_(t2, r) : r \in {RowA, RowB, <<U(2), B(1), D(0)>>,
                                           <<I(-3), B(1), D(0)>>}}

Col(t, c) == [name |-> t, sub |-> c]
Where(t, c, op, v) == [column |-> Col(t, c), op |-> op, value |-> v]
Select_(columns, restrictions) ==
    [op |-> "select", columns |-> columns, restrictions |-> restrictions]

Conditions ==
    {<<>>, <<Where(t1, 1, ">", U(0))>>, <<Where(t1, 1, "<=", U(4))>>,
     <<Where(t1, 2, "<", S(<<1, 1>>))>>, <<Where(t1, 3, "==", U(127))>>,
     <<Where(t1, 9, "==", U(0))>>,
     <<Where(t1, 1, ">=", U(3)), Where(t1, 2, "!=", S(<<>>))>>}
OfT1 == {Select_(<<Col(t1, 1), Col(t1, 2)>>, rs) : rs \in Conditions}
        \cup {Select_(<<Col(t1, 3), Col(t1, 9), Col(t1, 3)>>, rs) :
                  rs \in {<<>>, <<Where(t1, 1, "<", U(3))>>}}
Others == {Select_(<<Col(t2, 1)>>, <<Where(t2, 2, "==", B(1)), Where(t2, 3, ">", D(0))>>),
           Select_(<<Col(t2, 3), Col(t1, 2)>>, <<Where(t1, 1, "==", U(3))>>),
           Select_(<<Col(t2, 9)>>, <<>>)}
AllSelects == OfT1 \cup Others

\* Tables that are empty, and tables with rows.
Contents == {(t1 :> <<>>) @@ (t2 :> <<>>),
             (t1 :> <<Row1, Row3>>) @@ (t2 :> <<RowA, RowB>>),
             (t1 :> <<Row2>>) @@ (t2 :> <<RowB>>)}
TwoAndOne == [w \in Worker |-> IF w = ann THEN 2 ELSE 1]
=============================================================================
