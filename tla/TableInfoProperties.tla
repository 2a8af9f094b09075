------------------------- MODULE TableInfoProperties -------------------------
(***************************************************************************)
(* What the next start makes of the columns of a table.                    *)
(***************************************************************************)
EXTENDS TableInfo

\* Every variable is of its type, and a layout is read to the end of the encoding
\* at most.
TypeOK ==
    /\ columns \in Seq(Column)
    /\ file \in Seq(Byte)
    /\ cut \in BOOLEAN
    /\ pc \in {"save", "next", "name", "layout", "done", "aborted", "overrun"}
    /\ i \in Nat \ {0}
    /\ column_name \in Seq(Byte \ {0})
    /\ serialized_layout \in Seq(Byte) /\ Len(serialized_layout) <= 13
    /\ loaded \in Seq([name : Seq(Byte), size : Seq(Byte), type : Variants])

\* The bytes of the end mark occur in a size, as in that of str7566080.
Marked(size) == \E k \in 1 .. 6 : size[k] = 0 /\ size[k + 1] = 115 /\ size[k + 2] = 115

\* A start that gets through info.tbl has the columns the table was created with,
\* in their order, wherever the file was cut.  It fails only where a size has the
\* end mark in it (which takes the process down at every start, table.cpp:53), and
\* reads past the end only of a file that was cut (table.cpp:43).
LoadsWhatWasSaved ==
    /\ pc = "done" => loaded = columns
    /\ pc = "aborted" => \E k \in DOMAIN columns : Marked(columns[k].size)
    /\ pc = "overrun" => cut
=============================================================================
