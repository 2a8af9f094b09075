------------------------------ MODULE TableInfo ------------------------------
(***************************************************************************)
(* The file info.tbl of a table: its columns are written into it, one      *)
(* after the other (DatabaseTable::into_vec, table.cpp 10-36), and read    *)
(* back at the next start, byte by byte (from_vec, 38-66).                 *)
(*                                                                         *)
(* A column is its name, ended by a zero, its layout in the encoding of    *)
(* bincode (serializer/src/lib.rs), and an end mark.  In the model a name  *)
(* is the sequence of its letters, a type the number of its variant, and a *)
(* size the eight bytes bincode writes for it, the lowest first.           *)
(***************************************************************************)
EXTENDS Integers, Sequences, FiniteSets

CONSTANTS
    Names,      \* the names a column may have
    Sizes,      \* the sizes a column may have
    Types,      \* the types a column may have: enum ColumnType, as lib.rs numbers it
    MaxColumns  \* bound: the columns of the table

Byte == 0 .. 255
Variants == 0 .. 11

ASSUME TableInfoAssumption ==
    /\ Names \subseteq Seq(Byte \ {0}) \ {<<>>}
    /\ Sizes \subseteq [1 .. 8 -> Byte]
    /\ Types \subseteq Variants
    /\ MaxColumns \in Nat

VARIABLES
    columns,    \* DatabaseTable::columns of the table that is created
    file,       \* the bytes of info.tbl
    cut,        \* not all of them were written
    pc,         \* what is being done
    i,          \* the place of in[i], from 1
    column_name,
    serialized_layout,
    loaded      \* the columns that have been read

vars == <<columns, file, cut, pc, i, column_name, serialized_layout, loaded>>

Column == [name : Names, size : Sizes, type : Types]

\* A KeyValueList has a key once.
Distinct(cols) == \A j, k \in DOMAIN cols : cols[j].name = cols[k].name => j = k

Init ==
    /\ \E n \in 0 .. MaxColumns : columns \in [1 .. n -> Column]
    /\ Distinct(columns)
    /\ file = <<>>
    /\ cut = FALSE
    /\ pc = "save"
    /\ i = 1
    /\ column_name = <<>>
    /\ serialized_layout = <<>>
    /\ loaded = <<>>

-----------------------------------------------------------------------------
(* Writing. *)

EndMark_TwoZeros == <<0, 0, 115, 115>>

EndMark == <<0, 115, 115>>

\* Not optional, and four bytes for the variant.
serialize_layout(col) == col.size \o <<0, col.type, 0, 0, 0>>

Written(col) == col.name \o <<0>> \o serialize_layout(col) \o EndMark

\* into_vec takes the columns in their order; i counts them.
AppendColumn ==
    /\ pc = "save"
    /\ i <= Len(columns)
    /\ file' = file \o Written(columns[i])
    /\ i' = i + 1
    /\ UNCHANGED <<columns, cut, pc, column_name, serialized_layout, loaded>>

\* write_to_file does not look whether it succeeds: on a full disk, or when the
\* process dies, the file ends early.  The next start begins to read it.
WriteFile ==
    /\ pc = "save"
    /\ i > Len(columns)
    /\ \E n \in 0 .. Len(file) + 1 :
          /\ file' = SubSeq(Append(file, 0), 1, n)
          /\ cut' = (n # Len(file) + 1)
    /\ pc' = "next"
    /\ i' = 1
    /\ UNCHANGED <<columns, column_name, serialized_layout, loaded>>

-----------------------------------------------------------------------------
(* Reading. *)

\* in[place] is beyond the end of the vector: what it reads is anybody's guess.
IsIn(place) == place <= Len(file)

Overrun == pc' = "overrun" /\ UNCHANGED <<i, column_name, serialized_layout, loaded>>

\* The outer loop: another column or the end.
NextColumn ==
    /\ pc = "next"
    /\ IF ~IsIn(i) THEN Overrun
       ELSE /\ pc' = IF file[i] = 0 THEN "done" ELSE "name"
            /\ column_name' = <<>>
            /\ serialized_layout' = <<>>
            /\ UNCHANGED <<i, loaded>>
    /\ UNCHANGED <<columns, file, cut>>

EndName_Stays == pc' = "layout" /\ i' = i /\ UNCHANGED column_name

EndName == pc' = "layout" /\ i' = i + 1 /\ UNCHANGED column_name

ReadName ==
    /\ pc = "name"
    /\ IF ~IsIn(i) THEN Overrun
       ELSE /\ IF file[i] = 0 THEN EndName
               ELSE /\ column_name' = Append(column_name, file[i])
                    /\ i' = i + 1
                    /\ UNCHANGED pc
            /\ UNCHANGED <<serialized_layout, loaded>>
    /\ UNCHANGED <<columns, file, cut>>

\* in[i] == 0 && in[i + 1] == 0x73 && in[i + 2] == 0x73, from the left.
MayLook ==
    /\ IsIn(i)
    /\ file[i] = 0 => /\ IsIn(i + 1)
                      /\ file[i + 1] = 115 => IsIn(i + 2)

AtMark == file[i] = 0 /\ file[i + 1] = 115 /\ file[i + 2] = 115

\* bincode takes what it needs and leaves the rest.
Decodes(bytes) ==
    /\ Len(bytes) >= 13
    /\ bytes[9] \in {0, 1}
    /\ bytes[10] \in Variants /\ bytes[11] = 0 /\ bytes[12] = 0 /\ bytes[13] = 0

dLayout(bytes) == [size |-> SubSeq(bytes, 1, 8), type |-> bytes[10]]

\* insert does nothing when it has the name.
insert(name, layout) ==
    IF \E k \in DOMAIN loaded : loaded[k].name = name THEN loaded
    ELSE Append(loaded, [name |-> name, size |-> layout.size, type |-> layout.type])

\* unwrap of an error ends the process.
EndColumn ==
    IF Decodes(serialized_layout)
    THEN /\ pc' = "next"
         /\ i' = i + 3
         /\ loaded' = insert(column_name, dLayout(serialized_layout))
    ELSE pc' = "aborted" /\ i' = i + 3 /\ UNCHANGED loaded

ReadLayout ==
    /\ pc = "layout"
    /\ IF ~MayLook THEN Overrun
       ELSE /\ IF AtMark THEN EndColumn /\ UNCHANGED serialized_layout
               ELSE /\ serialized_layout' = Append(serialized_layout, file[i])
                    /\ i' = i + 1
                    /\ UNCHANGED <<pc, loaded>>
            /\ UNCHANGED column_name
    /\ UNCHANGED <<columns, file, cut>>

Next == AppendColumn \/ WriteFile \/ NextColumn \/ ReadName \/ ReadLayout

Spec == Init /\ [][Next]_vars
=============================================================================
