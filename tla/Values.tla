-------------------------------- MODULE Values --------------------------------
(***************************************************************************)
(* The values of a column: which literals of a query its type takes, what  *)
(* is written to its file for one, what is read back, and how two values   *)
(* compare.                                                                *)
(*                                                                         *)
(* A literal is a record of its kind (the token the parser made of it) and *)
(* its value: a number for "UInt", "Int" and "Double" (whose fractions do  *)
(* not matter here), 0 or 1 for "Bool", a sequence of bytes that are not   *)
(* zero for "String".  A layout is the type of a column and its size in    *)
(* bytes.                                                                  *)
(***************************************************************************)
EXTENDS Integers, Sequences

CONSTANT Half   \* Half[n]: half the numbers that n bytes hold, 2^(8n-1) in C++

ASSUME ValuesAssumption ==
    /\ Half \in [{1, 2, 4, 8} -> Nat \ {0}]
    /\ Half[8] % Half[4] = 0

UnsignedTypes == {"u8", "u16", "u32", "u64"}
SignedTypes == {"i8", "i16", "i32", "i64"}
Types == UnsignedTypes \cup SignedTypes \cup {"f64", "str", "bool"}

Literal == [kind : {"UInt"}, value : Nat]
           \cup [kind : {"Int", "Double"}, value : Int]
           \cup [kind : {"String"}, value : Seq(Nat \ {0})]
           \cup [kind : {"Bool"}, value : {0, 1}]

\* The size the layout of a type gets; that of a string comes from the query.
from_parser_type ==
    [u8 |-> 1, u16 |-> 2, u32 |-> 4, u64 |-> 8, i8 |-> 1, i16 |-> 2,
     i32 |-> 4, i64 |-> 8, f64 |-> 8, bool |-> 1]

Min(ly) == IF ly.type \in SignedTypes THEN -Half[ly.size] ELSE 0
MaxOf(ly) == IF ly.type \in SignedTypes THEN Half[ly.size] - 1
                                        ELSE 2 * Half[ly.size] - 1

\* The number that n bytes hold for v, and the signed number they stand for.
Bytes(v, n) == v % (2 * Half[n])
Signed(b, n) == IF b < Half[n] THEN b ELSE b - 2 * Half[n]

\* static_cast to the type of the column.
Narrow(v, ly) == IF ly.type \in SignedTypes
                 THEN Signed(Bytes(v, ly.size), ly.size)
                 ELSE Bytes(v, ly.size)

(***************************************************************************)
(* What a column takes: a UInt any integer type, an Int a signed one, both *)
(* within the numeric_limits of the type.                                  *)
(***************************************************************************)
FitsUInt_UnsignedMax(v, ly) == /\ ly.type \in UnsignedTypes \cup SignedTypes
                               /\ v <= 2 * Half[ly.size] - 1

FitsUInt(v, ly) == /\ ly.type \in UnsignedTypes \cup SignedTypes
                   /\ v <= MaxOf(ly)

FitsInt(v, ly) == /\ ly.type \in SignedTypes
                  /\ v <= MaxOf(ly)
                  /\ v >= Min(ly)

FitsOther(lit, ly) ==
    \/ lit.kind = "String" /\ ly.type = "str" /\ Len(lit.value) <= ly.size
    \/ lit.kind = "Double" /\ ly.type = "f64"
    \/ lit.kind = "Bool" /\ ly.type = "bool"

Fits(lit, ly) ==
    \/ lit.kind = "UInt" /\ FitsUInt(lit.value, ly)
    \/ lit.kind = "Int" /\ FitsInt(lit.value, ly)
    \/ FitsOther(lit, ly)

\* The value of a literal that fits.
resolve_value(lit, ly) ==
    IF ly.type \in UnsignedTypes \cup SignedTypes THEN Narrow(lit.value, ly)
                                                  ELSE lit.value

(***************************************************************************)
(* The file of a column is a sequence of cells, one per row: the bytes of  *)
(* an integer as the number they hold, those of a string up to its size.   *)
(***************************************************************************)
serialize_str(s, size) ==
    [k \in 1 .. size |-> IF k \in DOMAIN s THEN s[k] ELSE 0]

Ends(b) == {k \in DOMAIN b : b[k] = 0}
deserialize_str(b) ==
    IF Ends(b) = {} THEN b
    ELSE SubSeq(b, 1, (CHOOSE k \in Ends(b) : \A j \in Ends(b) : k <= j) - 1)

serialize(v, ly) ==
    IF ly.type = "str" THEN serialize_str(v, ly.size)
    ELSE IF ly.type \in UnsignedTypes \cup SignedTypes THEN Bytes(v, ly.size)
    ELSE v

\* di64 returns an int64_t, but the binding declares that it returns an int32_t:
\* the caller takes the low four bytes.
di64(b) == Signed(Bytes(b, 4), 4)

deserialize(b, ly) ==
    IF ly.type = "str" THEN deserialize_str(b)
    ELSE IF ly.type = "i64" THEN di64(b)
    ELSE IF ly.type \in SignedTypes THEN Signed(b, ly.size)
    ELSE b

(***************************************************************************)
(* The comparisons of WHERE.  Strings compare by their first difference.   *)
(***************************************************************************)
LessStr(s, t) ==
    \E k \in 1 .. Len(t) :
        /\ \A j \in 1 .. (k - 1) : j <= Len(s) /\ s[j] = t[j]
        /\ k <= Len(s) => s[k] < t[k]

Less(a, b, type) == IF type = "str" THEN LessStr(a, b) ELSE a < b

Holds(a, op, b, type) ==
    \/ op = "==" /\ a = b
    \/ op = "!=" /\ a # b
    \/ op = ">"  /\ Less(b, a, type)
    \/ op = "<"  /\ Less(a, b, type)
    \/ op = ">=" /\ ~ Less(a, b, type)
    \/ op = "<=" /\ ~ Less(b, a, type)
===============================================================================
