----------------------------- MODULE MCTableInfo -----------------------------
(***************************************************************************)
(* Names that are part of one another and of the end mark; sizes with and  *)
(* without the end mark, at either end, or with a part of it.              *)
(***************************************************************************)
EXTENDS TableInfoProperties

Size(low, high) == low \o [k \in 1 .. 8 - Len(low) - Len(high) |-> 0] \o high

MCNames == {<<115>>, <<115, 115>>, <<97, 115>>}
MCSizes == {Size(<<4>>, <<>>), Size(<<115, 115>>, <<>>), Size(<<0, 115>>, <<0, 115>>),
            Size(<<0, 115, 115>>, <<>>), Size(<<>>, <<0, 115, 115>>)}
=============================================================================
