------------------------------- MODULE Tokens -------------------------------
(***************************************************************************)
(* The tokens of src/lib/analyzer/parser.hpp: a token is a pair of the     *)
(* alternative of the C++ variant it holds and the value of it.            *)
(***************************************************************************)
EXTENDS Integers, Sequences

None == <<"none", "">>

Kw(k)   == <<"kw", k>>
Type(t) == <<"type", t>>
Sym(s)  == <<"sym", s>>
Op(o)   == <<"op", o>>

COMA == Sym("COMA")
SEMICOLON == Sym("SEMICOLON")
ALL == Sym("ALL")
CLOSING_PAR == Sym("CLOSING_PAR")
OPENING_PAR == Sym("OPENING_PAR")

IsKw(t)   == t[1] = "kw"
IsType(t) == t[1] = "type"
IsSym(t)  == t[1] = "sym"
IsOp(t)   == t[1] = "op"
IsName(t) == t[1] = "name"
IsSub(t)  == t[1] = "sub"
IsNumber(t) == t[1] \in {"UInt", "Int", "Double"}

\* A value a column or a condition may take: String, Numbers or Bool.
IsLiteral(t) == t[1] \in {"str", "bool", "UInt", "Int", "Double"}

Connectives == {Op("AND"), Op("OR")}

\* What a sentence of Parser::parse looks like: STR is the one type that is
\* made of two tokens, itself and its size.
SizedTypes(s) ==
    \A i \in 1 .. Len(s) :
        s[i] = Type("STR") => i < Len(s) /\ s[i + 1][1] = "UInt"
=============================================================================
