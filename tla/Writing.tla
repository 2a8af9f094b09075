------------------------------- MODULE Writing -------------------------------
(***************************************************************************)
(* How a client writes the tokens it means: the spelling of every token,   *)
(* and where there must be a blank.  The lexer is to read it.              *)
(***************************************************************************)
EXTENDS Lexer

CONSTANTS Queries,      \* what clients write, and what they mean
          SplitText     \* the strings with a blank or a sign in them, and their pieces

SymbolTexts == {<<COMA, <<Sign(",")>>>>, <<SEMICOLON, <<Sign(";")>>>>,
                <<OPENING_PAR, <<Sign("(")>>>>, <<CLOSING_PAR, <<Sign(")")>>>>,
                <<ALL, <<<<"other", "*">>>>>>}

OperatorTexts == {<<Op("EQUAL"), <<Sign("="), Sign("=")>>>>,
                  <<Op("NOT_EQUAL"), <<Sign("!"), Sign("=")>>>>,
                  <<Op("LESS_EQUAL"), <<Sign("<"), Sign("=")>>>>,
                  <<Op("GREAT_EQUAL"), <<Sign(">"), Sign("=")>>>>,
                  <<Op("LESS"), <<Sign("<")>>>>, <<Op("GREAT"), <<Sign(">")>>>>,
                  <<Op("AND"), <<Word("AND")>>>>, <<Op("AND"), <<<<"other", "&&">>>>>>,
                  <<Op("OR"), <<<<"other", "0R">>>>>>, <<Op("OR"), <<<<"other", "||">>>>>>}

TypeTexts == {<<Type(TypeOf[w]), <<Word(w)>>>> : w \in DOMAIN TypeOf}

Texts == SymbolTexts \cup OperatorTexts \cup TypeTexts

\* The shape of the piece that is written for a token with a value.
ShapeOf == [kw |-> "ident", name |-> "ident", bool |-> "ident", UInt |-> "digits",
            Int |-> "minus", Double |-> "decimal", str |-> "quoted", sub |-> "dotted",
            unknown |-> "other"]

\* A token with a value that may be read back.
HasValue(t) ==
    /\ t = <<t[1], t[2]>> /\ t[1] \in DOMAIN ShapeOf
    /\ CASE t[1] = "kw"   -> t[2] \in Keywords
         [] t[1] = "bool" -> t[2] \in {"true", "false"}
         [] t[1] = "name" -> t[2] \notin Keywords \cup DOMAIN TypeOf \cup {"true", "false", "AND"}
         [] t[1] = "UInt" -> t[2] \in Nat
         [] t[1] = "Int"  -> t[2] \in Int
         [] t[1] = "str"  -> t[2] \notin DOMAIN SplitText
         [] t[1] = "unknown" -> t[2] \notin {"*", "&&", "0R", "||"}
         [] OTHER         -> TRUE

\* No token is written like this.
IsNoWord(p) == p = <<"other", p[2]>> /\ <<p>> \notin DOMAIN SymbolOf \cup DOMAIN OperatorOf

(***************************************************************************)
(* The pieces of a string with a blank or a sign between its quotes.  The  *)
(* first and the last have one quote each, and are no strings: the string  *)
(* has no other quote right before its first blank or sign, nor right      *)
(* behind its last.                                                        *)
(***************************************************************************)
IsSplit(text) ==
    /\ text \in Seq({text[i] : i \in DOMAIN text}) /\ Len(text) > 1
    /\ IsNoWord(text[1]) /\ IsNoWord(text[Len(text)])
    /\ Tab \notin {text[i] : i \in DOMAIN text}
    /\ \A i \in 2 .. Len(text) :
           text[i - 1] \in Signs \cup {Blank} \/ text[i] \in Signs \cup {Blank}

ASSUME SplitAssumption == \A v \in DOMAIN SplitText : IsSplit(SplitText[v])

\* A string type and its size are written together.
IsSpelling(word, means) ==
    \/ means = <<means[1]>> /\ <<means[1], word>> \in Texts
    \/ \E v \in DOMAIN SplitText : means = <<<<"str", v>>>> /\ word = SplitText[v]
    \/ /\ means = <<means[1]>> /\ HasValue(means[1])
       /\ word = <<<<ShapeOf[means[1][1]], means[1][2]>>>>
    \/ /\ means = <<Type("STR"), <<"UInt", means[2][2]>>>> /\ means[2][2] \in Nat
       /\ word = <<<<"str", means[2][2]>>>>

\* No blank is needed at a sign, but in front of the = of an operator.
MayTouch(left, right) ==
    /\ left[Len(left)] \in Signs \/ right[1] \in Signs
    /\ right[1] = Sign("=") => left[Len(left)] \notin {Sign(c) : c \in {"=", "!", "<", ">"}}

\* The parts of a query: blanks, the text of a token, the token.
IsWriting(parts) ==
    /\ parts \in Seq({parts[i] : i \in DOMAIN parts})
    /\ \A i \in DOMAIN parts : /\ parts[i].gap \in Seq({Blank})
                               /\ IsSpelling(parts[i].word, parts[i].means)
    /\ \A i \in 2 .. Len(parts) :
           parts[i].gap = <<>> => MayTouch(parts[i - 1].word, parts[i].word)

WrittenText(parts) == FlattenSeq([i \in DOMAIN parts |-> parts[i].gap \o parts[i].word])
WrittenTokens(parts) == FlattenSeq([i \in DOMAIN parts |-> parts[i].means])

\* A query is any text, or the writing of tokens.
ASSUME QueriesAssumption ==
    \A q \in Queries :
        /\ q.text \in Seq({q.text[i] : i \in DOMAIN q.text})
        /\ q.written # <<>> => /\ IsWriting(q.parts)
                               /\ q.text = WrittenText(q.parts)
                               /\ q.written = WrittenTokens(q.parts)
=============================================================================
