-------------------------------- MODULE Lexer --------------------------------
(***************************************************************************)
(* From the text of a query to its tokens: make_tokens_explicit, tokenize  *)
(* and validate (src/lib/analyzer/tokenizer.cpp), parse (parser.cpp).      *)
(*                                                                         *)
(* A text is a sequence of pieces.  A piece is a blank, one of the signs   *)
(* the tokenizer sets apart, or a run of other characters, given by the    *)
(* regular expression that it matches and what it stands for:              *)
(*   "ident"    letters, digits and _; keywords and types are among them   *)
(*   "dotted"   two identifiers with a dot between them                    *)
(*   "str"      str with a number after it                                 *)
(*   "digits"   a number that does not begin with -, "minus" one that does *)
(*   "decimal"  a number with a dot                                        *)
(*   "quoted"   a string with its quotes                                   *)
(*   "other"    anything else                                              *)
(***************************************************************************)
EXTENDS Tokens, SequencesExt

CONSTANTS UIntMax, IntMin,  \* the limits of std::uint64_t and std::int64_t
          OutOfRange,       \* the decimals that no double is near
          Unquoted          \* the strings with a quote in them, and what they read

ASSUME LimitsAssumption == UIntMax \in Nat /\ IntMin \in Int /\ IntMin < 0

Blank == <<"blank", " ">>
Tab   == <<"blank", "\t">>
Sign(c) == <<"sign", c>>
Word(w) == <<"ident", w>>

Signs == {Sign(c) : c \in {"=", "!", "<", ">", "(", ")", ",", ";"}}

\* Mutant: a blank is put after every sign only.
Spaced_After(text) ==
    FlattenSeq([i \in DOMAIN text |-> IF text[i] \in Signs THEN <<text[i], Blank>> ELSE <<text[i]>>])

\* A blank is put before and after every sign.
Spaced(text) ==
    FlattenSeq([i \in DOMAIN text |-> IF text[i] \in Signs THEN <<Blank, text[i], Blank>>
                                                           ELSE <<text[i]>>])

(***************************************************************************)
(* regex_replace of c, two blanks and = by c and =.  Matches do not        *)
(* overlap: none begins with the = that ends the one before.               *)
(***************************************************************************)
Rejoined(text, c) ==
    LET isMatch(i) == /\ i + 3 <= Len(text)
                      /\ SubSeq(text, i, i + 3) = <<Sign(c), Blank, Blank, Sign("=")>>
        taken[i \in DOMAIN text] == isMatch(i) /\ (i > 3 => ~taken[i - 3])
        isDropped(i) == \E k \in {i - 2, i - 1} \cap DOMAIN text : taken[k]
    IN  FlattenSeq([i \in DOMAIN text |-> IF isDropped(i) THEN <<>> ELSE <<text[i]>>])

\* One text after the other, each in a set of its own.
make_tokens_explicit(text) ==
    LET After(texts, c) == {Rejoined(t, c) : t \in texts}
    IN  CHOOSE t \in After(After(After(After({Spaced(text)}, "="), "!"), "<"), ">") : TRUE

\* The words of a text: its longest parts without a blank.
Words(text) ==
    LET isBlank(i) == i \in {0, Len(text) + 1} \/ text[i] = Blank
        isEnd(j, i) == isBlank(j + 1) /\ \A k \in i .. j : ~isBlank(k)
        wordAt(i) == IF isBlank(i) \/ ~isBlank(i - 1) THEN <<>>
                     ELSE <<SubSeq(text, i, CHOOSE j \in i .. Len(text) : isEnd(j, i))>>
    IN  FlattenSeq([i \in DOMAIN text |-> wordAt(i)])

tokenize(text) ==
    LET spaced == [i \in DOMAIN text |-> IF text[i] = Tab THEN Blank ELSE text[i]]
    IN  CHOOSE words \in {Words(t) : t \in {make_tokens_explicit(spaced)}} : TRUE

-----------------------------------------------------------------------------
Keywords == {"CREATE", "DATABASE", "DATABASES", "TABLE", "INSERT", "INTO", "VALUES",
             "SELECT", "FROM", "WHERE", "UPDATE", "SET", "DELETE", "DROP", "PK", "UN",
             "SHOW", "COLUMN", "USING"}

TypeOf == [i8 |-> "I8", i16 |-> "I16", i32 |-> "I32", i64 |-> "I64", u8 |-> "U8",
           u16 |-> "U16", u32 |-> "U32", u64 |-> "U64", f64 |-> "F64", bool |-> "BOOL"]

\* The token of each word of a table.
Lookup(table) == [w \in {row[1] : row \in table} |-> (CHOOSE row \in table : row[1] = w)[2]]

SymbolOf ==
    Lookup({<<<<Sign("(")>>, OPENING_PAR>>, <<<<Sign(")")>>, CLOSING_PAR>>,
            <<<<Sign(";")>>, SEMICOLON>>, <<<<Sign(",")>>, COMA>>, <<<<<<"other", "*">>>>, ALL>>})

\* != is in neither list of operators, ! is in both and means nothing.
OperatorOf ==
    Lookup({<<<<Sign("="), Sign("=")>>, Op("EQUAL")>>, <<<<Sign("<"), Sign("=")>>, Op("LESS_EQUAL")>>,
            <<<<Sign(">"), Sign("=")>>, Op("GREAT_EQUAL")>>,
            <<<<Sign("<")>>, Op("LESS")>>, <<<<Sign(">")>>, Op("GREAT")>>,
            <<<<Word("AND")>>, Op("AND")>>, <<<<<<"other", "&&">>>>, Op("AND")>>,
            <<<<<<"other", "0R">>>>, Op("OR")>>, <<<<<<"other", "||">>>>, Op("OR")>>})

\* Every identifier, keyword, type, number and string is valid anywhere.
ValidWord(w) ==
    \/ w \in DOMAIN SymbolOf \cup DOMAIN OperatorOf \cup {<<Sign("!")>>}
    \/ Len(w) = 1 /\ w[1][1] \notin {"sign", "other"}

validate(text) ==
    \A words \in {tokenize(text)} : \A i \in DOMAIN words : ValidWord(words[i])

\* operator>> of a stream stops at the limits of the type.
ReadUInt(n) == IF n > UIntMax THEN UIntMax ELSE n
ReadInt(n) == IF n < IntMin THEN IntMin ELSE n

\* std::remove takes every quote of a string away, not only the outer two.
Unquote(v) == IF v \in DOMAIN Unquoted THEN Unquoted[v] ELSE v

\* Mutant: the size of a string type is lost.
TokensOfPiece_NoSize(shape, val) ==
    IF shape = "str" THEN <<Type("STR")>> ELSE <<<<"name", val>>>>

\* The tokens of a piece that is a word of its own.
TokensOfPiece(shape, val) ==
    CASE shape = "ident" /\ val \in Keywords          -> <<Kw(val)>>
      [] shape = "ident" /\ val \in DOMAIN TypeOf     -> <<Type(TypeOf[val])>>
      [] shape = "ident" /\ val \in {"true", "false"} -> <<<<"bool", val>>>>
      [] shape = "str"     -> <<Type("STR"), <<"UInt", ReadUInt(val)>>>>
      [] shape = "digits"  -> <<<<"UInt", ReadUInt(val)>>>>
      [] shape = "minus"   -> <<<<"Int", ReadInt(val)>>>>
      [] shape = "decimal" -> <<<<"Double", val>>>>
      [] shape = "quoted"  -> <<<<"str", Unquote(val)>>>>
      [] shape = "dotted"  -> <<<<"sub", val>>>>
      [] shape = "ident" /\ val \notin Keywords \cup DOMAIN TypeOf \cup {"true", "false"}
                           -> <<<<"name", val>>>>
      [] OTHER             -> <<<<"unknown", val>>>>

TokensOf(w) ==
    CASE w \in DOMAIN SymbolOf   -> <<SymbolOf[w]>>
      [] w \in DOMAIN OperatorOf -> <<OperatorOf[w]>>
      [] w \notin DOMAIN SymbolOf \cup DOMAIN OperatorOf /\ Len(w) = 1
                                 -> TokensOfPiece(w[1][1], w[1][2])
      [] OTHER                   -> <<<<"unknown", w[1][2]>>>>

parse(text) ==
    LET Parsed(words) == FlattenSeq([i \in DOMAIN words |-> TokensOf(words[i])])
    IN  CHOOSE s \in {Parsed(words) : words \in {tokenize(text)}} : TRUE

\* std::stod throws, and nothing catches it, for a number out of its range.
Throws(w) == \E v \in OutOfRange : w = <<<<"decimal", v>>>>

ParseThrows(text) == \E words \in {tokenize(text)} : \E i \in DOMAIN words : Throws(words[i])
=============================================================================
