------------------------------ MODULE MCAnalyzer ------------------------------
(***************************************************************************)
(* The queries: sentences of every kind, each as it is, with one token     *)
(* replaced, dropped or put in, and cut short; all sequences of at most    *)
(* two tokens; and texts of signs and blanks only for the tokenizer.       *)
(***************************************************************************)
EXTENDS AnalyzerProperties

\* Strings with a blank, with signs, with a quote; a decimal out of range.
Two == "two words"
Pair == "(a,=b)"
Hello == "he\"llo"
Far == "1e400"

MCSplitText ==
    Two :> <<<<"other", "\"two">>, Blank, <<"other", "words\"">>>>
    @@ Pair :> <<<<"other", "\"">>, Sign("("), Word("a"), Sign(","), Sign("="), Word("b"),
                 Sign(")"), <<"other", "\"">>>>

MCUnquoted == Hello :> "hello"

K == [d |-> <<"name", "d">>, e |-> <<"name", "e">>, tc |-> <<"sub", <<"t", "c">>>>,
      te |-> <<"sub", <<"t", "e">>>>, str |-> <<"str", "x">>, two |-> <<"str", Two>>,
      pair |-> <<"str", Pair>>, quote |-> <<"str", Hello>>, far |-> <<"Double", Far>>,
      u |-> <<"UInt", 5>>, big |-> <<"UInt", 9>>, n |-> <<"Int", -5>>, f |-> <<"Double", "1.5">>,
      b |-> <<"bool", "true">>, no |-> <<"unknown", "?">>]

KwSeq(ks) == [i \in DOMAIN ks |-> Kw(ks[i])]

Bodies == {
    KwSeq(<<"CREATE", "DATABASE">>) \o <<K.d, SEMICOLON>>,
    KwSeq(<<"DELETE", "DATABASE">>) \o <<K.d, SEMICOLON>>,
    KwSeq(<<"SHOW", "DATABASE">>) \o <<K.d, SEMICOLON>>,
    KwSeq(<<"DELETE", "TABLE">>) \o <<K.tc, SEMICOLON>>,
    KwSeq(<<"SHOW", "TABLE">>) \o <<K.tc, SEMICOLON>>,
    KwSeq(<<"SHOW", "FROM">>) \o <<K.tc, SEMICOLON>>,
    KwSeq(<<"SHOW", "FROM">>) \o <<K.d, K.tc, SEMICOLON>>,
    KwSeq(<<"SHOW", "DATABASES">>) \o <<SEMICOLON>>,
    KwSeq(<<"CREATE", "TABLE">>) \o <<K.tc, OPENING_PAR, Type("U8"), K.d, COMA,
        Type("STR"), K.u, K.e, COMA, Type("BOOL"), K.d, CLOSING_PAR, SEMICOLON>>,
    KwSeq(<<"INSERT", "INTO">>) \o <<K.tc, OPENING_PAR, K.u, COMA, K.str, COMA,
        K.n, CLOSING_PAR, SEMICOLON>>,
    KwSeq(<<"INSERT", "INTO">>) \o <<K.tc, OPENING_PAR, K.f, COMA, K.big, COMA,
        CLOSING_PAR, SEMICOLON>>,
    <<Kw("USING"), K.d, Kw("SELECT"), K.tc, COMA, K.te, Kw("WHERE"), K.tc, Op("EQUAL"),
      K.u, Op("AND"), K.te, Op("LESS_EQUAL"), K.b, Op("OR"), K.tc, Op("GREAT"), K.str, SEMICOLON>>,
    <<Kw("USING"), K.d, Kw("SELECT"), K.tc, Kw("WHERE"), K.tc, Op("NOT_EQUAL"), K.n, SEMICOLON>>}

Vocabulary ==
    {Kw(k) : k \in {"CREATE", "DATABASE", "TABLE", "INTO", "SELECT", "FROM", "WHERE", "SHOW",
                    "USING", "COLUMN", "DATABASES", "SET"}}
    \cup {SEMICOLON, OPENING_PAR, CLOSING_PAR, COMA, ALL}
    \cup {Op("EQUAL"), Op("LESS"), Op("AND"), Op("NOT_EQUAL"), Type("U8")}
    \cup {K.d, K.tc, K.str, K.two, K.pair, K.quote, K.far, K.u, K.big, K.n, K.b, K.no}

Replaced(s) == {[s EXCEPT ![i] = t] : i \in DOMAIN s, t \in Vocabulary}
Dropped(s) == {SubSeq(s, 1, i - 1) \o SubSeq(s, i + 1, Len(s)) : i \in DOMAIN s}
Added(s) == {SubSeq(s, 1, i) \o <<t>> \o SubSeq(s, i + 1, Len(s)) :
                i \in DOMAIN s, t \in Vocabulary}
Cut(s) == {SubSeq(s, 1, i) : i \in 0 .. Len(s)}

Spellable(s) == s # <<>> /\ SizedTypes(s)

MCSentences ==
    {s \in UNION {Replaced(b) \cup Dropped(b) \cup Added(b) \cup Cut(b) : b \in Bodies}
           \cup {<<t>> : t \in Vocabulary} \cup {<<t, u>> : t, u \in Vocabulary} : Spellable(s)}

-----------------------------------------------------------------------------
(* How a client writes a token, and the tokens one after the other. *)

TypeWord == [t \in {TypeOf[w] : w \in DOMAIN TypeOf} |->
                CHOOSE w \in DOMAIN TypeOf : TypeOf[w] = t]

SpellingOf == [t \in {SymbolOf[w] : w \in DOMAIN SymbolOf} |->
                  CHOOSE w \in DOMAIN SymbolOf : SymbolOf[w] = t]

Spelling(t, tight) ==
    CASE t[1] \in {"kw", "name", "bool"} -> <<Word(t[2])>>
      [] t[1] = "type"   -> <<Word(TypeWord[t[2]])>>
      [] IsSym(t)        -> SpellingOf[t]
      [] t = Op("AND")   -> IF tight THEN <<<<"other", "&&">>>> ELSE <<Word("AND")>>
      [] t = Op("OR")    -> IF tight THEN <<<<"other", "||">>>> ELSE <<<<"other", "0R">>>>
      [] t = Op("EQUAL")    -> <<Sign("="), Sign("=")>>
      [] t = Op("NOT_EQUAL")    -> <<Sign("!"), Sign("=")>>
      [] t = Op("LESS_EQUAL")    -> <<Sign("<"), Sign("=")>>
      [] t = Op("LESS")     -> <<Sign("<")>>
      [] t = Op("GREAT")     -> <<Sign(">")>>
      [] t[1] = "str" -> IF t[2] \in DOMAIN SplitText THEN SplitText[t[2]]
                                                      ELSE <<<<"quoted", t[2]>>>>
      [] t[1] = "UInt"   -> <<<<"digits", t[2]>>>>
      [] t[1] = "Int"    -> <<<<"minus", t[2]>>>>
      [] t[1] = "Double" -> <<<<"decimal", t[2]>>>>
      [] t[1] = "sub"    -> <<<<"dotted", t[2]>>>>
      [] t[1] = "unknown" -> <<<<"other", t[2]>>>>

\* A string type and its size are one word.
Pieces(s, i, tight) ==
    CASE s[i] = Type("STR") -> <<<<"str", s[i + 1][2]>>>>
      [] i > 1 /\ s[i - 1] = Type("STR") -> <<>>
      [] OTHER -> Spelling(s[i], tight)

\* Blanks everywhere, or only where there must be one.
Gap(parts, word, tight) ==
    IF parts = <<>> \/ (tight /\ MayTouch(parts[Len(parts)].word, word)) THEN <<>> ELSE <<Blank>>

Parts(s, tight) ==
    LET means(i) == IF s[i] = Type("STR") THEN <<s[i], s[i + 1]>> ELSE <<s[i]>>
        Behind(parts, i, word) ==
            IF word = <<>> THEN parts
            ELSE Append(parts, [gap |-> Gap(parts, word, tight), word |-> word, means |-> means(i)])
        upto[i \in 0 .. Len(s)] ==
            IF i = 0 THEN <<>> ELSE Behind(upto[i - 1], i, Pieces(s, i, tight))
    IN  upto[Len(s)]

Query(s, parts) == [written |-> s, parts |-> parts, text |-> WrittenText(parts)]

SignTexts == UNION {[1 .. n -> {Sign("="), Sign("!"), Sign("<"), Blank, Word("a")}] : n \in 1 .. 4}
             \cup {<<Sign("="), Tab, Sign("=")>>, <<Tab, Word("a"), Tab>>}

MCIntMin == -4

MCQueries == {Query(s, Parts(s, tight)) : s \in MCSentences, tight \in BOOLEAN}
             \cup {[written |-> <<>>, parts |-> <<>>, text |-> t] : t \in SignTexts}
=============================================================================
