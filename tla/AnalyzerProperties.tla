------------------------- MODULE AnalyzerProperties -------------------------
(***************************************************************************)
(* What the analyzer must do with the queries of a client, stated with a   *)
(* grammar: the sentences that mean an action, and the action they mean.   *)
(***************************************************************************)
EXTENDS Analyzer

\* Type invariant.
TypeOK == /\ token_number \in 0 .. Len(in)
          /\ ctx \in Contexts
          /\ variant.kind \in {"none", "CreateDatabase", "DeleteDatabase", "ShowDatabase",
                               "CreateTable", "DeleteTable", "ShowTable", "ShowDatabases",
                               "Insert", "Show_Select", "ShowColumnValues", "ShowTableData"}
          /\ outcome \in {"running", "action", "error", "thrown"}
          /\ phase \in {"received", "explicit", "valid", "parsed"}
          /\ SizedTypes(in)

-----------------------------------------------------------------------------
(* The grammar. *)

\* The k-th of the numbers in S, counted from the least.
Nth(S, k) == CHOOSE i \in S : Cardinality({j \in S : j <= i}) = k

\* The tokens of a list in parentheses that begins at the fourth token.
Items(s) == SubSeq(s, 5, Len(s) - 2)

IsListOf(s, k1, k2) ==
    /\ Len(s) > 6
    /\ s[1] = Kw(k1) /\ s[2] = Kw(k2) /\ IsSub(s[3]) /\ s[4] = OPENING_PAR
    /\ SubSeq(s, Len(s) - 1, Len(s)) = <<CLOSING_PAR, SEMICOLON>>

IsInsert(s) ==
    /\ IsListOf(s, "INSERT", "INTO")
    /\ \A i \in DOMAIN Items(s) :
           IF i % 2 = 1 THEN IsLiteral(Items(s)[i]) ELSE Items(s)[i] = COMA

InsertOf(s) ==
    Insert(s[3][2], [i \in 1 .. (Len(Items(s)) + 1) \div 2 |-> Items(s)[2 * i - 1]])

IsColumn(c) ==
    \/ Len(c) = 2 /\ IsType(c[1]) /\ c[1] # Type("STR") /\ IsName(c[2])
    \/ Len(c) = 3 /\ c[1] = Type("STR") /\ c[2][1] = "UInt" /\ IsName(c[3])

\* Where a column begins and ends: at the parentheses and the commas.
Separators(s) == {4, Len(s) - 1} \cup {i \in 5 .. Len(s) - 2 : s[i] = COMA}

Neighbours(s, i, j) == i < j /\ \A k \in i + 1 .. j - 1 : s[k] # COMA

\* There is a column between two of them, or nothing behind the last comma.
IsCreateTable(s) ==
    /\ IsListOf(s, "CREATE", "TABLE")
    /\ \A i, j \in Separators(s) : Neighbours(s, i, j) =>
           \/ IsColumn(SubSeq(s, i + 1, j - 1))
           \/ s[i] = COMA /\ j = i + 1 /\ j = Len(s) - 1

\* The column whose name is at place i, by the tokens before it.
ColumnAt(s, i) ==
    IF IsType(s[i - 1]) THEN <<s[i][2], <<s[i - 1][2], 0>>>>
                        ELSE <<s[i][2], <<"STR", s[i - 1][2]>>>>

NameAt(s, i, name) == IsName(s[i]) /\ s[i][2] = name

\* Of two columns of one name the first one counts.
NewNames(s) == {i \in 5 .. Len(s) - 2 :
                   IsName(s[i]) /\ \A j \in 5 .. i - 1 : ~NameAt(s, j, s[i][2])}

CreateTableOf(s) ==
    CreateTable(s[3][2], [k \in 1 .. Cardinality(NewNames(s)) |-> ColumnAt(s, Nth(NewNames(s), k))])

\* USING d SELECT t.c, .. WHERE t.c == 1 AND ..;
WhereAt(s) ==
    LET wheres == {i \in 2 .. Len(s) : s[i] = Kw("WHERE") /\ IsSub(s[i - 1])}
    IN  IF wheres = {} THEN Len(s) + 1 ELSE Min(wheres)

\* The token that stands at place i of a condition: t.c == 1 AND ..
InCondition(t, i, last) ==
    CASE i % 4 = 1 -> IsSub(t)
      [] i % 4 = 2 -> IsOp(t) /\ t \notin Connectives
      [] i % 4 = 3 -> IsLiteral(t)
      [] i % 4 = 0 -> IF last THEN t = SEMICOLON ELSE t \in Connectives

IsSelect(s) ==
    LET w == WhereAt(s) IN
    /\ w > 4 /\ w % 2 = 1 /\ Len(s) > w /\ (Len(s) - w) % 4 = 0
    /\ s[1] = Kw("USING") /\ IsName(s[2]) /\ s[3] = Kw("SELECT")
    /\ \A i \in 4 .. w - 1 : IF i % 2 = 0 THEN IsSub(s[i]) ELSE s[i] = COMA
    /\ \A i \in w + 1 .. Len(s) : InCondition(s[i], i - w, i = Len(s))

\* The columns named up to place m, the literals between the places w and m.
SubsUpTo(s, m) == {i \in 1 .. m : IsSub(s[i])}
LiteralsIn(s, w, m) == {i \in w + 1 .. m : IsLiteral(s[i])}

Selected(s) ==
    LET at == SubsUpTo(s, WhereAt(s) - 1)
    IN  [k \in 1 .. Cardinality(at) |-> s[Nth(at, k)][2]]

\* A condition ends with its literal: a column and an operator are before it.
ConditionAt(s, i) == <<s[i - 2][2], s[i - 1][2], s[i]>>

Conditions(s) ==
    LET at == LiteralsIn(s, WhereAt(s), Len(s))
    IN  [k \in 1 .. Cardinality(at) |-> ConditionAt(s, Nth(at, k))]

SelectOf(s) == Show_Select(s[2][2], Selected(s), Conditions(s))

\* The short statements: two keywords and what they are about.
Short == [CreateDatabase |-> <<"CREATE", "DATABASE", "name">>,
          DeleteDatabase |-> <<"DELETE", "DATABASE", "name">>,
          ShowDatabase   |-> <<"SHOW", "DATABASE", "name">>,
          DeleteTable    |-> <<"DELETE", "TABLE", "sub">>,
          ShowTable      |-> <<"SHOW", "TABLE", "sub">>,
          ShowTableData  |-> <<"SHOW", "FROM", "sub">>]

IsShort(s, k) ==
    /\ Len(s) = 4 /\ s[4] = SEMICOLON
    /\ s[1] = Kw(Short[k][1]) /\ s[2] = Kw(Short[k][2]) /\ s[3][1] = Short[k][3]

ShortOf(s, k) == IF IsName(s[3]) THEN OfDatabase(k, s[3][2]) ELSE OfTable(k, s[3][2])

IsShowColumn(s) ==
    /\ Len(s) = 5 /\ s[1] = Kw("SHOW") /\ s[2] = Kw("FROM")
    /\ IsName(s[3]) /\ IsSub(s[4]) /\ s[5] = SEMICOLON

IsShowDatabases(s) == s = <<Kw("SHOW"), Kw("DATABASES"), SEMICOLON>>

\* The action a sentence means, NoAction if it is not one of the grammar.
Meaning(s) ==
    CASE IsInsert(s)        -> InsertOf(s)
      [] IsCreateTable(s)   -> CreateTableOf(s)
      [] IsSelect(s)        -> SelectOf(s)
      [] IsShowColumn(s)    -> ShowColumnValues(s[3][2], s[4][2])
      [] IsShowDatabases(s) -> ShowDatabases
      [] \E k \in DOMAIN Short : IsShort(s, k)
                            -> ShortOf(s, CHOOSE k \in DOMAIN Short : IsShort(s, k))
      [] OTHER              -> NoAction

-----------------------------------------------------------------------------
\* What is refused as text: a string with a blank or a sign in it, which is
\* taken for several words, and the operator !=, which validate does not know.
Refused == {<<"str", v>> : v \in DOMAIN SplitText} \cup {Op("NOT_EQUAL")}

IsRefused(s) == \E i \in DOMAIN s : s[i] \in Refused

\* A decimal that std::stod throws at.
HasFar(s) == \E i \in DOMAIN s, v \in OutOfRange : s[i] = <<"Double", v>>

\* What the code makes of a value: a number past the limits of 64 bits becomes
\* the limit, a string loses the quotes in it.
Limited(s) == [i \in DOMAIN s |-> CASE s[i][1] = "UInt" -> <<"UInt", Min({s[i][2], UIntMax})>>
                                     [] s[i][1] = "Int"  -> <<"Int", Max({s[i][2], IntMin})>>
                                     [] s[i][1] = "str"  -> <<"str", Unquote(s[i][2])>>
                                     [] OTHER            -> s[i]]

\* resolve sets the signs apart (main.cpp:58), and tokenize does so again
\* with the result (tokenizer.cpp:19): the second time must not change the
\* words, whatever operators the first time joined.
SetApartOnce ==
    phase = "explicit" /\ Tab \notin {query[i] : i \in DOMAIN query}
        => tokenize(query) = Words(query)

\* Setting the signs apart, twice, and splitting at blanks loses nothing: the
\* tokens parsed (tokenizer.cpp:7-66, parser.cpp:6-248) are those the client
\* wrote, with or without blanks around the signs, but for numbers past 64 bits
\* and quotes in strings.  parse throws at a decimal out of range and at nothing
\* else; what is refused as text gets to neither.
LexedAsWritten ==
    /\ phase = "parsed" /\ written # <<>>
        => in = Limited(written) /\ ~IsRefused(written) /\ ~HasFar(written)
    /\ phase = "valid" /\ outcome = "thrown" /\ written # <<>>
        => HasFar(written) /\ ~IsRefused(written)
    /\ SetApartOnce

\* Every sentence of the grammar is answered with the action it means: no
\* window of five tokens (automata.cpp:1022-1053) takes it for an error, and
\* nothing is dropped, added or reordered on the way to the action.  Left out
\* are the values no sentence can have: a string with a blank or a sign in it,
\* the operator !=, a decimal out of range.
SentencesAreUnderstood ==
    /\ outcome \in {"action", "error", "thrown"}
    /\ ~IsRefused(written) /\ ~HasFar(written)
    /\ Meaning(written) # NoAction
    => outcome = "action" /\ variant = Meaning(Limited(written))

\* Nothing is created, deleted or inserted but by a sentence that means just
\* that: whatever the words around, the checks of neighbouring tokens add up
\* to the grammar for the statements that change something.
ChangesAreMeant ==
    outcome = "action" /\ variant.kind \in {"CreateDatabase", "DeleteDatabase", "CreateTable",
                                            "DeleteTable", "Insert"}
        => variant = Meaning(in)

\* A SELECT, a strange one too, reads the database it begins with, the columns
\* before WHERE and each condition after it once, with its own column and
\* operator (automata.cpp:721-735 and 759-775 look back and ahead for them).
SelectKeepsItsConditions ==
    outcome = "action" /\ variant.kind = "Show_Select"
        => in[1] = Kw("USING") /\ IsName(in[2]) /\ variant = SelectOf(in)

\* The variant the context promises is there when a visitor gets it
\* (automata.cpp:42, 343, 766, 883): a get that fails, which ends the process
\* once the tokens are parsed, happens at most among the conditions of a SELECT.
GetsFitTheContext == outcome = "thrown" /\ phase = "parsed" => ctx = "WhereE"
=============================================================================
