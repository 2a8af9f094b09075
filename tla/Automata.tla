------------------------------ MODULE Automata ------------------------------
(***************************************************************************)
(* Automata::get_action_struct (src/lib/analyzer/automata.cpp): the tokens *)
(* of a query are visited from the first to the last, each with a window   *)
(* of two tokens before it and two after it.  One step is one call of the  *)
(* visitor; it changes the context and the action found so far (variant),  *)
(* or ends the analysis with an error, or throws.                          *)
(*                                                                         *)
(* At the first token the context is Unknown, so the tests of ctx in the   *)
(* keywords that must come first (CREATE, USING, DELETE, SHOW, INSERT) are *)
(* always true and are left out.  No statement sets ShowTableDataE, so its *)
(* branch of DATABASE is left out as well.                                 *)
(***************************************************************************)
EXTENDS Tokens

CONSTANT Sentences      \* the sequences of tokens Parser::parse can return

ASSUME SentencesAssumption ==
    \A s \in Sentences : /\ s \in Seq({s[i] : i \in DOMAIN s})
                          /\ SizedTypes(s)
                          /\ \A i \in 1 .. Len(s) : s[i] # None

VARIABLES in,             \* the tokens of the query
          token_number,   \* the token that is visited next, from 0
          ctx,
          variant,        \* the action found so far
          outcome         \* "running", "action", "error" or "thrown"

avars == <<in, token_number, ctx, variant, outcome>>

Contexts == {"Unknown", "CreateDatabaseE", "CreateTableE", "DeleteDatabaseE",
             "DeleteTableE", "ShowDatabaseE", "ShowTableE", "ShowDatabasesE",
             "InsertE", "SelectE", "WhereE", "ShowColumnValuesE"}

NoAction == [kind |-> "none"]
ShowDatabases == [kind |-> "ShowDatabases"]
OfDatabase(k, d) == [kind |-> k, db |-> d]
OfTable(k, ts) == [kind |-> k, db |-> ts[1], table |-> ts[2]]
CreateTable(ts, cols) == [kind |-> "CreateTable", db |-> ts[1], table |-> ts[2],
                          columns |-> cols]
Insert(ts, vals) == [kind |-> "Insert", db |-> ts[1], table |-> ts[2], values |-> vals]
Show_Select(d, subs, conds) == [kind |-> "Show_Select", db |-> d, tables |-> subs,
                                restrictions |-> conds]
ShowColumnValues(d, ts) == [kind |-> "ShowColumnValues", db |-> d,
                            table |-> ts[1], column |-> ts[2]]

-----------------------------------------------------------------------------
(* The window, and how a visit ends. *)

Token(n) == IF n \in 0 .. Len(in) - 1 THEN in[n + 1] ELSE None

prevm1 == Token(token_number - 2)
prev   == Token(token_number - 1)
curr   == Token(token_number)
next   == Token(token_number + 1)
nextp1 == Token(token_number + 2)

Set(c, v) == /\ ctx' = c
             /\ variant' = v
             /\ token_number' = token_number + 1
             /\ UNCHANGED <<in, outcome>>

Accept == Set(ctx, variant)

End(how) == outcome' = how /\ UNCHANGED <<in, token_number, ctx, variant>>

At(test) == outcome = "running" /\ test

\* An error of the visitor ends the analysis.
Expect(ok, visit) == (ok /\ visit) \/ (~ok /\ End("error"))

\* std::get and value() throw what nobody catches when they do not fit.
Get(fits, visit) == (fits /\ visit) \/ (~fits /\ End("thrown"))

-----------------------------------------------------------------------------
(* The keywords. *)

ContextOf(root, object) ==
    CASE root = "CREATE" /\ object = Kw("DATABASE")  -> "CreateDatabaseE"
      [] root = "CREATE" /\ object = Kw("TABLE")     -> "CreateTableE"
      [] root = "DELETE" /\ object = Kw("DATABASE")  -> "DeleteDatabaseE"
      [] root = "DELETE" /\ object = Kw("TABLE")     -> "DeleteTableE"
      [] root = "SHOW"   /\ object = Kw("DATABASE")  -> "ShowDatabaseE"
      [] root = "SHOW"   /\ object = Kw("TABLE")     -> "ShowTableE"
      [] root = "SHOW"   /\ object = Kw("DATABASES") -> "ShowDatabasesE"
      [] root = "SHOW"   /\ object = Kw("FROM")      -> "Unknown"
      [] root = "INSERT"                             -> "InsertE"

\* CREATE, DELETE, SHOW and INSERT come first and name what they are about.
Root(root, objects) ==
    /\ At(curr = Kw(root))
    /\ Expect(token_number = 0 /\ next \in {Kw(o) : o \in objects},
              Set(ContextOf(root, next), variant))

VisitCreate == Root("CREATE", {"DATABASE", "TABLE"})
VisitDelete == Root("DELETE", {"DATABASE", "TABLE"})
VisitShow == Root("SHOW", {"DATABASE", "DATABASES", "TABLE", "FROM"})
VisitInsert == Root("INSERT", {"INTO"})

\* Mutant: the context is SelectE with no database named.
VisitUsing_NoName ==
    /\ At(curr = Kw("USING"))
    /\ Expect(token_number = 0 /\ next # None,
              Set("SelectE", IF IsName(next) THEN Show_Select(next[2], <<>>, <<>>) ELSE variant))

VisitUsing ==
    /\ At(curr = Kw("USING"))
    /\ Expect(token_number = 0 /\ next # None,
              IF IsName(next) THEN Set("SelectE", Show_Select(next[2], <<>>, <<>>))
                              ELSE Accept)

VisitSelect ==
    /\ At(curr = Kw("SELECT"))
    /\ Expect(ctx = "SelectE" => IsSub(next), Accept)

\* next.value() is used before has_value() is asked.
VisitWhere ==
    /\ At(curr = Kw("WHERE"))
    /\ Get(ctx = "WhereE" => next # None,
           Expect(ctx = "WhereE" => IsSub(next), Accept))

\* FROM database.table; or FROM database table.column;
VisitFrom ==
    /\ At(curr = Kw("FROM"))
    /\ \/ ctx # "Unknown" /\ Accept
       \/ /\ ctx = "Unknown"
          /\ Expect(/\ token_number # 0
                    /\ \/ IsSub(next) /\ IsSym(nextp1)
                       \/ IsName(next) /\ IsSub(nextp1),
                    IF IsSub(next)
                    THEN Set(ctx, OfTable("ShowTableData", next[2]))
                    ELSE Set("ShowColumnValuesE", ShowColumnValues(next[2], nextp1[2])))

VisitColumn ==
    /\ At(curr = Kw("COLUMN"))
    /\ \/ ctx # "ShowColumnValuesE" /\ Accept
       \/ /\ ctx = "ShowColumnValuesE"
          /\ Expect(IsSub(next) /\ IsSym(nextp1),
                    Set(ctx, ShowColumnValues(variant.db, next[2])))

VisitInto == At(curr = Kw("INTO")) /\ Expect(IsSub(next), Accept)

VisitTable ==
    /\ At(curr = Kw("TABLE"))
    /\ Expect(ctx \in {"CreateTableE", "DeleteTableE"} => IsSub(next), Accept)

VisitDatabase ==
    /\ At(curr = Kw("DATABASE"))
    /\ Expect(ctx \in {"CreateDatabaseE", "DeleteDatabaseE", "ShowColumnValuesE"}
                  => IsName(next),
              IF ctx = "ShowColumnValuesE"
              THEN Set(ctx, ShowColumnValues("", <<next[2], "">>))
              ELSE Accept)

VisitDatabases ==
    /\ At(curr = Kw("DATABASES"))
    /\ \/ ctx # "ShowDatabasesE" /\ Accept
       \/ /\ ctx = "ShowDatabasesE"
          /\ Expect(prev = Kw("SHOW") /\ next = SEMICOLON, Set(ctx, ShowDatabases))

\* VALUES, UPDATE, SET, DROP, PK and UN mean nothing.
VisitOtherKeyword ==
    /\ At(curr \in {Kw(k) : k \in {"VALUES", "UPDATE", "SET", "DROP", "PK", "UN"}})
    /\ Accept

-----------------------------------------------------------------------------
(* Types, symbols, operators and unknown tokens. *)

VisitType ==
    /\ At(IsType(curr))
    /\ Expect(ctx = "CreateTableE" =>
                  IF curr = Type("STR") THEN IsName(nextp1) ELSE IsName(next),
              Accept)

\* Mutants: no comma before the end of a list; anything after a list.
FollowsSymbol_NoTrailing ==
    (curr = COMA /\ ctx \in {"CreateTableE", "InsertE"}) => IsType(next) \/ IsLiteral(next)

FollowsSymbol_OpenEnd ==
    CASE curr = SEMICOLON -> next = None
      [] curr = CLOSING_PAR -> TRUE
      [] curr = OPENING_PAR -> ctx = "CreateTableE" => IsType(next)
      [] curr = COMA -> ctx = "CreateTableE" => IsType(next) \/ next = CLOSING_PAR
      [] curr = ALL -> TRUE

\* What may follow a symbol: the type or the literal of the next column, the
\* end of the list (a comma may come before it too), the end of the query.
FollowsSymbol ==
    LET item == \/ ctx = "CreateTableE" /\ IsType(next)
                \/ ctx = "InsertE" /\ IsLiteral(next)
        inList == ctx \in {"CreateTableE", "InsertE"}
    IN  CASE curr = SEMICOLON -> next = None
          [] curr = OPENING_PAR -> inList => item
          [] curr = COMA -> inList => item \/ next = CLOSING_PAR
          [] curr = CLOSING_PAR -> inList => next = SEMICOLON
          [] curr = ALL -> TRUE

VisitSymbol == At(IsSym(curr)) /\ Expect(FollowsSymbol, Accept)

VisitOperator ==
    /\ At(IsOp(curr))
    /\ Expect(ctx = "WhereE" =>
                  IF curr \in Connectives THEN IsLiteral(prev) /\ IsSub(next)
                                          ELSE IsSub(prev) /\ IsLiteral(next),
              Accept)

VisitUnknown == At(curr[1] = "unknown") /\ End("error")

-----------------------------------------------------------------------------
(* Literals: a value of an INSERT, the end of a condition of a SELECT. *)

InsertValue ==
    Expect(next \in {CLOSING_PAR, COMA},
           Get(variant.kind = "Insert",
               Set(ctx, [variant EXCEPT !.values = Append(@, curr)])))

\* Mutant: a condition takes the place of those before it.
Restriction_Last ==
    Expect(next \in {SEMICOLON} \cup Connectives,
           Get(variant.kind = "Show_Select" /\ IsOp(prev) /\ IsSub(prevm1),
               Set(ctx, [variant EXCEPT !.restrictions = <<<<prevm1[2], prev[2], curr>>>>])))

Restriction ==
    Expect(next \in {SEMICOLON} \cup Connectives,
           Get(variant.kind = "Show_Select" /\ IsOp(prev) /\ IsSub(prevm1),
               Set(ctx, [variant EXCEPT !.restrictions =
                                    Append(@, <<prevm1[2], prev[2], curr>>)])))

Literal == \/ ctx = "InsertE" /\ InsertValue
           \/ ctx = "WhereE" /\ Restriction
           \/ ctx \notin {"InsertE", "WhereE"} /\ Accept

VisitBool == At(curr[1] = "bool") /\ Literal
VisitString == At(curr[1] = "str") /\ Literal
VisitNumbers == At(IsNumber(curr)) /\ Literal

-----------------------------------------------------------------------------
(* Identifiers. *)

\* The contexts whose identifier ends the query, and the action it makes.
DatabaseAction == [CreateDatabaseE |-> "CreateDatabase", DeleteDatabaseE |-> "DeleteDatabase",
                   ShowDatabaseE |-> "ShowDatabase"]
TableAction == [DeleteTableE |-> "DeleteTable", ShowTableE |-> "ShowTable"]

IsIdentifier(t) == IsName(t) \/ IsSub(t)

DatabaseTarget ==
    /\ At(IsIdentifier(curr))
    /\ ctx \in DOMAIN DatabaseAction
    /\ Expect(next = SEMICOLON /\ IsName(curr),
              Set(ctx, OfDatabase(DatabaseAction[ctx], curr[2])))

TableTarget ==
    /\ At(IsIdentifier(curr))
    /\ ctx \in DOMAIN TableAction
    /\ Expect(next = SEMICOLON /\ IsSub(curr),
              Set(ctx, OfTable(TableAction[ctx], curr[2])))

\* SELECT takes one table.column after the other until WHERE.
SelectColumn ==
    /\ At(IsSub(curr))
    /\ ctx = "SelectE"
    /\ Expect(next \in {COMA, Kw("WHERE")},
              Get(variant.kind = "Show_Select",
                  Set(IF next = Kw("WHERE") THEN "WhereE" ELSE ctx,
                      [variant EXCEPT !.tables = Append(@, curr[2])])))

ShownColumn ==
    /\ At(IsSub(curr))
    /\ ctx = "ShowColumnValuesE"
    /\ Expect(next = SEMICOLON, Accept)

ListTarget ==
    /\ At(IsSub(curr))
    /\ ctx \in {"CreateTableE", "InsertE"}
    /\ Expect(/\ prev = Kw(IF ctx = "InsertE" THEN "INTO" ELSE "TABLE")
              /\ next = OPENING_PAR,
              Set(ctx, IF ctx = "InsertE" THEN Insert(curr[2], <<>>)
                                          ELSE CreateTable(curr[2], <<>>)))

\* KeyValueList::insert: of two columns of one name the first one stays.
AddColumn(cols, name, ly) ==
    IF \E i \in DOMAIN cols : cols[i][1] = name THEN cols ELSE Append(cols, <<name, ly>>)

Column(ly) ==
    Get(variant.kind = "CreateTable",
        Set(ctx, [variant EXCEPT !.columns = AddColumn(@, curr[2], ly)]))

ColumnName ==
    /\ At(IsName(curr))
    /\ ctx = "CreateTableE"
    /\ Expect(/\ next \in {CLOSING_PAR, COMA}
              /\ IsType(prev) \/ prevm1 = Type("STR"),
              IF IsType(prev) THEN Column(<<prev[2], 0>>)
              ELSE Get(prev[1] = "UInt", Column(<<"STR", prev[2]>>)))

OtherIdentifier ==
    /\ At(IsIdentifier(curr))
    /\ \/ ctx \in {"Unknown", "ShowDatabasesE", "WhereE"}
       \/ ctx \in {"SelectE", "ShowColumnValuesE", "InsertE"} /\ IsName(curr)
    /\ Accept

-----------------------------------------------------------------------------
Visit ==
    \/ VisitCreate \/ VisitUsing \/ VisitSelect \/ VisitWhere \/ VisitDelete
    \/ VisitShow \/ VisitFrom \/ VisitColumn \/ VisitInto \/ VisitInsert
    \/ VisitTable \/ VisitDatabase \/ VisitDatabases \/ VisitOtherKeyword
    \/ VisitType \/ VisitSymbol \/ VisitOperator \/ VisitUnknown
    \/ VisitBool \/ VisitString \/ VisitNumbers
    \/ DatabaseTarget \/ TableTarget \/ SelectColumn \/ ShownColumn
    \/ ListTarget \/ ColumnName \/ OtherIdentifier

\* The loop is over: the action, or "Unknown query.".
Answer ==
    /\ At(token_number = Len(in))
    /\ End(IF variant = NoAction THEN "error" ELSE "action")

AInit == /\ in \in Sentences
         /\ token_number = 0
         /\ ctx = "Unknown"
         /\ variant = NoAction
         /\ outcome = "running"

ANext == Visit \/ Answer

ASpec == AInit /\ [][ANext]_avars
=============================================================================
