--------------------------- MODULE AnalyzerProofs ---------------------------
(***************************************************************************)
(* What the automata does with every sequence of tokens in which a string  *)
(* type has its size: no get fails outside of the conditions of a SELECT;  *)
(* a database is created or deleted, a table deleted, by the four tokens   *)
(* that mean it and by nothing else; an INSERT has the values, a CREATE    *)
(* TABLE the columns, and a SELECT the columns and the conditions that     *)
(* were written, in their order; and every sentence of the grammar is      *)
(* answered with the action that it means.  LexerProofs has the theorems   *)
(* about a query, from its text to its action.                             *)
(***************************************************************************)
EXTENDS AnalyzerProperties, FiniteSetTheorems, WellFoundedInduction, TLAPS

(* What the statements that change something begin with and make. *)

RootOf == [InsertE |-> "INSERT", CreateTableE |-> "CREATE", CreateDatabaseE |-> "CREATE",
           DeleteDatabaseE |-> "DELETE", DeleteTableE |-> "DELETE"]
ObjectOf == [InsertE |-> "INTO", CreateTableE |-> "TABLE", CreateDatabaseE |-> "DATABASE",
             DeleteDatabaseE |-> "DATABASE", DeleteTableE |-> "TABLE"]
KindOf == [InsertE |-> "Insert", CreateTableE |-> "CreateTable",
           CreateDatabaseE |-> "CreateDatabase", DeleteDatabaseE |-> "DeleteDatabase",
           DeleteTableE |-> "DeleteTable"]

OfName == {"CreateDatabaseE", "DeleteDatabaseE"}
ShortContexts == OfName \cup {"DeleteTableE"}
Changing == ShortContexts \cup {"InsertE", "CreateTableE"}

\* The action of a short statement on its target.
ActionOn(c, t) == IF c \in OfName THEN OfDatabase(KindOf[c], t[2]) ELSE OfTable(KindOf[c], t[2])

(* The conjuncts of the inductive invariant. *)

Counted == /\ Len(in) \in Nat
           /\ token_number \in 0 .. Len(in)
           /\ SizedTypes(in)
           /\ \A i \in 1 .. Len(in) : in[i] # None
           /\ "kind" \in DOMAIN variant
           /\ token_number = 0 => ctx = "Unknown" /\ variant = NoAction
           /\ outcome = "action" => token_number = Len(in)

\* A statement that changes something has its root, its object, its target.
Opened == ctx \in Changing =>
    /\ token_number >= 1
    /\ Token(0) = Kw(RootOf[ctx])
    /\ Token(1) = Kw(ObjectOf[ctx])
    /\ token_number >= 2 => IF ctx \in OfName THEN IsName(Token(2)) ELSE IsSub(Token(2))
    /\ token_number >= 3 => variant.kind = KindOf[ctx]

\* The target of a short statement is its action, and the semicolon its end.
Closed == ctx \in ShortContexts /\ token_number >= 3 =>
    /\ Token(3) = SEMICOLON
    /\ variant = ActionOn(ctx, Token(2))
    /\ token_number >= 4 => Token(4) = None

\* An action that changes something was made in its own context.
Made == \A c \in Changing : variant.kind = KindOf[c] => ctx = c

Selects == ctx = "SelectE" => variant.kind = "Show_Select"

\* A get that fails is among the conditions of a SELECT.
ThrownInWhere == outcome = "thrown" => ctx = "WhereE"

AInv == Counted /\ Opened /\ Closed /\ Made /\ Selects /\ ThrownInWhere

-----------------------------------------------------------------------------
\* A change to a field other than kind leaves the kind.
LEMMA ExceptKeepsKind ==
    ASSUME NEW v, NEW e, "kind" \in DOMAIN v
    PROVE  /\ "kind" \in DOMAIN [v EXCEPT !.values = e] /\ [v EXCEPT !.values = e].kind = v.kind
           /\ "kind" \in DOMAIN [v EXCEPT !.tables = e] /\ [v EXCEPT !.tables = e].kind = v.kind
           /\ "kind" \in DOMAIN [v EXCEPT !.columns = e]
           /\ [v EXCEPT !.columns = e].kind = v.kind
           /\ "kind" \in DOMAIN [v EXCEPT !.restrictions = e]
           /\ [v EXCEPT !.restrictions = e].kind = v.kind
OBVIOUS

\* The sentences begin with the invariant.
LEMMA InitAInv == AInit => AInv
<1> SUFFICES ASSUME AInit PROVE AInv
    OBVIOUS
<1>1. /\ in \in Seq({in[i] : i \in DOMAIN in})
      /\ SizedTypes(in) /\ \A i \in 1 .. Len(in) : in[i] # None
    BY SentencesAssumption DEF AInit
<1>2. Len(in) \in Nat
    BY <1>1
<1>3. Counted
    BY <1>1, <1>2 DEF AInit, Counted, NoAction
<1>4. Opened /\ Closed /\ Selects /\ ThrownInWhere
    BY DEF AInit, Opened, Closed, Selects, ThrownInWhere, Changing, ShortContexts, OfName
<1>5. Made
    BY DEF AInit, Made, NoAction, KindOf, Changing, ShortContexts, OfName
<1> QED
    BY <1>3, <1>4, <1>5 DEF AInv

\* An analysis that ends with an error, or that throws among conditions,
\* keeps the invariant.
LEMMA EndKeeps ==
    ASSUME AInv, NEW how \in {"error", "thrown"}, End(how), how = "thrown" => ctx = "WhereE"
    PROVE  AInv'
BY DEF AInv, Counted, Opened, Closed, Made, Selects, ThrownInWhere, End, SizedTypes, Token

\* A token that is accepted keeps the invariant where the next token is what
\* the context asks for.
LEMMA AcceptKeeps ==
    ASSUME AInv, outcome = "running", Accept, curr # None,
           ctx \in Changing /\ token_number = 1
               => IF ctx \in OfName THEN IsName(next) ELSE IsSub(next),
           ctx \in Changing => token_number # 2,
           ctx \in ShortContexts /\ token_number = 3 => next = None
    PROVE  AInv'
<1>1. /\ in' = in /\ ctx' = ctx /\ variant' = variant /\ outcome' = outcome
      /\ token_number' = token_number + 1
    BY DEF Accept, Set
<1>2. token_number < Len(in)
    BY DEF AInv, Counted, curr, Token
<1>3. Counted'
    BY <1>1, <1>2 DEF AInv, Counted, SizedTypes
<1>4. Opened'
    BY <1>1 DEF AInv, Counted, Opened, next, Token, Changing, ShortContexts
<1>5. Closed'
  <2> SUFFICES ASSUME ctx \in ShortContexts, token_number + 1 >= 3
               PROVE  /\ token_number >= 3
                      /\ Closed => (Token(3) = SEMICOLON /\ Token(4) = None)
      BY <1>1 DEF AInv, Closed, Token
  <2>1. token_number >= 3
      BY DEF AInv, Counted, Changing
  <2>2. token_number = 3 => next = Token(4)
      BY DEF next
  <2>3. token_number \in Nat
      BY DEF AInv, Counted
  <2>4. token_number = 3 \/ token_number >= 4
      BY <2>1, <2>3
  <2> QED
      BY <2>1, <2>2, <2>4 DEF Closed
<1> QED
    BY <1>1, <1>3, <1>4, <1>5 DEF AInv, Made, Selects, ThrownInWhere

\* What the current token is at the first places of a statement that changes
\* something.
LEMMA Window ==
    ASSUME AInv, ctx \in Changing
    PROVE  /\ token_number >= 1
           /\ token_number = 1 => curr = Kw(ObjectOf[ctx])
           /\ token_number = 2 => IF ctx \in OfName THEN IsName(curr) ELSE IsSub(curr)
           /\ ctx \in ShortContexts /\ token_number = 3 => curr = SEMICOLON
           /\ ctx \in ShortContexts /\ token_number >= 4 => curr = None
<1>1. /\ token_number \in 0 .. Len(in) /\ Len(in) \in Nat
      /\ token_number >= 1
    BY DEF AInv, Counted, Opened
<1>2. token_number = 1 => curr = Kw(ObjectOf[ctx])
    BY DEF AInv, Opened, curr
<1>3. token_number = 2 => IF ctx \in OfName THEN IsName(curr) ELSE IsSub(curr)
    BY DEF AInv, Opened, curr
<1>4. ctx \in ShortContexts /\ token_number >= 3
          => Token(3) = SEMICOLON /\ (token_number >= 4 => Token(4) = None)
    BY DEF AInv, Closed
<1>5. (token_number = 3 => token_number >= 3) /\ (token_number >= 4 => token_number >= 3)
    BY <1>1
<1>6. ctx \in ShortContexts /\ token_number = 3 => Token(3) = SEMICOLON
    BY <1>4, <1>5
<1>7. ASSUME ctx \in ShortContexts, token_number >= 4
      PROVE  curr = None
  <2>1. Token(4) = None
      BY <1>4, <1>5, <1>7
  <2>2. \A i \in 1 .. Len(in) : in[i] # None
      BY DEF AInv, Counted
  <2>3. ~(4 \in 0 .. Len(in) - 1)
      BY <1>1, <2>1, <2>2 DEF Token
  <2> QED
      BY <1>1, <1>7, <2>3 DEF curr, Token
<1> QED
    BY <1>1, <1>2, <1>3, <1>6, <1>7 DEF curr
-----------------------------------------------------------------------------
(* What a visit that sets the context or the action does to the invariant. *)

\* The counter moves on and stays in range.
LEMMA Moves ==
    ASSUME AInv, outcome = "running", curr # None, NEW c, NEW w, Set(c, w), "kind" \in DOMAIN w
    PROVE  /\ Counted' /\ ThrownInWhere'
           /\ in' = in /\ ctx' = c /\ variant' = w /\ token_number' = token_number + 1
<1>1. /\ in' = in /\ ctx' = c /\ variant' = w /\ outcome' = outcome
      /\ token_number' = token_number + 1
    BY DEF Set
<1>2. token_number < Len(in)
    BY DEF AInv, Counted, curr, Token
<1> QED
    BY <1>1, <1>2 DEF AInv, Counted, SizedTypes, ThrownInWhere

\* Nothing that changes something is at work.
LEMMA OthersKeep ==
    ASSUME AInv, outcome = "running", curr # None, NEW c, NEW w, Set(c, w), "kind" \in DOMAIN w,
           c \notin Changing, c = "SelectE" => w.kind = "Show_Select",
           \A k \in Changing : w.kind # KindOf[k]
    PROVE  AInv'
<1>1. Counted' /\ ThrownInWhere' /\ ctx' = c /\ variant' = w
    BY Moves
<1>2. Opened' /\ Closed'
    BY <1>1 DEF Opened, Closed, Changing
<1>3. Made' /\ Selects'
    BY <1>1 DEF Made, Selects
<1> QED
    BY <1>1, <1>2, <1>3 DEF AInv

\* The kinds of the actions that change something are those of their context.
LEMMA KindsDiffer ==
    \A c, k \in Changing : /\ KindOf[c] = KindOf[k] => c = k
                           /\ KindOf[c] \notin {"none", "Show_Select", "ShowTableData",
                                  "ShowColumnValues", "ShowDatabases", "ShowDatabase", "ShowTable"}
BY DEF KindOf, Changing, ShortContexts, OfName

\* A list goes on, in INSERT or CREATE TABLE.
LEMMA ListsKeep ==
    ASSUME AInv, outcome = "running", curr # None, NEW w, Set(ctx, w), "kind" \in DOMAIN w,
           ctx \in {"InsertE", "CreateTableE"}, token_number >= 2, w.kind = KindOf[ctx]
    PROVE  AInv'
<1>1. /\ Counted' /\ ThrownInWhere' /\ in' = in /\ ctx' = ctx /\ variant' = w
      /\ token_number' = token_number + 1
    BY Moves
<1>2. ctx \in Changing /\ ctx \notin ShortContexts /\ ctx \notin OfName /\ ctx # "SelectE"
    BY DEF Changing, ShortContexts, OfName
<1>3. Opened'
  <2>1. Token(0)' = Token(0) /\ Token(1)' = Token(1) /\ Token(2)' = Token(2)
      BY <1>1 DEF Token
  <2>2. token_number' >= 1
      BY <1>1 DEF AInv, Counted
  <2> QED
      BY <1>1, <1>2, <2>1, <2>2 DEF AInv, Opened
<1>4. Closed' /\ Selects'
    BY <1>1, <1>2 DEF Closed, Selects
<1>5. Made'
    BY <1>1, <1>2, KindsDiffer DEF Made
<1> QED
    BY <1>1, <1>3, <1>4, <1>5 DEF AInv

\* The target of a short statement, with the semicolon after it.
LEMMA TargetKeeps ==
    ASSUME AInv, outcome = "running", curr # None, NEW w, Set(ctx, w), "kind" \in DOMAIN w,
           ctx \in ShortContexts, token_number = 2, next = SEMICOLON, w.kind = KindOf[ctx],
           w = ActionOn(ctx, curr)
    PROVE  AInv'
<1>1. /\ Counted' /\ ThrownInWhere' /\ in' = in /\ ctx' = ctx /\ variant' = w
      /\ token_number' = token_number + 1
    BY Moves
<1>2. ctx \in Changing /\ ctx # "SelectE"
    BY DEF Changing, ShortContexts, OfName
<1>3. curr = Token(2) /\ next = Token(2 + 1)
    BY DEF curr, next
<1>4. \A n : Token(n)' = Token(n)
    BY <1>1 DEF Token
<1>5. /\ token_number >= 1 /\ token_number >= 2 /\ 2 + 1 = 3
      /\ token_number' >= 1 /\ ~(token_number' >= 4)
    BY <1>1
<1>6. Opened'
    BY <1>1, <1>2, <1>4, <1>5 DEF AInv, Opened
<1>7. Closed'
    BY <1>1, <1>3, <1>4, <1>5 DEF Closed
<1>8. Selects' /\ Made'
    BY <1>1, <1>2, KindsDiffer DEF Selects, Made
<1> QED
    BY <1>1, <1>6, <1>7, <1>8 DEF AInv

\* The root of a statement that changes something.
LEMMA RootKeeps ==
    ASSUME AInv, outcome = "running", curr # None, NEW c \in Changing, Set(c, variant),
           token_number = 0, curr = Kw(RootOf[c]), next = Kw(ObjectOf[c])
    PROVE  AInv'
<1>1. variant = NoAction /\ "kind" \in DOMAIN variant
    BY DEF AInv, Counted
<1>2. /\ Counted' /\ ThrownInWhere' /\ in' = in /\ ctx' = c /\ variant' = variant
      /\ token_number' = 1
    BY <1>1, Moves
<1>3. curr = Token(0) /\ next = Token(1)
    BY DEF curr, next
<1>4. \A n : Token(n)' = Token(n)
    BY <1>2 DEF Token
<1>5. Opened' /\ Closed'
  <2>1. token_number' >= 1 /\ ~(token_number' >= 2) /\ ~(token_number' >= 3)
      BY <1>2
  <2> QED
      BY <1>2, <1>3, <1>4, <2>1 DEF Opened, Closed
<1>6. Made' /\ Selects'
    BY <1>1, <1>2, KindsDiffer DEF NoAction, Made, Selects, Changing, ShortContexts, OfName
<1> QED
    BY <1>2, <1>5, <1>6 DEF AInv
\* A token that has no place among the first of such a statement.
LEMMA AcceptAside ==
    ASSUME AInv, outcome = "running", Accept, curr # None,
           ctx \in Changing => /\ curr # Kw(ObjectOf[ctx])
                               /\ ctx \in OfName => ~IsName(curr)
                               /\ ctx \notin OfName => ~IsSub(curr)
                               /\ ctx \in ShortContexts => curr # SEMICOLON
    PROVE  AInv'
<1>1. ctx \in Changing => token_number # 1 /\ token_number # 2
    BY Window
<1>2. ctx \in ShortContexts => token_number # 3
    BY Window DEF Changing
<1> QED
    BY <1>1, <1>2, AcceptKeeps

-----------------------------------------------------------------------------
(* One lemma for the visits of each kind. *)

\* Tokens of different kinds differ.
LEMMA Tags ==
    /\ \A k : Kw(k)[1] = "kw" /\ Kw(k)[2] = k
    /\ \A k : Sym(k)[1] = "sym" /\ Sym(k)[2] = k
    /\ \A k : Type(k)[1] = "type" /\ Type(k)[2] = k
    /\ \A k : Op(k)[1] = "op" /\ Op(k)[2] = k
    /\ None[1] = "none"
BY DEF Kw, Sym, Type, Op, None

\* The keywords that begin a statement.
LEMMA RootsKeep ==
    ASSUME AInv, VisitCreate \/ VisitDelete \/ VisitShow \/ VisitInsert
    PROVE  AInv'
<1>1. ASSUME NEW root, NEW objects, Root(root, objects),
             \/ root = "CREATE" /\ objects = {"DATABASE", "TABLE"}
             \/ root = "DELETE" /\ objects = {"DATABASE", "TABLE"}
             \/ root = "SHOW" /\ objects = {"DATABASE", "DATABASES", "TABLE", "FROM"}
             \/ root = "INSERT" /\ objects = {"INTO"}
      PROVE  AInv'
  <2>1. outcome = "running" /\ curr = Kw(root)
      BY <1>1 DEF Root, At
  <2>2. CASE End("error")
      BY <2>2, EndKeeps
  <2>3. CASE /\ token_number = 0 /\ next \in {Kw(o) : o \in objects}
             /\ Set(ContextOf(root, next), variant)
    <3>1. PICK o \in objects : next = Kw(o)
        BY <2>3
    <3>2. variant = NoAction /\ "kind" \in DOMAIN variant /\ variant.kind = "none"
        BY <2>3 DEF AInv, Counted, NoAction
    <3>3. curr # None
        BY <2>1, Tags
    <3> DEFINE c == ContextOf(root, next)
    <3>4. /\ c \in Changing => root = RootOf[c] /\ o = ObjectOf[c]
          /\ c # "SelectE"
        BY <1>1, <3>1 DEF ContextOf, Kw, Changing, ShortContexts, OfName, RootOf, ObjectOf
    <3>5. CASE c \in Changing
        BY <2>1, <2>3, <3>1, <3>3, <3>4, <3>5, RootKeeps
    <3>6. CASE c \notin Changing
        BY <2>1, <2>3, <3>2, <3>3, <3>4, <3>6, OthersKeep, KindsDiffer
    <3> QED
        BY <3>5, <3>6
  <2> QED
      BY <1>1, <2>2, <2>3 DEF Root, Expect
<1> QED
    BY <1>1 DEF VisitCreate, VisitDelete, VisitShow, VisitInsert
\* The actions that only show something are not among those that change it.
LEMMA ShowKinds ==
    /\ \A d, x, y : /\ "kind" \in DOMAIN Show_Select(d, x, y)
                   /\ Show_Select(d, x, y).kind = "Show_Select"
    /\ \A d, ts : /\ "kind" \in DOMAIN ShowColumnValues(d, ts)
                 /\ ShowColumnValues(d, ts).kind = "ShowColumnValues"
    /\ \A k, ts : /\ "kind" \in DOMAIN OfTable(k, ts) /\ OfTable(k, ts).kind = k
    /\ \A k, d : /\ "kind" \in DOMAIN OfDatabase(k, d) /\ OfDatabase(k, d).kind = k
    /\ "kind" \in DOMAIN ShowDatabases /\ ShowDatabases.kind = "ShowDatabases"
BY DEF Show_Select, ShowColumnValues, OfTable, OfDatabase, ShowDatabases

\* An action that only shows something is set.
Shows(c, w) ==
    /\ Set(c, w)
    /\ "kind" \in DOMAIN w
    /\ w.kind \in {"Show_Select", "ShowColumnValues", "ShowTableData", "ShowDatabases"}
    /\ c = "SelectE" => w.kind = "Show_Select"

\* The keywords of SELECT and of what is shown, and those that mean nothing.
LEMMA KeywordsKeep ==
    ASSUME AInv, \/ VisitUsing \/ VisitSelect \/ VisitWhere \/ VisitFrom \/ VisitColumn
                 \/ VisitDatabases \/ VisitOtherKeyword
    PROVE  AInv'
<1>1. outcome = "running"
    BY DEF VisitUsing, VisitSelect, VisitWhere, VisitFrom, VisitColumn, VisitDatabases,
           VisitOtherKeyword, At
<1>2. PICK k \in {"USING", "SELECT", "WHERE", "FROM", "COLUMN", "DATABASES", "VALUES",
                 "UPDATE", "SET", "DROP", "PK", "UN"} : curr = Kw(k)
    BY DEF VisitUsing, VisitSelect, VisitWhere, VisitFrom, VisitColumn, VisitDatabases,
           VisitOtherKeyword, At
<1>3. curr # None /\ curr # SEMICOLON /\ ~IsName(curr) /\ ~IsSub(curr)
    BY <1>2, Tags DEF SEMICOLON, IsName, IsSub
<1>4. ctx \in Changing => curr # Kw(ObjectOf[ctx])
    BY <1>2, Tags DEF Changing, ShortContexts, OfName, ObjectOf
<1>5. CASE Accept
    BY <1>1, <1>3, <1>4, <1>5, AcceptAside
<1>6. CASE End("error")
    BY <1>6, EndKeeps
<1>7. CASE ctx = "WhereE" /\ End("thrown")
    BY <1>7, EndKeeps
<1>8. ASSUME NEW c \in {"SelectE", "ShowColumnValuesE", "ShowDatabasesE", "Unknown"}, NEW w,
             Shows(c, w)
      PROVE  AInv'
  <2>1. c \notin Changing
      BY DEF Changing, ShortContexts, OfName
  <2> QED
      BY <1>1, <1>3, <1>8, <2>1, OthersKeep, KindsDiffer DEF Shows
<1>9. CASE VisitUsing
  <2>1. CASE Set("SelectE", Show_Select(next[2], <<>>, <<>>))
      BY <2>1, <1>8, ShowKinds DEF Shows
  <2> QED
      BY <1>5, <1>6, <1>9, <2>1 DEF VisitUsing, Expect
<1>10. CASE VisitSelect
    BY <1>5, <1>6, <1>10 DEF VisitSelect, Expect
<1>11. CASE VisitWhere
    BY <1>5, <1>6, <1>7, <1>11 DEF VisitWhere, Expect, Get
<1>12. CASE VisitFrom
  <2>1. CASE ctx = "Unknown" /\ Set(ctx, OfTable("ShowTableData", next[2]))
      BY <2>1, <1>8, ShowKinds DEF Shows
  <2>2. CASE Set("ShowColumnValuesE", ShowColumnValues(next[2], nextp1[2]))
      BY <2>2, <1>8, ShowKinds DEF Shows
  <2> QED
      BY <1>5, <1>6, <1>12, <2>1, <2>2 DEF VisitFrom, Expect
<1>13. CASE VisitColumn
  <2>1. CASE ctx = "ShowColumnValuesE" /\ Set(ctx, ShowColumnValues(variant.db, next[2]))
      BY <2>1, <1>8, ShowKinds DEF Shows
  <2> QED
      BY <1>5, <1>6, <1>13, <2>1 DEF VisitColumn, Expect
<1>14. CASE VisitDatabases
  <2>1. CASE ctx = "ShowDatabasesE" /\ Set(ctx, ShowDatabases)
      BY <2>1, <1>8, ShowKinds DEF Shows
  <2> QED
      BY <1>5, <1>6, <1>14, <2>1 DEF VisitDatabases, Expect
<1>15. CASE VisitOtherKeyword
    BY <1>5, <1>15 DEF VisitOtherKeyword
<1> QED
    BY <1>9, <1>10, <1>11, <1>12, <1>13, <1>14, <1>15
\* The keywords that a target comes after.
LEMMA ObjectsKeep ==
    ASSUME AInv, VisitInto \/ VisitTable \/ VisitDatabase
    PROVE  AInv'
<1>1. outcome = "running" /\ curr \in {Kw("INTO"), Kw("TABLE"), Kw("DATABASE")}
    BY DEF VisitInto, VisitTable, VisitDatabase, At
<1>2. curr # None /\ curr # SEMICOLON /\ ~IsName(curr) /\ ~IsSub(curr)
    BY <1>1, Tags DEF SEMICOLON, IsName, IsSub
<1>3. /\ ctx \in Changing => token_number # 2
      /\ ctx \in ShortContexts => token_number # 3
    BY <1>2, Window DEF Changing
<1>4. ctx \in Changing /\ token_number = 1 => curr = Kw(ObjectOf[ctx])
    BY Window
<1>5. ASSUME Accept, ctx \in Changing /\ token_number = 1
                         => IF ctx \in OfName THEN IsName(next) ELSE IsSub(next)
      PROVE  AInv'
    BY <1>1, <1>2, <1>3, <1>5, AcceptKeeps
<1>6. CASE End("error")
    BY <1>6, EndKeeps
<1>7. CASE VisitInto
  <2>1. ctx \in OfName => Kw(ObjectOf[ctx]) # Kw("INTO")
      BY Tags DEF ObjectOf, OfName
  <2> QED
      BY <1>4, <1>5, <1>6, <1>7, <2>1 DEF VisitInto, At, Expect
<1>8. CASE VisitTable
  <2>1. ctx \in Changing /\ Kw(ObjectOf[ctx]) = Kw("TABLE")
            => ctx \in {"CreateTableE", "DeleteTableE"} /\ ctx \notin OfName
      BY Tags DEF ObjectOf, OfName, ShortContexts, Changing
  <2> QED
      BY <1>4, <1>5, <1>6, <1>8, <2>1 DEF VisitTable, At, Expect
<1>9. CASE VisitDatabase
  <2>1. ctx \in Changing /\ Kw(ObjectOf[ctx]) = Kw("DATABASE") => ctx \in OfName
      BY Tags DEF ObjectOf, OfName, ShortContexts, Changing
  <2>2. CASE ctx = "ShowColumnValuesE" /\ Set(ctx, ShowColumnValues("", <<next[2], "">>))
    <3>1. ctx \notin Changing /\ ctx # "SelectE"
        BY <2>2 DEF Changing, ShortContexts, OfName
    <3> DEFINE w == ShowColumnValues("", <<next[2], "">>)
    <3>2. Set(ctx, w) /\ "kind" \in DOMAIN w /\ w.kind = "ShowColumnValues"
        BY <2>2, ShowKinds
    <3> HIDE DEF w
    <3> QED
        BY <1>1, <1>2, <3>1, <3>2, OthersKeep, KindsDiffer
  <2>3. CASE Accept /\ (ctx \in OfName => IsName(next))
      BY <1>1, <1>4, <1>5, <1>9, <2>1, <2>3 DEF VisitDatabase, At
  <2> QED
      BY <1>6, <1>9, <2>2, <2>3 DEF VisitDatabase, Expect, OfName
<1> QED
    BY <1>7, <1>8, <1>9

\* A semicolon ends the query.
LEMMA SemicolonEnds == FollowsSymbol /\ curr = SEMICOLON => next = None
<1>1. SEMICOLON \notin {OPENING_PAR, CLOSING_PAR, COMA, ALL}
    BY DEF SEMICOLON, OPENING_PAR, CLOSING_PAR, COMA, ALL, Sym
<1> QED
    BY <1>1 DEF FollowsSymbol

\* Types, symbols, operators and unknown tokens.
LEMMA MarksKeep ==
    ASSUME AInv, VisitType \/ VisitSymbol \/ VisitOperator \/ VisitUnknown
    PROVE  AInv'
<1>1. outcome = "running" /\ curr[1] \in {"type", "sym", "op", "unknown"}
    BY DEF VisitType, VisitSymbol, VisitOperator, VisitUnknown, At, IsType, IsSym, IsOp
<1>2. curr # None /\ (\A k : curr # Kw(k)) /\ ~IsName(curr) /\ ~IsSub(curr)
    BY <1>1, Tags DEF IsName, IsSub
<1>3. CASE End("error")
    BY <1>3, EndKeeps
<1>4. CASE Accept /\ (curr = SEMICOLON => next = None)
  <2>1. ctx \in Changing => token_number # 1 /\ token_number # 2
      BY <1>2, Window
  <2>2. ctx \in ShortContexts /\ token_number = 3 => next = None
      BY <1>4, Window DEF Changing
  <2> QED
      BY <1>1, <1>2, <1>4, <2>1, <2>2, AcceptKeeps
<1>5. CASE VisitSymbol
    BY <1>3, <1>4, <1>5, SemicolonEnds DEF VisitSymbol, Expect
<1>6. CASE VisitType \/ VisitOperator \/ VisitUnknown
  <2>1. curr # SEMICOLON
      BY <1>6, Tags DEF VisitType, VisitOperator, VisitUnknown, At, IsType, IsOp, SEMICOLON
  <2> QED
      BY <1>3, <1>4, <1>6, <2>1 DEF VisitType, VisitOperator, VisitUnknown, Expect
<1> QED
    BY <1>5, <1>6
\* In a list, what is neither keyword nor target comes after the target.
LEMMA InList ==
    ASSUME AInv, ctx \in {"InsertE", "CreateTableE"}, \A k : curr # Kw(k), ~IsSub(curr)
    PROVE  token_number >= 2 /\ token_number >= 3 /\ variant.kind = KindOf[ctx]
<1>1. ctx \in Changing /\ ctx \notin OfName
    BY DEF Changing, ShortContexts, OfName
<1>2. token_number \in Nat
    BY DEF AInv, Counted
<1>3. token_number # 1 /\ token_number # 2 /\ token_number >= 1
    BY <1>1, Window
<1>4. token_number >= 3 /\ token_number >= 2
    BY <1>2, <1>3
<1> QED
    BY <1>1, <1>4 DEF AInv, Opened

\* Literals.
LEMMA LiteralsKeep ==
    ASSUME AInv, VisitBool \/ VisitString \/ VisitNumbers
    PROVE  AInv'
<1>1. /\ outcome = "running" /\ Literal
      /\ curr[1] \in {"bool", "str", "UInt", "Int", "Double"}
    BY DEF VisitBool, VisitString, VisitNumbers, At, IsNumber
<1>2. /\ curr # None /\ curr # SEMICOLON /\ \A k : curr # Kw(k)
      /\ ~IsName(curr) /\ ~IsSub(curr)
    BY <1>1, Tags DEF IsName, IsSub, SEMICOLON
<1>3. "kind" \in DOMAIN variant
    BY DEF AInv, Counted
<1>4. CASE ctx = "InsertE" /\ InsertValue
  <2>1. variant.kind = "Insert" /\ KindOf[ctx] = "Insert" /\ token_number >= 2
      BY <1>2, <1>4, InList DEF KindOf
  <2>2. CASE End("error")
      BY <2>2, EndKeeps
  <2>3. CASE Set(ctx, [variant EXCEPT !.values = Append(@, curr)])
    <3> DEFINE w == [variant EXCEPT !.values = Append(@, curr)]
    <3>1. Set(ctx, w) /\ "kind" \in DOMAIN w /\ w.kind = variant.kind
        BY <1>3, <2>3
    <3> HIDE DEF w
    <3> QED
        BY <1>1, <1>2, <1>4, <2>1, <3>1, ListsKeep
  <2> QED
      BY <1>4, <2>1, <2>2, <2>3 DEF InsertValue, Expect, Get
<1>5. CASE ctx = "WhereE" /\ Restriction
  <2>1. CASE End("error")
      BY <2>1, EndKeeps
  <2>2. CASE End("thrown")
      BY <1>5, <2>2, EndKeeps
  <2> DEFINE w == [variant EXCEPT !.restrictions = Append(@, <<prevm1[2], prev[2], curr>>)]
  <2>3. CASE variant.kind = "Show_Select" /\ Set(ctx, w)
    <3>1. Set(ctx, w) /\ "kind" \in DOMAIN w /\ w.kind = "Show_Select"
        BY <1>3, <2>3
    <3>2. ctx \notin Changing /\ ctx # "SelectE"
        BY <1>5 DEF Changing, ShortContexts, OfName
    <3> HIDE DEF w
    <3> QED
        BY <1>1, <1>2, <3>1, <3>2, OthersKeep, KindsDiffer
  <2> QED
      BY <1>5, <2>1, <2>2, <2>3 DEF Restriction, Expect, Get
<1>6. CASE ctx \notin {"InsertE", "WhereE"} /\ Accept
    BY <1>1, <1>2, <1>6, AcceptAside
<1> QED
    BY <1>1, <1>4, <1>5, <1>6 DEF Literal
\* The targets of the statements that end with their target.
LEMMA TargetsKeep ==
    ASSUME AInv, DatabaseTarget \/ TableTarget
    PROVE  AInv'
<1>1. outcome = "running" /\ curr[1] \in {"name", "sub"}
    BY DEF DatabaseTarget, TableTarget, At, IsIdentifier, IsName, IsSub
<1>2. curr # None /\ curr # SEMICOLON /\ \A k : curr # Kw(k)
    BY <1>1, Tags DEF SEMICOLON
<1>3. CASE End("error")
    BY <1>3, EndKeeps
<1>4. ASSUME NEW w, Set(ctx, w), next = SEMICOLON, "kind" \in DOMAIN w,
             ctx \in ShortContexts => w = ActionOn(ctx, curr) /\ w.kind = KindOf[ctx],
             ctx \notin ShortContexts =>
                 ctx \notin Changing \cup {"SelectE"} /\ w.kind \in {"ShowDatabase", "ShowTable"}
      PROVE  AInv'
  <2>1. CASE ctx \in ShortContexts
    <3>1. token_number \in Nat
        BY DEF AInv, Counted
    <3>2. /\ token_number >= 1 /\ token_number # 1 /\ token_number # 3
          /\ ~(token_number >= 4)
        BY <1>2, <2>1, Window DEF Changing
    <3>3. token_number = 2
        BY <3>1, <3>2
    <3> QED
        BY <1>1, <1>2, <1>4, <2>1, <3>3, TargetKeeps
  <2>2. CASE ctx \notin ShortContexts
      BY <1>1, <1>2, <1>4, <2>2, OthersKeep, KindsDiffer
  <2> QED
      BY <2>1, <2>2
<1>5. CASE DatabaseTarget
  <2> DEFINE w == OfDatabase(DatabaseAction[ctx], curr[2])
  <2>1. ctx \in {"CreateDatabaseE", "DeleteDatabaseE", "ShowDatabaseE"}
      BY <1>5 DEF DatabaseTarget, DatabaseAction
  <2>2. /\ ctx \in ShortContexts => ctx \in OfName /\ DatabaseAction[ctx] = KindOf[ctx]
        /\ ctx \notin ShortContexts => /\ ctx \notin Changing \cup {"SelectE"}
                                       /\ DatabaseAction[ctx] = "ShowDatabase"
      BY <2>1 DEF DatabaseAction, KindOf, ShortContexts, OfName, Changing
  <2>3. "kind" \in DOMAIN w /\ w.kind = DatabaseAction[ctx]
      BY ShowKinds
  <2>4. ctx \in ShortContexts => w = ActionOn(ctx, curr)
      BY <2>2 DEF ActionOn
  <2>5. (Set(ctx, w) /\ next = SEMICOLON) \/ End("error")
      BY <1>5 DEF DatabaseTarget, Expect
  <2> HIDE DEF w
  <2> QED
      BY <1>3, <1>4, <2>2, <2>3, <2>4, <2>5
<1>6. CASE TableTarget
  <2> DEFINE w == OfTable(TableAction[ctx], curr[2])
  <2>1. ctx \in {"DeleteTableE", "ShowTableE"}
      BY <1>6 DEF TableTarget, TableAction
  <2>2. /\ ctx \in ShortContexts => ctx \notin OfName /\ TableAction[ctx] = KindOf[ctx]
        /\ ctx \notin ShortContexts => /\ ctx \notin Changing \cup {"SelectE"}
                                       /\ TableAction[ctx] = "ShowTable"
      BY <2>1 DEF TableAction, KindOf, ShortContexts, OfName, Changing
  <2>3. "kind" \in DOMAIN w /\ w.kind = TableAction[ctx]
      BY ShowKinds
  <2>4. ctx \in ShortContexts => w = ActionOn(ctx, curr)
      BY <2>2 DEF ActionOn
  <2>5. (Set(ctx, w) /\ next = SEMICOLON) \/ End("error")
      BY <1>6 DEF TableTarget, Expect
  <2> HIDE DEF w
  <2> QED
      BY <1>3, <1>4, <2>2, <2>3, <2>4, <2>5
<1> QED
    BY <1>5, <1>6

\* The other identifiers: the columns of a SELECT and of a new table, the
\* targets of the lists.
LEMMA IdentifiersKeep ==
    ASSUME AInv, SelectColumn \/ ShownColumn \/ ListTarget \/ ColumnName \/ OtherIdentifier
    PROVE  AInv'
<1>1. outcome = "running" /\ curr[1] \in {"name", "sub"}
    BY DEF SelectColumn, ShownColumn, ListTarget, ColumnName, OtherIdentifier, At,
           IsIdentifier, IsName, IsSub
<1>2. curr # None /\ curr # SEMICOLON /\ \A k : curr # Kw(k)
    BY <1>1, Tags DEF SEMICOLON
<1>3. CASE End("error")
    BY <1>3, EndKeeps
<1>4. "kind" \in DOMAIN variant
    BY DEF AInv, Counted
<1>5. CASE SelectColumn
  <2> DEFINE w == [variant EXCEPT !.tables = Append(@, curr[2])]
             c == IF next = Kw("WHERE") THEN "WhereE" ELSE ctx
  <2>1. ctx = "SelectE" /\ variant.kind = "Show_Select"
      BY <1>5 DEF SelectColumn, AInv, Selects
  <2>2. CASE Set(c, w)
    <3>1. "kind" \in DOMAIN w /\ w.kind = "Show_Select"
        BY <1>4, <2>1
    <3>2. c \notin Changing
        BY <2>1 DEF Changing, ShortContexts, OfName
    <3> HIDE DEF w, c
    <3> QED
        BY <1>1, <1>2, <2>2, <3>1, <3>2, OthersKeep, KindsDiffer
  <2> QED
      BY <1>3, <1>5, <2>1, <2>2 DEF SelectColumn, Expect, Get
<1>6. CASE ShownColumn
  <2>1. ctx \notin Changing
      BY <1>6 DEF ShownColumn, Changing, ShortContexts, OfName
  <2> QED
      BY <1>1, <1>2, <1>3, <1>6, <2>1, AcceptAside DEF ShownColumn, Expect
<1>7. CASE ListTarget
  <2> DEFINE w == IF ctx = "InsertE" THEN Insert(curr[2], <<>>) ELSE CreateTable(curr[2], <<>>)
  <2>1. ctx \in {"InsertE", "CreateTableE"}
      BY <1>7 DEF ListTarget
  <2>2. "kind" \in DOMAIN w /\ w.kind = KindOf[ctx]
      BY <2>1 DEF Insert, CreateTable, KindOf
  <2>3. token_number # 1 /\ token_number >= 1
      BY <1>2, <2>1, Window DEF Changing
  <2>4. token_number >= 2
      BY <2>3 DEF AInv, Counted
  <2>5. CASE Set(ctx, w)
    <3> HIDE DEF w
    <3> QED
        BY <1>1, <1>2, <2>1, <2>2, <2>4, <2>5, ListsKeep
  <2> QED
      BY <1>3, <1>7, <2>5 DEF ListTarget, Expect
<1>8. CASE ColumnName
  <2>1. ctx = "CreateTableE" /\ ~IsSub(curr)
      BY <1>8 DEF ColumnName, At, IsName, IsSub
  <2>2. variant.kind = "CreateTable" /\ token_number >= 2 /\ KindOf[ctx] = "CreateTable"
      BY <1>2, <2>1, InList DEF KindOf
  <2>3. ASSUME NEW ly, Column(ly)
        PROVE  AInv'
    <3> DEFINE w == [variant EXCEPT !.columns = AddColumn(@, curr[2], ly)]
    <3>1. Set(ctx, w) /\ "kind" \in DOMAIN w /\ w.kind = "CreateTable"
        BY <1>4, <2>2, <2>3 DEF Column, Get
    <3> HIDE DEF w
    <3> QED
        BY <1>1, <1>2, <2>1, <2>2, <3>1, ListsKeep
  <2>4. ASSUME prevm1 = Type("STR")
        PROVE  prev[1] = "UInt"
    <3>1. /\ token_number \in 0 .. Len(in) /\ Len(in) \in Nat
          /\ SizedTypes(in)
        BY DEF AInv, Counted
    <3>2. Type("STR") # None
        BY Tags
    <3>3. /\ token_number - 2 \in 0 .. Len(in) - 1
          /\ in[token_number - 1] = Type("STR")
        BY <2>4, <3>1, <3>2 DEF prevm1, Token
    <3>4. /\ token_number - 1 \in 1 .. Len(in) /\ token_number - 1 < Len(in)
          /\ in[token_number][1] = "UInt"
        BY <3>1, <3>3 DEF SizedTypes
    <3> QED
        BY <3>1, <3>4 DEF prev, Token
  <2> QED
      BY <1>3, <1>8, <2>3, <2>4 DEF ColumnName, Expect, Get
<1>9. CASE OtherIdentifier
  <2>1. ctx \in Changing => ctx = "InsertE" /\ IsName(curr)
      BY <1>9 DEF OtherIdentifier, Changing, ShortContexts, OfName
  <2>2. "InsertE" \notin OfName /\ "InsertE" \notin ShortContexts /\ (IsName(curr) => ~IsSub(curr))
      BY DEF OfName, ShortContexts, IsName, IsSub
  <2> QED
      BY <1>1, <1>2, <1>9, <2>1, <2>2, AcceptAside DEF OtherIdentifier
<1> QED
    BY <1>5, <1>6, <1>7, <1>8, <1>9

-----------------------------------------------------------------------------
\* Every step keeps the invariant.
LEMMA StepAInv == AInv /\ [ANext]_avars => AInv'
<1> SUFFICES ASSUME AInv, [ANext]_avars PROVE AInv'
    OBVIOUS
<1>1. CASE Visit
    BY <1>1, RootsKeep, KeywordsKeep, ObjectsKeep, MarksKeep, LiteralsKeep, TargetsKeep,
       IdentifiersKeep DEF Visit
<1>2. CASE Answer
  <2>1. CASE End("error")
      BY <2>1, EndKeeps
  <2>2. CASE End("action")
      BY <1>2, <2>2 DEF Answer, At, End, AInv, Counted, Opened, Closed, Made, Selects,
                        ThrownInWhere, SizedTypes, Token
  <2> QED
      BY <1>2, <2>1, <2>2 DEF Answer
<1>3. CASE UNCHANGED avars
    BY <1>3 DEF avars, AInv, Counted, Opened, Closed, Made, Selects, ThrownInWhere,
                SizedTypes, Token
<1> QED
    BY <1>1, <1>2, <1>3 DEF ANext

\* For every set of sentences in which a string type has its size: a get that
\* fails in a visitor of automata.cpp does so among the conditions of a SELECT.
THEOREM GetsFit == ASpec => []GetsFitTheContext
<1>1. AInv => GetsFitTheContext
    BY DEF AInv, ThrownInWhere, GetsFitTheContext
<1> QED
    BY <1>1, InitAInv, StepAInv, PTL DEF ASpec

\* CREATE DATABASE, DELETE DATABASE and DELETE TABLE are answered by the four
\* tokens of their sentence only, and act on the target that it names.
ShortChangesAreMeant ==
    outcome = "action" /\ variant.kind \in {"CreateDatabase", "DeleteDatabase", "DeleteTable"}
        => IsShort(in, variant.kind) /\ variant = ShortOf(in, variant.kind)
\* A query that is done with in a short context has four tokens.
LEMMA FourTokens ==
    ASSUME AInv, ctx \in ShortContexts, token_number = Len(in)
    PROVE  /\ Len(in) = 4 /\ token_number >= 3
           /\ in[1] = Token(0) /\ in[2] = Token(1) /\ in[3] = Token(2) /\ in[4] = Token(3)
<1>1. ctx \in Changing /\ Len(in) \in Nat
    BY DEF Changing, AInv, Counted
<1>2. \A n \in Nat : Token(n) # None => Len(in) >= n + 1 /\ Token(n) = in[n + 1]
    BY <1>1 DEF Token
<1>3. Token(0) # None /\ Token(1) # None
    BY <1>1, Tags DEF AInv, Opened
<1>4. Len(in) >= 2
    BY <1>1, <1>2, <1>3
<1>5. Token(2) # None
    BY <1>1, <1>4, Tags DEF AInv, Opened, IsName, IsSub
<1>6. token_number >= 3
    BY <1>1, <1>2, <1>5
<1>7. Token(3) # None
    BY <1>6, Tags DEF AInv, Closed, SEMICOLON
<1>8. token_number >= 4
    BY <1>1, <1>2, <1>7
<1>9. Token(4) = None
    BY <1>6, <1>8 DEF AInv, Closed
<1>10. ~(4 \in 0 .. Len(in) - 1)
    BY <1>1, <1>9 DEF AInv, Counted, Token
<1>11. in[0 + 1] = Token(0) /\ in[1 + 1] = Token(1) /\ in[2 + 1] = Token(2) /\ in[3 + 1] = Token(3)
    BY <1>2, <1>3, <1>5, <1>7
<1> QED
    BY <1>1, <1>6, <1>8, <1>10, <1>11

\* A short statement that is answered is the one meant.
LEMMA ShortEnds ==
    ASSUME AInv
    PROVE  ShortChangesAreMeant
<1> SUFFICES ASSUME outcome = "action", NEW c \in ShortContexts, variant.kind = KindOf[c]
             PROVE  IsShort(in, KindOf[c]) /\ variant = ShortOf(in, KindOf[c])
    BY DEF ShortChangesAreMeant, KindOf, ShortContexts, OfName
<1>1. ctx = c /\ c \in Changing /\ token_number = Len(in)
    BY DEF AInv, Counted, Made, Changing
<1>2. /\ Len(in) = 4 /\ token_number >= 3
      /\ in[1] = Token(0) /\ in[2] = Token(1) /\ in[3] = Token(2) /\ in[4] = Token(3)
    BY <1>1, FourTokens
<1>3. /\ in[1] = Kw(RootOf[c]) /\ in[2] = Kw(ObjectOf[c]) /\ in[4] = SEMICOLON
      /\ variant = ActionOn(c, in[3])
    BY <1>1, <1>2 DEF AInv, Opened, Closed
<1>4. token_number >= 2
    BY <1>1, <1>2
<1>5. IF c \in OfName THEN IsName(in[3]) ELSE IsSub(in[3])
    BY <1>1, <1>2, <1>4 DEF AInv, Opened
<1>6. /\ Short[KindOf[c]][1] = RootOf[c] /\ Short[KindOf[c]][2] = ObjectOf[c]
      /\ Short[KindOf[c]][3] = IF c \in OfName THEN "name" ELSE "sub"
    BY DEF Short, KindOf, RootOf, ObjectOf, ShortContexts, OfName
<1>7. IsShort(in, KindOf[c])
    BY <1>2, <1>3, <1>5, <1>6 DEF IsShort, IsName, IsSub
<1>8. IsName(in[3]) <=> c \in OfName
    BY <1>5 DEF IsName, IsSub
<1> QED
    BY <1>3, <1>7, <1>8 DEF ShortOf, ActionOn

\* For every set of sentences in which a string type has its size: nothing but
\* the four tokens of its sentence makes the automata delete a table or a
\* database, or create one.
THEOREM ShortChanges == ASpec => []ShortChangesAreMeant
<1> QED
    BY ShortEnds, InitAInv, StepAInv, PTL DEF ASpec

-----------------------------------------------------------------------------
(* The values of an INSERT. *)

\* The tokens of a list of values: literals at even places, commas between.
Fits(j) == IF j % 2 = 0 THEN IsLiteral(Token(j)) ELSE Token(j) = COMA

Values(m) == [i \in 1 .. (m - 3) \div 2 |-> Token(2 * i + 2)]

\* The list up to place m, and the action that has its values.
Listed(m) ==
    /\ Token(3) = OPENING_PAR
    /\ \A j \in 4 .. m - 1 : Fits(j)
    /\ variant = Insert(Token(2)[2], Values(m))

\* What may stand at place m of the list.
MayStand(m) ==
    m > 3 => \/ Fits(m)
             \/ m > 4 /\ Token(m) = CLOSING_PAR

\* The list was closed at place m, and the semicolon ends the query.
Behind(m) ==
    /\ m > 4 /\ Token(3) = OPENING_PAR
    /\ Token(m) = CLOSING_PAR /\ Token(m + 1) = SEMICOLON
    /\ \/ token_number = m + 1
       \/ token_number = m + 2 /\ Token(m + 2) = None

Lists == {"InsertE", "CreateTableE"}

\* An INSERT has reached a place of its list or is behind it.
Inserting ==
    ctx = "InsertE" /\ token_number >= 3 =>
        \/ Listed(token_number) /\ MayStand(token_number)
        \/ \E m \in Nat : Listed(m) /\ Behind(m)

-----------------------------------------------------------------------------
\* A visit by the kind of its token.
LEMMA VisitOf ==
    ASSUME Visit, ctx \in Lists
    PROVE  /\ outcome = "running" /\ curr # None
           /\ IsSym(curr) => VisitSymbol
           /\ IsType(curr) => VisitType
           /\ IsLiteral(curr) => Literal
           /\ IsSub(curr) => ListTarget
           /\ IsName(curr) /\ ctx = "CreateTableE" => ColumnName
<1>1. CASE VisitSymbol
    BY <1>1, Tags DEF VisitSymbol, At, IsSym, IsType, IsLiteral, IsSub, IsName
<1>2. CASE VisitBool \/ VisitString \/ VisitNumbers
  <2>1. curr[1] \in {"bool", "str", "UInt", "Int", "Double"} /\ outcome = "running"
      BY <1>2 DEF VisitBool, VisitString, VisitNumbers, At, IsNumber
  <2> QED
      BY <1>2, <2>1, Tags DEF VisitBool, VisitString, VisitNumbers, IsSym, IsType, IsSub, IsName
<1>3. CASE VisitType
    BY <1>3, Tags DEF VisitType, At, IsType, IsSym, IsLiteral, IsSub, IsName
<1>4. CASE VisitOperator \/ VisitUnknown
  <2>1. curr[1] \in {"op", "unknown"} /\ outcome = "running"
      BY <1>4 DEF VisitOperator, VisitUnknown, At, IsOp
  <2> QED
      BY <2>1, Tags DEF IsSym, IsType, IsLiteral, IsSub, IsName
<1>5. CASE \/ VisitCreate \/ VisitUsing \/ VisitSelect \/ VisitWhere \/ VisitDelete
           \/ VisitShow \/ VisitFrom \/ VisitColumn \/ VisitInto \/ VisitInsert
           \/ VisitTable \/ VisitDatabase \/ VisitDatabases \/ VisitOtherKeyword
  <2>1. outcome = "running" /\ \E k : curr = Kw(k)
    <3>1. CASE VisitCreate \/ VisitDelete \/ VisitShow \/ VisitInsert
        BY <3>1 DEF VisitCreate, VisitDelete, VisitShow, VisitInsert, Root, At
    <3>2. CASE VisitUsing \/ VisitSelect \/ VisitWhere \/ VisitFrom \/ VisitColumn
        BY <3>2 DEF VisitUsing, VisitSelect, VisitWhere, VisitFrom, VisitColumn, At
    <3>3. CASE VisitInto \/ VisitTable \/ VisitDatabase \/ VisitDatabases \/ VisitOtherKeyword
        BY <3>3 DEF VisitInto, VisitTable, VisitDatabase, VisitDatabases, VisitOtherKeyword, At
    <3> QED
        BY <1>5, <3>1, <3>2, <3>3
  <2>2. curr[1] = "kw"
      BY <2>1, Tags
  <2> QED
      BY <2>1, <2>2, Tags DEF IsSym, IsType, IsLiteral, IsSub, IsName
<1>6. CASE \/ DatabaseTarget \/ TableTarget \/ SelectColumn \/ ShownColumn
           \/ ListTarget \/ ColumnName \/ OtherIdentifier
  <2>1. outcome = "running" /\ curr[1] \in {"name", "sub"}
      BY <1>6 DEF DatabaseTarget, TableTarget, SelectColumn, ShownColumn, ListTarget, ColumnName,
                  OtherIdentifier, At, IsIdentifier, IsName, IsSub
  <2>2. /\ IsSub(curr) => ListTarget
        /\ IsName(curr) /\ ctx = "CreateTableE" => ColumnName
      BY <1>6 DEF DatabaseTarget, TableTarget, SelectColumn, ShownColumn, ColumnName,
                  ListTarget, OtherIdentifier, At, IsName, IsSub, DatabaseAction,
                  TableAction, Lists
  <2> QED
      BY <2>1, <2>2, Tags DEF IsSym, IsType, IsLiteral
<1> QED
    BY <1>1, <1>2, <1>3, <1>5, <1>6, <1>4 DEF Visit

\* A visit moves on by a token or changes nothing but the outcome; only a
\* keyword that comes first begins a list.
LEMMA VisitMoves ==
    ASSUME Visit
    PROVE  /\ \/ in' = in /\ token_number' = token_number + 1
              \/ UNCHANGED <<in, token_number, ctx, variant>>
           /\ ctx' \in Lists /\ ctx' # ctx => token_number = 0 /\ token_number' = token_number + 1
<1>1. CASE VisitCreate \/ VisitDelete \/ VisitShow \/ VisitInsert
    BY <1>1 DEF VisitCreate, VisitDelete, VisitShow, VisitInsert, Root, Expect, Set, End, Lists
<1>2. CASE \/ VisitUsing \/ VisitSelect \/ VisitWhere \/ VisitFrom \/ VisitColumn \/ VisitInto
           \/ VisitTable \/ VisitDatabase \/ VisitDatabases \/ VisitOtherKeyword
    BY <1>2 DEF VisitUsing, VisitSelect, VisitWhere, VisitFrom, VisitColumn, VisitInto, VisitTable,
                VisitDatabase, VisitDatabases, VisitOtherKeyword, Expect, Get, Accept, Set, End, Lists
<1>3. CASE VisitType \/ VisitSymbol \/ VisitOperator \/ VisitUnknown
    BY <1>3 DEF VisitType, VisitSymbol, VisitOperator, VisitUnknown, Expect, Accept, Set, End, Lists
<1>4. CASE VisitBool \/ VisitString \/ VisitNumbers
    BY <1>4 DEF VisitBool, VisitString, VisitNumbers, Literal, InsertValue, Restriction, Expect,
                Get, Accept, Set, End, Lists
<1>5. CASE DatabaseTarget \/ TableTarget \/ SelectColumn \/ ShownColumn
    BY <1>5 DEF DatabaseTarget, TableTarget, SelectColumn, ShownColumn, Expect, Get, Accept, Set,
                End, Lists
<1>6. CASE ListTarget \/ ColumnName \/ OtherIdentifier
    BY <1>6 DEF ListTarget, ColumnName, Column, OtherIdentifier, Expect, Get, Accept, Set, End, Lists
<1> QED
    BY <1>1, <1>2, <1>3, <1>4, <1>5, <1>6 DEF Visit

-----------------------------------------------------------------------------
\* The target begins the list, which is empty yet.
LEMMA InsertBegins ==
    ASSUME AInv, ListTarget, ctx = "InsertE", token_number = 2, token_number' = 3
    PROVE  Inserting'
<1>1. next = OPENING_PAR /\ Set(ctx, Insert(curr[2], <<>>))
    BY DEF ListTarget, Expect, End
<1>2. in' = in /\ ctx' = ctx /\ variant' = Insert(curr[2], <<>>)
    BY <1>1 DEF Set
<1>3. curr = Token(2) /\ next = Token(3)
    BY DEF curr, next
<1>4. \A n : Token(n)' = Token(n)
    BY <1>2 DEF Token
<1>5. Values(3)' = <<>>
    BY DEF Values
<1>6. Listed(3)'
    BY <1>1, <1>2, <1>3, <1>4, <1>5 DEF Listed
<1> QED
    BY <1>6 DEF Inserting, MayStand

\* One more place of the list.
LEMMA ListGrows ==
    ASSUME AInv, NEW m \in Nat, m >= 3, token_number = m, token_number' = m + 1, in' = in,
           ctx' = ctx, Listed(m), m > 3 => Fits(m),
           variant' = IF m > 3 /\ m % 2 = 0
                      THEN [variant EXCEPT !.values = Append(@, Token(m))] ELSE variant
    PROVE  Listed(m + 1)'
<1>1. \A n : Token(n)' = Token(n)
    BY DEF Token
<1>2. \A j \in 4 .. m : Fits(j)'
    BY <1>1 DEF Listed, Fits
<1>3. variant = Insert(Token(2)[2], Values(m))
    BY DEF Listed
<1>4. Values(m + 1)' = [i \in 1 .. (m + 1 - 3) \div 2 |-> Token(2 * i + 2)]
    BY <1>1 DEF Values
<1>5. variant' = Insert(Token(2)[2], Values(m + 1)')
  <2>1. CASE m > 3 /\ m % 2 = 0
    <3> DEFINE n == (m - 3) \div 2
    <3>1. n \in Nat /\ (m + 1 - 3) \div 2 = n + 1 /\ 2 * (n + 1) + 2 = m
      <4>1. (m + 1 - 3) \div 2 = (m - 3) \div 2 + 1 /\ 2 * ((m - 3) \div 2 + 1) + 2 = m
          BY <2>1
      <4>2. (m - 3) \div 2 \in Nat
          BY <2>1
      <4> QED
          BY <4>1, <4>2
    <3>2. Values(m) = [i \in 1 .. n |-> Token(2 * i + 2)]
        BY DEF Values
    <3> HIDE DEF n
    <3>3. Append(Values(m), Token(m))
              = [i \in 1 .. n + 1 |-> IF i = n + 1 THEN Token(m) ELSE Token(2 * i + 2)]
        BY <3>1, <3>2
    <3>4. Append(Values(m), Token(m)) = Values(m + 1)'
        BY <1>4, <3>1, <3>3
    <3>5. variant' = Insert(Token(2)[2], Append(Values(m), Token(m)))
        BY <1>3, <2>1 DEF Insert
    <3> QED
        BY <3>4, <3>5
  <2>2. CASE ~(m > 3 /\ m % 2 = 0)
    <3>1. (m + 1 - 3) \div 2 = (m - 3) \div 2
        BY <2>2
    <3>2. Values(m + 1)' = Values(m)
        BY <1>4, <3>1 DEF Values
    <3> QED
        BY <1>3, <2>2, <3>2
  <2> QED
      BY <2>1, <2>2
<1>6. (variant = Insert(Token(2)[2], Values(m + 1)))'
    BY <1>1, <1>5
<1>7. (\A j \in 4 .. m + 1 - 1 : Fits(j))'
    BY <1>2
<1>8. (Token(3) = OPENING_PAR)'
    BY <1>1 DEF Listed
<1> QED
    BY <1>6, <1>7, <1>8 DEF Listed

\* What comes next in a list: after its beginning or a comma a literal, or
\* the end after a comma; after a literal a comma or the end.
LEMMA SymbolOfList ==
    ASSUME FollowsSymbol, ctx \in Lists
    PROVE  /\ curr = OPENING_PAR => IF ctx = "InsertE" THEN IsLiteral(next) ELSE IsType(next)
           /\ curr = COMA => \/ IF ctx = "InsertE" THEN IsLiteral(next) ELSE IsType(next)
                             \/ next = CLOSING_PAR
           /\ curr = CLOSING_PAR => next = SEMICOLON
           /\ curr = SEMICOLON => next = None
<1>1. /\ SEMICOLON \notin {OPENING_PAR, CLOSING_PAR, COMA, ALL}
      /\ OPENING_PAR \notin {CLOSING_PAR, COMA, ALL}
      /\ CLOSING_PAR \notin {COMA, ALL} /\ COMA # ALL
    BY DEF SEMICOLON, OPENING_PAR, CLOSING_PAR, COMA, ALL, Sym
<1> QED
    BY <1>1 DEF FollowsSymbol, Lists

\* A place of the list is visited.
LEMMA InTheValues ==
    ASSUME AInv, Visit, ctx = "InsertE", NEW m \in Nat, m >= 3, token_number = m, Listed(m),
           MayStand(m), in' = in, ctx' = ctx, token_number' = m + 1
    PROVE  Inserting'
<1>1. curr = Token(m) /\ next = Token(m + 1)
    BY DEF curr, next
<1>2. \A n : Token(n)' = Token(n)
    BY DEF Token
<1>3. /\ IsSym(OPENING_PAR) /\ IsSym(COMA) /\ IsSym(CLOSING_PAR)
      /\ ~IsLiteral(OPENING_PAR) /\ ~IsLiteral(COMA) /\ ~IsLiteral(CLOSING_PAR)
      /\ COMA # CLOSING_PAR /\ OPENING_PAR # CLOSING_PAR /\ OPENING_PAR # COMA
    BY DEF IsSym, IsLiteral, OPENING_PAR, COMA, CLOSING_PAR, Sym
<1>4. ASSUME NEW v, v = variant, variant' = v, ~(m > 3 /\ m % 2 = 0), m > 3 => Fits(m)
      PROVE  Listed(m + 1)'
    BY <1>4, ListGrows
<1>5. CASE m = 3
  <2>1. curr = OPENING_PAR
      BY <1>1, <1>5 DEF Listed
  <2>2. FollowsSymbol /\ variant' = variant
      BY <1>3, <2>1, VisitOf DEF Lists, VisitSymbol, At, Expect, Accept, Set, End
  <2>3. IsLiteral(Token(4)) /\ 4 % 2 = 0 /\ m + 1 = 4
      BY <1>1, <1>5, <2>1, <2>2, SymbolOfList DEF Lists
  <2>4. Listed(m + 1)'
      BY <1>4, <1>5, <2>2
  <2>5. Fits(4)'
      BY <1>2, <2>3 DEF Fits
  <2> QED
      BY <2>3, <2>4, <2>5 DEF Inserting, MayStand
<1>6. CASE m > 3 /\ Fits(m) /\ m % 2 = 0
  <2>1. IsLiteral(curr)
      BY <1>1, <1>6 DEF Fits
  <2>2. /\ next \in {CLOSING_PAR, COMA}
        /\ variant' = [variant EXCEPT !.values = Append(@, curr)]
      BY <2>1, VisitOf DEF Lists, Literal, InsertValue, Expect, Get, Set, End
  <2>3. Listed(m + 1)'
      BY <1>1, <1>6, <2>2, ListGrows
  <2>4. (m + 1) % 2 # 0
      BY <1>6
  <2>5. MayStand(m + 1)'
      BY <1>1, <1>2, <1>6, <2>2, <2>4 DEF MayStand, Fits
  <2> QED
      BY <2>3, <2>5 DEF Inserting
<1>7. CASE m > 3 /\ Fits(m) /\ m % 2 # 0
  <2>1. curr = COMA
      BY <1>1, <1>7 DEF Fits
  <2>2. FollowsSymbol /\ variant' = variant
      BY <1>3, <2>1, VisitOf DEF Lists, VisitSymbol, At, Expect, Accept, Set, End
  <2>3. IsLiteral(Token(m + 1)) \/ Token(m + 1) = CLOSING_PAR
      BY <1>1, <2>1, <2>2, SymbolOfList DEF Lists
  <2>4. Listed(m + 1)'
      BY <1>4, <1>7, <2>2
  <2>5. (m + 1) % 2 = 0 /\ m + 1 > 4
      BY <1>7
  <2>6. MayStand(m + 1)'
      BY <1>2, <2>3, <2>5 DEF MayStand, Fits
  <2> QED
      BY <2>4, <2>6 DEF Inserting
<1>8. CASE m > 4 /\ Token(m) = CLOSING_PAR
  <2>1. FollowsSymbol /\ variant' = variant
      BY <1>1, <1>3, <1>8, VisitOf DEF Lists, VisitSymbol, At, Expect, Accept, Set, End
  <2>2. Token(m + 1) = SEMICOLON
      BY <1>1, <1>8, <2>1, SymbolOfList DEF Lists
  <2>3. Listed(m)'
      BY <1>2, <2>1 DEF Listed, Fits, Values
  <2>4. Behind(m)'
      BY <1>2, <1>8, <2>2 DEF Behind, Listed
  <2> QED
      BY <2>3, <2>4 DEF Inserting
<1> QED
    BY <1>5, <1>6, <1>7, <1>8 DEF MayStand

\* Behind the list stands the semicolon, and nothing after it.
LEMMA BehindTheList ==
    ASSUME Visit, ctx \in Lists, NEW m \in Nat, Behind(m), in' = in,
           token_number' = token_number + 1
    PROVE  Behind(m)' /\ variant' = variant
<1>1. curr # None /\ (IsSym(curr) => VisitSymbol)
    BY VisitOf
<1>2. token_number = m + 1 /\ curr = SEMICOLON
    BY <1>1 DEF Behind, curr
<1>3. IsSym(SEMICOLON)
    BY DEF IsSym, SEMICOLON, Sym
<1>4. FollowsSymbol /\ variant' = variant
    BY <1>1, <1>2, <1>3 DEF VisitSymbol, At, Expect, Accept, Set, End
<1>5. Token(m + 1 + 1) = None
    BY <1>2, <1>4, SymbolOfList DEF next
<1>6. \A n : Token(n)' = Token(n)
    BY DEF Token
<1>7. m + 1 + 1 = m + 2 /\ token_number' = m + 2
    BY <1>2
<1> QED
    BY <1>4, <1>5, <1>6, <1>7 DEF Behind

\* Every step keeps what an INSERT has reached.
LEMMA StepInserting == AInv /\ Inserting /\ [ANext]_avars => Inserting'
<1> SUFFICES ASSUME AInv, Inserting, [ANext]_avars, ctx' = "InsertE", token_number' >= 3
             PROVE  Inserting'
    BY DEF Inserting
<1>1. ASSUME in' = in, ctx' = ctx, token_number' = token_number, variant' = variant
      PROVE  Inserting'
  <2>1. \A n : Token(n)' = Token(n)
      BY <1>1 DEF Token
  <2>2. \A m : Values(m)' = Values(m) /\ Fits(m)' = Fits(m)
      BY <2>1 DEF Values, Fits
  <2> QED
      BY <1>1, <2>1, <2>2 DEF Inserting, Listed, MayStand, Behind
<1>2. CASE Visit
  <2>1. ctx = "InsertE"
      BY <1>2, VisitMoves DEF Lists
  <2>2. CASE in' = in /\ token_number' = token_number + 1
    <3>1. token_number \in Nat /\ token_number >= 1
        BY <2>1 DEF AInv, Counted, Opened, Changing
    <3>2. CASE token_number = 2
      <4>1. IsSub(curr)
          BY <2>1, <3>2, Window DEF Changing, ShortContexts, OfName
      <4> QED
          BY <1>2, <2>1, <2>2, <3>2, <4>1, VisitOf, InsertBegins DEF Lists
    <3>3. CASE token_number >= 3 /\ Listed(token_number) /\ MayStand(token_number)
        BY <1>2, <2>1, <2>2, <3>1, <3>3, InTheValues
    <3>4. CASE \E m \in Nat : Listed(m) /\ Behind(m)
      <4>1. PICK m \in Nat : Listed(m) /\ Behind(m)
          BY <3>4
      <4>2. Behind(m)' /\ variant' = variant
          BY <1>2, <2>1, <2>2, <4>1, BehindTheList DEF Lists
      <4>3. \A n : Token(n)' = Token(n)
          BY <2>2 DEF Token
      <4>4. Listed(m)'
          BY <4>1, <4>2, <4>3 DEF Listed, Fits, Values
      <4> QED
          BY <4>2, <4>4 DEF Inserting
    <3> QED
        BY <2>1, <2>2, <3>1, <3>2, <3>3, <3>4 DEF Inserting
  <2>3. CASE UNCHANGED <<in, token_number, ctx, variant>>
      BY <1>1, <2>3
  <2> QED
      BY <1>2, <2>2, <2>3, VisitMoves
<1>3. CASE Answer
    BY <1>1, <1>3 DEF Answer, End
<1>4. CASE UNCHANGED avars
    BY <1>1, <1>4 DEF avars
<1> QED
    BY <1>2, <1>3, <1>4 DEF ANext

\* A list that is done with has its target and two places behind it.
LEMMA ListEnds ==
    ASSUME AInv, ctx \in Lists, token_number = Len(in)
    PROVE  /\ token_number \in Nat /\ token_number >= 3 /\ Token(token_number) = None
           /\ \A m \in Nat : Behind(m) => Len(in) = m + 2
<1>1. Token(token_number) = None /\ Len(in) \in Nat /\ token_number >= 1
    BY DEF AInv, Counted, Token, Opened, Changing, Lists
<1>2. token_number # 1 /\ token_number # 2
  <2>1. curr = None
      BY <1>1 DEF curr
  <2>2. \A k : None # Kw(k) /\ ~IsSub(None)
      BY Tags DEF IsSub
  <2> QED
      BY <2>1, <2>2, Window DEF Changing, ShortContexts, OfName, Lists
<1>3. None # SEMICOLON
    BY DEF SEMICOLON, Sym, None
<1> QED
    BY <1>1, <1>2, <1>3 DEF Behind

IsSequence == in \in Seq({in[i] : i \in DOMAIN in})

\* The frame of a list: root, object, target and parentheses.
LEMMA ListFramed ==
    ASSUME AInv, IsSequence, ctx \in Lists, token_number = Len(in), NEW m \in Nat, Behind(m)
    PROVE  /\ Len(in) = m + 2 /\ m > 4
           /\ \A n \in 0 .. m + 1 : Token(n) = in[n + 1]
           /\ Token(2) = in[3]
           /\ IsListOf(in, RootOf[ctx], ObjectOf[ctx])
           /\ Len(Items(in)) = m - 4
           /\ \A i \in 1 .. m - 4 : Items(in)[i] = Token(i + 3)
           /\ DOMAIN Items(in) = 1 .. m - 4
<1>1. Len(in) = m + 2 /\ m > 4
    BY ListEnds DEF Behind
<1>2. \A n \in 0 .. m + 1 : Token(n) = in[n + 1]
    BY <1>1 DEF Token
<1>3. /\ Token(0) = in[1] /\ Token(1) = in[2] /\ Token(2) = in[3] /\ Token(3) = in[4]
      /\ Token(m) = in[m + 1] /\ Token(m + 1) = in[m + 2]
  <2>1. {0, 1, 2, 3, m, m + 1} \subseteq 0 .. m + 1
      BY <1>1
  <2>2. Token(0) = in[0 + 1] /\ Token(1) = in[1 + 1] /\ Token(2) = in[2 + 1] /\ Token(3) = in[3 + 1]
      BY <1>2, <2>1
  <2>3. Token(m) = in[m + 1] /\ Token(m + 1) = in[m + 1 + 1]
      BY <1>2, <2>1
  <2> QED
      BY <2>2, <2>3
<1>4. in[1] = Kw(RootOf[ctx]) /\ in[2] = Kw(ObjectOf[ctx]) /\ IsSub(in[3])
  <2>1. token_number >= 2
      BY <1>1
  <2> QED
      BY <1>3, <2>1 DEF AInv, Opened, Changing, ShortContexts, OfName, Lists
<1>5. in[4] = OPENING_PAR /\ in[m + 1] = CLOSING_PAR /\ in[m + 2] = SEMICOLON
    BY <1>3 DEF Behind
<1>6. \A a, b \in 1 .. Len(in) : a <= b =>
          /\ Len(SubSeq(in, a, b)) = b - a + 1
          /\ SubSeq(in, a, b) = [i \in 1 .. b - a + 1 |-> in[a + i - 1]]
  <2>1. PICK S : in \in Seq(S)
      BY DEF IsSequence
  <2> QED
      BY <2>1
<1>7. IsListOf(in, RootOf[ctx], ObjectOf[ctx])
  <2>1. m + 1 \in 1 .. Len(in) /\ m + 2 \in 1 .. Len(in) /\ Len(in) - 1 = m + 1 /\ Len(in) > 6
      BY <1>1
  <2>2. SubSeq(in, m + 1, m + 2) = [i \in 1 .. m + 2 - (m + 1) + 1 |-> in[m + 1 + i - 1]]
      BY <1>6, <2>1
  <2>3. SubSeq(in, m + 1, m + 2) = [i \in 1 .. 2 |-> in[m + i]]
      BY <2>2
  <2>4. [i \in 1 .. 2 |-> in[m + i]] = <<in[m + 1], in[m + 2]>>
      OBVIOUS
  <2> QED
      BY <1>1, <1>4, <1>5, <2>1, <2>3, <2>4 DEF IsListOf
<1>8. /\ Items(in) = [i \in 1 .. m - 4 |-> in[i + 4]]
      /\ Len(Items(in)) = m - 4
  <2>1. 5 \in 1 .. Len(in) /\ m \in 1 .. Len(in) /\ Len(in) - 2 = m /\ 5 <= m
      BY <1>1
  <2>2. /\ Len(SubSeq(in, 5, m)) = m - 5 + 1
        /\ SubSeq(in, 5, m) = [i \in 1 .. m - 5 + 1 |-> in[5 + i - 1]]
      BY <1>6, <2>1
  <2> QED
      BY <1>1, <2>1, <2>2 DEF Items
<1>9. \A i \in 1 .. m - 4 : Items(in)[i] = Token(i + 3)
    BY <1>1, <1>2, <1>8
<1> QED
    BY <1>1, <1>2, <1>3, <1>7, <1>8, <1>9

\* The query keeps its tokens.
LEMMA StepIsSequence == IsSequence /\ [ANext]_avars => IsSequence'
<1>1. Visit => in' = in
    BY VisitMoves
<1>2. Answer \/ UNCHANGED avars => in' = in
    BY DEF Answer, End, avars
<1> QED
    BY <1>1, <1>2 DEF IsSequence, ANext

\* An INSERT is answered by the sentence that means it only, with its values
\* in their order.
InsertIsMeant ==
    outcome = "action" /\ variant.kind = "Insert" => IsInsert(in) /\ variant = InsertOf(in)

\* An INSERT that is answered is the sentence that means it.
LEMMA InsertEnds ==
    ASSUME AInv, Inserting, IsSequence
    PROVE  InsertIsMeant
<1> SUFFICES ASSUME outcome = "action", variant.kind = "Insert"
             PROVE  IsInsert(in) /\ variant = InsertOf(in)
    BY DEF InsertIsMeant
<1>1. ctx = "InsertE" /\ token_number = Len(in)
    BY DEF AInv, Counted, Made, Changing, KindOf
<1>2. token_number \in Nat /\ token_number >= 3 /\ Token(token_number) = None
    BY <1>1, ListEnds DEF Lists
<1>3. ~(Listed(token_number) /\ MayStand(token_number))
  <2>1. /\ None # OPENING_PAR /\ None # CLOSING_PAR /\ None # COMA /\ ~IsLiteral(None)
      BY DEF OPENING_PAR, CLOSING_PAR, COMA, Sym, None, IsLiteral
  <2>2. ASSUME Listed(token_number), MayStand(token_number) PROVE FALSE
    <3>1. token_number # 3
        BY <1>2, <2>1, <2>2 DEF Listed
    <3> QED
        BY <1>2, <2>1, <2>2, <3>1 DEF MayStand, Fits
  <2> QED
      BY <2>2
<1>4. PICK m \in Nat : Listed(m) /\ Behind(m)
    BY <1>1, <1>2, <1>3 DEF Inserting
<1>5. /\ m > 4 /\ Token(2) = in[3] /\ IsListOf(in, "INSERT", "INTO") /\ Len(Items(in)) = m - 4
      /\ DOMAIN Items(in) = 1 .. m - 4
      /\ \A i \in 1 .. m - 4 : Items(in)[i] = Token(i + 3)
  <2>1. RootOf[ctx] = "INSERT" /\ ObjectOf[ctx] = "INTO" /\ ctx \in Lists
      BY <1>1 DEF RootOf, ObjectOf, Lists
  <2> QED
      BY <1>1, <1>4, <2>1, ListFramed
<1>6. \A i \in 1 .. m - 4 : Fits(i + 3)
    BY <1>4 DEF Listed
<1>7. IsInsert(in)
  <2>1. ASSUME NEW i \in DOMAIN Items(in)
        PROVE  IF i % 2 = 1 THEN IsLiteral(Items(in)[i]) ELSE Items(in)[i] = COMA
    <3>1. i \in 1 .. m - 4 /\ i \in Nat
        BY <1>5, <2>1
    <3>2. i % 2 = 1 <=> (i + 3) % 2 = 0
        BY <3>1
    <3> QED
        BY <1>5, <1>6, <3>1, <3>2 DEF Fits
  <2> QED
      BY <1>5, <2>1 DEF IsInsert
<1>8. variant = InsertOf(in)
  <2> DEFINE Vals == [i \in 1 .. (Len(Items(in)) + 1) \div 2 |-> Items(in)[2 * i - 1]]
  <2>1. (Len(Items(in)) + 1) \div 2 = (m - 3) \div 2
    <3>1. Len(Items(in)) = m - 4
        BY <1>5
    <3>2. \A k : k = m - 4 => k + 1 = m - 3
        OBVIOUS
    <3> QED
        BY <3>1, <3>2
  <2>2. ASSUME NEW i \in 1 .. (m - 3) \div 2
        PROVE  Items(in)[2 * i - 1] = Token(2 * i + 2)
    <3>1. 2 * i - 1 \in 1 .. m - 4 /\ 2 * i - 1 + 3 = 2 * i + 2
        BY <1>5, <2>2
    <3> QED
        BY <1>5, <3>1
  <2>3. Vals = Values(m)
      BY <2>1, <2>2 DEF Values
  <2> HIDE DEF Vals
  <2>4. variant = Insert(in[3][2], Vals)
      BY <1>4, <1>5, <2>3 DEF Listed
  <2> QED
      BY <2>4 DEF InsertOf, Vals
<1> QED
    BY <1>7, <1>8

\* For every set of sentences in which a string type has its size: rows are
\* inserted by INSERT INTO table (values); only, and the row has the values of
\* the query.
THEOREM InsertMeans == ASpec => []InsertIsMeant
<1>1. AInit => Inserting /\ IsSequence
    BY SentencesAssumption DEF AInit, Inserting, IsSequence
<1> QED
    BY <1>1, InsertEnds, InitAInv, StepAInv, StepInserting, StepIsSequence, PTL DEF ASpec

-----------------------------------------------------------------------------
(* The columns of a CREATE TABLE. *)

\* What may stand at a place of the list of a CREATE TABLE, by what is before
\* it: a type, the size of a string, the name of the column, a comma.
ColumnToken(s, i) ==
    \/ IsType(s[i]) /\ s[i - 1] \in {OPENING_PAR, COMA}
    \/ s[i][1] = "UInt" /\ s[i - 1] = Type("STR")
    \/ /\ IsName(s[i])
       /\ \/ IsType(s[i - 1]) /\ s[i - 1] # Type("STR")
          \/ s[i - 1][1] = "UInt" /\ s[i - 2] = Type("STR")
    \/ s[i] = COMA /\ IsName(s[i - 1])

\* A column is done with at its name or at the comma after it.
ColumnDone(t) == IsName(t) \/ t = COMA

\* The columns named up to place m, in their order, each where its name is
\* first: a name that comes again is no other column.
NamedBy(at, n, s, m, cols) ==
    /\ \A k, l \in 1 .. n : k < l => at[k] < at[l]
    /\ \A k \in 1 .. n : /\ IsName(s[at[k]])
                         /\ \A i \in 5 .. at[k] - 1 : ~NameAt(s, i, s[at[k]][2])
    /\ cols = [k \in 1 .. n |-> ColumnAt(s, at[k])]
    /\ \A i \in 5 .. m : IsName(s[i]) => \E k \in 1 .. n : s[at[k]][2] = s[i][2]

Named(s, m, cols) == \E n \in Nat : \E at \in [1 .. n -> 5 .. m] : NamedBy(at, n, s, m, cols)

\* The list of columns up to place m, and the action that has its columns.
Tabled(m) ==
    /\ Token(3) = OPENING_PAR
    /\ \A i \in 5 .. m : ColumnToken(in, i)
    /\ \E cols : variant = CreateTable(Token(2)[2], cols) /\ Named(in, m, cols)

\* What may stand behind place m of that list; the visit of a string type has
\* seen the name behind its size.
MayBeNext(m) ==
    m > 3 => /\ \/ m < Len(in) /\ ColumnToken(in, m + 1)
                \/ m > 4 /\ Token(m) = CLOSING_PAR /\ ColumnDone(in[m])
             /\ in[m] = Type("STR") => IsName(Token(m + 1))

\* A CREATE TABLE has reached a place of its list or is behind it.
Creating ==
    ctx = "CreateTableE" /\ token_number >= 3 =>
        \/ Tabled(token_number) /\ MayBeNext(token_number)
        \/ \E m \in Nat : Tabled(m) /\ Behind(m) /\ ColumnDone(in[m])

-----------------------------------------------------------------------------
\* A place without a name adds no column.
LEMMA NamedKeeps ==
    ASSUME NEW s, NEW m \in Nat, NEW cols, Named(s, m, cols),
           m + 1 < 5 \/ ~IsName(s[m + 1])
    PROVE  Named(s, m + 1, cols)
<1>1. PICK n \in Nat : \E at \in [1 .. n -> 5 .. m] : NamedBy(at, n, s, m, cols)
    BY DEF Named
<1>2. PICK at \in [1 .. n -> 5 .. m] : NamedBy(at, n, s, m, cols)
    BY <1>1
<1>3. /\ \A k, l \in 1 .. n : k < l => at[k] < at[l]
      /\ \A k \in 1 .. n : /\ IsName(s[at[k]])
                           /\ \A i \in 5 .. at[k] - 1 : ~NameAt(s, i, s[at[k]][2])
      /\ cols = [k \in 1 .. n |-> ColumnAt(s, at[k])]
      /\ \A i \in 5 .. m : IsName(s[i]) => \E k \in 1 .. n : s[at[k]][2] = s[i][2]
    BY <1>2 DEF NamedBy
<1>4. at \in [1 .. n -> 5 .. m + 1]
    BY <1>3
<1>5. \A i \in 5 .. m + 1 : i \in 5 .. m \/ i = m + 1
    OBVIOUS
<1>6. \A i \in 5 .. m + 1 : IsName(s[i]) => \E k \in 1 .. n : s[at[k]][2] = s[i][2]
    BY <1>3, <1>5
<1> QED
    BY <1>3, <1>4, <1>6 DEF Named, NamedBy

\* A name adds its column, if it is the first of its name.
LEMMA NamedGrows ==
    ASSUME NEW s, NEW m \in Nat, m >= 4, NEW cols, Named(s, m, cols), IsName(s[m + 1]), NEW ly,
           ColumnAt(s, m + 1) = <<s[m + 1][2], ly>>
    PROVE  Named(s, m + 1, AddColumn(cols, s[m + 1][2], ly))
<1>1. PICK n \in Nat : \E at \in [1 .. n -> 5 .. m] : NamedBy(at, n, s, m, cols)
    BY DEF Named
<1>2. PICK at \in [1 .. n -> 5 .. m] : NamedBy(at, n, s, m, cols)
    BY <1>1
<1>3. /\ \A k, l \in 1 .. n : k < l => at[k] < at[l]
      /\ \A k \in 1 .. n : /\ IsName(s[at[k]])
                           /\ \A i \in 5 .. at[k] - 1 : ~NameAt(s, i, s[at[k]][2])
      /\ cols = [k \in 1 .. n |-> ColumnAt(s, at[k])]
      /\ \A i \in 5 .. m : IsName(s[i]) => \E k \in 1 .. n : s[at[k]][2] = s[i][2]
    BY <1>2 DEF NamedBy
<1>4. \A i : ColumnAt(s, i)[1] = s[i][2]
    BY DEF ColumnAt
<1>5. DOMAIN cols = 1 .. n /\ \A k \in 1 .. n : cols[k][1] = s[at[k]][2]
    BY <1>3, <1>4
<1>6. \A i \in 5 .. m + 1 : i \in 5 .. m \/ i = m + 1
    OBVIOUS
<1>7. CASE \E i \in DOMAIN cols : cols[i][1] = s[m + 1][2]
  <2>1. AddColumn(cols, s[m + 1][2], ly) = cols
      BY <1>7 DEF AddColumn
  <2>2. at \in [1 .. n -> 5 .. m + 1]
      BY <1>3
  <2>3. \A i \in 5 .. m + 1 : IsName(s[i]) => \E k \in 1 .. n : s[at[k]][2] = s[i][2]
      BY <1>3, <1>5, <1>6, <1>7
  <2> QED
      BY <1>3, <2>1, <2>2, <2>3 DEF Named, NamedBy
<1>8. CASE ~\E i \in DOMAIN cols : cols[i][1] = s[m + 1][2]
  <2> DEFINE to == [k \in 1 .. n + 1 |-> IF k = n + 1 THEN m + 1 ELSE at[k]]
             grown == [k \in 1 .. n + 1 |-> ColumnAt(s, to[k])]
  <2>1. \A k \in 1 .. n + 1 : k \in 1 .. n \/ k = n + 1
      OBVIOUS
  <2>2. \A k \in 1 .. n : to[k] = at[k] /\ at[k] \in 5 .. m
      BY <1>3
  <2>3. to[n + 1] = m + 1 /\ n + 1 \in 1 .. n + 1
      OBVIOUS
  <2>4. to \in [1 .. n + 1 -> 5 .. m + 1]
      BY <1>3
  <2>5. AddColumn(cols, s[m + 1][2], ly) = Append(cols, ColumnAt(s, m + 1))
      BY <1>8 DEF AddColumn
  <2> HIDE DEF to
  <2>6. Append(cols, ColumnAt(s, m + 1)) = grown
    <3>1. cols = [k \in 1 .. n |-> ColumnAt(s, at[k])]
        BY <1>3
    <3>2. Append(cols, ColumnAt(s, m + 1))
              = [k \in 1 .. n + 1 |-> IF k = n + 1 THEN ColumnAt(s, m + 1) ELSE ColumnAt(s, at[k])]
        BY <3>1
    <3>3. \A k \in 1 .. n + 1 : (IF k = n + 1 THEN ColumnAt(s, m + 1) ELSE ColumnAt(s, at[k]))
                                    = ColumnAt(s, to[k])
        BY <2>1, <2>2, <2>3
    <3> QED
        BY <3>2, <3>3
  <2>7. \A k, l \in 1 .. n + 1 : k < l => to[k] < to[l]
    <3> SUFFICES ASSUME NEW k \in 1 .. n + 1, NEW l \in 1 .. n + 1, k < l
                 PROVE  to[k] < to[l]
        OBVIOUS
    <3>1. k \in 1 .. n
        OBVIOUS
    <3>2. CASE l \in 1 .. n
        BY <1>3, <2>2, <3>1, <3>2
    <3>3. CASE l = n + 1
        BY <2>2, <2>3, <3>1, <3>3
    <3> QED
        BY <2>1, <3>2, <3>3
  <2>8. \A k \in 1 .. n + 1 : /\ IsName(s[to[k]])
                              /\ \A i \in 5 .. to[k] - 1 : ~NameAt(s, i, s[to[k]][2])
    <3>1. ASSUME NEW i \in 5 .. m PROVE ~NameAt(s, i, s[m + 1][2])
      <4>1. ASSUME NameAt(s, i, s[m + 1][2]) PROVE FALSE
        <5>1. IsName(s[i]) /\ s[i][2] = s[m + 1][2]
            BY <4>1 DEF NameAt
        <5>2. PICK k \in 1 .. n : s[at[k]][2] = s[i][2]
            BY <1>3, <5>1
        <5>3. k \in DOMAIN cols /\ cols[k][1] = s[m + 1][2]
            BY <1>5, <5>1, <5>2
        <5> QED
            BY <1>8, <5>3
      <4> QED
          BY <4>1
    <3>2. m + 1 - 1 = m
        OBVIOUS
    <3>3. ASSUME NEW k \in 1 .. n
          PROVE  /\ IsName(s[to[k]])
                 /\ \A i \in 5 .. to[k] - 1 : ~NameAt(s, i, s[to[k]][2])
      <4>1. to[k] = at[k]
          BY <2>2
      <4> QED
          BY <1>3, <4>1
    <3>4. /\ IsName(s[to[n + 1]])
          /\ \A i \in 5 .. to[n + 1] - 1 : ~NameAt(s, i, s[to[n + 1]][2])
        BY <2>3, <3>1, <3>2
    <3> QED
        BY <2>1, <3>3, <3>4
  <2>9. \A i \in 5 .. m + 1 : IsName(s[i]) => \E k \in 1 .. n + 1 : s[to[k]][2] = s[i][2]
    <3> SUFFICES ASSUME NEW i \in 5 .. m + 1, IsName(s[i])
                 PROVE  \E k \in 1 .. n + 1 : s[to[k]][2] = s[i][2]
        OBVIOUS
    <3>1. CASE i \in 5 .. m
      <4>1. PICK k \in 1 .. n : s[at[k]][2] = s[i][2]
          BY <1>3, <3>1
      <4>2. k \in 1 .. n + 1 /\ to[k] = at[k]
          BY <2>2
      <4> QED
          BY <4>1, <4>2
    <3>2. CASE i = m + 1
        BY <2>3, <3>2
    <3> QED
        BY <1>6, <3>1, <3>2
  <2>10. n + 1 \in Nat
      OBVIOUS
  <2>11. NamedBy(to, n + 1, s, m + 1, grown)
      BY <2>7, <2>8, <2>9 DEF NamedBy
  <2> QED
      BY <2>4, <2>5, <2>6, <2>10, <2>11 DEF Named
<1> QED
    BY <1>7, <1>8

\* The target begins the list, which has no column yet.
LEMMA TableBegins ==
    ASSUME AInv, ListTarget, ctx = "CreateTableE", token_number = 2, token_number' = 3
    PROVE  Creating'
<1>1. next = OPENING_PAR /\ Set(ctx, CreateTable(curr[2], <<>>))
    BY DEF ListTarget, Expect, End
<1>2. in' = in /\ ctx' = ctx /\ variant' = CreateTable(curr[2], <<>>)
    BY <1>1 DEF Set
<1>3. curr = Token(2) /\ next = Token(3)
    BY DEF curr, next
<1>4. \A n : Token(n)' = Token(n)
    BY <1>2 DEF Token
<1>5. Named(in, 3, <<>>)
  <2>1. <<>> \in [1 .. 0 -> 5 .. 3] /\ <<>> = [k \in 1 .. 0 |-> ColumnAt(in, <<>>[k])]
      OBVIOUS
  <2>2. NamedBy(<<>>, 0, in, 3, <<>>)
      BY <2>1 DEF NamedBy
  <2> QED
      BY <2>1, <2>2 DEF Named
<1>6. (\E cols : variant = CreateTable(Token(2)[2], cols) /\ Named(in, 3, cols))'
    BY <1>2, <1>3, <1>4, <1>5
<1>7. (Token(3) = OPENING_PAR)' /\ (\A i \in 5 .. 3 : ColumnToken(in, i))'
    BY <1>1, <1>3, <1>4
<1>8. Tabled(3)'
    BY <1>6, <1>7 DEF Tabled
<1> QED
    BY <1>8 DEF Creating, MayBeNext

\* The tokens around a place of the list.
LEMMA AroundThePlace ==
    ASSUME AInv, NEW m \in Nat, m >= 3, token_number = m, curr # None
    PROVE  /\ Len(in) \in Nat /\ m + 1 <= Len(in)
           /\ curr = in[m + 1] /\ prev = in[m] /\ Token(m) = in[m + 1]
           /\ next = Token(m + 1) /\ nextp1 = Token(m + 2)
           /\ next # None => m + 2 <= Len(in) /\ next = in[m + 2]
<1>1. Len(in) \in Nat /\ m \in 0 .. Len(in)
    BY DEF AInv, Counted
<1>2. m < Len(in)
    BY <1>1 DEF curr, Token
<1>3. curr = in[m + 1] /\ Token(m) = in[m + 1]
    BY <1>1, <1>2 DEF curr, Token
<1>4. prev = in[m]
    BY <1>1, <1>2 DEF prev, Token
<1>5. next = Token(m + 1) /\ nextp1 = Token(m + 2)
    BY DEF next, nextp1
<1>6. next # None => m + 2 <= Len(in) /\ next = in[m + 2]
    BY <1>1, <1>5 DEF Token
<1> QED
    BY <1>1, <1>2, <1>3, <1>4, <1>5, <1>6

\* One more place of the list of columns.
LEMMA TableGrows ==
    ASSUME NEW m \in Nat, m >= 3, in' = in, Token(3) = OPENING_PAR,
           \A i \in 5 .. m : ColumnToken(in, i), m > 3 => ColumnToken(in, m + 1),
           NEW cols, variant' = CreateTable(Token(2)[2], cols), Named(in, m + 1, cols)
    PROVE  Tabled(m + 1)'
<1>1. \A n : Token(n)' = Token(n)
    BY DEF Token
<1>2. (\E c : variant = CreateTable(Token(2)[2], c) /\ Named(in, m + 1, c))'
    BY <1>1
<1>3. \A i \in 5 .. m + 1 : i \in 5 .. m \/ (i = m + 1 /\ m > 3)
    OBVIOUS
<1>4. (\A i \in 5 .. m + 1 : ColumnToken(in, i))'
    BY <1>3
<1>5. (Token(3) = OPENING_PAR)'
    BY <1>1
<1> QED
    BY <1>2, <1>4, <1>5 DEF Tabled

\* The kinds of the tokens of a list of columns.
LEMMA ColumnTags ==
    /\ \A t : IsType(t) => ~IsName(t) /\ t # COMA /\ t # CLOSING_PAR /\ t # None
    /\ \A t : IsName(t) => t # COMA /\ t # CLOSING_PAR /\ t # Type("STR") /\ t # None
    /\ \A t : t[1] = "UInt" => ~IsName(t) /\ t # Type("STR") /\ IsLiteral(t)
    /\ \A t : t \in {OPENING_PAR, COMA, CLOSING_PAR} => IsSym(t) /\ ~IsName(t) /\ t # Type("STR")
                                                        /\ t # None
    /\ COMA # CLOSING_PAR /\ COMA # OPENING_PAR /\ CLOSING_PAR # OPENING_PAR
    /\ IsType(Type("STR"))
<1>1. /\ COMA[1] = "sym" /\ CLOSING_PAR[1] = "sym" /\ OPENING_PAR[1] = "sym"
      /\ Type("STR")[1] = "type" /\ None[1] = "none"
      /\ COMA # CLOSING_PAR /\ COMA # OPENING_PAR /\ CLOSING_PAR # OPENING_PAR
    BY DEF COMA, CLOSING_PAR, OPENING_PAR, Type, Sym, None
<1> QED
    BY <1>1 DEF IsType, IsName, IsLiteral, IsSym

\* The next place, as an item of the list or as its end.
LEMMA NextPlace ==
    ASSUME AInv, NEW m \in Nat, m >= 3, in' = in, m + 2 <= Len(in),
           \/ ColumnToken(in, m + 2)
           \/ m > 3 /\ in[m + 2] = CLOSING_PAR /\ ColumnDone(in[m + 1]),
           in[m + 1] = Type("STR") => IsName(Token(m + 2))
    PROVE  MayBeNext(m + 1)'
<1>1. \A n : Token(n)' = Token(n)
    BY DEF Token
<1>2. Len(in) \in Nat
    BY DEF AInv, Counted
<1>3. Token(m + 1) = in[m + 1 + 1] /\ m + 1 + 1 = m + 2
    BY <1>2 DEF Token
<1>4. \/ m + 1 < Len(in) /\ ColumnToken(in, m + 1 + 1)
      \/ m + 1 > 4 /\ Token(m + 1) = CLOSING_PAR /\ ColumnDone(in[m + 1])
    BY <1>2, <1>3
<1>5. (\/ m + 1 < Len(in) /\ ColumnToken(in, m + 1 + 1)
       \/ m + 1 > 4 /\ Token(m + 1) = CLOSING_PAR /\ ColumnDone(in[m + 1]))'
    BY <1>1, <1>4
<1>6. (in[m + 1] = Type("STR") => IsName(Token(m + 1 + 1)))'
    BY <1>1, <1>3
<1> QED
    BY <1>5, <1>6 DEF MayBeNext

\* A place of the list is visited.
LEMMA InTheColumns ==
    ASSUME AInv, Visit, ctx = "CreateTableE", NEW m \in Nat, m >= 3, token_number = m, Tabled(m),
           MayBeNext(m), in' = in, ctx' = ctx, token_number' = m + 1
    PROVE  Creating'
<1> USE ColumnTags
<1>1. /\ curr # None /\ outcome = "running" /\ ctx \in Lists
      /\ IsSym(curr) => VisitSymbol
      /\ IsType(curr) => VisitType
      /\ IsLiteral(curr) => Literal
      /\ IsName(curr) => ColumnName
    BY VisitOf DEF Lists
<1>2. /\ Len(in) \in Nat /\ m + 1 <= Len(in)
      /\ curr = in[m + 1] /\ prev = in[m] /\ Token(m) = in[m + 1]
      /\ next = Token(m + 1) /\ nextp1 = Token(m + 2)
      /\ next # None => m + 2 <= Len(in) /\ next = in[m + 2]
    BY <1>1, AroundThePlace
<1>3. PICK cols : variant = CreateTable(Token(2)[2], cols) /\ Named(in, m, cols)
    BY DEF Tabled
<1>4. Token(3) = OPENING_PAR /\ \A i \in 5 .. m : ColumnToken(in, i)
    BY DEF Tabled
<1>5. ASSUME NEW new, variant' = CreateTable(Token(2)[2], new), Named(in, m + 1, new),
             m > 3 => ColumnToken(in, m + 1), m + 2 <= Len(in),
             \/ ColumnToken(in, m + 2)
             \/ m > 3 /\ in[m + 2] = CLOSING_PAR /\ ColumnDone(in[m + 1]),
             in[m + 1] = Type("STR") => IsName(Token(m + 2))
      PROVE  Creating'
  <2>1. Tabled(m + 1)'
      BY <1>4, <1>5, TableGrows
  <2>2. MayBeNext(m + 1)'
      BY <1>5, NextPlace
  <2> QED
      BY <2>1, <2>2 DEF Creating
<1>6. ASSUME variant' = variant, ~IsName(in[m + 1]),
             m > 3 => ColumnToken(in, m + 1), m + 2 <= Len(in),
             \/ ColumnToken(in, m + 2)
             \/ m > 3 /\ in[m + 2] = CLOSING_PAR /\ ColumnDone(in[m + 1]),
             in[m + 1] = Type("STR") => IsName(Token(m + 2))
      PROVE  Creating'
  <2>1. Named(in, m + 1, cols)
      BY <1>3, <1>6, NamedKeeps
  <2> QED
      BY <1>3, <1>5, <1>6, <2>1
<1>7. m + 2 - 1 = m + 1 /\ m + 2 - 2 = m /\ m + 1 - 1 = m /\ m + 1 - 2 = m - 1
    OBVIOUS
<1>8. \/ IsType(in[m + 2]) /\ in[m + 1] \in {OPENING_PAR, COMA}
      \/ in[m + 2][1] = "UInt" /\ in[m + 1] = Type("STR")
      \/ IsName(in[m + 2]) /\ IsType(in[m + 1]) /\ in[m + 1] # Type("STR")
      \/ IsName(in[m + 2]) /\ in[m + 1][1] = "UInt" /\ in[m] = Type("STR")
      \/ in[m + 2] = COMA /\ IsName(in[m + 1])
      => ColumnToken(in, m + 2)
    BY <1>7 DEF ColumnToken
<1>9. CASE m = 3
  <2>1. curr = OPENING_PAR
      BY <1>2, <1>4, <1>9
  <2>2. FollowsSymbol /\ variant' = variant
      BY <1>1, <2>1 DEF VisitSymbol, At, Expect, Accept, Set, End
  <2>3. IsType(next)
      BY <1>1, <2>1, <2>2, <1>9, SymbolOfList
  <2> QED
      BY <1>2, <1>6, <1>8, <1>7, <1>9, <2>1, <2>2, <2>3
<1>10. CASE m > 3 /\ ColumnToken(in, m + 1) /\ IsType(curr)
  <2>1. /\ variant' = variant
        /\ IF curr = Type("STR") THEN IsName(nextp1) ELSE IsName(next)
      BY <1>1, <1>10 DEF VisitType, At, Expect, Accept, Set, End
  <2>2. CASE curr = Type("STR")
    <3>1. m + 1 < Len(in) /\ in[m + 1 + 1][1] = "UInt"
      <4>1. \A i \in 1 .. Len(in) :
                in[i] = Type("STR") => i < Len(in) /\ in[i + 1][1] = "UInt"
          BY DEF AInv, Counted, SizedTypes
      <4>2. m + 1 \in 1 .. Len(in) /\ in[m + 1] = Type("STR")
          BY <1>2, <2>2
      <4> QED
          BY <4>1, <4>2
    <3>2. in[m + 2][1] = "UInt" /\ m + 2 <= Len(in)
        BY <1>2, <3>1
    <3> QED
        BY <1>2, <1>6, <1>8, <1>7, <1>10, <2>1, <2>2, <3>2
  <2>3. CASE curr # Type("STR")
      BY <1>2, <1>6, <1>8, <1>7, <1>10, <2>1, <2>3
  <2> QED
      BY <2>2, <2>3
<1>11. CASE m > 3 /\ ColumnToken(in, m + 1) /\ curr[1] = "UInt" /\ in[m] = Type("STR")
  <2>1. variant' = variant
      BY <1>1, <1>11 DEF Literal, Accept, Set
  <2>2. IsName(next)
      BY <1>2, <1>11 DEF MayBeNext
  <2> QED
      BY <1>2, <1>6, <1>8, <1>7, <1>11, <2>1, <2>2
<1>12. CASE m > 3 /\ ColumnToken(in, m + 1) /\ IsName(curr)
  <2> DEFINE ly == IF IsType(prev) THEN <<prev[2], 0>> ELSE <<"STR", prev[2]>>
  <2>1. next \in {CLOSING_PAR, COMA} /\ variant' = [variant EXCEPT !.columns = AddColumn(@, curr[2], ly)]
      BY <1>1, <1>12 DEF ColumnName, Expect, Get, Column, Set, End
  <2>2. ColumnAt(in, m + 1) = <<in[m + 1][2], ly>>
      BY <1>2, <1>7 DEF ColumnAt
  <2> HIDE DEF ly
  <2>3. variant' = CreateTable(Token(2)[2], AddColumn(cols, in[m + 1][2], ly))
      BY <1>2, <1>3, <2>1 DEF CreateTable
  <2>4. Named(in, m + 1, AddColumn(cols, in[m + 1][2], ly))
      BY <1>2, <1>3, <1>12, <2>2, NamedGrows
  <2>5. next # None
      BY <2>1
  <2> QED
      BY <1>2, <1>5, <1>8, <1>7, <1>12, <2>1, <2>3, <2>4, <2>5 DEF ColumnDone
<1>13. CASE m > 3 /\ ColumnToken(in, m + 1) /\ curr = COMA
  <2>1. FollowsSymbol /\ variant' = variant
      BY <1>1, <1>13 DEF VisitSymbol, At, Expect, Accept, Set, End
  <2>2. IsType(next) \/ next = CLOSING_PAR
      BY <1>1, <1>13, <2>1, SymbolOfList
  <2>3. next # None
      BY <2>2
  <2> QED
      BY <1>2, <1>6, <1>8, <1>7, <1>13, <2>1, <2>2, <2>3 DEF ColumnDone
<1>14. CASE m > 4 /\ Token(m) = CLOSING_PAR /\ ColumnDone(in[m])
  <2>1. FollowsSymbol /\ variant' = variant
      BY <1>1, <1>2, <1>14 DEF VisitSymbol, At, Expect, Accept, Set, End
  <2>2. Token(m + 1) = SEMICOLON
      BY <1>1, <1>2, <1>14, <2>1, SymbolOfList
  <2>3. \A n : Token(n)' = Token(n)
      BY DEF Token
  <2>4. Tabled(m)'
      BY <2>1, <2>3 DEF Tabled
  <2>5. Behind(m)'
      BY <1>4, <1>14, <2>2, <2>3 DEF Behind
  <2>6. (Tabled(m) /\ Behind(m) /\ ColumnDone(in[m]))'
      BY <1>14, <2>4, <2>5
  <2> QED
      BY <2>6 DEF Creating
<1>15. m > 3 /\ ColumnToken(in, m + 1)
           => \/ IsType(curr) \/ IsName(curr) \/ curr = COMA
              \/ curr[1] = "UInt" /\ in[m] = Type("STR")
    BY <1>2, <1>7 DEF ColumnToken
<1> QED
    BY <1>9, <1>10, <1>11, <1>12, <1>13, <1>14, <1>15 DEF MayBeNext

\* Every step keeps what a CREATE TABLE has reached.
LEMMA StepCreating == AInv /\ Creating /\ [ANext]_avars => Creating'
<1> SUFFICES ASSUME AInv, Creating, [ANext]_avars, ctx' = "CreateTableE", token_number' >= 3
             PROVE  Creating'
    BY DEF Creating
<1>1. ASSUME in' = in, ctx' = ctx, token_number' = token_number, variant' = variant
      PROVE  Creating'
  <2>1. \A n : Token(n)' = Token(n)
      BY <1>1 DEF Token
  <2> QED
      BY <1>1, <2>1 DEF Creating, Tabled, MayBeNext, Behind
<1>2. CASE Visit
  <2>1. ctx = "CreateTableE"
      BY <1>2, VisitMoves DEF Lists
  <2>2. CASE in' = in /\ token_number' = token_number + 1
    <3>1. token_number \in Nat /\ token_number >= 1
        BY <2>1 DEF AInv, Counted, Opened, Changing
    <3>2. CASE token_number = 2
      <4>1. IsSub(curr)
          BY <2>1, <3>2, Window DEF Changing, ShortContexts, OfName
      <4> QED
          BY <1>2, <2>1, <2>2, <3>2, <4>1, VisitOf, TableBegins DEF Lists
    <3>3. CASE token_number >= 3 /\ Tabled(token_number) /\ MayBeNext(token_number)
        BY <1>2, <2>1, <2>2, <3>1, <3>3, InTheColumns
    <3>4. CASE \E m \in Nat : Tabled(m) /\ Behind(m) /\ ColumnDone(in[m])
      <4>1. PICK m \in Nat : Tabled(m) /\ Behind(m) /\ ColumnDone(in[m])
          BY <3>4
      <4>2. Behind(m)' /\ variant' = variant
          BY <1>2, <2>1, <2>2, <4>1, BehindTheList DEF Lists
      <4>3. \A n : Token(n)' = Token(n)
          BY <2>2 DEF Token
      <4>4. Tabled(m)'
          BY <2>2, <4>1, <4>2, <4>3 DEF Tabled
      <4>5. (Tabled(m) /\ Behind(m) /\ ColumnDone(in[m]))'
          BY <2>2, <4>1, <4>2, <4>4
      <4> QED
          BY <4>5 DEF Creating
    <3> QED
        BY <2>1, <2>2, <3>1, <3>2, <3>3, <3>4 DEF Creating
  <2>3. CASE UNCHANGED <<in, token_number, ctx, variant>>
      BY <1>1, <2>3
  <2> QED
      BY <1>2, <2>2, <2>3, VisitMoves
<1>3. CASE Answer
    BY <1>1, <1>3 DEF Answer, End
<1>4. CASE UNCHANGED avars
    BY <1>1, <1>4 DEF avars
<1> QED
    BY <1>2, <1>3, <1>4 DEF ANext

\* The n numbers at are those of the set S, from the first to the last.
InOrder(at, n, S) ==
    /\ at \in [1 .. n -> S]
    /\ \A k, l \in 1 .. n : k < l => at[k] < at[l]
    /\ \A x \in S : \E k \in 1 .. n : at[k] = x

\* What stands in order is counted: the k-th of S is at[k].
LEMMA NthOf ==
    ASSUME NEW at, NEW n \in Nat, NEW S \in SUBSET Nat, InOrder(at, n, S)
    PROVE  Cardinality(S) = n /\ \A k \in 1 .. n : Nth(S, k) = at[k]
<1>1. /\ at \in [1 .. n -> S]
      /\ \A k, l \in 1 .. n : k < l => at[k] < at[l]
      /\ \A x \in S : \E k \in 1 .. n : at[k] = x
    BY DEF InOrder
<1>2. \A k, l \in 1 .. n : at[k] = at[l] => k = l
  <2> SUFFICES ASSUME NEW k \in 1 .. n, NEW l \in 1 .. n, at[k] = at[l], k # l PROVE FALSE
      OBVIOUS
  <2>1. k < l \/ l < k
      OBVIOUS
  <2>2. at[k] < at[l] \/ at[l] < at[k]
      BY <1>1, <2>1
  <2>3. at[k] \in S
      BY <1>1
  <2>4. at[k] \in Nat
      BY <2>3
  <2> QED
      BY <2>2, <2>4
<1>3. at \in Bijection(1 .. n, S)
    BY <1>1, <1>2 DEF Bijection, Injection, Surjection, IsInjective
<1>4. ASSUME NEW k \in Nat PROVE Cardinality(1 .. k) = k /\ IsFiniteSet(1 .. k)
  <2>1. /\ IsFiniteSet(1 .. k)
        /\ Cardinality(1 .. k) = IF 1 > k THEN 0 ELSE k - 1 + 1
      BY FS_Interval
  <2> QED
      BY <2>1
<1>5. Cardinality(S) = n
  <2>1. IsFiniteSet(1 .. n) /\ Cardinality(1 .. n) = n
      BY <1>4
  <2> QED
      BY <1>3, <2>1, FS_Bijection DEF ExistsBijection
<1>6. ASSUME NEW k \in 1 .. n
      PROVE  Cardinality({j \in S : j <= at[k]}) = k
  <2> DEFINE below == {j \in S : j <= at[k]}
             first == [l \in 1 .. k |-> at[l]]
  <2>1. \A l \in 1 .. k : l \in 1 .. n /\ at[l] \in below
    <3> SUFFICES ASSUME NEW l \in 1 .. k PROVE l \in 1 .. n /\ at[l] \in below
        OBVIOUS
    <3>1. l \in 1 .. n /\ (l = k \/ l < k)
        BY <1>6
    <3>2. at[l] \in S /\ at[k] \in Nat /\ at[l] \in Nat
        BY <1>1, <3>1
    <3>3. at[l] <= at[k]
        BY <1>1, <3>1, <3>2
    <3> QED
        BY <3>1, <3>2, <3>3
  <2>2. \A j \in below : \E l \in 1 .. k : at[l] = j
    <3> SUFFICES ASSUME NEW j \in below PROVE \E l \in 1 .. k : at[l] = j
        OBVIOUS
    <3>1. PICK l \in 1 .. n : at[l] = j
        BY <1>1
    <3>2. ~(k < l)
      <4>1. at[l] \in Nat /\ at[k] \in Nat /\ at[l] <= at[k]
          BY <1>1, <3>1
      <4> QED
          BY <1>1, <3>1, <4>1
    <3>3. l \in 1 .. k
        BY <3>2
    <3> QED
        BY <3>1, <3>3
  <2> HIDE DEF below
  <2>3. first \in [1 .. k -> below]
      BY <2>1
  <2>4. \A l \in 1 .. k : first[l] = at[l]
      OBVIOUS
  <2> HIDE DEF first
  <2>5. first \in Injection(1 .. k, below)
      BY <1>2, <2>1, <2>3, <2>4 DEF Injection, IsInjective
  <2>6. first \in Surjection(1 .. k, below)
      BY <2>2, <2>3, <2>4 DEF Surjection
  <2>7. ExistsBijection(1 .. k, below)
      BY <2>5, <2>6 DEF ExistsBijection, Bijection
  <2>8. Cardinality(below) = k
    <3>1. IsFiniteSet(1 .. k) /\ Cardinality(1 .. k) = k
        BY <1>4
    <3> QED
        BY <2>7, <3>1, FS_Bijection
  <2> QED
      BY <2>8 DEF below
<1>7. ASSUME NEW k \in 1 .. n
      PROVE  Nth(S, k) = at[k]
  <2>1. \A i \in S : Cardinality({j \in S : j <= i}) = k => i = at[k]
    <3> SUFFICES ASSUME NEW i \in S, Cardinality({j \in S : j <= i}) = k PROVE i = at[k]
        OBVIOUS
    <3>1. PICK l \in 1 .. n : at[l] = i
        BY <1>1
    <3>2. l = k
        BY <1>6, <3>1
    <3> QED
        BY <3>1, <3>2
  <2>2. at[k] \in S /\ Cardinality({j \in S : j <= at[k]}) = k
      BY <1>1, <1>6
  <2> QED
      BY <2>1, <2>2 DEF Nth
<1> QED
    BY <1>5, <1>7

\* The columns a CREATE TABLE got are those of the grammar.
LEMMA NamedAre ==
    ASSUME NEW s, Len(s) - 2 \in Nat, NEW cols, Named(s, Len(s) - 2, cols)
    PROVE  cols = [k \in 1 .. Cardinality(NewNames(s)) |-> ColumnAt(s, Nth(NewNames(s), k))]
<1>1. PICK m \in Nat : m = Len(s) - 2
    OBVIOUS
<1>2. PICK n \in Nat : \E at \in [1 .. n -> 5 .. m] : NamedBy(at, n, s, m, cols)
    BY <1>1 DEF Named
<1>3. PICK at \in [1 .. n -> 5 .. m] : NamedBy(at, n, s, m, cols)
    BY <1>2
<1>4. /\ \A k, l \in 1 .. n : k < l => at[k] < at[l]
      /\ \A k \in 1 .. n : /\ IsName(s[at[k]])
                           /\ \A i \in 5 .. at[k] - 1 : ~NameAt(s, i, s[at[k]][2])
      /\ cols = [k \in 1 .. n |-> ColumnAt(s, at[k])]
      /\ \A i \in 5 .. m : IsName(s[i]) => \E k \in 1 .. n : s[at[k]][2] = s[i][2]
    BY <1>3 DEF NamedBy
<1>5. \A i : i \in NewNames(s) <=> /\ i \in 5 .. m /\ IsName(s[i])
                                   /\ \A j \in 5 .. i - 1 : ~NameAt(s, j, s[i][2])
    BY <1>1 DEF NewNames
<1>6. at \in [1 .. n -> NewNames(s)]
    BY <1>3, <1>4, <1>5
<1>7. \A x \in NewNames(s) : \E k \in 1 .. n : at[k] = x
  <2> SUFFICES ASSUME NEW x \in NewNames(s) PROVE \E k \in 1 .. n : at[k] = x
      OBVIOUS
  <2>1. x \in 5 .. m /\ IsName(s[x]) /\ \A j \in 5 .. x - 1 : ~NameAt(s, j, s[x][2])
      BY <1>5
  <2>2. PICK k \in 1 .. n : s[at[k]][2] = s[x][2]
      BY <1>4, <2>1
  <2>3. PICK p \in 5 .. m : p = at[k]
      BY <1>3
  <2>4. IsName(s[p]) /\ \A i \in 5 .. p - 1 : ~NameAt(s, i, s[p][2])
      BY <1>4, <2>3
  <2>5. ~(p < x)
    <3>1. ASSUME p < x PROVE FALSE
      <4>1. p \in 5 .. x - 1
          BY <2>1, <3>1
      <4> QED
          BY <2>1, <2>2, <2>3, <2>4, <4>1 DEF NameAt
    <3> QED
        BY <3>1
  <2>6. ~(x < p)
    <3>1. ASSUME x < p PROVE FALSE
      <4>1. x \in 5 .. p - 1
          BY <2>1, <3>1
      <4> QED
          BY <2>1, <2>2, <2>3, <2>4, <4>1 DEF NameAt
    <3> QED
        BY <3>1
  <2> QED
      BY <2>1, <2>3, <2>5, <2>6
<1>8. InOrder(at, n, NewNames(s)) /\ NewNames(s) \in SUBSET Nat
  <2>1. NewNames(s) \in SUBSET Nat
      BY <1>5
  <2> QED
      BY <1>4, <1>6, <1>7, <2>1 DEF InOrder
<1>9. Cardinality(NewNames(s)) = n /\ \A k \in 1 .. n : Nth(NewNames(s), k) = at[k]
    BY <1>8, NthOf
<1> QED
    BY <1>4, <1>9

\* What may come in a list of columns after a token, if not a comma.
LEMMA AfterToken ==
    ASSUME NEW s, NEW i \in Int, ColumnToken(s, i), s[i] # COMA
    PROVE  /\ s[i - 1] \in {OPENING_PAR, COMA} => IsType(s[i])
           /\ IsType(s[i - 1]) => IF s[i - 1] = Type("STR") THEN s[i][1] = "UInt" ELSE IsName(s[i])
           /\ s[i - 1][1] = "UInt" => IsName(s[i])
           /\ ~IsName(s[i - 1])
BY DEF ColumnToken, OPENING_PAR, COMA, Sym, Type, IsType, IsName

\* A part of a sequence, place by place.
LEMMA Part ==
    ASSUME NEW s, s \in Seq({s[i] : i \in DOMAIN s}), NEW a \in 1 .. Len(s), NEW b \in 1 .. Len(s),
           a <= b
    PROVE  \E c : /\ c = SubSeq(s, a, b)
                  /\ Len(c) = b - a + 1
                  /\ \A k \in 1 .. b - a + 1 : c[k] = s[a + k - 1]
<1>1. PICK T : s \in Seq(T)
    OBVIOUS
<1>2. /\ Len(SubSeq(s, a, b)) = b - a + 1
      /\ SubSeq(s, a, b) = [k \in 1 .. b - a + 1 |-> s[a + k - 1]]
    BY <1>1
<1> QED
    BY <1>2

\* The tokens between two separators, the last of them a name.
LEMMA ColumnBetween ==
    ASSUME NEW s, NEW i \in Nat, NEW j \in Nat, i + 1 < j, s[i] \in {OPENING_PAR, COMA},
           \A k \in i + 1 .. j - 1 : s[k] # COMA /\ ColumnToken(s, k), IsName(s[j - 1]),
           NEW c, Len(c) = j - 1 - i, \A k \in 1 .. j - 1 - i : c[k] = s[i + k]
    PROVE  IsColumn(c)
<1>1. i + 1 \in i + 1 .. j - 1 /\ j - 1 \in i + 1 .. j - 1 /\ i + 1 - 1 = i
    OBVIOUS
<1>2. IsType(s[i + 1])
  <2>1. ColumnToken(s, i + 1) /\ s[i + 1] # COMA
      BY <1>1
  <2>2. s[i + 1 - 1] \in {OPENING_PAR, COMA}
      BY <1>1
  <2> QED
      BY <2>1, <2>2, AfterToken
<1>3. j - 1 # i + 1
    BY <1>2 DEF IsType, IsName
<1>4. i + 2 \in i + 1 .. j - 1 /\ i + 2 - 1 = i + 1
    BY <1>1, <1>3
<1>5. IF s[i + 1] = Type("STR") THEN s[i + 2][1] = "UInt" ELSE IsName(s[i + 2])
  <2>1. ColumnToken(s, i + 2) /\ s[i + 2] # COMA
      BY <1>4
  <2> QED
      BY <1>2, <1>4, <2>1, AfterToken
<1>6. \A k \in i + 1 .. j - 1 : IsName(s[k]) => k = j - 1
  <2> SUFFICES ASSUME NEW k \in i + 1 .. j - 1, IsName(s[k]), k # j - 1 PROVE FALSE
      OBVIOUS
  <2>1. k + 1 \in i + 1 .. j - 1 /\ k + 1 - 1 = k /\ k + 1 \in Int
      OBVIOUS
  <2>2. ColumnToken(s, k + 1) /\ s[k + 1] # COMA
      BY <2>1
  <2> QED
      BY <2>1, <2>2, AfterToken
<1>7. CASE s[i + 1] # Type("STR")
  <2>1. j - 1 = i + 2
      BY <1>4, <1>5, <1>6, <1>7
  <2>2. j - 1 - i = 2
      BY <2>1
  <2>3. Len(c) = 2 /\ c[1] = s[i + 1] /\ c[2] = s[i + 2]
      BY <2>2
  <2> QED
      BY <1>2, <1>5, <1>7, <2>3 DEF IsColumn
<1>8. CASE s[i + 1] = Type("STR")
  <2>1. s[i + 2][1] = "UInt"
      BY <1>5, <1>8
  <2>2. j - 1 # i + 2
      BY <2>1 DEF IsName
  <2>3. i + 3 \in i + 1 .. j - 1 /\ i + 3 - 1 = i + 2 /\ i + 3 \in Int
      BY <1>4, <2>2
  <2>4. IsName(s[i + 3])
    <3>1. ColumnToken(s, i + 3) /\ s[i + 3] # COMA
        BY <2>3
    <3>2. s[i + 3 - 1][1] = "UInt"
        BY <2>1, <2>3
    <3> QED
        BY <2>3, <3>1, <3>2, AfterToken
  <2>5. j - 1 = i + 3
      BY <1>6, <2>3, <2>4
  <2>6. j - 1 - i = 3
      BY <2>5
  <2>7. Len(c) = 3 /\ c[1] = s[i + 1] /\ c[2] = s[i + 2] /\ c[3] = s[i + 3]
      BY <2>6
  <2> QED
      BY <1>8, <2>1, <2>4, <2>7 DEF IsColumn
<1> QED
    BY <1>7, <1>8

\* Token by token, what stands between two separators is a column.
LEMMA ColumnsBetween ==
    ASSUME NEW s, s \in Seq({s[i] : i \in DOMAIN s}), IsListOf(s, "CREATE", "TABLE"),
           \A i \in 5 .. Len(s) - 2 : ColumnToken(s, i), ColumnDone(s[Len(s) - 2])
    PROVE  IsCreateTable(s)
<1>1. PICK e \in Nat : e = Len(s) - 1 /\ e > 5 /\ Len(s) = e + 1 /\ Len(s) - 2 = e - 1
  <2>1. Len(s) \in Nat
      OBVIOUS
  <2>2. Len(s) > 6
      BY DEF IsListOf
  <2>3. PICK n \in Nat : n = Len(s)
      BY <2>1
  <2>4. n - 1 \in Nat /\ n - 1 > 5 /\ n = n - 1 + 1 /\ n - 2 = n - 1 - 1
      BY <2>2, <2>3
  <2> QED
      BY <2>3, <2>4
<1>2. s[4] = OPENING_PAR
    BY DEF IsListOf
<1>3. \A i \in 5 .. e - 1 : ColumnToken(s, i)
    BY <1>1
<1>4. ASSUME NEW i \in Separators(s), NEW j \in Separators(s), Neighbours(s, i, j)
      PROVE  \/ IsColumn(SubSeq(s, i + 1, j - 1))
             \/ s[i] = COMA /\ j = i + 1 /\ j = Len(s) - 1
  <2>1. i \in Nat /\ j \in Nat /\ i >= 4 /\ i < j /\ j <= e
      BY <1>1, <1>4 DEF Separators, Neighbours
  <2>2. s[i] \in {OPENING_PAR, COMA}
    <3>1. i # Len(s) - 1
        BY <1>1, <2>1
    <3>2. i = 4 \/ s[i] = COMA
        BY <1>4, <3>1 DEF Separators
    <3> QED
        BY <1>2, <3>2
  <2>3. \A k \in i + 1 .. j - 1 : s[k] # COMA /\ ColumnToken(s, k)
    <3>1. \A k \in i + 1 .. j - 1 : k \in 5 .. e - 1
        BY <2>1
    <3> QED
        BY <1>3, <1>4, <3>1 DEF Neighbours
  <2>4. ColumnDone(s[j - 1]) /\ (j # e => IsName(s[j - 1]))
    <3>1. CASE j = e
        BY <1>1, <3>1
    <3>2. CASE j # e
      <4>1. j \in 5 .. e - 1 /\ s[j] = COMA
          BY <1>1, <1>4, <2>1, <3>2 DEF Separators
      <4>2. ColumnToken(s, j)
          BY <1>3, <4>1
      <4>3. IsName(s[j - 1])
          BY <4>1, <4>2 DEF ColumnToken, COMA, Sym, IsType, IsName
      <4> QED
          BY <4>3 DEF ColumnDone
    <3> QED
        BY <3>1, <3>2
  <2>5. CASE j = i + 1
    <3>1. s[i] = COMA /\ j = e
        BY <2>1, <2>2, <2>4, <2>5 DEF ColumnDone, OPENING_PAR, COMA, Sym, IsName
    <3> QED
        BY <1>1, <2>5, <3>1
  <2>6. CASE j # i + 1
    <3>1. i + 1 \in i + 1 .. j - 1 /\ j - 1 \in i + 1 .. j - 1 /\ i + 1 - 1 = i
        BY <2>1, <2>6
    <3>2. IsName(s[j - 1])
        BY <2>3, <2>4, <3>1 DEF ColumnDone
    <3>3. ColumnToken(s, i + 1) /\ j \in Nat /\ i + 1 < j
        BY <2>1, <2>3, <2>6, <3>1
    <3>4. i + 1 \in 1 .. Len(s) /\ j - 1 \in 1 .. Len(s) /\ i + 1 <= j - 1
      <4>1. i + 1 \in 1 .. e + 1 /\ j - 1 \in 1 .. e + 1 /\ i + 1 <= j - 1
          BY <2>1, <3>1
      <4> QED
          BY <1>1, <4>1
    <3>5. PICK c : /\ c = SubSeq(s, i + 1, j - 1)
                   /\ Len(c) = j - 1 - (i + 1) + 1
                   /\ \A k \in 1 .. j - 1 - (i + 1) + 1 : c[k] = s[i + 1 + k - 1]
        BY <3>4, Part
    <3>6. j - 1 - (i + 1) + 1 = j - 1 - i /\ \A k \in Int : i + 1 + k - 1 = i + k
        BY <2>1
    <3>7. Len(c) = j - 1 - i
        BY <3>5, <3>6
    <3>8. ASSUME NEW k \in 1 .. j - 1 - i PROVE c[k] = s[i + k]
      <4>1. k \in 1 .. j - 1 - (i + 1) + 1 /\ i + 1 + k - 1 = i + k
          BY <3>6
      <4>2. c[k] = s[i + 1 + k - 1]
          BY <3>5, <4>1
      <4> QED
          BY <4>1, <4>2
    <3>9. IsColumn(c)
        BY <2>1, <2>2, <2>3, <3>2, <3>3, <3>7, <3>8, ColumnBetween
    <3>10. c = SubSeq(s, i + 1, j - 1)
        BY <3>5
    <3> QED
        BY <3>9, <3>10
  <2> QED
      BY <2>5, <2>6
<1> QED
    BY <1>4 DEF IsCreateTable

\* A table is created by the sentence that means it only, with the columns that
\* are named, in their order, and of two of one name the first.
TableIsMeant ==
    outcome = "action" /\ variant.kind = "CreateTable"
        => IsCreateTable(in) /\ variant = CreateTableOf(in)

\* A CREATE TABLE that is answered is the sentence that means it.
LEMMA TableEnds ==
    ASSUME AInv, Creating, IsSequence
    PROVE  TableIsMeant
<1> SUFFICES ASSUME outcome = "action", variant.kind = "CreateTable"
             PROVE  IsCreateTable(in) /\ variant = CreateTableOf(in)
    BY DEF TableIsMeant
<1>1. ctx = "CreateTableE" /\ token_number = Len(in)
    BY DEF AInv, Counted, Made, Changing, KindOf
<1>2. token_number \in Nat /\ token_number >= 3 /\ Token(token_number) = None
    BY <1>1, ListEnds DEF Lists
<1>3. ~(Tabled(token_number) /\ MayBeNext(token_number))
  <2>1. ASSUME Tabled(token_number), MayBeNext(token_number) PROVE FALSE
    <3>1. token_number # 3
        BY <1>2, <2>1, ColumnTags DEF Tabled
    <3> QED
        BY <1>1, <1>2, <2>1, <3>1, ColumnTags DEF MayBeNext
  <2> QED
      BY <2>1
<1>4. PICK m \in Nat : Tabled(m) /\ Behind(m) /\ ColumnDone(in[m])
    BY <1>1, <1>2, <1>3 DEF Creating
<1>5. Len(in) = m + 2 /\ Token(2) = in[3] /\ IsListOf(in, "CREATE", "TABLE")
  <2>1. RootOf[ctx] = "CREATE" /\ ObjectOf[ctx] = "TABLE" /\ ctx \in Lists
      BY <1>1 DEF RootOf, ObjectOf, Lists
  <2> QED
      BY <1>1, <1>4, <2>1, ListFramed
<1>6. Len(in) - 2 = m
    BY <1>5
<1>7. IsCreateTable(in)
  <2>1. \A i \in 5 .. Len(in) - 2 : ColumnToken(in, i)
      BY <1>4, <1>6 DEF Tabled
  <2>2. ColumnDone(in[Len(in) - 2])
      BY <1>4, <1>6
  <2>3. in \in Seq({in[i] : i \in DOMAIN in})
      BY DEF IsSequence
  <2> QED
      BY <1>5, <2>1, <2>2, <2>3, ColumnsBetween
<1>8. PICK cols : variant = CreateTable(Token(2)[2], cols) /\ Named(in, m, cols)
    BY <1>4 DEF Tabled
<1>9. Named(in, Len(in) - 2, cols) /\ Len(in) - 2 \in Nat
    BY <1>6, <1>8
<1>10. variant = CreateTableOf(in)
    BY <1>5, <1>8, <1>9, NamedAre DEF CreateTableOf
<1> QED
    BY <1>7, <1>10

\* For every set of sentences in which a string type has its size: a table is
\* created by CREATE TABLE table (columns); only, whose columns have their
\* type and their name; none is lost and none comes twice.
THEOREM TableMeans == ASpec => []TableIsMeant
<1>1. AInit => Creating /\ IsSequence
    BY SentencesAssumption DEF AInit, Creating, IsSequence
<1> QED
    BY <1>1, TableEnds, InitAInv, StepAInv, StepCreating, StepIsSequence, PTL DEF ASpec

-----------------------------------------------------------------------------
(* The columns and conditions of a SELECT. *)

\* The columns named up to place m, one by one.
ColumnsUpTo(s, m, cols) ==
    \E n \in Nat : \E at : /\ InOrder(at, n, SubsUpTo(s, m))
                           /\ cols = [k \in 1 .. n |-> s[at[k]][2]]

\* The literals between the places w and m, each with the column and the
\* operator before it.
ConditionsIn(s, w, m, conds) ==
    \E n \in Nat : \E at :
        /\ InOrder(at, n, LiteralsIn(s, w, m))
        /\ conds = [k \in 1 .. n |-> ConditionAt(s, at[k])]

\* The WHERE that ends the columns is not among the places up to m.
IsWhere(s, i) == s[i] = Kw("WHERE") /\ IsSub(s[i - 1])
NoWhere(s, m) == \A i \in 2 .. m : i <= Len(s) => ~IsWhere(s, i)

SelectContexts == {"SelectE", "WhereE"}

\* A SELECT before its WHERE, and behind the WHERE at place w.
BeforeWhere(cols) ==
    /\ variant = Show_Select(in[2][2], cols, <<>>)
    /\ ColumnsUpTo(in, token_number, cols)
    /\ NoWhere(in, token_number + 1)

AfterWhere(w, cols, conds) ==
    /\ w >= 2 /\ w <= Len(in) /\ w <= token_number + 1
    /\ IsWhere(in, w) /\ NoWhere(in, w - 1)
    /\ variant = Show_Select(in[2][2], cols, conds)
    /\ ColumnsUpTo(in, w - 1, cols)
    /\ ConditionsIn(in, w, token_number, conds)

\* What a SELECT has reached.
Selecting ==
    /\ variant.kind = "Show_Select" => ctx \in SelectContexts
    /\ ctx \in SelectContexts => in[1] = Kw("USING") /\ IsName(in[2])
    /\ ctx = "SelectE" => \E cols : BeforeWhere(cols)
    /\ ctx = "WhereE" => \E w \in Nat : \E cols, conds : AfterWhere(w, cols, conds)

-----------------------------------------------------------------------------
\* A number behind the others comes last.
LEMMA OneMore ==
    ASSUME NEW at, NEW n \in Nat, NEW S \in SUBSET Nat, NEW x \in Nat, InOrder(at, n, S),
           \A y \in S : y < x
    PROVE  InOrder([k \in 1 .. n + 1 |-> IF k = n + 1 THEN x ELSE at[k]], n + 1, S \cup {x})
<1> DEFINE to == [k \in 1 .. n + 1 |-> IF k = n + 1 THEN x ELSE at[k]]
<1>1. \A k \in 1 .. n + 1 : k \in 1 .. n \/ k = n + 1
    OBVIOUS
<1>2. \A k \in 1 .. n : k \in 1 .. n + 1 /\ to[k] = at[k] /\ at[k] \in S
    BY DEF InOrder
<1>3. to[n + 1] = x /\ n + 1 \in 1 .. n + 1
    OBVIOUS
<1>4. to \in [1 .. n + 1 -> S \cup {x}]
    BY DEF InOrder
<1> HIDE DEF to
<1>5. ASSUME NEW k \in 1 .. n + 1, NEW l \in 1 .. n + 1, k < l
      PROVE  to[k] < to[l]
  <2>1. k \in 1 .. n
      BY <1>5
  <2>2. CASE l \in 1 .. n
      BY <1>2, <1>5, <2>1, <2>2 DEF InOrder
  <2>3. CASE l = n + 1
      BY <1>2, <1>3, <2>1, <2>3
  <2> QED
      BY <1>1, <2>2, <2>3
<1>6. ASSUME NEW y \in S \cup {x} PROVE \E k \in 1 .. n + 1 : to[k] = y
  <2>1. CASE y \in S
    <3>1. PICK k \in 1 .. n : at[k] = y
        BY <2>1 DEF InOrder
    <3> QED
        BY <1>2, <3>1
  <2>2. CASE y = x
      BY <1>3, <2>2
  <2> QED
      BY <2>1, <2>2
<1>7. InOrder(to, n + 1, S \cup {x})
    BY <1>4, <1>5, <1>6 DEF InOrder
<1> QED
    BY <1>7 DEF to

\* Nothing is in the order of nothing.
LEMMA NoneInOrder ==
    ASSUME NEW S, S = {}
    PROVE  InOrder(<<>>, 0, S)
BY DEF InOrder

\* Before the first column there is none.
LEMMA NoColumns ==
    ASSUME NEW s, NEW m \in Nat, \A i \in 1 .. m : ~IsSub(s[i])
    PROVE  ColumnsUpTo(s, m, <<>>)
<1>1. SubsUpTo(s, m) = {}
    BY DEF SubsUpTo
<1>2. InOrder(<<>>, 0, SubsUpTo(s, m))
    BY <1>1, NoneInOrder
<1>3. <<>> = [k \in 1 .. 0 |-> s[<<>>[k]][2]]
    OBVIOUS
<1>4. 0 \in Nat
    OBVIOUS
<1>5. \E at : InOrder(at, 0, SubsUpTo(s, m)) /\ <<>> = [k \in 1 .. 0 |-> s[at[k]][2]]
    BY <1>2, <1>3
<1> QED
    BY <1>4, <1>5 DEF ColumnsUpTo

\* At WHERE there is no condition yet.
LEMMA NoConditions ==
    ASSUME NEW s, NEW w \in Nat, NEW m \in Nat, m <= w
    PROVE  ConditionsIn(s, w, m, <<>>)
<1>1. LiteralsIn(s, w, m) = {}
    BY DEF LiteralsIn
<1>2. InOrder(<<>>, 0, LiteralsIn(s, w, m))
    BY <1>1, NoneInOrder
<1>3. <<>> = [k \in 1 .. 0 |-> ConditionAt(s, <<>>[k])]
    OBVIOUS
<1>4. 0 \in Nat
    OBVIOUS
<1>5. \E at : InOrder(at, 0, LiteralsIn(s, w, m)) /\ <<>> = [k \in 1 .. 0 |-> ConditionAt(s, at[k])]
    BY <1>2, <1>3
<1> QED
    BY <1>4, <1>5 DEF ConditionsIn

\* One more column.
LEMMA ColumnsGrow ==
    ASSUME NEW s, NEW m \in Nat, NEW cols, ColumnsUpTo(s, m, cols)
    PROVE  /\ IsSub(s[m + 1]) => ColumnsUpTo(s, m + 1, Append(cols, s[m + 1][2]))
           /\ ~IsSub(s[m + 1]) => ColumnsUpTo(s, m + 1, cols)
<1>1. PICK n \in Nat : \E at : /\ InOrder(at, n, SubsUpTo(s, m))
                               /\ cols = [k \in 1 .. n |-> s[at[k]][2]]
    BY DEF ColumnsUpTo
<1>2. PICK at : InOrder(at, n, SubsUpTo(s, m)) /\ cols = [k \in 1 .. n |-> s[at[k]][2]]
    BY <1>1
<1>3. ASSUME IsSub(s[m + 1])
      PROVE  ColumnsUpTo(s, m + 1, Append(cols, s[m + 1][2]))
  <2> DEFINE to == [k \in 1 .. n + 1 |-> IF k = n + 1 THEN m + 1 ELSE at[k]]
  <2>1. SubsUpTo(s, m + 1) = SubsUpTo(s, m) \cup {m + 1}
      BY <1>3 DEF SubsUpTo
  <2>2. SubsUpTo(s, m) \in SUBSET Nat /\ \A y \in SubsUpTo(s, m) : y < m + 1
      BY DEF SubsUpTo
  <2>3. InOrder(to, n + 1, SubsUpTo(s, m + 1))
      BY <1>2, <2>1, <2>2, OneMore
  <2>4. \A k \in 1 .. n + 1 : to[k] = IF k = n + 1 THEN m + 1 ELSE at[k]
      OBVIOUS
  <2> HIDE DEF to
  <2>5. Append(cols, s[m + 1][2])
            = [k \in 1 .. n + 1 |-> IF k = n + 1 THEN s[m + 1][2] ELSE s[at[k]][2]]
      BY <1>2
  <2>6. Append(cols, s[m + 1][2]) = [k \in 1 .. n + 1 |-> s[to[k]][2]]
      BY <2>4, <2>5
  <2>7. n + 1 \in Nat
      OBVIOUS
  <2> QED
      BY <2>3, <2>6, <2>7 DEF ColumnsUpTo
<1>4. ASSUME ~IsSub(s[m + 1])
      PROVE  ColumnsUpTo(s, m + 1, cols)
  <2>1. \A i \in 1 .. m + 1 : i \in 1 .. m \/ i = m + 1
      OBVIOUS
  <2>2. SubsUpTo(s, m + 1) = SubsUpTo(s, m)
      BY <1>4, <2>1 DEF SubsUpTo
  <2> QED
      BY <1>2, <2>2 DEF ColumnsUpTo
<1> QED
    BY <1>3, <1>4

\* One more condition.
LEMMA ConditionsGrow ==
    ASSUME NEW s, NEW w \in Nat, NEW m \in Nat, w <= m + 1, NEW conds, ConditionsIn(s, w, m, conds)
    PROVE  /\ IsLiteral(s[m + 1]) /\ w <= m =>
                  ConditionsIn(s, w, m + 1, Append(conds, <<s[m - 1][2], s[m][2], s[m + 1]>>))
           /\ ~IsLiteral(s[m + 1]) => ConditionsIn(s, w, m + 1, conds)
<1>1. PICK n \in Nat : \E at : /\ InOrder(at, n, LiteralsIn(s, w, m))
                               /\ conds = [k \in 1 .. n |-> ConditionAt(s, at[k])]
    BY DEF ConditionsIn
<1>2. PICK at : InOrder(at, n, LiteralsIn(s, w, m)) /\ conds = [k \in 1 .. n |-> ConditionAt(s, at[k])]
    BY <1>1
<1>3. ASSUME IsLiteral(s[m + 1]), w <= m
      PROVE  ConditionsIn(s, w, m + 1, Append(conds, <<s[m - 1][2], s[m][2], s[m + 1]>>))
  <2> DEFINE to == [k \in 1 .. n + 1 |-> IF k = n + 1 THEN m + 1 ELSE at[k]]
  <2>1. LiteralsIn(s, w, m + 1) = LiteralsIn(s, w, m) \cup {m + 1}
      BY <1>3 DEF LiteralsIn
  <2>2. LiteralsIn(s, w, m) \in SUBSET Nat /\ \A y \in LiteralsIn(s, w, m) : y < m + 1
      BY DEF LiteralsIn
  <2>3. InOrder(to, n + 1, LiteralsIn(s, w, m + 1))
    <3>1. InOrder(at, n, LiteralsIn(s, w, m)) /\ m + 1 \in Nat
        BY <1>2
    <3>2. InOrder(to, n + 1, LiteralsIn(s, w, m) \cup {m + 1})
        BY <2>2, <3>1, OneMore
    <3> QED
        BY <2>1, <3>2
  <2>4. \A k \in 1 .. n + 1 : to[k] = IF k = n + 1 THEN m + 1 ELSE at[k]
      OBVIOUS
  <2>5. ConditionAt(s, m + 1) = <<s[m - 1][2], s[m][2], s[m + 1]>>
    <3>1. m + 1 - 2 = m - 1 /\ m + 1 - 1 = m
        OBVIOUS
    <3> QED
        BY <3>1 DEF ConditionAt
  <2> HIDE DEF to
  <2>6. Append(conds, ConditionAt(s, m + 1))
            = [k \in 1 .. n + 1 |-> IF k = n + 1 THEN ConditionAt(s, m + 1) ELSE ConditionAt(s, at[k])]
      BY <1>2
  <2>7. Append(conds, ConditionAt(s, m + 1)) = [k \in 1 .. n + 1 |-> ConditionAt(s, to[k])]
      BY <2>4, <2>6
  <2>8. n + 1 \in Nat
      OBVIOUS
  <2> QED
      BY <2>3, <2>5, <2>7, <2>8 DEF ConditionsIn
<1>4. ASSUME ~IsLiteral(s[m + 1])
      PROVE  ConditionsIn(s, w, m + 1, conds)
  <2>1. \A i \in w + 1 .. m + 1 : i \in w + 1 .. m \/ i = m + 1
      OBVIOUS
  <2>2. LiteralsIn(s, w, m + 1) = LiteralsIn(s, w, m)
      BY <1>4, <2>1 DEF LiteralsIn
  <2> QED
      BY <1>2, <2>2 DEF ConditionsIn
<1> QED
    BY <1>3, <1>4

-----------------------------------------------------------------------------
\* Only USING, with the name of a database, begins a SELECT.
LEMMA SelectBegins ==
    ASSUME Visit, ctx \notin SelectContexts, variant.kind # "Show_Select", "kind" \in DOMAIN variant
    PROVE  \/ ctx' \notin SelectContexts /\ variant'.kind # "Show_Select"
           \/ /\ token_number = 0 /\ curr = Kw("USING") /\ IsName(next)
              /\ Set("SelectE", Show_Select(next[2], <<>>, <<>>))
<1>1. CASE VisitCreate \/ VisitDelete \/ VisitShow \/ VisitInsert
  <2>1. ASSUME NEW root, NEW objects, Root(root, objects),
               \/ root = "CREATE" /\ objects = {"DATABASE", "TABLE"}
               \/ root = "DELETE" /\ objects = {"DATABASE", "TABLE"}
               \/ root = "SHOW" /\ objects = {"DATABASE", "DATABASES", "TABLE", "FROM"}
               \/ root = "INSERT" /\ objects = {"INTO"}
        PROVE  ctx' \notin SelectContexts /\ variant' = variant
    <3>1. CASE UNCHANGED <<ctx, variant>>
        BY <3>1
    <3>2. CASE next \in {Kw(o) : o \in objects} /\ Set(ContextOf(root, next), variant)
      <4>1. PICK o \in objects : next = Kw(o)
          BY <3>2
      <4>2. ContextOf(root, next) \notin SelectContexts
          BY <2>1, <4>1 DEF ContextOf, Kw, SelectContexts
      <4> QED
          BY <3>2, <4>2 DEF Set
    <3> QED
        BY <2>1, <3>1, <3>2 DEF Root, Expect, End
  <2> QED
      BY <1>1, <2>1 DEF VisitCreate, VisitDelete, VisitShow, VisitInsert
<1>2. CASE VisitUsing
    BY <1>2 DEF VisitUsing, At, Expect, Accept, Set, End
<1>3. CASE \/ VisitSelect \/ VisitWhere \/ VisitFrom \/ VisitColumn \/ VisitInto
           \/ VisitTable \/ VisitDatabase \/ VisitDatabases \/ VisitOtherKeyword
  <2>1. CASE UNCHANGED <<ctx, variant>>
      BY <2>1
  <2>2. CASE Accept
      BY <2>2 DEF Accept, Set
  <2>3. ASSUME NEW c, NEW w, Set(c, w), c \notin SelectContexts,
               w.kind \in {"ShowColumnValues", "ShowTableData", "ShowDatabases"}
        PROVE  ctx' \notin SelectContexts /\ variant'.kind # "Show_Select"
      BY <2>3 DEF Set
  <2>4. CASE VisitFrom
    <3>1. "Unknown" \notin SelectContexts /\ "ShowColumnValuesE" \notin SelectContexts
        BY DEF SelectContexts
    <3>2. CASE ctx = "Unknown" /\ Set(ctx, OfTable("ShowTableData", next[2]))
        BY <2>3, <3>1, <3>2, ShowKinds
    <3>3. CASE Set("ShowColumnValuesE", ShowColumnValues(next[2], nextp1[2]))
        BY <2>3, <3>1, <3>3, ShowKinds
    <3> QED
        BY <2>1, <2>2, <2>4, <3>2, <3>3 DEF VisitFrom, Expect, End
  <2>5. CASE VisitColumn
    <3>1. CASE Set(ctx, ShowColumnValues(variant.db, next[2]))
        BY <2>3, <3>1, ShowKinds
    <3> QED
        BY <2>1, <2>2, <2>5, <3>1 DEF VisitColumn, Expect, End
  <2>6. CASE VisitDatabase
    <3>1. CASE Set(ctx, ShowColumnValues("", <<next[2], "">>))
      <4> DEFINE w == ShowColumnValues("", <<next[2], "">>)
      <4>1. Set(ctx, w) /\ w.kind = "ShowColumnValues"
          BY <3>1, ShowKinds
      <4> HIDE DEF w
      <4> QED
          BY <2>3, <4>1
    <3> QED
        BY <2>1, <2>2, <2>6, <3>1 DEF VisitDatabase, Expect, End
  <2>7. CASE VisitDatabases
    <3>1. CASE Set(ctx, ShowDatabases)
        BY <2>3, <3>1, ShowKinds
    <3> QED
        BY <2>1, <2>2, <2>7, <3>1 DEF VisitDatabases, Expect, End
  <2>8. CASE VisitSelect \/ VisitWhere \/ VisitInto \/ VisitTable \/ VisitOtherKeyword
      BY <2>1, <2>2, <2>8 DEF VisitSelect, VisitWhere, VisitInto, VisitTable, VisitOtherKeyword,
                              Expect, Get, End
  <2> QED
      BY <1>3, <2>4, <2>5, <2>6, <2>7, <2>8
<1>4. CASE VisitType \/ VisitSymbol \/ VisitOperator \/ VisitUnknown
    BY <1>4 DEF VisitType, VisitSymbol, VisitOperator, VisitUnknown, Expect, Accept, Set, End
<1>5. CASE VisitBool \/ VisitString \/ VisitNumbers
  <2>1. Literal
      BY <1>5 DEF VisitBool, VisitString, VisitNumbers
  <2> QED
      BY <2>1, ExceptKeepsKind DEF Literal, InsertValue, Expect, Get, Accept, Set, End,
                                   SelectContexts
<1>6. CASE DatabaseTarget \/ TableTarget \/ SelectColumn \/ ShownColumn
  <2>1. \A c : /\ DatabaseAction[c] = "Show_Select" => c \notin DOMAIN DatabaseAction
               /\ TableAction[c] = "Show_Select" => c \notin DOMAIN TableAction
      BY DEF DatabaseAction, TableAction
  <2> QED
      BY <1>6, <2>1, ShowKinds DEF DatabaseTarget, TableTarget, SelectColumn, ShownColumn, Expect,
                Get, Accept, Set, End, SelectContexts
<1>7. CASE ListTarget \/ ColumnName \/ OtherIdentifier
  <2>1. \A ts, x : Insert(ts, x).kind # "Show_Select" /\ CreateTable(ts, x).kind # "Show_Select"
      BY DEF Insert, CreateTable
  <2> QED
      BY <1>7, <2>1, ExceptKeepsKind DEF ListTarget, ColumnName, Column, OtherIdentifier, Expect,
                Get, Accept, Set, End, SelectContexts
<1> QED
    BY <1>1, <1>2, <1>3, <1>4, <1>5, <1>6, <1>7 DEF Visit

\* What a visit may do within a SELECT.
LEMMA VisitOfSelect ==
    ASSUME Visit, ctx \in SelectContexts, token_number # 0
    PROVE  \/ UNCHANGED <<in, token_number, ctx, variant>>
           \/ /\ Accept /\ curr # None
              /\ ctx = "SelectE" => ~IsSub(curr)
              /\ ctx = "WhereE" => ~IsLiteral(curr)
           \/ ctx = "SelectE" /\ SelectColumn
           \/ ctx = "WhereE" /\ IsLiteral(curr) /\ Restriction
<1>1. CASE VisitCreate \/ VisitDelete \/ VisitShow \/ VisitInsert \/ VisitUsing
    BY <1>1 DEF VisitCreate, VisitDelete, VisitShow, VisitInsert, VisitUsing, Root, Expect, End
<1>2. CASE \/ VisitSelect \/ VisitWhere \/ VisitFrom \/ VisitColumn \/ VisitInto
           \/ VisitTable \/ VisitDatabase \/ VisitDatabases \/ VisitOtherKeyword
  <2>1. \E k : curr = Kw(k)
    <3>1. CASE VisitSelect \/ VisitWhere \/ VisitFrom \/ VisitColumn
        BY <3>1 DEF VisitSelect, VisitWhere, VisitFrom, VisitColumn, At
    <3>2. CASE VisitInto \/ VisitTable \/ VisitDatabase \/ VisitDatabases \/ VisitOtherKeyword
        BY <3>2 DEF VisitInto, VisitTable, VisitDatabase, VisitDatabases, VisitOtherKeyword, At
    <3> QED
        BY <1>2, <3>1, <3>2
  <2>2. curr # None /\ ~IsSub(curr) /\ ~IsLiteral(curr)
      BY <2>1, Tags DEF IsSub, IsLiteral
  <2>3. Accept \/ UNCHANGED <<in, token_number, ctx, variant>>
      BY <1>2 DEF VisitSelect, VisitWhere, VisitFrom, VisitColumn, VisitInto, VisitTable,
                  VisitDatabase, VisitDatabases, VisitOtherKeyword, Expect, Get, End,
                  SelectContexts
  <2> QED
      BY <2>2, <2>3
<1>3. CASE VisitType \/ VisitSymbol \/ VisitOperator \/ VisitUnknown
  <2>1. curr[1] \in {"type", "sym", "op", "unknown"}
      BY <1>3 DEF VisitType, VisitSymbol, VisitOperator, VisitUnknown, At, IsType, IsSym, IsOp
  <2>2. curr # None /\ ~IsSub(curr) /\ ~IsLiteral(curr)
      BY <2>1, Tags DEF IsSub, IsLiteral
  <2> QED
      BY <1>3, <2>2 DEF VisitType, VisitSymbol, VisitOperator, VisitUnknown, Expect, End
<1>4. CASE VisitBool \/ VisitString \/ VisitNumbers
  <2>1. Literal /\ curr[1] \in {"bool", "str", "UInt", "Int", "Double"}
      BY <1>4 DEF VisitBool, VisitString, VisitNumbers, At, IsNumber
  <2>2. curr # None /\ ~IsSub(curr) /\ IsLiteral(curr)
      BY <2>1, Tags DEF IsSub, IsLiteral
  <2> QED
      BY <2>1, <2>2 DEF Literal, SelectContexts
<1>5. CASE \/ DatabaseTarget \/ TableTarget \/ SelectColumn \/ ShownColumn
           \/ ListTarget \/ ColumnName \/ OtherIdentifier
  <2>1. (ctx = "SelectE" /\ SelectColumn) \/ OtherIdentifier
      BY <1>5 DEF DatabaseTarget, TableTarget, SelectColumn, ShownColumn, ListTarget, ColumnName,
                  SelectContexts, DatabaseAction, TableAction
  <2>2. ASSUME OtherIdentifier
        PROVE  /\ Accept /\ curr # None /\ ~IsLiteral(curr)
               /\ ctx = "SelectE" => ~IsSub(curr)
      BY <2>2, Tags DEF OtherIdentifier, At, IsIdentifier, IsName, IsSub, IsLiteral
  <2> QED
      BY <2>1, <2>2
<1> QED
    BY <1>1, <1>2, <1>3, <1>4, <1>5 DEF Visit

\* A column of the SELECT, and the WHERE behind the last one.
LEMMA ColumnSelected ==
    ASSUME AInv, Selecting, ctx = "SelectE", SelectColumn,
           token_number' # token_number
    PROVE  Selecting'
<1>1. IsSub(curr) /\ next \in {COMA, Kw("WHERE")}
      /\ Set(IF next = Kw("WHERE") THEN "WhereE" ELSE ctx,
             [variant EXCEPT !.tables = Append(@, curr[2])])
    BY DEF SelectColumn, At, Expect, Get, End
<1>2. PICK cols : BeforeWhere(cols)
    BY DEF Selecting
<1>3. PICK t \in Nat : t = token_number
    BY DEF AInv, Counted
<1>4. PICK new : new = Append(cols, curr[2])
    OBVIOUS
<1>5. IsSub(curr)
    BY DEF SelectColumn, At
<1>6. t \in Nat /\ Len(in) \in Nat
    BY DEF AInv, Counted
<1>7. curr # None /\ next # None
    BY <1>1, Tags DEF IsSub, COMA
<1>8. t + 1 <= Len(in) /\ curr = in[t + 1]
    BY <1>6, <1>7, <1>3 DEF curr, Token
<1>9. t + 2 <= Len(in) /\ next = in[t + 2]
    BY <1>6, <1>7, <1>3 DEF next, Token
<1>10. /\ in' = in /\ token_number' = t + 1 /\ variant' = Show_Select(in[2][2], new, <<>>)
      /\ ctx' = IF next = Kw("WHERE") THEN "WhereE" ELSE "SelectE"
    BY <1>1, <1>2, <1>3, <1>4 DEF Set, Show_Select, BeforeWhere
<1>11. ColumnsUpTo(in, t + 1, new)
    BY <1>2, <1>3, <1>4, <1>5, <1>6, <1>8, ColumnsGrow DEF BeforeWhere
<1>12. in'[1] = Kw("USING") /\ IsName(in'[2])
    BY <1>10 DEF Selecting, SelectContexts
<1>13. CASE next = Kw("WHERE")
  <2>1. ConditionsIn(in, t + 2, t + 1, <<>>)
    <3>1. t + 2 \in Nat /\ t + 1 \in Nat /\ t + 1 <= t + 2
        BY <1>6
    <3> QED
        BY <3>1, NoConditions
  <2>2. IsWhere(in, t + 2) /\ NoWhere(in, t + 2 - 1)
    <3>1. t + 2 - 1 = t + 1
        BY <1>6
    <3>2. IsWhere(in, t + 2)
      <4>1. IsSub(in[t + 1]) /\ in[t + 2] = Kw("WHERE")
          BY <1>8, <1>9, <1>13, <1>5
      <4> QED
          BY <3>1, <4>1 DEF IsWhere
    <3>3. NoWhere(in, t + 1)
        BY <1>2, <1>3 DEF BeforeWhere
    <3> QED
        BY <3>1, <3>2, <3>3
  <2>3. /\ t + 2 \in Nat /\ t + 2 >= 2 /\ t + 2 <= Len(in) /\ t + 2 <= t + 1 + 1
        /\ t + 2 - 1 = t + 1
      BY <1>6, <1>9
  <2>4. ctx' = "WhereE" /\ ctx' # "SelectE" /\ ctx' \in SelectContexts
      BY <1>10, <1>13 DEF SelectContexts
  <2>5. AfterWhere(t + 2, new, <<>>)'
      BY <1>10, <1>11, <2>1, <2>2, <2>3 DEF AfterWhere
  <2> QED
      BY <1>10, <1>12, <2>3, <2>4, <2>5 DEF Selecting
<1>14. CASE next # Kw("WHERE")
  <2>1. NoWhere(in, t + 1 + 1)
    <3>1. ~IsWhere(in, t + 2)
        BY <1>9, <1>14 DEF IsWhere
    <3>2. \A i \in 2 .. t + 1 + 1 : i \in 2 .. t + 1 \/ i = t + 2
        BY <1>6
    <3> QED
        BY <1>2, <1>3, <3>1, <3>2 DEF BeforeWhere, NoWhere
  <2>2. ctx' = "SelectE" /\ ctx' # "WhereE" /\ ctx' \in SelectContexts
      BY <1>10, <1>14 DEF SelectContexts
  <2>3. BeforeWhere(new)'
      BY <1>10, <1>11, <2>1 DEF BeforeWhere
  <2> QED
      BY <1>10, <1>12, <2>2, <2>3 DEF Selecting
<1> QED
    BY <1>13, <1>14

\* A condition of the SELECT.
LEMMA ConditionSelected ==
    ASSUME AInv, Selecting, ctx = "WhereE", IsLiteral(curr), Restriction,
           token_number' # token_number
    PROVE  Selecting'
<1>1. /\ IsOp(prev) /\ IsSub(prevm1)
      /\ Set(ctx, [variant EXCEPT !.restrictions = Append(@, <<prevm1[2], prev[2], curr>>)])
    BY DEF Restriction, Expect, Get, End
<1>2. PICK w \in Nat : \E cols, conds : AfterWhere(w, cols, conds)
    BY DEF Selecting
<1>3. PICK cols, conds : AfterWhere(w, cols, conds)
    BY <1>2
<1>4. PICK t \in Nat : t = token_number
    BY DEF AInv, Counted
<1>5. PICK new : new = Append(conds, <<prevm1[2], prev[2], curr>>)
    OBVIOUS
<1>6. Len(in) \in Nat
    BY DEF AInv, Counted
<1>7. curr # None /\ prev # None /\ prevm1 # None
    BY <1>1, Tags DEF IsSub, IsOp, IsLiteral
<1>8. t + 1 <= Len(in) /\ curr = in[t + 1]
    BY <1>4, <1>6, <1>7 DEF curr, Token
<1>9. prev = in[t]
    BY <1>4, <1>6, <1>7 DEF prev, Token
<1>10. prevm1 = in[t - 1]
  <2>1. t - 2 \in 0 .. Len(in) - 1 /\ prevm1 = in[t - 2 + 1]
      BY <1>4, <1>6, <1>7 DEF prevm1, Token
  <2>2. t - 2 + 1 = t - 1
      BY <1>4
  <2> QED
      BY <2>1, <2>2
<1>11. w <= t
  <2>1. w # t + 1
      BY <1>3, <1>8, Tags DEF AfterWhere, IsWhere, IsLiteral
  <2> QED
      BY <1>3, <1>4, <2>1 DEF AfterWhere
<1>12. ConditionsIn(in, w, t + 1, new)
  <2>1. ConditionsIn(in, w, t, conds) /\ w <= t + 1 /\ IsLiteral(in[t + 1])
      BY <1>3, <1>4, <1>8, <1>11 DEF AfterWhere
  <2>2. new = Append(conds, <<in[t - 1][2], in[t][2], in[t + 1]>>)
      BY <1>5, <1>8, <1>9, <1>10
  <2> QED
      BY <1>4, <1>11, <2>1, <2>2, ConditionsGrow
<1>13. /\ in' = in /\ token_number' = t + 1 /\ ctx' = ctx
       /\ variant' = Show_Select(in[2][2], cols, new)
    BY <1>1, <1>3, <1>4, <1>5 DEF Set, Show_Select, AfterWhere
<1>14. AfterWhere(w, cols, new)'
  <2>1. w <= t + 1 + 1
      BY <1>4, <1>11
  <2> QED
      BY <1>3, <1>12, <1>13, <2>1 DEF AfterWhere
<1>15. ctx' = "WhereE" /\ ctx' # "SelectE" /\ ctx' \in SelectContexts
       /\ in'[1] = Kw("USING") /\ IsName(in'[2])
    BY <1>13 DEF Selecting, SelectContexts
<1> QED
    BY <1>14, <1>15 DEF Selecting

\* Any other token of a SELECT.
LEMMA OtherOfSelect ==
    ASSUME AInv, Selecting, ctx \in SelectContexts, Accept, curr # None,
           ctx = "SelectE" => ~IsSub(curr), ctx = "WhereE" => ~IsLiteral(curr)
    PROVE  Selecting'
<1>1. PICK t \in Nat : t = token_number
    BY DEF AInv, Counted
<1>2. Len(in) \in Nat
    BY DEF AInv, Counted
<1>3. t + 1 <= Len(in) /\ curr = in[t + 1]
    BY <1>1, <1>2 DEF curr, Token
<1>4. in' = in /\ token_number' = t + 1 /\ ctx' = ctx /\ variant' = variant
    BY <1>1 DEF Accept, Set
<1>5. in'[1] = Kw("USING") /\ IsName(in'[2])
    BY <1>4 DEF Selecting
<1>6. CASE ctx = "SelectE"
  <2>1. PICK cols : BeforeWhere(cols)
      BY <1>6 DEF Selecting
  <2>2. ColumnsUpTo(in, t + 1, cols)
      BY <1>1, <1>3, <1>6, <2>1, ColumnsGrow DEF BeforeWhere
  <2>3. NoWhere(in, t + 1 + 1)
    <3>1. t + 2 - 1 = t + 1
        OBVIOUS
    <3>2. ~IsWhere(in, t + 2)
        BY <1>3, <1>6, <3>1 DEF IsWhere
    <3>3. \A i \in 2 .. t + 1 + 1 : i \in 2 .. t + 1 \/ i = t + 2
        OBVIOUS
    <3> QED
        BY <1>1, <2>1, <3>2, <3>3 DEF BeforeWhere, NoWhere
  <2>4. BeforeWhere(cols)'
      BY <1>4, <2>1, <2>2, <2>3 DEF BeforeWhere
  <2>5. ctx' = "SelectE" /\ ctx' # "WhereE"
      BY <1>4, <1>6
  <2> QED
      BY <1>5, <2>4, <2>5 DEF Selecting, SelectContexts
<1>7. CASE ctx = "WhereE"
  <2>1. PICK w \in Nat : \E cols, conds : AfterWhere(w, cols, conds)
      BY <1>7 DEF Selecting
  <2>2. PICK cols, conds : AfterWhere(w, cols, conds)
      BY <2>1
  <2>3. w <= t + 1 /\ ConditionsIn(in, w, t, conds)
      BY <1>1, <2>2 DEF AfterWhere
  <2>4. w <= t + 1 + 1 /\ ConditionsIn(in, w, t + 1, conds)
    <3>1. w <= t + 1 + 1
        BY <2>3
    <3>2. ~IsLiteral(in[t + 1])
        BY <1>3, <1>7
    <3>3. ConditionsIn(in, w, t + 1, conds)
        BY <2>3, <3>2, ConditionsGrow
    <3> QED
        BY <3>1, <3>3
  <2>5. AfterWhere(w, cols, conds)'
      BY <1>4, <2>2, <2>4 DEF AfterWhere
  <2>6. ctx' = "WhereE" /\ ctx' # "SelectE"
      BY <1>4, <1>7
  <2> QED
      BY <1>5, <2>5, <2>6 DEF Selecting, SelectContexts
<1> QED
    BY <1>6, <1>7 DEF SelectContexts

\* USING begins a SELECT, with no column yet.
LEMMA UsingBegins ==
    ASSUME AInv, token_number = 0, curr = Kw("USING"), IsName(next),
           Set("SelectE", Show_Select(next[2], <<>>, <<>>))
    PROVE  Selecting'
<1>1. Len(in) \in Nat /\ curr # None /\ next # None
    BY Tags DEF AInv, Counted, IsName
<1>2. curr = in[1] /\ next = in[2]
    BY <1>1 DEF curr, next, Token
<1>3. /\ in' = in /\ token_number' = 1 /\ ctx' = "SelectE"
      /\ variant' = Show_Select(in[2][2], <<>>, <<>>)
    BY <1>2 DEF Set
<1>4. ~IsSub(in[1])
    BY <1>2, Tags DEF IsSub
<1>5. ColumnsUpTo(in, 1, <<>>)
    BY <1>4, NoColumns
<1>6. NoWhere(in, 1 + 1)
  <2>1. 2 - 1 = 1 /\ \A i \in 2 .. 1 + 1 : i = 2
      OBVIOUS
  <2> QED
      BY <1>4, <2>1 DEF NoWhere, IsWhere
<1>7. BeforeWhere(<<>>)'
    BY <1>3, <1>5, <1>6 DEF BeforeWhere
<1>8. ctx' # "WhereE" /\ ctx' \in SelectContexts /\ in'[1] = Kw("USING") /\ IsName(in'[2])
    BY <1>2, <1>3 DEF SelectContexts
<1> QED
    BY <1>7, <1>8 DEF Selecting

\* Every step keeps what a SELECT has reached.
LEMMA StepSelecting == AInv /\ Selecting /\ [ANext]_avars => Selecting'
<1> SUFFICES ASSUME AInv, Selecting, [ANext]_avars PROVE Selecting'
    OBVIOUS
<1>1. CASE UNCHANGED <<in, token_number, ctx, variant>>
    BY <1>1 DEF Selecting, BeforeWhere, AfterWhere
<1>2. CASE Visit
  <2>1. CASE ctx \in SelectContexts
    <3>1. token_number \in Nat /\ token_number # 0
        BY <2>1 DEF AInv, Counted, SelectContexts
    <3>2. CASE token_number' # token_number
        BY <1>1, <1>2, <2>1, <3>1, <3>2, VisitOfSelect, ColumnSelected, ConditionSelected,
           OtherOfSelect
    <3>3. CASE token_number' = token_number
        BY <1>1, <1>2, <3>1, <3>3, VisitMoves
    <3> QED
        BY <3>2, <3>3
  <2>2. CASE ctx \notin SelectContexts
    <3>1. variant.kind # "Show_Select" /\ "kind" \in DOMAIN variant
        BY <2>2 DEF Selecting, AInv, Counted
    <3>2. CASE ctx' \notin SelectContexts /\ variant'.kind # "Show_Select"
        BY <3>2 DEF Selecting, SelectContexts
    <3> QED
        BY <1>2, <2>2, <3>1, <3>2, SelectBegins, UsingBegins
  <2> QED
      BY <2>1, <2>2
<1>3. CASE Answer \/ UNCHANGED avars
    BY <1>1, <1>3 DEF Answer, End, avars
<1> QED
    BY <1>2, <1>3 DEF ANext

\* The WHERE of a query is the first one behind a column.
LEMMA WhereFound ==
    ASSUME NEW s, Len(s) \in Nat
    PROVE  /\ NoWhere(s, Len(s)) => WhereAt(s) = Len(s) + 1
           /\ \A w \in Nat : w >= 2 /\ w <= Len(s) /\ IsWhere(s, w) /\ NoWhere(s, w - 1)
                                 => WhereAt(s) = w
<1> DEFINE wheres == {i \in 2 .. Len(s) : s[i] = Kw("WHERE") /\ IsSub(s[i - 1])}
<1>1. ASSUME NoWhere(s, Len(s)) PROVE WhereAt(s) = Len(s) + 1
  <2>1. wheres = {}
      BY <1>1 DEF NoWhere, IsWhere
  <2> QED
      BY <2>1 DEF WhereAt
<1>2. ASSUME NEW w \in Nat, w >= 2, w <= Len(s), IsWhere(s, w), NoWhere(s, w - 1)
      PROVE  WhereAt(s) = w
  <2>1. w \in wheres
      BY <1>2 DEF IsWhere
  <2>2. \A i \in wheres : i \in Nat /\ w <= i
    <3> SUFFICES ASSUME NEW i \in wheres, i < w PROVE FALSE
        BY <1>2
    <3>1. i \in 2 .. w - 1 /\ i <= Len(s) /\ IsWhere(s, i)
        BY <1>2 DEF IsWhere
    <3> QED
        BY <1>2, <3>1 DEF NoWhere
  <2> HIDE DEF wheres
  <2>3. \A x \in wheres : (\A y \in wheres : x <= y) => x = w
    <3> SUFFICES ASSUME NEW x \in wheres, \A y \in wheres : x <= y PROVE x = w
        OBVIOUS
    <3>1. x <= w /\ w <= x /\ x \in Nat
        BY <2>1, <2>2
    <3> QED
        BY <3>1
  <2>4. (CHOOSE x \in wheres : \A y \in wheres : x <= y) = w
      BY <2>1, <2>2, <2>3
  <2>5. wheres # {}
      BY <2>1
  <2> QED
      BY <2>4, <2>5 DEF WhereAt, Min, wheres
<1> QED
    BY <1>1, <1>2

\* Columns and conditions in order are those of the grammar.
LEMMA SelectedIs ==
    ASSUME NEW s, WhereAt(s) \in Nat, WhereAt(s) >= 1, Len(s) \in Nat, NEW cols, NEW conds,
           ColumnsUpTo(s, WhereAt(s) - 1, cols), ConditionsIn(s, WhereAt(s), Len(s), conds)
    PROVE  cols = Selected(s) /\ conds = Conditions(s)
<1>1. cols = Selected(s)
  <2> DEFINE S == SubsUpTo(s, WhereAt(s) - 1)
  <2>1. PICK n \in Nat : \E at : InOrder(at, n, S) /\ cols = [k \in 1 .. n |-> s[at[k]][2]]
      BY DEF ColumnsUpTo
  <2>2. PICK at : InOrder(at, n, S) /\ cols = [k \in 1 .. n |-> s[at[k]][2]]
      BY <2>1
  <2>3. S \in SUBSET Nat
      BY DEF SubsUpTo
  <2> HIDE DEF S
  <2>4. Cardinality(S) = n /\ \A k \in 1 .. n : Nth(S, k) = at[k]
      BY <2>2, <2>3, NthOf
  <2>5. cols = [k \in 1 .. Cardinality(S) |-> s[Nth(S, k)][2]]
      BY <2>2, <2>4
  <2> QED
      BY <2>5 DEF Selected, S
<1>2. conds = Conditions(s)
  <2> DEFINE S == LiteralsIn(s, WhereAt(s), Len(s))
  <2>1. PICK n \in Nat : \E at : /\ InOrder(at, n, S)
                                 /\ conds = [k \in 1 .. n |-> ConditionAt(s, at[k])]
      BY DEF ConditionsIn
  <2>2. PICK at : InOrder(at, n, S) /\ conds = [k \in 1 .. n |-> ConditionAt(s, at[k])]
      BY <2>1
  <2>3. S \in SUBSET Nat
      BY DEF LiteralsIn
  <2> HIDE DEF S
  <2>4. Cardinality(S) = n /\ \A k \in 1 .. n : Nth(S, k) = at[k]
      BY <2>2, <2>3, NthOf
  <2>5. conds = [k \in 1 .. Cardinality(S) |-> ConditionAt(s, Nth(S, k))]
      BY <2>2, <2>4
  <2> QED
      BY <2>5 DEF Conditions, S
<1> QED
    BY <1>1, <1>2

\* A SELECT that is answered has the columns and the conditions of the query.
LEMMA SelectEnds ==
    ASSUME AInv, Selecting
    PROVE  SelectKeepsItsConditions
<1> SUFFICES ASSUME outcome = "action", variant.kind = "Show_Select"
             PROVE  in[1] = Kw("USING") /\ IsName(in[2]) /\ variant = SelectOf(in)
    BY DEF SelectKeepsItsConditions
<1>1. ctx \in SelectContexts /\ in[1] = Kw("USING") /\ IsName(in[2])
    BY DEF Selecting
<1>2. token_number = Len(in) /\ Len(in) \in Nat
    BY DEF AInv, Counted
<1>3. \E w \in Nat : \E cols, conds :
          /\ WhereAt(in) = w /\ w >= 1
          /\ variant = Show_Select(in[2][2], cols, conds)
          /\ ColumnsUpTo(in, w - 1, cols)
          /\ ConditionsIn(in, w, Len(in), conds)
  <2>1. CASE ctx = "SelectE"
    <3>1. PICK cols : BeforeWhere(cols)
        BY <2>1 DEF Selecting
    <3>2. NoWhere(in, Len(in))
        BY <1>2, <3>1 DEF BeforeWhere, NoWhere
    <3>3. WhereAt(in) = Len(in) + 1
        BY <1>2, <3>2, WhereFound
    <3>4. Len(in) + 1 - 1 = Len(in) /\ Len(in) + 1 \in Nat /\ Len(in) <= Len(in) + 1 /\ Len(in) + 1 >= 1
        BY <1>2
    <3>5. ConditionsIn(in, Len(in) + 1, Len(in), <<>>)
        BY <1>2, <3>4, NoConditions
    <3> QED
        BY <1>2, <3>1, <3>3, <3>4, <3>5 DEF BeforeWhere
  <2>2. CASE ctx = "WhereE"
    <3>1. PICK w \in Nat : \E cols, conds : AfterWhere(w, cols, conds)
        BY <2>2 DEF Selecting
    <3>2. PICK cols, conds : AfterWhere(w, cols, conds)
        BY <3>1
    <3>3. WhereAt(in) = w /\ w >= 1
        BY <1>2, <3>2, WhereFound DEF AfterWhere
    <3> QED
        BY <1>2, <3>2, <3>3 DEF AfterWhere
  <2> QED
      BY <1>1, <2>1, <2>2 DEF SelectContexts
<1>4. PICK w \in Nat : \E cols, conds :
          /\ WhereAt(in) = w /\ w >= 1
          /\ variant = Show_Select(in[2][2], cols, conds)
          /\ ColumnsUpTo(in, w - 1, cols)
          /\ ConditionsIn(in, w, Len(in), conds)
    BY <1>3
<1>5. PICK cols, conds : /\ WhereAt(in) = w /\ w >= 1
                         /\ variant = Show_Select(in[2][2], cols, conds)
                         /\ ColumnsUpTo(in, w - 1, cols)
                         /\ ConditionsIn(in, w, Len(in), conds)
    BY <1>4
<1>6. cols = Selected(in) /\ conds = Conditions(in)
    BY <1>2, <1>5, SelectedIs
<1> QED
    BY <1>1, <1>5, <1>6 DEF SelectOf

\* For every set of sentences in which a string type has its size: a SELECT
\* that is answered, whatever its words, keeps its database, and no column and
\* no condition of it is lost, moved or given to another.
THEOREM SelectKeeps == ASpec => []SelectKeepsItsConditions
<1>1. AInit => Selecting
    BY DEF AInit, Selecting, SelectContexts, NoAction
<1> QED
    BY <1>1, SelectEnds, InitAInv, StepAInv, StepSelecting, PTL DEF ASpec

-----------------------------------------------------------------------------
(* What the sentences that change something mean. *)

\* The sentences with a list mean one thing each.
LEMMA MeaningOfLists ==
    ASSUME NEW s
    PROVE  /\ IsInsert(s) => Meaning(s) = InsertOf(s)
           /\ IsCreateTable(s) => Meaning(s) = CreateTableOf(s)
<1>1. ASSUME IsInsert(s) PROVE Meaning(s) = InsertOf(s)
  <2>1. s[1] = Kw("INSERT")
      BY <1>1 DEF IsInsert, IsListOf
  <2>2. ~IsCreateTable(s) /\ ~IsSelect(s) /\ ~IsShowColumn(s) /\ ~IsShowDatabases(s)
      BY <2>1 DEF IsCreateTable, IsListOf, IsSelect, IsShowColumn, IsShowDatabases, Kw
  <2>3. ~\E k \in DOMAIN Short : IsShort(s, k)
      BY <2>1 DEF IsShort, Short, Kw
  <2> QED
      BY <1>1, <2>2, <2>3 DEF Meaning
<1>2. ASSUME IsCreateTable(s) PROVE Meaning(s) = CreateTableOf(s)
  <2>1. s[1] = Kw("CREATE") /\ s[2] = Kw("TABLE")
      BY <1>2 DEF IsCreateTable, IsListOf
  <2>2. ~IsInsert(s) /\ ~IsSelect(s) /\ ~IsShowColumn(s) /\ ~IsShowDatabases(s)
      BY <2>1 DEF IsInsert, IsListOf, IsSelect, IsShowColumn, IsShowDatabases, Kw
  <2>3. ~\E k \in DOMAIN Short : IsShort(s, k)
      BY <2>1 DEF IsShort, Short, Kw
  <2> QED
      BY <1>2, <2>2, <2>3 DEF Meaning
<1> QED
    BY <1>1, <1>2

\* A short statement means one thing.
LEMMA MeaningOfShort ==
    ASSUME NEW s, NEW k \in DOMAIN Short, IsShort(s, k)
    PROVE  Meaning(s) = ShortOf(s, k)
<1>1. /\ Len(s) = 4 /\ s[1] \in {Kw("CREATE"), Kw("DELETE"), Kw("SHOW")}
      /\ s[1] = Kw("CREATE") => s[2] = Kw("DATABASE")
      /\ s[2] # Kw("DATABASES")
    BY DEF IsShort, Short, Kw
<1>2. ~IsInsert(s) /\ ~IsCreateTable(s) /\ ~IsSelect(s) /\ ~IsShowColumn(s) /\ ~IsShowDatabases(s)
    BY <1>1 DEF IsInsert, IsCreateTable, IsListOf, IsSelect, IsShowColumn, IsShowDatabases, Kw
<1>3. \A l \in DOMAIN Short : IsShort(s, l) => l = k
    BY DEF IsShort, Short, Kw
<1>4. (CHOOSE l \in DOMAIN Short : IsShort(s, l)) = k
    BY <1>3
<1> QED
    BY <1>2, <1>4 DEF Meaning

\* What is changed is what the sentence means.
LEMMA ChangesEnd ==
    ASSUME InsertIsMeant, TableIsMeant, ShortChangesAreMeant
    PROVE  ChangesAreMeant
<1> SUFFICES ASSUME outcome = "action",
                    variant.kind \in {"CreateDatabase", "DeleteDatabase", "CreateTable",
                                      "DeleteTable", "Insert"}
             PROVE  variant = Meaning(in)
    BY DEF ChangesAreMeant
<1>1. CASE variant.kind = "Insert"
    BY <1>1, MeaningOfLists DEF InsertIsMeant
<1>2. CASE variant.kind = "CreateTable"
    BY <1>2, MeaningOfLists DEF TableIsMeant
<1>3. CASE variant.kind \in {"CreateDatabase", "DeleteDatabase", "DeleteTable"}
  <2>1. variant.kind \in DOMAIN Short
      BY <1>3 DEF Short
  <2>2. IsShort(in, variant.kind) /\ variant = ShortOf(in, variant.kind)
      BY <1>3 DEF ShortChangesAreMeant
  <2> QED
      BY <2>1, <2>2, MeaningOfShort
<1> QED
    BY <1>1, <1>2, <1>3

\* For every set of sentences in which a string type has its size: nothing is
\* created, deleted or inserted but by the sentence of the grammar that means
\* just that, with its values or its columns.
THEOREM Changes == ASpec => []ChangesAreMeant
<1> QED
    BY ChangesEnd, InsertMeans, TableMeans, ShortChanges, PTL

-----------------------------------------------------------------------------
(* The sentences of the grammar are understood. *)

NoFault == outcome \in {"running", "action"}

\* A list is visited in its context from its second token on.
OnList(c) == NoFault /\ (token_number > 0 => ctx = c)

OnSelect ==
    /\ NoFault
    /\ token_number > 0 =>
           /\ ctx = IF token_number < WhereAt(in) - 1 THEN "SelectE" ELSE "WhereE"
           /\ variant.kind = "Show_Select"

\* The action of a statement that shows something is there from token m on.
OnShow(c, m, action) ==
    /\ NoFault
    /\ token_number > 0 => (ctx = IF c = "ShowColumnValuesE" /\ token_number = 1 THEN "Unknown" ELSE c)
    /\ token_number >= m => variant = action

\* The context of a short statement, and when its action is there.
ShortContext(k) == ContextOf(Short[k][1], Kw(Short[k][2]))
ShortFrom(k) == IF k = "ShowTableData" THEN 2 ELSE 3

\* What a sentence has reached.
Understanding ==
    /\ IsInsert(in) => OnList("InsertE")
    /\ IsCreateTable(in) => OnList("CreateTableE")
    /\ IsSelect(in) => OnSelect
    /\ IsShowColumn(in) => OnShow("ShowColumnValuesE", 2, ShowColumnValues(in[3][2], in[4][2]))
    /\ IsShowDatabases(in) => OnShow("ShowDatabasesE", 2, ShowDatabases)
    /\ \A k \in DOMAIN Short : IsShort(in, k) =>
           OnShow(ShortContext(k), ShortFrom(k), ShortOf(in, k))

\* A sentence of the grammar is answered with the action it means.
TokensAreUnderstood ==
    outcome # "running" /\ Meaning(in) # NoAction => outcome = "action" /\ variant = Meaning(in)

-----------------------------------------------------------------------------
\* A visit by the kind of its token, in any context.
LEMMA VisitByToken ==
    ASSUME Visit
    PROVE  /\ outcome = "running" /\ curr # None
           /\ IsSym(curr) => VisitSymbol
           /\ IsType(curr) => VisitType
           /\ IsOp(curr) => VisitOperator
           /\ IsLiteral(curr) => Literal
           /\ IsSub(curr) \/ IsName(curr) =>
                  \/ DatabaseTarget \/ TableTarget \/ SelectColumn \/ ShownColumn
                  \/ ListTarget \/ ColumnName \/ OtherIdentifier
<1>1. CASE VisitSymbol
    BY <1>1, Tags DEF VisitSymbol, At, IsSym, IsType, IsOp, IsLiteral, IsSub, IsName
<1>2. CASE VisitBool \/ VisitString \/ VisitNumbers
  <2>1. curr[1] \in {"bool", "str", "UInt", "Int", "Double"} /\ outcome = "running" /\ Literal
      BY <1>2 DEF VisitBool, VisitString, VisitNumbers, At, IsNumber
  <2> QED
      BY <2>1, Tags DEF IsSym, IsType, IsOp, IsSub, IsName
<1>3. CASE VisitType \/ VisitOperator \/ VisitUnknown
  <2>1. /\ curr[1] \in {"type", "op", "unknown"} /\ outcome = "running"
        /\ IsType(curr) => VisitType
        /\ IsOp(curr) => VisitOperator
      BY <1>3 DEF VisitType, VisitOperator, VisitUnknown, At, IsType, IsOp
  <2> QED
      BY <2>1, Tags DEF IsSym, IsLiteral, IsSub, IsName
<1>4. CASE \/ VisitCreate \/ VisitUsing \/ VisitSelect \/ VisitWhere \/ VisitDelete
           \/ VisitShow \/ VisitFrom \/ VisitColumn \/ VisitInto \/ VisitInsert
           \/ VisitTable \/ VisitDatabase \/ VisitDatabases \/ VisitOtherKeyword
  <2>1. outcome = "running" /\ \E k : curr = Kw(k)
    <3>1. CASE VisitCreate \/ VisitDelete \/ VisitShow \/ VisitInsert
        BY <3>1 DEF VisitCreate, VisitDelete, VisitShow, VisitInsert, Root, At
    <3>2. CASE VisitUsing \/ VisitSelect \/ VisitWhere \/ VisitFrom \/ VisitColumn
        BY <3>2 DEF VisitUsing, VisitSelect, VisitWhere, VisitFrom, VisitColumn, At
    <3>3. CASE VisitInto \/ VisitTable \/ VisitDatabase \/ VisitDatabases \/ VisitOtherKeyword
        BY <3>3 DEF VisitInto, VisitTable, VisitDatabase, VisitDatabases, VisitOtherKeyword, At
    <3> QED
        BY <1>4, <3>1, <3>2, <3>3
  <2>2. curr[1] = "kw"
      BY <2>1, Tags
  <2> QED
      BY <2>1, <2>2, Tags DEF IsSym, IsType, IsOp, IsLiteral, IsSub, IsName
<1>5. CASE \/ DatabaseTarget \/ TableTarget \/ SelectColumn \/ ShownColumn
           \/ ListTarget \/ ColumnName \/ OtherIdentifier
  <2>1. outcome = "running" /\ curr[1] \in {"name", "sub"}
      BY <1>5 DEF DatabaseTarget, TableTarget, SelectColumn, ShownColumn, ListTarget, ColumnName,
                  OtherIdentifier, At, IsIdentifier, IsName, IsSub
  <2> QED
      BY <1>5, <2>1, Tags DEF IsSym, IsType, IsOp, IsLiteral
<1> QED
    BY <1>1, <1>2, <1>3, <1>4, <1>5 DEF Visit

\* A visit of the keyword k.
LEMMA VisitByKeyword ==
    ASSUME Visit, NEW k, curr = Kw(k)
    PROVE  /\ k = "CREATE" => VisitCreate
           /\ k = "DELETE" => VisitDelete
           /\ k = "SHOW" => VisitShow
           /\ k = "INSERT" => VisitInsert
           /\ k = "USING" => VisitUsing
           /\ k = "SELECT" => VisitSelect
           /\ k = "WHERE" => VisitWhere
           /\ k = "FROM" => VisitFrom
           /\ k = "INTO" => VisitInto
           /\ k = "TABLE" => VisitTable
           /\ k = "DATABASE" => VisitDatabase
           /\ k = "DATABASES" => VisitDatabases
<1>1. curr[1] = "kw" /\ \A l : curr = Kw(l) => l = k
    BY Tags
<1>2. ~(VisitType \/ VisitSymbol \/ VisitOperator \/ VisitUnknown)
    BY <1>1 DEF VisitType, VisitSymbol, VisitOperator, VisitUnknown, At, IsType, IsSym, IsOp
<1>3. ~(VisitBool \/ VisitString \/ VisitNumbers)
    BY <1>1 DEF VisitBool, VisitString, VisitNumbers, At, IsNumber
<1>4. ~(\/ DatabaseTarget \/ TableTarget \/ SelectColumn \/ ShownColumn
        \/ ListTarget \/ ColumnName \/ OtherIdentifier)
    BY <1>1 DEF DatabaseTarget, TableTarget, SelectColumn, ShownColumn, ListTarget, ColumnName,
                OtherIdentifier, At, IsIdentifier, IsName, IsSub
<1>5. CASE VisitCreate \/ VisitDelete \/ VisitShow \/ VisitInsert
  <2>1. /\ VisitCreate => k = "CREATE"
        /\ VisitDelete => k = "DELETE"
        /\ VisitShow => k = "SHOW"
        /\ VisitInsert => k = "INSERT"
      BY <1>1 DEF VisitCreate, VisitDelete, VisitShow, VisitInsert, Root, At
  <2> QED
      BY <1>5, <2>1
<1>6. CASE VisitUsing \/ VisitSelect \/ VisitWhere \/ VisitFrom \/ VisitInto
  <2>1. /\ VisitUsing => k = "USING"
        /\ VisitSelect => k = "SELECT"
        /\ VisitWhere => k = "WHERE"
        /\ VisitFrom => k = "FROM"
        /\ VisitInto => k = "INTO"
      BY <1>1 DEF VisitUsing, VisitSelect, VisitWhere, VisitFrom, VisitInto, At
  <2> QED
      BY <1>6, <2>1
<1>7. CASE VisitTable \/ VisitDatabase \/ VisitDatabases
  <2>1. /\ VisitTable => k = "TABLE"
        /\ VisitDatabase => k = "DATABASE"
        /\ VisitDatabases => k = "DATABASES"
      BY <1>1 DEF VisitTable, VisitDatabase, VisitDatabases, At
  <2> QED
      BY <1>7, <2>1
<1>8. CASE VisitColumn \/ VisitOtherKeyword
  <2>1. k \in {"COLUMN", "VALUES", "UPDATE", "SET", "DROP", "PK", "UN"}
      BY <1>1, <1>8 DEF VisitColumn, VisitOtherKeyword, At
  <2> QED
      BY <2>1
<1> QED
    BY <1>2, <1>3, <1>4, <1>5, <1>6, <1>7, <1>8 DEF Visit

\* The window at place i of the tokens.
LEMMA WindowAt ==
    ASSUME AInv, NEW i \in Nat, i = token_number + 1
    PROVE  /\ Len(in) \in Nat /\ i <= Len(in) + 1 /\ i >= 1
           /\ curr # None <=> i <= Len(in)
           /\ i <= Len(in) => curr = in[i]
           /\ i < Len(in) => next = in[i + 1]
           /\ i = Len(in) => next = None
           /\ i + 1 < Len(in) => nextp1 = in[i + 2]
           /\ i > 1 => prev = in[i - 1]
           /\ i > 2 => prevm1 = in[i - 2]
<1>1. PICK n \in Nat : n = Len(in)
    BY DEF AInv, Counted
<1>2. token_number = i - 1 /\ i <= n + 1 /\ i >= 1
    BY <1>1 DEF AInv, Counted
<1>3. /\ i <= n => curr = in[i]
      /\ i = n + 1 => curr = None
    BY <1>1, <1>2 DEF curr, Token
<1>4. i <= n => in[i] # None
    BY <1>1, <1>2 DEF AInv, Counted
<1>5. /\ i < n => next = in[i + 1]
      /\ i = n => next = None
    BY <1>1, <1>2 DEF next, Token
<1>6. i + 1 < n => nextp1 = in[i + 2]
    BY <1>1, <1>2 DEF nextp1, Token
<1>7. i > 1 => prev = in[i - 1]
    BY <1>1, <1>2 DEF prev, Token
<1>8. i > 2 => prevm1 = in[i - 2]
    BY <1>1, <1>2 DEF prevm1, Token
<1> QED
    BY <1>1, <1>2, <1>3, <1>4, <1>5, <1>6, <1>7, <1>8

\* The two keywords that a statement begins with set its context.
LEMMA RootGoes ==
    ASSUME Visit, token_number = 0, NEW root, NEW o, curr = Kw(root), next = Kw(o),
           \/ root = "CREATE" /\ o \in {"DATABASE", "TABLE"}
           \/ root = "DELETE" /\ o \in {"DATABASE", "TABLE"}
           \/ root = "SHOW" /\ o \in {"DATABASE", "DATABASES", "TABLE", "FROM"}
           \/ root = "INSERT" /\ o = "INTO"
    PROVE  outcome = "running" /\ Set(ContextOf(root, Kw(o)), variant)
<1>1. /\ root = "CREATE" => VisitCreate
      /\ root = "DELETE" => VisitDelete
      /\ root = "SHOW" => VisitShow
      /\ root = "INSERT" => VisitInsert
    BY VisitByKeyword
<1> QED
    BY <1>1 DEF VisitCreate, VisitDelete, VisitShow, VisitInsert, Root, At, Expect

\* A visit that goes on leaves the analysis running.
LEMMA SetRuns ==
    ASSUME outcome = "running", NEW c, NEW v, Set(c, v)
    PROVE  /\ NoFault' /\ ctx' = c /\ variant' = v /\ in' = in
           /\ token_number' = token_number + 1
BY DEF Set, NoFault

\* What may follow a symbol, one by one.
LEMMA FollowsWhich ==
    /\ curr = SEMICOLON /\ next = None => FollowsSymbol
    /\ curr = CLOSING_PAR /\ (ctx \in Lists => next = SEMICOLON) => FollowsSymbol
    /\ /\ curr = OPENING_PAR
       /\ ctx \in Lists => \/ ctx = "CreateTableE" /\ IsType(next)
                           \/ ctx = "InsertE" /\ IsLiteral(next)
       => FollowsSymbol
    /\ /\ curr = COMA
       /\ ctx \in Lists => \/ ctx = "CreateTableE" /\ IsType(next)
                           \/ ctx = "InsertE" /\ IsLiteral(next)
                           \/ next = CLOSING_PAR
       => FollowsSymbol
<1>1. /\ SEMICOLON \notin {OPENING_PAR, COMA, CLOSING_PAR, ALL}
      /\ OPENING_PAR \notin {COMA, CLOSING_PAR, ALL}
      /\ COMA \notin {CLOSING_PAR, ALL}
      /\ CLOSING_PAR # ALL
    BY DEF SEMICOLON, OPENING_PAR, COMA, CLOSING_PAR, ALL, Sym
<1>2. curr = SEMICOLON /\ next = None => FollowsSymbol
    BY <1>1 DEF FollowsSymbol
<1>3. curr = CLOSING_PAR /\ (ctx \in Lists => next = SEMICOLON) => FollowsSymbol
    BY <1>1 DEF FollowsSymbol, Lists
<1>4. ASSUME curr = OPENING_PAR,
             ctx \in Lists => \/ ctx = "CreateTableE" /\ IsType(next)
                              \/ ctx = "InsertE" /\ IsLiteral(next)
      PROVE  FollowsSymbol
    BY <1>1, <1>4 DEF FollowsSymbol, Lists
<1>5. ASSUME curr = COMA,
             ctx \in Lists => \/ ctx = "CreateTableE" /\ IsType(next)
                              \/ ctx = "InsertE" /\ IsLiteral(next)
                              \/ next = CLOSING_PAR
      PROVE  FollowsSymbol
    BY <1>1, <1>5 DEF FollowsSymbol, Lists
<1> QED
    BY <1>2, <1>3, <1>4, <1>5

\* The first three tokens of a list, and its parenthesis.
LEMMA ListOpens ==
    ASSUME AInv, Visit, NEW c \in Lists, OnList(c), IsListOf(in, RootOf[c], ObjectOf[c]),
           token_number < 4, IF c = "InsertE" THEN IsLiteral(in[5]) ELSE IsType(in[5])
    PROVE  OnList(c)'
<1>1. PICK i \in Nat : i = token_number + 1 /\ token_number = i - 1 /\ i \in 1 .. 4
    BY DEF AInv, Counted
<1>2. /\ Len(in) > 6 /\ Len(in) \in Nat
      /\ in[1] = Kw(RootOf[c]) /\ in[2] = Kw(ObjectOf[c]) /\ IsSub(in[3]) /\ in[4] = OPENING_PAR
    BY DEF IsListOf, AInv, Counted
<1>3. curr = in[i] /\ next = in[i + 1] /\ (i > 1 => prev = in[i - 1])
    BY <1>1, <1>2, WindowAt
<1>4. outcome = "running"
    BY VisitByToken
<1>5. i > 1 => ctx = c
    BY <1>1 DEF OnList
<1>6. /\ i = 1 => curr = Kw(RootOf[c]) /\ next = Kw(ObjectOf[c]) /\ token_number = 0
      /\ i = 2 => curr = Kw(ObjectOf[c]) /\ IsSub(next)
      /\ i = 3 => IsSub(curr) /\ prev = Kw(ObjectOf[c]) /\ next = OPENING_PAR
      /\ i = 4 => curr = OPENING_PAR /\ IF c = "InsertE" THEN IsLiteral(next) ELSE IsType(next)
  <2>1. i = 1 => curr = in[1] /\ next = in[2] /\ token_number = 0
      BY <1>1, <1>3
  <2>2. i = 2 => curr = in[2] /\ next = in[3]
      BY <1>3
  <2>3. i = 3 => curr = in[3] /\ prev = in[2] /\ next = in[4]
      BY <1>3
  <2>4. i = 4 => curr = in[4] /\ next = in[5]
      BY <1>3
  <2> QED
      BY <1>2, <2>1, <2>2, <2>3, <2>4
<1>7. SUFFICES \E v : Set(c, v)
    BY <1>4, SetRuns DEF OnList
<1>8. CASE i = 1
  <2>1. /\ c = "InsertE" => RootOf[c] = "INSERT" /\ ObjectOf[c] = "INTO"
        /\ c = "CreateTableE" => RootOf[c] = "CREATE" /\ ObjectOf[c] = "TABLE"
      BY DEF RootOf, ObjectOf
  <2>2. Set(ContextOf(RootOf[c], Kw(ObjectOf[c])), variant)
      BY <1>6, <1>8, <2>1, RootGoes DEF Lists
  <2>3. ContextOf(RootOf[c], Kw(ObjectOf[c])) = c
      BY <2>1 DEF ContextOf, Lists, Kw
  <2> QED
      BY <2>2, <2>3
<1>9. CASE i = 2
  <2>1. ObjectOf[c] \in {"INTO", "TABLE"}
      BY DEF ObjectOf, Lists
  <2>2. VisitInto \/ VisitTable
      BY <1>6, <1>9, <2>1, VisitByKeyword
  <2>3. Accept
      BY <1>6, <1>9, <2>2 DEF VisitInto, VisitTable, Expect
  <2> QED
      BY <1>5, <1>9, <2>3 DEF Accept
<1>10. CASE i = 3
  <2>1. ListTarget
      BY <1>5, <1>6, <1>10, VisitOf
  <2>2. prev = Kw(IF ctx = "InsertE" THEN "INTO" ELSE "TABLE")
      BY <1>5, <1>6, <1>10 DEF ObjectOf, Lists
  <2> QED
      BY <1>5, <1>6, <1>10, <2>1, <2>2 DEF ListTarget, Expect
<1>11. CASE i = 4
  <2>1. IsSym(curr)
      BY <1>6, <1>11, Tags DEF OPENING_PAR, IsSym
  <2>2. VisitSymbol
      BY <2>1, VisitByToken
  <2>3. FollowsSymbol
    <3>1. /\ \/ ctx = "InsertE" /\ IsLiteral(next)
             \/ ctx = "CreateTableE" /\ IsType(next)
          /\ curr = OPENING_PAR
        BY <1>5, <1>6, <1>11 DEF Lists
    <3> QED
        BY <3>1, FollowsWhich
  <2> QED
      BY <1>5, <1>11, <2>2, <2>3 DEF VisitSymbol, Expect, Accept
<1> QED
    BY <1>1, <1>8, <1>9, <1>10, <1>11

\* What ends a list.
LEMMA ListEnd ==
    ASSUME NEW s, s \in Seq({s[i] : i \in DOMAIN s}), NEW k1, NEW k2, IsListOf(s, k1, k2),
           NEW n \in Nat, n = Len(s)
    PROVE  s[n - 1] = CLOSING_PAR /\ s[n] = SEMICOLON
<1>1. SubSeq(s, n - 1, n) = <<CLOSING_PAR, SEMICOLON>> /\ n > 6
    BY DEF IsListOf
<1>2. PICK part : /\ part = SubSeq(s, n - 1, n)
                  /\ Len(part) = n - (n - 1) + 1
                  /\ \A k \in 1 .. n - (n - 1) + 1 : part[k] = s[(n - 1) + k - 1]
  <2>1. n - 1 \in 1 .. Len(s) /\ n \in 1 .. Len(s) /\ n - 1 <= n
      BY <1>1
  <2> QED
      BY <2>1, Part
<1>3. 1 \in 1 .. n - (n - 1) + 1 /\ 2 \in 1 .. n - (n - 1) + 1
    OBVIOUS
<1>4. (n - 1) + 1 - 1 = n - 1 /\ (n - 1) + 2 - 1 = n
    OBVIOUS
<1>5. part[1] = s[(n - 1) + 1 - 1] /\ part[2] = s[(n - 1) + 2 - 1]
    BY <1>2, <1>3
<1>6. part[1] = s[n - 1] /\ part[2] = s[n]
    BY <1>4, <1>5
<1>7. part = <<CLOSING_PAR, SEMICOLON>>
    BY <1>1, <1>2
<1> QED
    BY <1>6, <1>7

\* The parenthesis that ends a list, and the semicolon.
LEMMA ListCloses ==
    ASSUME AInv, Visit, NEW c \in Lists, OnList(c), IsListOf(in, RootOf[c], ObjectOf[c]),
           IsSequence, token_number >= Len(in) - 2
    PROVE  OnList(c)'
<1>1. PICK n \in Nat : n = Len(in) /\ n > 6
    BY DEF IsListOf, AInv, Counted
<1>2. PICK i \in Nat : i = token_number + 1 /\ token_number = i - 1
    BY DEF AInv, Counted
<1>3. i = n - 1 \/ i = n
  <2>1. i <= n
      BY <1>1, <1>2, WindowAt, VisitByToken
  <2>2. i - 1 >= n - 2
      BY <1>1, <1>2
  <2> QED
      BY <1>1, <2>1, <2>2
<1>4. in[n - 1] = CLOSING_PAR /\ in[n] = SEMICOLON
    BY <1>1, ListEnd DEF IsSequence
<1>5. /\ i = n - 1 => curr = CLOSING_PAR /\ next = SEMICOLON
      /\ i = n => curr = SEMICOLON /\ next = None
  <2>1. i = n - 1 => i < n /\ i <= n /\ i + 1 = n
      BY <1>1
  <2> QED
      BY <1>1, <1>2, <1>4, <2>1, WindowAt
<1>6. outcome = "running" /\ ctx = c
    BY <1>1, <1>2, <1>3, VisitByToken DEF OnList
<1>7. IsSym(curr)
    BY <1>3, <1>5, Tags DEF CLOSING_PAR, SEMICOLON, IsSym
<1>8. VisitSymbol
    BY <1>7, VisitByToken
<1>9. FollowsSymbol
    BY <1>3, <1>5, FollowsWhich
<1>10. Accept
    BY <1>8, <1>9 DEF VisitSymbol, Expect
<1> QED
    BY <1>6, <1>10, SetRuns DEF Accept, OnList

\* Place by place, the values of an INSERT and the commas between them.
LEMMA InsertItems ==
    ASSUME NEW s, s \in Seq({s[i] : i \in DOMAIN s}), IsInsert(s), NEW i \in 5 .. Len(s) - 2
    PROVE  IF i % 2 = 1 THEN IsLiteral(s[i]) ELSE s[i] = COMA
<1>1. PICK n \in Nat : n = Len(s) /\ n > 6
    BY DEF IsInsert, IsListOf
<1>2. PICK c : /\ c = SubSeq(s, 5, n - 2)
               /\ Len(c) = (n - 2) - 5 + 1
               /\ \A k \in 1 .. (n - 2) - 5 + 1 : c[k] = s[5 + k - 1]
  <2>1. 5 \in 1 .. Len(s) /\ n - 2 \in 1 .. Len(s) /\ 5 <= n - 2
      BY <1>1
  <2> QED
      BY <2>1, Part
<1>3. c = Items(s)
    BY <1>1, <1>2 DEF Items
<1>4. \A k \in DOMAIN c : IF k % 2 = 1 THEN IsLiteral(c[k]) ELSE c[k] = COMA
    BY <1>3 DEF IsInsert
<1>5. DOMAIN c = 1 .. (n - 2) - 5 + 1
  <2>1. c \in Seq({s[k] : k \in DOMAIN s})
      BY <1>1, <1>2
  <2> QED
      BY <1>2, <2>1
<1>6. PICK k \in Int : k = i - 4 /\ 5 + k - 1 = i /\ k \in 1 .. (n - 2) - 5 + 1
    BY <1>1
<1>7. c[k] = s[i]
  <2>1. c[k] = s[5 + k - 1]
      BY <1>2, <1>6
  <2> QED
      BY <1>6, <2>1
<1>8. k % 2 = i % 2
    BY <1>6
<1>9. IF k % 2 = 1 THEN IsLiteral(c[k]) ELSE c[k] = COMA
    BY <1>4, <1>5, <1>6
<1> QED
    BY <1>7, <1>8, <1>9

\* The values of an INSERT go on.
LEMMA InsertGoes ==
    ASSUME AInv, IsSequence, IsInsert(in), OnList("InsertE"), Visit
    PROVE  OnList("InsertE")'
<1>1. PICK n \in Nat : n = Len(in) /\ n > 6
    BY DEF IsInsert, IsListOf, AInv, Counted
<1>2. PICK i \in Nat : i = token_number + 1 /\ token_number = i - 1 /\ i >= 1
    BY DEF AInv, Counted
<1>3. in \in Seq({in[j] : j \in DOMAIN in})
    BY DEF IsSequence
<1>4. ASSUME NEW j \in 5 .. n - 2
      PROVE  IF j % 2 = 1 THEN IsLiteral(in[j]) ELSE in[j] = COMA
    BY <1>1, <1>3, <1>4, InsertItems
<1>5. IsListOf(in, RootOf["InsertE"], ObjectOf["InsertE"]) /\ "InsertE" \in Lists
    BY DEF IsInsert, RootOf, ObjectOf, Lists
<1>6. CASE i <= 4
  <2>1. 5 \in 5 .. n - 2 /\ 5 % 2 = 1
      BY <1>1
  <2>2. IsLiteral(in[5])
      BY <1>4, <2>1
  <2>3. token_number < 4
      BY <1>2, <1>6
  <2> QED
      BY <1>5, <2>2, <2>3, ListOpens
<1>7. CASE i >= n - 1
  <2>1. token_number >= Len(in) - 2
      BY <1>1, <1>2, <1>7
  <2> QED
      BY <1>5, <2>1, ListCloses
<1>8. CASE i > 4 /\ i < n - 1
  <2>1. i \in 5 .. n - 2 /\ curr = in[i] /\ next = in[i + 1] /\ i # 1
      BY <1>1, <1>2, <1>8, WindowAt
  <2>2. i + 1 \in 5 .. n - 2 \/ i + 1 = n - 1
      BY <1>1, <1>8
  <2>3. in[n - 1] = CLOSING_PAR
      BY <1>1, <1>3, ListEnd DEF IsInsert
  <2>4. outcome = "running" /\ ctx = "InsertE" /\ variant.kind = "Insert"
    <3>1. token_number > 0 /\ token_number >= 3
        BY <1>2, <1>8
    <3>2. ctx = "InsertE"
        BY <3>1 DEF OnList
    <3>3. ctx \in Changing /\ KindOf[ctx] = "Insert"
        BY <3>2 DEF Changing, KindOf
    <3> QED
        BY <3>1, <3>2, <3>3, VisitByToken DEF AInv, Opened
  <2>5. SUFFICES \E v : Set(ctx, v)
      BY <2>4, SetRuns DEF OnList
  <2>6. CASE i % 2 = 1
    <3>1. IsLiteral(curr)
        BY <1>4, <2>1, <2>6
    <3>2. Literal
        BY <3>1, VisitByToken
    <3>3. next \in {CLOSING_PAR, COMA}
      <4>1. (i + 1) % 2 # 1
          BY <2>6
      <4> QED
          BY <1>4, <2>1, <2>2, <2>3, <4>1
    <3> QED
        BY <2>4, <3>2, <3>3 DEF Literal, InsertValue, Expect, Get
  <2>7. CASE i % 2 # 1
    <3>1. curr = COMA
        BY <1>4, <2>1, <2>7
    <3>2. IsSym(curr)
        BY <3>1, Tags DEF COMA, IsSym
    <3>3. VisitSymbol
        BY <3>2, VisitByToken
    <3>4. IsLiteral(next) \/ next = CLOSING_PAR
      <4>1. (i + 1) % 2 = 1
          BY <2>7
      <4> QED
          BY <1>4, <2>1, <2>2, <2>3, <4>1
    <3>5. FollowsSymbol
        BY <2>4, <3>1, <3>4, FollowsWhich
    <3> QED
        BY <3>3, <3>5 DEF VisitSymbol, Expect, Accept
  <2> QED
      BY <2>6, <2>7
<1> QED
    BY <1>1, <1>2, <1>6, <1>7, <1>8

Less == OpToRel(<, Nat)

\* Of some numbers one is the least.
LEMMA Least ==
    ASSUME NEW S \in SUBSET Nat, S # {}
    PROVE  \E m \in S : \A k \in S : m <= k
<1>1. IsWellFoundedOn(Less, Nat)
    BY NatLessThanWellFounded, Zenon DEF Less
<1>2. PICK m \in S : \A k \in S : ~(<<k, m>> \in Less)
    BY <1>1, WFMin
<1>3. ASSUME NEW k \in S PROVE m <= k
  <2>1. ~(k < m)
    <3>1. ASSUME k < m PROVE FALSE
      <4>1. <<k, m>> \in Less
          BY <3>1, Zenon DEF Less, OpToRel
      <4> QED
          BY <1>2, <4>1
    <3> QED
        BY <3>1
  <2>2. k \in Nat /\ m \in Nat
      OBVIOUS
  <2> QED
      BY <2>1, <2>2
<1> QED
    BY <1>3

\* Of some numbers up to n one is the greatest.
LEMMA Greatest ==
    ASSUME NEW n \in Nat, NEW S \in SUBSET (0 .. n), S # {}
    PROVE  \E m \in S : \A k \in S : k <= m
<1> DEFINE T == {n - k : k \in S}
<1>1. \A k \in S : k \in Nat /\ n - k \in Nat
    OBVIOUS
<1>2. T \in SUBSET Nat /\ T # {}
    BY <1>1
<1>3. \A k \in S : n - k \in T
    OBVIOUS
<1>4. \A t \in T : \E k \in S : t = n - k
    OBVIOUS
<1> HIDE DEF T
<1>5. PICK t \in T : \A u \in T : t <= u
    BY <1>2, Least
<1>6. PICK m \in S : t = n - m
    BY <1>4
<1>7. ASSUME NEW k \in S PROVE k <= m
  <2>1. n - m <= n - k
      BY <1>3, <1>5, <1>6
  <2>2. k \in Nat /\ m \in Nat
      BY <1>1
  <2> QED
      BY <2>1, <2>2
<1> QED
    BY <1>7

\* The tokens of a column between the separators at places a and b.
LEMMA ColumnPlaces ==
    ASSUME NEW s, s \in Seq({s[i] : i \in DOMAIN s}), NEW a \in Nat, NEW b \in Nat,
           a < b, b <= Len(s), IsColumn(SubSeq(s, a + 1, b - 1))
    PROVE  \/ b = a + 3 /\ IsType(s[a + 1]) /\ s[a + 1] # Type("STR") /\ IsName(s[a + 2])
           \/ /\ b = a + 4 /\ s[a + 1] = Type("STR") /\ s[a + 2][1] = "UInt"
              /\ IsName(s[a + 3])
<1>1. PICK n \in Nat : n = Len(s)
    OBVIOUS
<1>2. b # a + 1
  <2>1. ASSUME b = a + 1 PROVE FALSE
    <3>1. b - 1 < a + 1
        BY <2>1
    <3>2. SubSeq(s, a + 1, b - 1) = <<>>
        BY <3>1
    <3>3. IsColumn(<<>>)
        BY <3>2
    <3> QED
        BY <3>3 DEF IsColumn
  <2> QED
      BY <2>1
<1>3. PICK c : /\ c = SubSeq(s, a + 1, b - 1)
               /\ Len(c) = (b - 1) - (a + 1) + 1
               /\ \A k \in 1 .. (b - 1) - (a + 1) + 1 : c[k] = s[(a + 1) + k - 1]
  <2>1. a + 1 \in 1 .. n /\ b - 1 \in 1 .. n /\ a + 1 <= b - 1
      BY <1>1, <1>2
  <2> QED
      BY <1>1, <2>1, Part
<1>4. IsColumn(c) /\ Len(c) = b - a - 1
    BY <1>3
<1>5. \A k \in 1 .. b - a - 1 : c[k] = s[a + k]
  <2> SUFFICES ASSUME NEW k \in 1 .. b - a - 1 PROVE c[k] = s[a + k]
      OBVIOUS
  <2>1. k \in 1 .. (b - 1) - (a + 1) + 1 /\ (a + 1) + k - 1 = a + k
      OBVIOUS
  <2>2. c[k] = s[(a + 1) + k - 1]
      BY <1>3, <2>1
  <2> QED
      BY <2>1, <2>2
<1>6. CASE Len(c) = 2 /\ IsType(c[1]) /\ c[1] # Type("STR") /\ IsName(c[2])
  <2>0. b - a - 1 = 2
      BY <1>4, <1>6
  <2>1. b = a + 3 /\ 1 \in 1 .. b - a - 1 /\ 2 \in 1 .. b - a - 1
      BY <2>0
  <2>2. c[1] = s[a + 1] /\ c[2] = s[a + 2]
      BY <1>5, <2>1
  <2> QED
      BY <1>6, <2>1, <2>2
<1>7. CASE Len(c) = 3 /\ c[1] = Type("STR") /\ c[2][1] = "UInt" /\ IsName(c[3])
  <2>0. b - a - 1 = 3
      BY <1>4, <1>7
  <2>1. b = a + 4 /\ 1 \in 1 .. b - a - 1 /\ 2 \in 1 .. b - a - 1 /\ 3 \in 1 .. b - a - 1
      BY <2>0
  <2>2. c[1] = s[a + 1] /\ c[2] = s[a + 2] /\ c[3] = s[a + 3]
      BY <1>5, <2>1
  <2> QED
      BY <1>7, <2>1, <2>2
<1> QED
    BY <1>4, <1>6, <1>7 DEF IsColumn

\* The next separator behind a place, and the last one before a place.
LEMMA SeparatorsAround ==
    ASSUME NEW s, NEW n \in Nat, n = Len(s), n > 6, NEW i \in 4 .. n - 2
    PROVE  /\ Separators(s) \in SUBSET (4 .. n - 1)
           /\ \A j \in Separators(s) : j = 4 \/ j = n - 1 \/ s[j] = COMA
           /\ \A j \in 5 .. n - 2 : s[j] = COMA => j \in Separators(s)
           /\ \E j \in Separators(s) : i < j /\ \A k \in i + 1 .. j - 1 : s[k] # COMA
           /\ i > 4 => \E j \in Separators(s) : j < i /\ \A k \in j + 1 .. i - 1 : s[k] # COMA
<1>1. \A j : j \in Separators(s) <=> j = 4 \/ j = n - 1 \/ (j \in 5 .. n - 2 /\ s[j] = COMA)
    BY DEF Separators
<1>2. Separators(s) \in SUBSET (4 .. n - 1)
    BY <1>1
<1>3. \A j \in 5 .. n - 2 : s[j] = COMA => j \in Separators(s)
    BY <1>1
<1>4. \E j \in Separators(s) : i < j /\ \A k \in i + 1 .. j - 1 : s[k] # COMA
  <2> DEFINE S == {j \in Separators(s) : i < j}
  <2>1. n - 1 \in S
      BY <1>1
  <2>2. S \in SUBSET Nat /\ S # {}
      BY <1>2, <2>1
  <2>3. \A j \in Separators(s) : i < j => j \in S
      OBVIOUS
  <2>4. \A j \in S : j \in Separators(s) /\ i < j
      OBVIOUS
  <2> HIDE DEF S
  <2>5. PICK j \in S : \A k \in S : j <= k
      BY <2>2, Least
  <2>6. j \in 4 .. n - 1 /\ i < j
      BY <1>2, <2>4
  <2>7. ASSUME NEW k \in i + 1 .. j - 1, s[k] = COMA PROVE FALSE
    <3>1. k \in 5 .. n - 2 /\ i < k /\ ~(j <= k)
        BY <2>6
    <3>2. k \in S
        BY <1>3, <2>3, <2>7, <3>1
    <3> QED
        BY <2>5, <3>1, <3>2
  <2> QED
      BY <2>4, <2>7
<1>5. ASSUME i > 4 PROVE \E j \in Separators(s) : j < i /\ \A k \in j + 1 .. i - 1 : s[k] # COMA
  <2> DEFINE S == {j \in Separators(s) : j < i}
  <2>1. 4 \in S
      BY <1>1, <1>5
  <2>2. S \in SUBSET (0 .. n) /\ S # {}
      BY <1>2, <2>1
  <2>3. \A j \in Separators(s) : j < i => j \in S
      OBVIOUS
  <2>4. \A j \in S : j \in Separators(s) /\ j < i
      OBVIOUS
  <2> HIDE DEF S
  <2>5. PICK j \in S : \A k \in S : k <= j
      BY <2>2, Greatest
  <2>6. j \in 4 .. n - 1 /\ j < i
      BY <1>2, <2>4
  <2>7. ASSUME NEW k \in j + 1 .. i - 1, s[k] = COMA PROVE FALSE
    <3>1. k \in 5 .. n - 2 /\ k < i /\ ~(k <= j)
        BY <2>6
    <3>2. k \in S
        BY <1>3, <2>3, <2>7, <3>1
    <3> QED
        BY <2>5, <3>1, <3>2
  <2> QED
      BY <2>4, <2>7
<1> QED
    BY <1>1, <1>2, <1>3, <1>4, <1>5

\* What stands at place i of the columns of a CREATE TABLE, with its neighbours.
TablePlace(s, n, i) ==
    \/ s[i] = COMA /\ (IsType(s[i + 1]) \/ i + 1 = n - 1)
    \/ IsType(s[i]) /\ s[i] # Type("STR") /\ IsName(s[i + 1])
    \/ s[i] = Type("STR") /\ s[i + 1][1] = "UInt" /\ IsName(s[i + 2])
    \/ s[i][1] = "UInt"
    \/ /\ IsName(s[i]) /\ (s[i + 1] = COMA \/ i + 1 = n - 1)
       /\ \/ IsType(s[i - 1])
          \/ s[i - 2] = Type("STR") /\ s[i - 1][1] = "UInt"

\* Every place of the columns fits its neighbours, the first one is a type.
LEMMA TablePlaces ==
    ASSUME NEW s, s \in Seq({s[i] : i \in DOMAIN s}), IsCreateTable(s), NEW n \in Nat, n = Len(s)
    PROVE  /\ n > 6 /\ IsType(s[5])
           /\ \A i \in 5 .. n - 2 : TablePlace(s, n, i)
<1>1. n > 6 /\ s[4] = OPENING_PAR
    BY DEF IsCreateTable, IsListOf
<1>2. ASSUME NEW a \in Separators(s), NEW b \in Separators(s), a < b,
             \A k \in a + 1 .. b - 1 : s[k] # COMA
      PROVE  /\ a \in 4 .. n - 2 /\ b \in 5 .. n - 1
             /\ b = n - 1 \/ s[b] = COMA
             /\ \/ s[a] = COMA /\ b = a + 1 /\ b = n - 1
                \/ b = a + 3 /\ IsType(s[a + 1]) /\ s[a + 1] # Type("STR") /\ IsName(s[a + 2])
                \/ /\ b = a + 4 /\ s[a + 1] = Type("STR") /\ s[a + 2][1] = "UInt"
                   /\ IsName(s[a + 3])
  <2>1. 4 \in 4 .. n - 2
      BY <1>1
  <2>2. a \in 4 .. n - 1 /\ b \in 4 .. n - 1 /\ (b = 4 \/ b = n - 1 \/ s[b] = COMA)
      BY <1>1, <2>1, SeparatorsAround
  <2>3. Neighbours(s, a, b)
      BY <1>2 DEF Neighbours
  <2>4. \/ IsColumn(SubSeq(s, a + 1, b - 1))
        \/ s[a] = COMA /\ b = a + 1 /\ b = n - 1
      BY <2>3 DEF IsCreateTable
  <2>5. a \in 4 .. n - 2 /\ b \in 5 .. n - 1 /\ b # 4 /\ a \in Nat /\ b \in Nat /\ b <= Len(s)
      BY <1>2, <2>2
  <2> QED
      BY <1>2, <2>2, <2>4, <2>5, ColumnPlaces
<1>3. IsType(s[5])
  <2>1. 4 \in 4 .. n - 2 /\ 4 \in Separators(s)
      BY <1>1 DEF Separators
  <2>2. PICK b \in Separators(s) : 4 < b /\ \A k \in 4 + 1 .. b - 1 : s[k] # COMA
      BY <1>1, <2>1, SeparatorsAround
  <2>3. s[4] # COMA
      BY <1>1 DEF OPENING_PAR, COMA, Sym
  <2>4. IsType(s[4 + 1]) \/ s[4 + 1] = Type("STR")
      BY <1>2, <2>1, <2>2, <2>3
  <2>5. IsType(s[4 + 1])
      BY <2>4, Tags DEF IsType
  <2> QED
      BY <2>5
<1>4. ASSUME NEW i \in 5 .. n - 2 PROVE TablePlace(s, n, i)
  <2>1. i \in 4 .. n - 2 /\ i > 4
      OBVIOUS
  <2>2. PICK b \in Separators(s) : i < b /\ \A k \in i + 1 .. b - 1 : s[k] # COMA
      BY <1>1, <2>1, SeparatorsAround
  <2>3. CASE s[i] = COMA
    <3>1. i \in Separators(s)
        BY <1>1, <2>1, <2>3, SeparatorsAround
    <3>2. i + 1 = n - 1 \/ IsType(s[i + 1]) \/ s[i + 1] = Type("STR")
        BY <1>2, <2>2, <3>1
    <3>3. IsType(s[i + 1]) \/ i + 1 = n - 1
        BY <3>2, Tags DEF IsType
    <3> QED
        BY <2>3, <3>3 DEF TablePlace
  <2>4. CASE s[i] # COMA
    <3>1. PICK a \in Separators(s) : a < i /\ \A k \in a + 1 .. i - 1 : s[k] # COMA
        BY <1>1, <2>1, SeparatorsAround
    <3>2. a \in 4 .. n - 1 /\ b \in 4 .. n - 1
        BY <1>1, <2>1, SeparatorsAround
    <3>3. \A k \in a + 1 .. b - 1 : s[k] # COMA
      <4> SUFFICES ASSUME NEW k \in a + 1 .. b - 1 PROVE s[k] # COMA
          OBVIOUS
      <4>1. k \in a + 1 .. i - 1 \/ k = i \/ k \in i + 1 .. b - 1
          BY <3>2
      <4> QED
          BY <2>2, <2>4, <3>1, <4>1
    <3>4. a < b
        BY <2>2, <3>1, <3>2
    <3>5. /\ b = n - 1 \/ s[b] = COMA
          /\ \/ b = a + 1
             \/ b = a + 3 /\ IsType(s[a + 1]) /\ s[a + 1] # Type("STR") /\ IsName(s[a + 2])
             \/ /\ b = a + 4 /\ s[a + 1] = Type("STR") /\ s[a + 2][1] = "UInt"
                /\ IsName(s[a + 3])
        BY <1>2, <3>3, <3>4
    <3>6. b # a + 1
        BY <2>2, <3>1, <3>2
    <3>7. CASE b = a + 3 /\ IsType(s[a + 1]) /\ s[a + 1] # Type("STR") /\ IsName(s[a + 2])
      <4>1. CASE i = a + 1
        <5>1. i + 1 = a + 2
            BY <3>2, <4>1
        <5> QED
            BY <3>7, <4>1, <5>1 DEF TablePlace
      <4>2. CASE i = a + 2
        <5>1. i - 1 = a + 1 /\ i + 1 = b
            BY <3>2, <3>7, <4>2
        <5>2. i + 1 = n - 1 \/ s[i + 1] = COMA
            BY <3>5, <5>1
        <5>3. IsName(s[i]) /\ IsType(s[i - 1])
            BY <3>7, <4>2, <5>1
        <5> QED
            BY <5>2, <5>3 DEF TablePlace
      <4> QED
          BY <2>2, <3>1, <3>2, <3>7, <4>1, <4>2
    <3>8. CASE /\ b = a + 4 /\ s[a + 1] = Type("STR") /\ s[a + 2][1] = "UInt"
               /\ IsName(s[a + 3])
      <4>1. CASE i = a + 1
        <5>1. i + 1 = a + 2 /\ i + 2 = a + 3
            BY <3>2, <4>1
        <5> QED
            BY <3>8, <4>1, <5>1 DEF TablePlace
      <4>2. CASE i = a + 2
          BY <3>8, <4>2 DEF TablePlace
      <4>3. CASE i = a + 3
        <5>1. i - 1 = a + 2 /\ i - 2 = a + 1 /\ i + 1 = b
            BY <3>2, <3>8, <4>3
        <5>2. i + 1 = n - 1 \/ s[i + 1] = COMA
            BY <3>5, <5>1
        <5> QED
            BY <3>8, <4>3, <5>1, <5>2 DEF TablePlace
      <4> QED
          BY <2>2, <3>1, <3>2, <3>8, <4>1, <4>2, <4>3
    <3> QED
        BY <3>5, <3>6, <3>7, <3>8
  <2> QED
      BY <2>3, <2>4
<1> QED
    BY <1>1, <1>3, <1>4

\* The columns of a CREATE TABLE go on.
LEMMA TableGoes ==
    ASSUME AInv, IsSequence, IsCreateTable(in), OnList("CreateTableE"), Visit
    PROVE  OnList("CreateTableE")'
<1>1. PICK n \in Nat : n = Len(in)
    BY DEF AInv, Counted
<1>2. PICK i \in Nat : i = token_number + 1 /\ token_number = i - 1 /\ i >= 1
    BY DEF AInv, Counted
<1>3. in \in Seq({in[j] : j \in DOMAIN in})
    BY DEF IsSequence
<1>4. n > 6 /\ IsType(in[5]) /\ \A j \in 5 .. n - 2 : TablePlace(in, n, j)
    BY <1>1, <1>3, TablePlaces
<1>5. IsListOf(in, RootOf["CreateTableE"], ObjectOf["CreateTableE"]) /\ "CreateTableE" \in Lists
    BY DEF IsCreateTable, RootOf, ObjectOf, Lists
<1>6. CASE i <= 4
  <2>1. token_number < 4
      BY <1>2, <1>6
  <2> QED
      BY <1>4, <1>5, <2>1, ListOpens
<1>7. CASE i >= n - 1
  <2>1. token_number >= Len(in) - 2
      BY <1>1, <1>2, <1>7
  <2> QED
      BY <1>5, <2>1, ListCloses
<1>8. CASE i > 4 /\ i < n - 1
  <2>1. i \in 5 .. n - 2 /\ i > 2 /\ i + 1 < n
      BY <1>8
  <2>2. /\ curr = in[i] /\ next = in[i + 1] /\ nextp1 = in[i + 2]
        /\ prev = in[i - 1] /\ prevm1 = in[i - 2]
    <3>1. i <= n /\ i < n /\ i > 1
        BY <2>1
    <3> QED
        BY <1>1, <1>2, <2>1, <3>1, WindowAt
  <2>3. in[n - 1] = CLOSING_PAR
      BY <1>1, <1>3, ListEnd DEF IsCreateTable
  <2>4. outcome = "running" /\ ctx = "CreateTableE" /\ variant.kind = "CreateTable"
    <3>1. token_number > 0 /\ token_number >= 3
        BY <1>2, <1>8
    <3>2. ctx = "CreateTableE"
        BY <3>1 DEF OnList
    <3>3. ctx \in Changing /\ KindOf[ctx] = "CreateTable"
        BY <3>2 DEF Changing, KindOf
    <3> QED
        BY <3>1, <3>2, <3>3, VisitByToken DEF AInv, Opened
  <2>5. SUFFICES \E v : Set(ctx, v)
      BY <2>4, SetRuns DEF OnList
  <2>6. Accept => \E v : Set(ctx, v)
      BY DEF Accept
  <2>7. TablePlace(in, n, i)
      BY <1>4, <2>1
  <2>8. CASE in[i] = COMA /\ (IsType(in[i + 1]) \/ i + 1 = n - 1)
    <3>1. curr = COMA /\ (IsType(next) \/ next = CLOSING_PAR)
        BY <2>2, <2>3, <2>8
    <3>2. IsSym(curr)
        BY <3>1, Tags DEF COMA, IsSym
    <3>3. VisitSymbol
        BY <3>2, VisitByToken
    <3>4. FollowsSymbol
        BY <2>4, <3>1, FollowsWhich
    <3> QED
        BY <2>6, <3>3, <3>4 DEF VisitSymbol, Expect
  <2>9. CASE \/ IsType(in[i]) /\ in[i] # Type("STR") /\ IsName(in[i + 1])
             \/ in[i] = Type("STR") /\ in[i + 1][1] = "UInt" /\ IsName(in[i + 2])
    <3>1. IsType(curr) /\ IF curr = Type("STR") THEN IsName(nextp1) ELSE IsName(next)
        BY <2>2, <2>9, Tags DEF IsType
    <3>2. VisitType
        BY <3>1, VisitByToken
    <3> QED
        BY <2>6, <3>1, <3>2 DEF VisitType, Expect
  <2>10. CASE in[i][1] = "UInt"
    <3>1. IsLiteral(curr)
        BY <2>2, <2>10 DEF IsLiteral
    <3>2. Literal
        BY <3>1, VisitByToken
    <3> QED
        BY <2>4, <2>6, <3>2 DEF Literal
  <2>11. CASE /\ IsName(in[i]) /\ (in[i + 1] = COMA \/ i + 1 = n - 1)
              /\ \/ IsType(in[i - 1])
                 \/ in[i - 2] = Type("STR") /\ in[i - 1][1] = "UInt"
    <3>1. /\ IsName(curr) /\ next \in {CLOSING_PAR, COMA}
          /\ \/ IsType(prev)
             \/ prevm1 = Type("STR") /\ prev[1] = "UInt"
        BY <2>2, <2>3, <2>11
    <3>2. ColumnName
        BY <2>4, <3>1, VisitOf DEF Lists
    <3> QED
        BY <2>4, <3>1, <3>2 DEF ColumnName, Column, Expect, Get
  <2> QED
      BY <2>7, <2>8, <2>9, <2>10, <2>11 DEF TablePlace
<1> QED
    BY <1>1, <1>2, <1>6, <1>7, <1>8

\* What stands at place i of the conditions of a SELECT, with its neighbours.
ConditionPlace(s, n, i) ==
    \/ IsSub(s[i])
    \/ IsOp(s[i]) /\ s[i] \notin Connectives /\ IsSub(s[i - 1]) /\ i < n /\ IsLiteral(s[i + 1])
    \/ /\ IsLiteral(s[i]) /\ IsOp(s[i - 1]) /\ IsSub(s[i - 2])
       /\ i < n /\ s[i + 1] \in {SEMICOLON} \cup Connectives
    \/ s[i] = SEMICOLON /\ i = n
    \/ s[i] \in Connectives /\ IsLiteral(s[i - 1]) /\ i < n /\ IsSub(s[i + 1])

\* Every place of the conditions fits its neighbours, the first one is a column.
LEMMA ConditionPlaces ==
    ASSUME NEW s, NEW n \in Nat, NEW w \in Nat, w < n, (n - w) % 4 = 0,
           \A i \in w + 1 .. n : InCondition(s[i], i - w, i = n)
    PROVE  /\ IsSub(s[w + 1])
           /\ \A i \in w + 1 .. n : ConditionPlace(s, n, i)
<1>1. ASSUME NEW i \in w + 1 .. n
      PROVE  /\ (i - w) % 4 = 1 => IsSub(s[i])
             /\ (i - w) % 4 = 2 => IsOp(s[i]) /\ s[i] \notin Connectives
             /\ (i - w) % 4 = 3 => IsLiteral(s[i])
             /\ (i - w) % 4 = 0 => IF i = n THEN s[i] = SEMICOLON ELSE s[i] \in Connectives
  <2>1. InCondition(s[i], i - w, i = n)
      OBVIOUS
  <2>2. ASSUME (i - w) % 4 = 1 PROVE IsSub(s[i])
    <3>1. (i - w) % 4 # 2 /\ (i - w) % 4 # 3 /\ (i - w) % 4 # 0
        BY <2>2
    <3> QED
        BY <2>1, <2>2, <3>1, Zenon DEF InCondition
  <2>3. ASSUME (i - w) % 4 = 2 PROVE IsOp(s[i]) /\ s[i] \notin Connectives
    <3>1. (i - w) % 4 # 1 /\ (i - w) % 4 # 3 /\ (i - w) % 4 # 0
        BY <2>3
    <3> QED
        BY <2>1, <2>3, <3>1, Zenon DEF InCondition
  <2>4. ASSUME (i - w) % 4 = 3 PROVE IsLiteral(s[i])
    <3>1. (i - w) % 4 # 1 /\ (i - w) % 4 # 2 /\ (i - w) % 4 # 0
        BY <2>4
    <3> QED
        BY <2>1, <2>4, <3>1, Zenon DEF InCondition
  <2>5. ASSUME (i - w) % 4 = 0
        PROVE  IF i = n THEN s[i] = SEMICOLON ELSE s[i] \in Connectives
    <3>1. (i - w) % 4 # 1 /\ (i - w) % 4 # 2 /\ (i - w) % 4 # 3
        BY <2>5
    <3> QED
        BY <2>1, <2>5, <3>1, Zenon DEF InCondition
  <2> QED
      BY <2>2, <2>3, <2>4, <2>5
<1>2. IsSub(s[w + 1])
  <2>1. w + 1 \in w + 1 .. n /\ ((w + 1) - w) % 4 = 1
      OBVIOUS
  <2> QED
      BY <1>1, <2>1
<1>3. ASSUME NEW i \in w + 1 .. n
      PROVE  ConditionPlace(s, n, i)
  <2>1. (i - w) % 4 \in 0 .. 3 /\ i \in Int /\ i >= w + 1
      OBVIOUS
  <2>2. CASE (i - w) % 4 = 1
      BY <1>1, <2>2 DEF ConditionPlace
  <2>3. CASE (i - w) % 4 = 2
    <3>1. i # w + 1 /\ i # n
        BY <2>3
    <3>2. i - 1 \in w + 1 .. n /\ ((i - 1) - w) % 4 = 1 /\ i + 1 \in w + 1 .. n
          /\ ((i + 1) - w) % 4 = 3 /\ i < n
        BY <2>3, <3>1
    <3>3. IsSub(s[i - 1]) /\ IsLiteral(s[i + 1])
        BY <1>1, <3>2
    <3> QED
        BY <1>1, <2>3, <3>2, <3>3 DEF ConditionPlace
  <2>4. CASE (i - w) % 4 = 3
    <3>1. i # w + 1 /\ i # w + 2 /\ i # n
        BY <2>4
    <3>2. /\ i - 1 \in w + 1 .. n /\ ((i - 1) - w) % 4 = 2
          /\ i - 2 \in w + 1 .. n /\ ((i - 2) - w) % 4 = 1
          /\ i + 1 \in w + 1 .. n /\ ((i + 1) - w) % 4 = 0 /\ i < n
        BY <2>4, <3>1
    <3>3. IsOp(s[i - 1]) /\ IsSub(s[i - 2]) /\ s[i + 1] \in {SEMICOLON} \cup Connectives
        BY <1>1, <3>2
    <3> QED
        BY <1>1, <2>4, <3>2, <3>3 DEF ConditionPlace
  <2>5. CASE (i - w) % 4 = 0 /\ i = n
      BY <1>1, <2>5 DEF ConditionPlace
  <2>6. CASE (i - w) % 4 = 0 /\ i # n
    <3>1. i # w + 1
        BY <2>6
    <3>2. /\ i - 1 \in w + 1 .. n /\ ((i - 1) - w) % 4 = 3
          /\ i + 1 \in w + 1 .. n /\ ((i + 1) - w) % 4 = 1 /\ i < n
        BY <2>6, <3>1
    <3>3. IsLiteral(s[i - 1]) /\ IsSub(s[i + 1])
        BY <1>1, <3>2
    <3> QED
        BY <1>1, <2>6, <3>2, <3>3 DEF ConditionPlace
  <2> QED
      BY <2>1, <2>2, <2>3, <2>4, <2>5, <2>6
<1> QED
    BY <1>2, <1>3

\* The WHERE of a SELECT, and the columns before it.
LEMMA SelectPlaces ==
    ASSUME NEW s, NEW n \in Nat, n = Len(s), IsSelect(s), NEW w, w = WhereAt(s)
    PROVE  /\ w \in Nat /\ w > 4 /\ w < n /\ w % 2 = 1 /\ (n - w) % 4 = 0 /\ s[w] = Kw("WHERE")
           /\ s[1] = Kw("USING") /\ IsName(s[2]) /\ s[3] = Kw("SELECT")
           /\ \A i \in 4 .. w - 1 : IF i % 2 = 0 THEN IsSub(s[i]) ELSE s[i] = COMA
           /\ \A i \in w + 1 .. n : InCondition(s[i], i - w, i = n)
<1> DEFINE wheres == {i \in 2 .. n : s[i] = Kw("WHERE") /\ IsSub(s[i - 1])}
<1>1. w = IF wheres = {} THEN n + 1 ELSE Min(wheres)
    BY DEF WhereAt
<1>2. wheres \in SUBSET Nat /\ \A i \in wheres : s[i] = Kw("WHERE")
    OBVIOUS
<1>3. n > w
    BY DEF IsSelect
<1> HIDE DEF wheres
<1>4. wheres # {}
    BY <1>1, <1>3
<1>5. Min(wheres) \in wheres
  <2>1. \E m \in wheres : \A k \in wheres : m <= k
      BY <1>2, <1>4, Least
  <2> QED
      BY <2>1 DEF Min
<1>6. w \in Nat /\ s[w] = Kw("WHERE")
    BY <1>1, <1>2, <1>4, <1>5
<1> QED
    BY <1>3, <1>6 DEF IsSelect

\* The columns and the conditions of a SELECT go on.
LEMMA SelectGoes ==
    ASSUME AInv, IsSelect(in), OnSelect, Visit
    PROVE  OnSelect'
<1>1. PICK n \in Nat : n = Len(in)
    BY DEF AInv, Counted
<1>2. PICK i \in Nat : i = token_number + 1 /\ token_number = i - 1 /\ i >= 1
    BY DEF AInv, Counted
<1>3. PICK w \in Nat :
          /\ w = WhereAt(in) /\ w > 4 /\ w < n /\ w % 2 = 1 /\ (n - w) % 4 = 0
          /\ in[w] = Kw("WHERE") /\ in[1] = Kw("USING") /\ IsName(in[2]) /\ in[3] = Kw("SELECT")
          /\ \A j \in 4 .. w - 1 : IF j % 2 = 0 THEN IsSub(in[j]) ELSE in[j] = COMA
          /\ \A j \in w + 1 .. n : InCondition(in[j], j - w, j = n)
    BY <1>1, SelectPlaces
<1>4. IsSub(in[w + 1]) /\ \A j \in w + 1 .. n : ConditionPlace(in, n, j)
    BY <1>1, <1>3, ConditionPlaces
<1>5. outcome = "running" /\ i <= n
    BY <1>1, <1>2, VisitByToken, WindowAt
<1>6. i > 1 => ctx = (IF i < w THEN "SelectE" ELSE "WhereE") /\ variant.kind = "Show_Select"
  <2> SUFFICES ASSUME i > 1
               PROVE  ctx = (IF i < w THEN "SelectE" ELSE "WhereE") /\ variant.kind = "Show_Select"
      OBVIOUS
  <2>1. token_number > 0 /\ (token_number < w - 1 <=> i < w)
      BY <1>2, <1>3
  <2> QED
      BY <1>3, <2>1 DEF OnSelect
<1>7. "kind" \in DOMAIN variant
    BY DEF AInv, Counted
<1>8. ASSUME NEW c, NEW v, Set(c, v), v.kind = "Show_Select",
             c = IF i + 1 < w THEN "SelectE" ELSE "WhereE"
      PROVE  OnSelect'
  <2>1. /\ NoFault' /\ ctx' = c /\ variant' = v /\ in' = in
        /\ token_number' = token_number + 1
      BY <1>5, <1>8, SetRuns
  <2>2. token_number + 1 < w - 1 <=> i + 1 < w
      BY <1>2
  <2>3. token_number' < WhereAt(in') - 1 <=> i + 1 < w
      BY <1>3, <2>1, <2>2
  <2>4. ctx' = IF token_number' < WhereAt(in') - 1 THEN "SelectE" ELSE "WhereE"
      BY <1>8, <2>1, <2>3
  <2> QED
      BY <1>8, <2>1, <2>4 DEF OnSelect
<1>9. ASSUME Accept, i > 1, i + 1 < w <=> i < w
      PROVE  OnSelect'
  <2>1. PICK c, v : c = ctx /\ v = variant /\ Set(c, v)
      BY <1>9 DEF Accept
  <2> QED
      BY <1>6, <1>8, <1>9, <2>1
<1>10. i < n => curr = in[i] /\ next = in[i + 1]
    BY <1>1, <1>2, WindowAt
<1>11. CASE i = 1
  <2>1. curr = Kw("USING") /\ IsName(next) /\ i < n
    <3>1. i < n /\ i + 1 = 2
        BY <1>3, <1>11
    <3> QED
        BY <1>3, <1>10, <1>11, <3>1
  <2>2. VisitUsing /\ token_number = 0
      BY <1>2, <1>11, <2>1, VisitByKeyword
  <2>3. next # None
      BY <2>1, Tags DEF IsName
  <2>4. Set("SelectE", Show_Select(next[2], <<>>, <<>>))
      BY <2>1, <2>2, <2>3 DEF VisitUsing, Expect
  <2>5. PICK v : v = Show_Select(next[2], <<>>, <<>>) /\ Set("SelectE", v) /\ v.kind = "Show_Select"
      BY <2>4, ShowKinds
  <2>6. i + 1 < w
      BY <1>3, <1>11
  <2> QED
      BY <1>8, <2>5, <2>6
<1>12. CASE i = 2
  <2>1. IsName(curr) /\ i < n /\ i > 1 /\ i < w /\ i + 1 < w
    <3>1. i < n /\ i > 1 /\ i < w /\ i + 1 < w
        BY <1>3, <1>12
    <3> QED
        BY <1>3, <1>10, <1>12, <3>1
  <2>2. ctx = "SelectE" /\ ~IsSub(curr)
      BY <1>6, <2>1 DEF IsName, IsSub
  <2>3. ~ListTarget /\ ~ColumnName /\ ~DatabaseTarget /\ ~TableTarget /\ ~SelectColumn /\ ~ShownColumn
      BY <2>2 DEF ListTarget, ColumnName, DatabaseTarget, TableTarget, SelectColumn, ShownColumn,
                  DatabaseAction, TableAction, At
  <2>4. Accept
      BY <2>1, <2>3, VisitByToken DEF OtherIdentifier
  <2> QED
      BY <1>9, <2>1, <2>4
<1>13. CASE i = 3
  <2>1. i < n /\ i > 1 /\ i < w /\ i + 1 < w /\ 4 \in 4 .. w - 1 /\ 4 % 2 = 0
      BY <1>3, <1>13
  <2>2. curr = Kw("SELECT") /\ IsSub(next)
    <3>1. curr = in[3] /\ next = in[4]
        BY <1>10, <1>13, <2>1
    <3> QED
        BY <1>3, <2>1, <3>1
  <2>3. VisitSelect
      BY <2>2, VisitByKeyword
  <2>4. Accept
      BY <2>2, <2>3 DEF VisitSelect, Expect
  <2> QED
      BY <1>9, <2>1, <2>4
<1>14. CASE i \in 4 .. w - 1 /\ i % 2 = 0
  <2>1. i < n /\ i > 1 /\ i < w
      BY <1>3, <1>14
  <2>2. IsSub(curr) /\ curr = in[i] /\ next = in[i + 1]
      BY <1>3, <1>10, <1>14, <2>1
  <2>3. \/ i + 1 = w /\ next = Kw("WHERE")
        \/ i + 1 < w /\ next = COMA
    <3>1. CASE i + 1 = w
        BY <1>3, <2>2, <3>1
    <3>2. CASE i + 1 # w
      <4>1. i + 1 \in 4 .. w - 1 /\ (i + 1) % 2 # 0 /\ i + 1 < w
          BY <1>14, <3>2
      <4> QED
          BY <1>3, <2>2, <4>1
    <3> QED
        BY <3>1, <3>2
  <2>4. ctx = "SelectE" /\ variant.kind = "Show_Select" /\ ~IsName(curr)
      BY <1>6, <2>1, <2>2 DEF IsName, IsSub
  <2>5. ~ListTarget /\ ~ColumnName /\ ~DatabaseTarget /\ ~TableTarget /\ ~OtherIdentifier /\ ~ShownColumn
      BY <2>4 DEF ListTarget, ColumnName, DatabaseTarget, TableTarget, OtherIdentifier, ShownColumn,
                  DatabaseAction, TableAction
  <2>6. SelectColumn
      BY <2>2, <2>5, VisitByToken
  <2>7. Set(IF next = Kw("WHERE") THEN "WhereE" ELSE ctx,
            [variant EXCEPT !.tables = Append(@, curr[2])])
      BY <2>3, <2>4, <2>6 DEF SelectColumn, Expect, Get
  <2>8. PICK v : /\ v.kind = "Show_Select"
                 /\ Set(IF next = Kw("WHERE") THEN "WhereE" ELSE ctx, v)
    <3>1. \A e : [variant EXCEPT !.tables = e].kind = "Show_Select"
        BY <1>7, <2>4, ExceptKeepsKind
    <3> QED
        BY <2>7, <3>1
  <2>9. Kw("WHERE") # COMA
      BY Tags DEF COMA
  <2>10. Set(IF i + 1 < w THEN "SelectE" ELSE "WhereE", v)
    <3>1. CASE i + 1 = w /\ next = Kw("WHERE")
      <4>1. ~(i + 1 < w)
          BY <3>1
      <4> QED
          BY <2>8, <3>1, <4>1
    <3>2. CASE i + 1 < w /\ next = COMA
        BY <2>4, <2>8, <2>9, <3>2
    <3> QED
        BY <2>3, <3>1, <3>2
  <2> QED
      BY <1>8, <2>8, <2>10
<1>15. CASE i \in 4 .. w - 1 /\ i % 2 # 0
  <2>1. i < n /\ i > 1 /\ i < w /\ i + 1 < w
      BY <1>3, <1>15
  <2>2. curr = COMA
      BY <1>3, <1>10, <1>15, <2>1
  <2>3. VisitSymbol /\ ctx = "SelectE"
      BY <1>6, <2>1, <2>2, VisitByToken, Tags DEF COMA, IsSym
  <2>4. FollowsSymbol
      BY <2>2, <2>3, FollowsWhich DEF Lists
  <2>5. Accept
      BY <2>3, <2>4 DEF VisitSymbol, Expect
  <2> QED
      BY <1>9, <2>1, <2>5
<1>16. CASE i >= w
  <2>1. i > 1 /\ ~(i < w) /\ ~(i + 1 < w)
      BY <1>3, <1>16
  <2>2. ctx = "WhereE" /\ variant.kind = "Show_Select"
      BY <1>6, <2>1
  <2>3. CASE i = w
    <3>1. curr = Kw("WHERE") /\ IsSub(next) /\ next # None
        BY <1>3, <1>4, <1>10, <2>3, Tags DEF IsSub
    <3>2. VisitWhere
        BY <3>1, VisitByKeyword
    <3>3. Accept
        BY <3>1, <3>2 DEF VisitWhere, Get, Expect
    <3> QED
        BY <1>9, <2>1, <3>3
  <2>4. CASE i # w
    <3>1. i \in w + 1 .. n /\ i > 2 /\ i <= n
        BY <1>3, <1>5, <1>16, <2>4
    <3>2. /\ curr = in[i] /\ prev = in[i - 1] /\ prevm1 = in[i - 2]
          /\ i = n => next = None
        BY <1>1, <1>2, <2>1, <3>1, WindowAt
    <3>3. ConditionPlace(in, n, i)
        BY <1>4, <3>1
    <3>4. Accept => OnSelect'
        BY <1>9, <2>1
    <3>5. CASE IsSub(in[i])
      <4>1. IsSub(curr) /\ ~IsName(curr)
          BY <3>2, <3>5 DEF IsName, IsSub
      <4>2. /\ ~ListTarget /\ ~ColumnName /\ ~DatabaseTarget /\ ~TableTarget /\ ~SelectColumn
            /\ ~ShownColumn
          BY <2>2 DEF ListTarget, ColumnName, DatabaseTarget, TableTarget, SelectColumn, ShownColumn,
                      DatabaseAction, TableAction
      <4>3. Accept
          BY <4>1, <4>2, VisitByToken DEF OtherIdentifier
      <4> QED
          BY <3>4, <4>3
    <3>6. CASE /\ IsOp(in[i]) /\ in[i] \notin Connectives /\ IsSub(in[i - 1])
               /\ i < n /\ IsLiteral(in[i + 1])
      <4>1. IsOp(curr) /\ curr \notin Connectives /\ IsSub(prev) /\ IsLiteral(next)
          BY <1>10, <3>2, <3>6
      <4>2. VisitOperator
          BY <4>1, VisitByToken
      <4>3. Accept
          BY <4>1, <4>2 DEF VisitOperator, Expect
      <4> QED
          BY <3>4, <4>3
    <3>7. CASE /\ IsLiteral(in[i]) /\ IsOp(in[i - 1]) /\ IsSub(in[i - 2])
               /\ i < n /\ in[i + 1] \in {SEMICOLON} \cup Connectives
      <4>1. /\ IsLiteral(curr) /\ IsOp(prev) /\ IsSub(prevm1)
            /\ next \in {SEMICOLON} \cup Connectives
          BY <1>10, <3>2, <3>7
      <4>2. Literal
          BY <4>1, VisitByToken
      <4>3. Set(ctx, [variant EXCEPT !.restrictions = Append(@, <<prevm1[2], prev[2], curr>>)])
          BY <2>2, <4>1, <4>2 DEF Literal, Restriction, Expect, Get
      <4>4. PICK v : v.kind = "Show_Select" /\ Set("WhereE", v)
        <5>1. \A e : [variant EXCEPT !.restrictions = e].kind = "Show_Select"
            BY <1>7, <2>2, ExceptKeepsKind
        <5> QED
            BY <2>2, <4>3, <5>1
      <4> QED
          BY <1>8, <2>1, <4>4
    <3>8. CASE in[i] = SEMICOLON /\ i = n
      <4>1. curr = SEMICOLON /\ next = None
          BY <3>2, <3>8
      <4>2. VisitSymbol
          BY <4>1, VisitByToken, Tags DEF SEMICOLON, IsSym
      <4>3. Accept
          BY <4>1, <4>2, FollowsWhich DEF VisitSymbol, Expect
      <4> QED
          BY <3>4, <4>3
    <3>9. CASE in[i] \in Connectives /\ IsLiteral(in[i - 1]) /\ i < n /\ IsSub(in[i + 1])
      <4>1. curr \in Connectives /\ IsLiteral(prev) /\ IsSub(next)
          BY <1>10, <3>2, <3>9
      <4>2. IsOp(curr)
          BY <4>1, Tags DEF Connectives, IsOp
      <4>3. VisitOperator
          BY <4>2, VisitByToken
      <4>4. Accept
          BY <4>1, <4>3 DEF VisitOperator, Expect
      <4> QED
          BY <3>4, <4>4
    <3> QED
        BY <3>3, <3>5, <3>6, <3>7, <3>8, <3>9 DEF ConditionPlace
  <2> QED
      BY <2>3, <2>4
<1> QED
  <2>1. \/ i = 1 \/ i = 2 \/ i = 3 \/ i >= w
        \/ i \in 4 .. w - 1 /\ (i % 2 = 0 \/ i % 2 # 0)
      BY <1>2, <1>3
  <2> QED
      BY <2>1, <1>11, <1>12, <1>13, <1>14, <1>15, <1>16

\* A short statement, and the shows, are a visit of each of their tokens.
LEMMA ShowSets ==
    ASSUME AInv, NEW k, NEW m \in 2 .. 3, NEW action, OnShow(k, m, action), outcome = "running",
           NEW c, NEW v, Set(c, v),
           c = IF k = "ShowColumnValuesE" /\ token_number = 0 THEN "Unknown" ELSE k,
           token_number + 1 >= m => v = action
    PROVE  OnShow(k, m, action)'
<1>1. /\ NoFault' /\ ctx' = c /\ variant' = v /\ in' = in
      /\ token_number' = token_number + 1 /\ token_number \in Nat
    BY SetRuns DEF AInv, Counted
<1>2. token_number' = 1 <=> token_number = 0
    BY <1>1
<1> QED
    BY <1>1, <1>2 DEF OnShow

\* A token that changes nothing.
LEMMA ShowAccepts ==
    ASSUME AInv, NEW k, NEW m \in 2 .. 3, NEW action, OnShow(k, m, action), outcome = "running",
           Accept, token_number > 0, token_number >= m \/ token_number + 1 < m,
           k = "ShowColumnValuesE" => token_number # 1
    PROVE  OnShow(k, m, action)'
<1>1. PICK c, v : c = ctx /\ v = variant /\ Set(c, v)
    BY DEF Accept
<1>2. c = k /\ token_number # 0
    BY <1>1 DEF OnShow, AInv, Counted
<1>3. token_number + 1 >= m => v = action
    BY <1>1 DEF OnShow, AInv, Counted
<1> QED
    BY <1>1, <1>2, <1>3, ShowSets

\* SHOW FROM database table.column;
LEMMA ShowColumnGoes ==
    ASSUME AInv, IsShowColumn(in), Visit, NEW action,
           action = ShowColumnValues(in[3][2], in[4][2]),
           OnShow("ShowColumnValuesE", 2, action)
    PROVE  OnShow("ShowColumnValuesE", 2, action)'
<1>1. /\ Len(in) = 5 /\ in[1] = Kw("SHOW") /\ in[2] = Kw("FROM")
      /\ IsName(in[3]) /\ IsSub(in[4]) /\ in[5] = SEMICOLON
    BY DEF IsShowColumn
<1>2. PICK i \in Nat : i = token_number + 1 /\ token_number = i - 1 /\ i >= 1
    BY DEF AInv, Counted
<1>3. outcome = "running" /\ i <= 5
    BY <1>1, <1>2, VisitByToken, WindowAt
<1>4. /\ i = 1 => curr = in[1] /\ next = in[2]
      /\ i = 2 => curr = in[2] /\ next = in[3] /\ nextp1 = in[4]
      /\ i = 3 => curr = in[3]
      /\ i = 4 => curr = in[4] /\ next = in[5]
      /\ i = 5 => curr = in[5] /\ next = None
    BY <1>1, <1>2, WindowAt
<1>5. i > 2 => ctx = "ShowColumnValuesE"
    BY <1>2 DEF OnShow
<1>6. Accept /\ i > 2 => OnShow("ShowColumnValuesE", 2, action)'
    BY <1>2, <1>3, ShowAccepts
<1>7. CASE i = 1
  <2>1. Set(ContextOf("SHOW", Kw("FROM")), variant)
      BY <1>1, <1>2, <1>4, <1>7, RootGoes
  <2>2. ContextOf("SHOW", Kw("FROM")) = "Unknown"
      BY DEF ContextOf, Kw
  <2>3. PICK v : Set("Unknown", v)
      BY <2>1, <2>2
  <2>4. token_number = 0
      BY <1>2, <1>7
  <2> QED
      BY <1>3, <2>3, <2>4, ShowSets
<1>8. CASE i = 2
  <2>1. token_number = 1 /\ ctx = "Unknown"
      BY <1>2, <1>8 DEF OnShow
  <2>2. VisitFrom
      BY <1>1, <1>4, <1>8, VisitByKeyword
  <2>3. IsName(next) /\ IsSub(nextp1) /\ ~IsSub(next)
      BY <1>1, <1>4, <1>8 DEF IsName, IsSub
  <2>4. Set("ShowColumnValuesE", ShowColumnValues(next[2], nextp1[2]))
      BY <2>1, <2>2, <2>3 DEF VisitFrom, Expect
  <2>5. Set("ShowColumnValuesE", action)
      BY <1>4, <1>8, <2>4
  <2> QED
      BY <1>3, <2>1, <2>5, ShowSets
<1>9. CASE i = 3
  <2>1. IsName(curr) /\ ~IsSub(curr)
      BY <1>1, <1>4, <1>9 DEF IsName, IsSub
  <2>2. OtherIdentifier
      BY <1>5, <1>9, <2>1, VisitByToken DEF ListTarget, ColumnName, DatabaseTarget, TableTarget,
                      SelectColumn, ShownColumn, DatabaseAction, TableAction, At
  <2> QED
      BY <1>6, <1>9, <2>2 DEF OtherIdentifier
<1>10. CASE i = 4
  <2>1. IsSub(curr) /\ ~IsName(curr) /\ next = SEMICOLON
      BY <1>1, <1>4, <1>10 DEF IsName, IsSub
  <2>2. ShownColumn
      BY <1>5, <1>10, <2>1, VisitByToken DEF ListTarget, ColumnName, DatabaseTarget, TableTarget,
                      SelectColumn, OtherIdentifier, DatabaseAction, TableAction, At
  <2> QED
      BY <1>6, <1>10, <2>1, <2>2 DEF ShownColumn, Expect
<1>11. CASE i = 5
  <2>1. curr = SEMICOLON /\ next = None
      BY <1>1, <1>4, <1>11
  <2>2. VisitSymbol
      BY <2>1, VisitByToken, Tags DEF SEMICOLON, IsSym
  <2>3. Accept
      BY <2>1, <2>2, FollowsWhich DEF VisitSymbol, Expect
  <2> QED
      BY <1>6, <1>11, <2>3
<1> QED
    BY <1>2, <1>3, <1>7, <1>8, <1>9, <1>10, <1>11

\* SHOW DATABASES;
LEMMA ShowDatabasesGoes ==
    ASSUME AInv, IsShowDatabases(in), Visit, OnShow("ShowDatabasesE", 2, ShowDatabases)
    PROVE  OnShow("ShowDatabasesE", 2, ShowDatabases)'
<1>1. Len(in) = 3 /\ in[1] = Kw("SHOW") /\ in[2] = Kw("DATABASES") /\ in[3] = SEMICOLON
    BY DEF IsShowDatabases
<1>2. PICK i \in Nat : i = token_number + 1 /\ token_number = i - 1 /\ i >= 1
    BY DEF AInv, Counted
<1>3. outcome = "running" /\ i <= 3
    BY <1>1, <1>2, VisitByToken, WindowAt
<1>4. /\ i = 1 => curr = in[1] /\ next = in[2]
      /\ i = 2 => curr = in[2] /\ prev = in[1] /\ next = in[3]
      /\ i = 3 => curr = in[3] /\ next = None
    BY <1>1, <1>2, WindowAt
<1>5. CASE i = 1
  <2>1. Set(ContextOf("SHOW", Kw("DATABASES")), variant)
      BY <1>1, <1>2, <1>4, <1>5, RootGoes
  <2>2. ContextOf("SHOW", Kw("DATABASES")) = "ShowDatabasesE"
      BY DEF ContextOf, Kw
  <2>3. PICK v : Set("ShowDatabasesE", v)
      BY <2>1, <2>2
  <2>4. token_number = 0
      BY <1>2, <1>5
  <2> QED
      BY <1>3, <2>3, <2>4, ShowSets
<1>6. CASE i = 2
  <2>1. token_number = 1 /\ ctx = "ShowDatabasesE"
      BY <1>2, <1>6 DEF OnShow
  <2>2. VisitDatabases
      BY <1>1, <1>4, <1>6, VisitByKeyword
  <2>3. Set("ShowDatabasesE", ShowDatabases)
      BY <1>1, <1>4, <1>6, <2>1, <2>2 DEF VisitDatabases, Expect
  <2> QED
      BY <1>3, <2>1, <2>3, ShowSets
<1>7. CASE i = 3
  <2>1. curr = SEMICOLON /\ next = None
      BY <1>1, <1>4, <1>7
  <2>2. VisitSymbol
      BY <2>1, VisitByToken, Tags DEF SEMICOLON, IsSym
  <2>3. Accept
      BY <2>1, <2>2, FollowsWhich DEF VisitSymbol, Expect
  <2>4. token_number = 2
      BY <1>2, <1>7
  <2> QED
      BY <1>3, <2>3, <2>4, ShowAccepts
<1> QED
    BY <1>2, <1>3, <1>5, <1>6, <1>7

\* The short statements, one by one.
LEMMA ShortOnes ==
    ASSUME NEW k \in DOMAIN Short
    PROVE  \/ /\ k \in {"CreateDatabase", "DeleteDatabase", "ShowDatabase"}
              /\ Short[k][2] = "DATABASE" /\ Short[k][3] = "name"
              /\ ShortContext(k) \in DOMAIN DatabaseAction /\ DatabaseAction[ShortContext(k)] = k
              /\ ShortContext(k) \notin DOMAIN TableAction
              /\ Short[k][1] \in {"CREATE", "DELETE", "SHOW"}
           \/ /\ k \in {"DeleteTable", "ShowTable"}
              /\ Short[k][2] = "TABLE" /\ Short[k][3] = "sub"
              /\ ShortContext(k) \in DOMAIN TableAction /\ TableAction[ShortContext(k)] = k
              /\ ShortContext(k) \notin DOMAIN DatabaseAction
              /\ Short[k][1] \in {"DELETE", "SHOW"}
           \/ /\ k = "ShowTableData" /\ Short[k] = <<"SHOW", "FROM", "sub">>
              /\ ShortContext(k) = "Unknown"
<1>1. /\ ContextOf("CREATE", Kw("DATABASE")) = "CreateDatabaseE"
      /\ ContextOf("DELETE", Kw("DATABASE")) = "DeleteDatabaseE"
      /\ ContextOf("SHOW", Kw("DATABASE")) = "ShowDatabaseE"
    BY DEF ContextOf, Kw
<1>2. /\ ContextOf("DELETE", Kw("TABLE")) = "DeleteTableE"
      /\ ContextOf("SHOW", Kw("TABLE")) = "ShowTableE"
    BY DEF ContextOf, Kw
<1>3. ContextOf("SHOW", Kw("FROM")) = "Unknown"
    BY DEF ContextOf, Kw
<1>4. DOMAIN Short = {"CreateDatabase", "DeleteDatabase", "ShowDatabase", "DeleteTable",
                      "ShowTable", "ShowTableData"}
    BY DEF Short
<1>5. /\ Short["CreateDatabase"] = <<"CREATE", "DATABASE", "name">>
      /\ Short["DeleteDatabase"] = <<"DELETE", "DATABASE", "name">>
      /\ Short["ShowDatabase"] = <<"SHOW", "DATABASE", "name">>
      /\ Short["DeleteTable"] = <<"DELETE", "TABLE", "sub">>
      /\ Short["ShowTable"] = <<"SHOW", "TABLE", "sub">>
      /\ Short["ShowTableData"] = <<"SHOW", "FROM", "sub">>
    BY DEF Short
<1>6. /\ ShortContext("CreateDatabase") = "CreateDatabaseE"
      /\ ShortContext("DeleteDatabase") = "DeleteDatabaseE"
      /\ ShortContext("ShowDatabase") = "ShowDatabaseE"
      /\ ShortContext("DeleteTable") = "DeleteTableE"
      /\ ShortContext("ShowTable") = "ShowTableE"
      /\ ShortContext("ShowTableData") = "Unknown"
    BY <1>1, <1>2, <1>3, <1>5 DEF ShortContext
<1>7. CASE k \in {"CreateDatabase", "DeleteDatabase", "ShowDatabase"}
    BY <1>5, <1>6, <1>7 DEF DatabaseAction, TableAction
<1>8. CASE k \in {"DeleteTable", "ShowTable"}
    BY <1>5, <1>6, <1>8 DEF DatabaseAction, TableAction
<1>9. CASE k = "ShowTableData"
    BY <1>5, <1>6, <1>9
<1> QED
    BY <1>4, <1>7, <1>8, <1>9

\* The four tokens of a short statement.
LEMMA ShortGoes ==
    ASSUME AInv, NEW k \in DOMAIN Short, IsShort(in, k), Visit, NEW action, action = ShortOf(in, k),
           OnShow(ShortContext(k), ShortFrom(k), action)
    PROVE  OnShow(ShortContext(k), ShortFrom(k), action)'
<1>1. /\ Len(in) = 4 /\ in[4] = SEMICOLON
      /\ in[1] = Kw(Short[k][1]) /\ in[2] = Kw(Short[k][2]) /\ in[3][1] = Short[k][3]
    BY DEF IsShort
<1>2. PICK i \in Nat : i = token_number + 1 /\ token_number = i - 1 /\ i >= 1
    BY DEF AInv, Counted
<1>3. outcome = "running" /\ i <= 4
    BY <1>1, <1>2, VisitByToken, WindowAt
<1>4. /\ i = 1 => curr = in[1] /\ next = in[2]
      /\ i = 2 => curr = in[2] /\ next = in[3] /\ nextp1 = in[4]
      /\ i = 3 => curr = in[3] /\ next = in[4]
      /\ i = 4 => curr = in[4] /\ next = None
    BY <1>1, <1>2, WindowAt
<1>5. PICK c : c = ShortContext(k) /\ c # "ShowColumnValuesE" /\ OnShow(c, ShortFrom(k), action)
    BY ShortOnes DEF DatabaseAction, TableAction
<1>6. PICK m \in 2 .. 3 : m = ShortFrom(k)
    BY DEF ShortFrom
<1>7. i > 1 => ctx = c
    BY <1>2, <1>5 DEF OnShow
<1>8. SUFFICES OnShow(c, m, action)'
    BY <1>5, <1>6
<1>9. ASSUME NEW v, Set(c, v), i >= m => v = action
      PROVE  OnShow(c, m, action)'
  <2>1. token_number + 1 >= m => v = action
      BY <1>2, <1>9
  <2> QED
      BY <1>3, <1>5, <1>6, <1>9, <2>1, ShowSets
<1>10. ASSUME Accept, i > 1, i < m \/ i > m
       PROVE  OnShow(c, m, action)'
  <2>1. token_number > 0 /\ (token_number >= m \/ token_number + 1 < m)
      BY <1>2, <1>10
  <2> QED
      BY <1>3, <1>5, <1>6, <1>10, <2>1, ShowAccepts
<1>11. CASE i = 1
  <2>1. token_number = 0 /\ curr = Kw(Short[k][1]) /\ next = Kw(Short[k][2])
      BY <1>1, <1>2, <1>4, <1>11
  <2>2. \/ Short[k][1] = "CREATE" /\ Short[k][2] \in {"DATABASE", "TABLE"}
        \/ Short[k][1] = "DELETE" /\ Short[k][2] \in {"DATABASE", "TABLE"}
        \/ Short[k][1] = "SHOW" /\ Short[k][2] \in {"DATABASE", "DATABASES", "TABLE", "FROM"}
      BY ShortOnes
  <2>3. Set(ContextOf(Short[k][1], Kw(Short[k][2])), variant)
      BY <2>1, <2>2, RootGoes
  <2>4. PICK v : Set(c, v)
      BY <1>5, <2>3 DEF ShortContext
  <2>5. ~(i >= m)
      BY <1>11
  <2> QED
      BY <1>9, <2>4, <2>5
<1>12. CASE i = 4
  <2>1. curr = SEMICOLON /\ next = None
      BY <1>1, <1>4, <1>12
  <2>2. VisitSymbol
      BY <2>1, VisitByToken, Tags DEF SEMICOLON, IsSym
  <2>3. Accept
      BY <2>1, <2>2, FollowsWhich DEF VisitSymbol, Expect
  <2>4. i > 1 /\ i > m
      BY <1>12
  <2> QED
      BY <1>10, <2>3, <2>4
<1>13. CASE k \in {"CreateDatabase", "DeleteDatabase", "ShowDatabase"} /\ i \in {2, 3}
  <2>1. /\ Short[k][2] = "DATABASE" /\ IsName(in[3])
        /\ c \in DOMAIN DatabaseAction /\ DatabaseAction[c] = k /\ c \notin DOMAIN TableAction
      BY <1>1, <1>5, <1>13, ShortOnes DEF IsName
  <2>2. m = 3 /\ ctx = c
      BY <1>6, <1>7, <1>13 DEF ShortFrom
  <2>3. CASE i = 2
    <3>1. VisitDatabase /\ IsName(next)
        BY <1>1, <1>4, <2>1, <2>3, VisitByKeyword
    <3>2. Accept
        BY <1>5, <2>2, <3>1 DEF VisitDatabase, Expect
    <3> QED
        BY <1>10, <2>2, <2>3, <3>2
  <2>4. CASE i = 3
    <3>1. IsName(curr) /\ ~IsSub(curr) /\ next = SEMICOLON
        BY <1>1, <1>4, <2>1, <2>4 DEF IsName, IsSub
    <3>2. DatabaseTarget
        BY <2>1, <2>2, <3>1, VisitByToken DEF ListTarget, ColumnName, TableTarget,
                      SelectColumn, ShownColumn, OtherIdentifier, DatabaseAction, At
    <3>3. Set(c, OfDatabase(k, curr[2]))
        BY <2>1, <2>2, <3>1, <3>2 DEF DatabaseTarget, Expect
    <3>4. action = OfDatabase(k, curr[2])
        BY <1>4, <2>1, <2>4 DEF ShortOf
    <3> QED
        BY <1>9, <3>3, <3>4
  <2> QED
      BY <1>13, <2>3, <2>4
<1>14. CASE k \in {"DeleteTable", "ShowTable"} /\ i \in {2, 3}
  <2>1. /\ Short[k][2] = "TABLE" /\ IsSub(in[3])
        /\ c \in DOMAIN TableAction /\ TableAction[c] = k /\ c \notin DOMAIN DatabaseAction
      BY <1>1, <1>5, <1>14, ShortOnes DEF IsSub
  <2>2. m = 3 /\ ctx = c
      BY <1>6, <1>7, <1>14 DEF ShortFrom
  <2>3. CASE i = 2
    <3>1. VisitTable /\ IsSub(next)
        BY <1>1, <1>4, <2>1, <2>3, VisitByKeyword
    <3>2. Accept
        BY <3>1 DEF VisitTable, Expect
    <3> QED
        BY <1>10, <2>2, <2>3, <3>2
  <2>4. CASE i = 3
    <3>1. IsSub(curr) /\ ~IsName(curr) /\ next = SEMICOLON /\ ~IsName(in[3])
        BY <1>1, <1>4, <2>1, <2>4 DEF IsName, IsSub
    <3>2. TableTarget
        BY <2>1, <2>2, <3>1, VisitByToken DEF ListTarget, ColumnName, DatabaseTarget,
                      SelectColumn, ShownColumn, OtherIdentifier, TableAction, At
    <3>3. Set(c, OfTable(k, curr[2]))
        BY <2>1, <2>2, <3>1, <3>2 DEF TableTarget, Expect
    <3>4. action = OfTable(k, curr[2])
        BY <1>4, <2>4, <3>1 DEF ShortOf
    <3> QED
        BY <1>9, <3>3, <3>4
  <2> QED
      BY <1>14, <2>3, <2>4
<1>15. CASE k = "ShowTableData" /\ i \in {2, 3}
  <2>1. Short[k][2] = "FROM" /\ IsSub(in[3]) /\ ~IsName(in[3]) /\ c = "Unknown" /\ Short[k][1] = "SHOW"
      BY <1>1, <1>5, <1>15, ShortOnes DEF IsSub, IsName
  <2>2. m = 2 /\ ctx = c
      BY <1>6, <1>7, <1>15 DEF ShortFrom
  <2>3. CASE i = 2
    <3>1. VisitFrom /\ IsSub(next) /\ IsSym(nextp1) /\ token_number # 0
        BY <1>1, <1>2, <1>4, <2>1, <2>3, VisitByKeyword, Tags DEF SEMICOLON, IsSym
    <3>2. Set(c, OfTable("ShowTableData", next[2]))
        BY <2>1, <2>2, <3>1 DEF VisitFrom, Expect
    <3>3. action = OfTable("ShowTableData", next[2])
        BY <1>4, <1>15, <2>1, <2>3 DEF ShortOf
    <3> QED
        BY <1>9, <3>2, <3>3
  <2>4. CASE i = 3
    <3>1. IsSub(curr) /\ ~IsName(curr)
        BY <1>4, <2>1, <2>4
    <3>2. OtherIdentifier
        BY <2>1, <2>2, <3>1, VisitByToken DEF ListTarget, ColumnName, DatabaseTarget, TableTarget,
                      SelectColumn, ShownColumn, DatabaseAction, TableAction, At
    <3>3. Accept
        BY <3>2 DEF OtherIdentifier
    <3> QED
        BY <1>10, <2>2, <2>4, <3>3
  <2> QED
      BY <1>15, <2>3, <2>4
<1>16. i = 1 \/ i = 4 \/ i \in {2, 3}
    BY <1>2, <1>3
<1> QED
    BY <1>11, <1>12, <1>13, <1>14, <1>15, <1>16, ShortOnes

\* Before the first token every sentence is at its beginning.
LEMMA UnderstandingBegins == token_number = 0 /\ outcome = "running" => Understanding
<1> SUFFICES ASSUME token_number = 0, outcome = "running" PROVE Understanding
    OBVIOUS
<1>1. NoFault /\ ~(token_number > 0) /\ ~(token_number >= 2) /\ ~(token_number >= 3)
    BY DEF NoFault
<1> QED
    BY <1>1 DEF Understanding, OnList, OnSelect, OnShow, ShortFrom

\* A visit keeps what a sentence has reached.
LEMMA VisitUnderstands == AInv /\ IsSequence /\ Understanding /\ Visit => Understanding'
<1> SUFFICES ASSUME AInv, IsSequence, Understanding, Visit PROVE Understanding'
    OBVIOUS
<1>1. in' = in
    BY VisitMoves
<1>2. IsInsert(in) => OnList("InsertE")'
    BY InsertGoes DEF Understanding
<1>3. IsCreateTable(in) => OnList("CreateTableE")'
    BY TableGoes DEF Understanding
<1>4. IsSelect(in) => OnSelect'
    BY SelectGoes DEF Understanding
<1>5. IsShowColumn(in) => OnShow("ShowColumnValuesE", 2, ShowColumnValues(in[3][2], in[4][2]))'
  <2>1. PICK action : action = ShowColumnValues(in[3][2], in[4][2])
      OBVIOUS
  <2>2. IsShowColumn(in) => OnShow("ShowColumnValuesE", 2, action)'
      BY <2>1, ShowColumnGoes DEF Understanding
  <2>3. action = ShowColumnValues(in'[3][2], in'[4][2])
      BY <1>1, <2>1
  <2> QED
      BY <2>2, <2>3
<1>6. IsShowDatabases(in) => OnShow("ShowDatabasesE", 2, ShowDatabases)'
    BY ShowDatabasesGoes DEF Understanding
<1>7. ASSUME NEW k \in DOMAIN Short, IsShort(in, k)
      PROVE  OnShow(ShortContext(k), ShortFrom(k), ShortOf(in, k))'
  <2>1. PICK action : action = ShortOf(in, k)
      OBVIOUS
  <2>2. OnShow(ShortContext(k), ShortFrom(k), action)
      BY <1>7, <2>1 DEF Understanding
  <2>3. OnShow(ShortContext(k), ShortFrom(k), action)'
      BY <1>7, <2>1, <2>2, ShortGoes
  <2>4. action = ShortOf(in', k)
      BY <1>1, <2>1
  <2> QED
      BY <2>3, <2>4
<1> QED
    BY <1>1, <1>2, <1>3, <1>4, <1>5, <1>6, <1>7 DEF Understanding

\* The kinds of the actions that the sentences mean.
LEMMA KindReached ==
    ASSUME AInv, Understanding, token_number = Len(in)
    PROVE  /\ IsInsert(in) => variant.kind = "Insert"
           /\ IsCreateTable(in) => variant.kind = "CreateTable"
           /\ IsSelect(in) => variant.kind = "Show_Select"
           /\ IsShowColumn(in) => variant = ShowColumnValues(in[3][2], in[4][2])
           /\ IsShowDatabases(in) => variant = ShowDatabases
           /\ \A k \in DOMAIN Short : IsShort(in, k) => variant = ShortOf(in, k)
<1>1. Len(in) \in Nat
    BY DEF AInv, Counted
<1>2. ASSUME NEW c \in Lists, OnList(c), Len(in) > 6
      PROVE  variant.kind = KindOf[c]
  <2>1. token_number > 0 /\ token_number >= 3
      BY <1>1, <1>2
  <2>2. ctx = c /\ ctx \in Changing
      BY <1>2, <2>1 DEF OnList, Changing, Lists
  <2> QED
      BY <2>1, <2>2 DEF AInv, Opened
<1>3. IsInsert(in) => variant.kind = "Insert"
    BY <1>2 DEF Understanding, IsInsert, IsListOf, KindOf, Lists
<1>4. IsCreateTable(in) => variant.kind = "CreateTable"
    BY <1>2 DEF Understanding, IsCreateTable, IsListOf, KindOf, Lists
<1>5. IsSelect(in) => variant.kind = "Show_Select"
  <2> SUFFICES ASSUME IsSelect(in) PROVE variant.kind = "Show_Select"
      OBVIOUS
  <2>1. PICK w : w = WhereAt(in)
      OBVIOUS
  <2>2. w \in Nat /\ w > 4 /\ w < Len(in)
      BY <1>1, <2>1, SelectPlaces
  <2>3. token_number > 0
      BY <1>1, <2>2
  <2> QED
      BY <2>3 DEF Understanding, OnSelect
<1>6. IsShowColumn(in) => variant = ShowColumnValues(in[3][2], in[4][2])
  <2>1. IsShowColumn(in) => token_number >= 2
      BY DEF IsShowColumn
  <2> QED
      BY <2>1 DEF Understanding, OnShow
<1>7. IsShowDatabases(in) => variant = ShowDatabases
  <2>1. IsShowDatabases(in) => token_number >= 2
      BY DEF IsShowDatabases
  <2> QED
      BY <2>1 DEF Understanding, OnShow
<1>8. ASSUME NEW k \in DOMAIN Short, IsShort(in, k) PROVE variant = ShortOf(in, k)
  <2>1. token_number >= ShortFrom(k)
      BY <1>8 DEF IsShort, ShortFrom
  <2> QED
      BY <1>8, <2>1 DEF Understanding, OnShow
<1> QED
    BY <1>3, <1>4, <1>5, <1>6, <1>7, <1>8

\* The sentences of the grammar.
Sentence(s) == \/ IsInsert(s) \/ IsCreateTable(s) \/ IsSelect(s) \/ IsShowColumn(s)
               \/ IsShowDatabases(s) \/ \E k \in DOMAIN Short : IsShort(s, k)

\* Every step keeps what a sentence has reached.
LEMMA StepUnderstanding == AInv /\ IsSequence /\ Understanding /\ [ANext]_avars => Understanding'
<1> SUFFICES ASSUME AInv, IsSequence, Understanding, [ANext]_avars PROVE Understanding'
    OBVIOUS
<1>1. ASSUME UNCHANGED <<in, token_number, ctx, variant>>, Sentence(in) => NoFault'
      PROVE  Understanding'
  <2>1. \/ ~Sentence(in)
        \/ NoFault'
      BY <1>1
  <2> QED
      BY <1>1, <2>1 DEF Understanding, Sentence, OnList, OnSelect, OnShow
<1>2. CASE Visit
    BY <1>2, VisitUnderstands
<1>3. CASE Answer
  <2>1. UNCHANGED <<in, token_number, ctx, variant>>
      BY <1>3 DEF Answer, End
  <2>2. Sentence(in) => variant # NoAction
    <3>1. token_number = Len(in)
        BY <1>3 DEF Answer, At
    <3>2. NoAction.kind = "none"
        BY DEF NoAction
    <3>3. ShowDatabases # NoAction /\ \A d, ts : ShowColumnValues(d, ts) # NoAction
        BY <3>2, ShowKinds
    <3>4. \A k \in DOMAIN Short : ShortOf(in, k) # NoAction
      <4>1. \A k \in DOMAIN Short : k # "none"
          BY DEF Short
      <4> QED
          BY <3>2, <4>1, ShowKinds DEF ShortOf
    <3> QED
        BY <3>1, <3>2, <3>3, <3>4, KindReached DEF Sentence
  <2>3. Sentence(in) => NoFault'
      BY <1>3, <2>2 DEF Answer, End, NoFault
  <2> QED
      BY <1>1, <2>1, <2>3
<1>4. CASE UNCHANGED avars
  <2>1. UNCHANGED <<in, token_number, ctx, variant>> /\ outcome' = outcome
      BY <1>4 DEF avars
  <2>2. Sentence(in) => NoFault'
      BY <2>1 DEF Sentence, Understanding, OnList, OnSelect, OnShow, NoFault
  <2> QED
      BY <1>1, <2>1, <2>2
<1> QED
    BY <1>2, <1>3, <1>4 DEF ANext

\* What a SELECT means, and what the statements mean that show something.
LEMMA MeaningOfShows ==
    ASSUME NEW s
    PROVE  /\ IsSelect(s) => Meaning(s) = SelectOf(s)
           /\ IsShowColumn(s) => Meaning(s) = ShowColumnValues(s[3][2], s[4][2])
           /\ IsShowDatabases(s) => Meaning(s) = ShowDatabases
           /\ Meaning(s) # NoAction => Sentence(s)
<1>1. ASSUME IsSelect(s) PROVE Meaning(s) = SelectOf(s)
  <2>1. s[1] = Kw("USING")
      BY <1>1 DEF IsSelect
  <2>2. ~IsInsert(s) /\ ~IsCreateTable(s) /\ ~IsShowColumn(s) /\ ~IsShowDatabases(s)
      BY <2>1 DEF IsInsert, IsCreateTable, IsListOf, IsShowColumn, IsShowDatabases, Kw
  <2>3. ~\E k \in DOMAIN Short : IsShort(s, k)
      BY <2>1 DEF IsShort, Short, Kw
  <2> QED
      BY <1>1, <2>2, <2>3 DEF Meaning
<1>2. ASSUME IsShowColumn(s) PROVE Meaning(s) = ShowColumnValues(s[3][2], s[4][2])
  <2>1. Len(s) = 5 /\ s[1] = Kw("SHOW")
      BY <1>2 DEF IsShowColumn
  <2>2. ~IsInsert(s) /\ ~IsCreateTable(s) /\ ~IsSelect(s) /\ ~IsShowDatabases(s)
      BY <2>1 DEF IsInsert, IsCreateTable, IsListOf, IsSelect, IsShowDatabases, Kw
  <2>3. ~\E k \in DOMAIN Short : IsShort(s, k)
      BY <2>1 DEF IsShort
  <2> QED
      BY <1>2, <2>2, <2>3 DEF Meaning
<1>3. ASSUME IsShowDatabases(s) PROVE Meaning(s) = ShowDatabases
  <2>1. Len(s) = 3 /\ s[1] = Kw("SHOW")
      BY <1>3 DEF IsShowDatabases
  <2>2. ~IsInsert(s) /\ ~IsCreateTable(s) /\ ~IsSelect(s) /\ ~IsShowColumn(s)
      BY <2>1 DEF IsInsert, IsCreateTable, IsListOf, IsSelect, IsShowColumn, Kw
  <2>3. ~\E k \in DOMAIN Short : IsShort(s, k)
      BY <2>1 DEF IsShort
  <2> QED
      BY <1>3, <2>2, <2>3 DEF Meaning
<1>4. Meaning(s) # NoAction => Sentence(s)
    BY DEF Meaning, Sentence
<1> QED
    BY <1>1, <1>2, <1>3, <1>4

\* A sentence that is done with has been understood.
LEMMA SentenceEnds ==
    ASSUME AInv, Understanding, ChangesAreMeant, SelectKeepsItsConditions, outcome # "running",
           Sentence(in)
    PROVE  outcome = "action" /\ variant = Meaning(in)
<1>1. outcome = "action"
    BY DEF Sentence, Understanding, OnList, OnSelect, OnShow, NoFault
<1>2. token_number = Len(in)
    BY <1>1 DEF AInv, Counted
<1>3. IsInsert(in) \/ IsCreateTable(in) => variant = Meaning(in)
    BY <1>1, <1>2, KindReached DEF ChangesAreMeant
<1>4. IsSelect(in) => variant = Meaning(in)
    BY <1>1, <1>2, KindReached, MeaningOfShows DEF SelectKeepsItsConditions
<1>5. IsShowColumn(in) \/ IsShowDatabases(in) => variant = Meaning(in)
    BY <1>2, KindReached, MeaningOfShows
<1>6. (\E k \in DOMAIN Short : IsShort(in, k)) => variant = Meaning(in)
    BY <1>2, KindReached, MeaningOfShort
<1> QED
    BY <1>1, <1>3, <1>4, <1>5, <1>6 DEF Sentence

LEMMA UnderstandingEnds ==
    ASSUME AInv, Understanding, ChangesAreMeant, SelectKeepsItsConditions
    PROVE  TokensAreUnderstood
BY SentenceEnds, MeaningOfShows DEF TokensAreUnderstood

\* For every set of sentences in which a string type has its size: a sentence
\* of the grammar, however long, is answered with the action it means; no
\* window of five tokens takes it for an error and no get throws.
THEOREM Understood == ASpec => []TokensAreUnderstood
<1>1. AInit => Understanding /\ IsSequence
    BY UnderstandingBegins, SentencesAssumption DEF AInit, IsSequence
<1> QED
    BY <1>1, UnderstandingEnds, InitAInv, StepAInv, StepUnderstanding, StepIsSequence, Changes,
       SelectKeeps, PTL DEF ASpec
=============================================================================
