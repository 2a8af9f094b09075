---------------------------- MODULE TableStoreProofs ----------------------------
(***************************************************************************)
(* The files of a table hold what was inserted, for all tables, statements *)
(* and connections: first that a value survives the way to its file and    *)
(* back, then the invariant Inv.  On it stands SelectInv: what a SELECT    *)
(* shows and counts at each stage, and so that its answer is the matching  *)
(* rows.                                                                   *)
(***************************************************************************)
EXTENDS TableStoreProperties, FiniteSetTheorems, WellFoundedInduction, TLAPS

(***************************************************************************)
(* Values                                                                  *)
(***************************************************************************)
\* The remainder of a number in range, just below it, and in general.
LEMMA ModInRange ==
    ASSUME NEW m \in Nat \ {0}, NEW v \in 0 .. m - 1
    PROVE  v % m = v
OBVIOUS

LEMMA ModBelow ==
    ASSUME NEW m \in Nat \ {0}, NEW v \in -m .. -1
    PROVE  v % m = v + m
OBVIOUS

LEMMA ModType ==
    ASSUME NEW m \in Nat \ {0}, NEW v \in Int
    PROVE  v % m \in 0 .. m - 1
OBVIOUS

LEMMA Euclid ==
    ASSUME NEW m \in Nat \ {0}, NEW v \in Int
    PROVE  v = m * (v \div m) + (v % m) /\ v \div m \in Int
OBVIOUS

LEMMA ModUnique ==
    ASSUME NEW m \in Nat \ {0}, NEW q \in Int, NEW r \in 0 .. m - 1
    PROVE  (m * q + r) % m = r
OBVIOUS

LEMMA Distributes ==
    ASSUME NEW a \in Int, NEW b \in Int, NEW m \in Int
    PROVE  m * (a + b) = m * a + m * b /\ m * (a * b) = (m * a) * b
OBVIOUS

\* Adding a multiple of the divisor changes nothing.
LEMMA ModShift ==
    ASSUME NEW m \in Nat \ {0}, NEW v \in Int, NEW q \in Int
    PROVE  (v + m * q) % m = v % m
<1>1. PICK d \in Int : d = v \div m
  BY Euclid
<1>2. PICK r \in 0 .. m - 1 : r = v % m
  BY ModType
<1>3. v = m * d + r
  BY <1>1, <1>2, Euclid
<1>4. m * (d + q) = m * d + m * q
  BY Distributes
<1>5. m * d \in Int /\ m * q \in Int /\ d + q \in Int
  OBVIOUS
<1>6. v + m * q = m * (d + q) + r
  BY <1>3, <1>4, <1>5
<1>7. (m * (d + q) + r) % m = r
  BY <1>5, ModUnique
<1> QED BY <1>2, <1>6, <1>7

Sizes == {1, 2, 4, 8}

LEMMA HalfType == \A n \in Sizes : Half[n] \in Nat \ {0}
BY ValuesAssumption DEF ValuesAssumption, Sizes

\* A signed number in range survives being written as n bytes.
LEMMA SignedBytes ==
    ASSUME NEW n \in Sizes, NEW v \in -Half[n] .. Half[n] - 1
    PROVE  Signed(Bytes(v, n), n) = v
<1>1. Half[n] \in Nat \ {0}
  BY HalfType
<1>2. CASE v >= 0
  <2>1. Bytes(v, n) = v
    BY <1>1, <1>2, ModInRange, 2 * Half[n] \in Nat \ {0}, v \in 0 .. 2 * Half[n] - 1 DEF Bytes
  <2> QED BY <2>1, <1>1 DEF Signed
<1>3. CASE v < 0
  <2>1. Bytes(v, n) = v + 2 * Half[n]
    BY <1>1, <1>3, ModBelow, 2 * Half[n] \in Nat \ {0}, v \in -(2 * Half[n]) .. -1 DEF Bytes
  <2> QED BY <2>1, <1>1, <1>3 DEF Signed
<1> QED BY <1>2, <1>3, <1>1

\* So does an unsigned one.
LEMMA UnsignedBytes ==
    ASSUME NEW n \in Sizes, NEW v \in 0 .. 2 * Half[n] - 1
    PROVE  Bytes(v, n) = v
BY HalfType, ModInRange, 2 * Half[n] \in Nat \ {0} DEF Bytes

\* The low four bytes of the eight bytes of a number are those of the number.
LEMMA LowBytes ==
    ASSUME NEW v \in Int
    PROVE  Bytes(Bytes(v, 8), 4) = Bytes(v, 4)
<1>1. PICK h \in Nat \ {0} : h = Half[4]
  BY HalfType DEF Sizes
<1>2. PICK k \in Nat \ {0} : k = Half[8]
  BY HalfType DEF Sizes
<1>3. PICK q \in Int : k = h * q
  <2>1. k % h = 0
    BY <1>1, <1>2, ValuesAssumption DEF ValuesAssumption
  <2>2. k \in Int /\ k = h * (k \div h) + (k % h) /\ k \div h \in Int
    BY Euclid
  <2>3. PICK e \in Int : e = k \div h
    BY <2>2
  <2>4. h * e \in Int
    OBVIOUS
  <2>5. k = h * e
    BY <2>1, <2>2, <2>3, <2>4
  <2> QED BY <2>5
<1>n. 2 * k \in Nat \ {0}
  OBVIOUS
<1>b. Bytes(v, 8) = v % (2 * k)
  BY <1>2 DEF Bytes
<1>4. PICK d \in Int : v = (2 * k) * d + Bytes(v, 8)
  BY <1>n, <1>b, Euclid
<1>5. Bytes(v, 8) \in Int
  BY <1>n, <1>b, ModType
<1>6. (2 * k) * d = (2 * h) * (q * d)
  <2>1. 2 * k = (2 * h) * q
    BY <1>3, Distributes
  <2> QED BY <2>1, Distributes, 2 * h \in Int
<1>7. q * d \in Int /\ 2 * h \in Nat \ {0}
  OBVIOUS
<1>8. v = Bytes(v, 8) + (2 * h) * (q * d)
  BY <1>4, <1>5, <1>6, <1>7
<1>9. (Bytes(v, 8) + (2 * h) * (q * d)) % (2 * h) = Bytes(v, 8) % (2 * h)
  BY <1>5, <1>7, ModShift
<1> QED BY <1>1, <1>8, <1>9 DEF Bytes

\* A string without zeros that fits is what is read up to the first zero.
LEMMA StringRoundTrip ==
    ASSUME NEW size \in Nat, NEW s \in Seq(Nat \ {0}), Len(s) <= size
    PROVE  /\ deserialize_str(serialize_str(s, size)) = s
           /\ serialize_str(s, size) \in Seq(Nat)
<1> DEFINE b == serialize_str(s, size)
<1> USE DEF serialize_str
<1>a. /\ Len(s) \in Nat /\ DOMAIN s = 1 .. Len(s)
      /\ \A k \in 1 .. Len(s) : s[k] \in Nat \ {0}
  OBVIOUS
<1>b. b \in [1 .. size -> Nat]
  BY <1>a
<1>c. b \in Seq(Nat) /\ DOMAIN b = 1 .. size /\ Len(b) = size
  BY <1>b
<1>d. \A k \in 1 .. Len(s) : b[k] = s[k]
  BY <1>a
<1>e. Ends(b) = (Len(s) + 1) .. size
  BY <1>a, <1>c DEF Ends
<1>1. /\ b \in Seq(Nat) /\ DOMAIN b = 1 .. size /\ Len(b) = size
      /\ \A k \in 1 .. Len(s) : b[k] = s[k]
      /\ Ends(b) = (Len(s) + 1) .. size
  BY <1>c, <1>d, <1>e
<1> HIDE DEF serialize_str, b
<1>2. CASE Len(s) = size
  <2>1. Ends(b) = {}
    BY <1>1, <1>2
  <2>2. b = s
    BY <1>1, <1>2
  <2>3. deserialize_str(b) = b
    BY <2>1 DEF deserialize_str
  <2> QED BY <1>1, <2>2, <2>3 DEF b
<1>3. CASE Len(s) < size
  <2> DEFINE first == CHOOSE k \in Ends(b) : \A j \in Ends(b) : k <= j
  <2>1. Len(s) + 1 \in Ends(b) /\ \A j \in Ends(b) : Len(s) + 1 <= j
    BY <1>1, <1>3
  <2>2. first \in Ends(b) /\ \A j \in Ends(b) : first <= j
    BY <2>1
  <2>3. first = Len(s) + 1
    BY <1>1, <2>1, <2>2
  <2>4. deserialize_str(b) = SubSeq(b, 1, first - 1)
    BY <2>1 DEF deserialize_str
  <2>5. SubSeq(b, 1, Len(s)) = s
    <3>1. Len(s) \in Nat /\ Len(s) <= Len(b)
      BY <1>1, <1>3
    <3>2. /\ SubSeq(b, 1, Len(s)) \in Seq(Nat)
          /\ Len(SubSeq(b, 1, Len(s))) = Len(s)
          /\ \A k \in 1 .. Len(s) : SubSeq(b, 1, Len(s))[k] = b[k]
      BY <1>1, <3>1
    <3> QED BY <1>1, <3>2
  <2> HIDE DEF first
  <2>6. first - 1 = Len(s)
    BY <1>3, <2>3, Len(s) \in Nat
  <2>7. deserialize_str(b) = s
    BY <2>4, <2>5, <2>6
  <2> QED BY <1>1, <2>7 DEF b
<1> QED BY <1>2, <1>3, <1>1 DEF b

\* What the layout of a column and a literal it takes can be.
LEMMA FitsCases ==
    ASSUME NEW ly \in [type : Types, size : Nat], IsLayout(ly),
           NEW lit \in Literal, Fits(lit, ly)
    PROVE  \/ /\ ly.type \in UnsignedTypes /\ ly.size \in Sizes
              /\ lit.value \in 0 .. 2 * Half[ly.size] - 1
           \/ /\ ly.type \in SignedTypes /\ ly.size \in Sizes
              /\ lit.value \in -Half[ly.size] .. Half[ly.size] - 1
           \/ /\ ly.type = "str"
              /\ lit.value \in Seq(Nat \ {0}) /\ Len(lit.value) <= ly.size
           \/ ly.type \in {"f64", "bool"} /\ lit.value \in Int
<1>1. ly.type \in UnsignedTypes \cup SignedTypes =>
          ly.size \in Sizes /\ Half[ly.size] \in Nat \ {0}
  BY HalfType DEF IsLayout, from_parser_type, UnsignedTypes, SignedTypes, Sizes
<1>2. CASE lit.kind = "UInt" /\ FitsUInt(lit.value, ly)
  <2>1. lit.value \in Nat
    BY <1>2 DEF Literal
  <2> QED BY <1>1, <1>2, <2>1 DEF FitsUInt, MaxOf, UnsignedTypes, SignedTypes
<1>3. CASE lit.kind = "Int" /\ FitsInt(lit.value, ly)
  <2>1. lit.value \in Int
    BY <1>3 DEF Literal
  <2> QED BY <1>1, <1>3, <2>1 DEF FitsInt, MaxOf, Min, SignedTypes
<1>4. CASE FitsOther(lit, ly)
  BY <1>4 DEF FitsOther, Literal
<1> QED BY <1>2, <1>3, <1>4 DEF Fits

\* What is read back for a literal that a column takes is what was inserted; of an
\* i64 the low four bytes (try_insert, the serializer crate, load_column).
THEOREM RoundTrip ==
    ASSUME NEW ly \in [type : Types, size : Nat], IsLayout(ly),
           NEW lit \in Literal, Fits(lit, ly)
    PROVE  /\ deserialize(Cell(lit, ly), ly) = Seen(lit, ly)
           /\ Cell(lit, ly) \in Cells(ly)
<1>1. CASE /\ ly.type \in UnsignedTypes /\ ly.size \in Sizes
           /\ lit.value \in 0 .. 2 * Half[ly.size] - 1
  <2>1. Cell(lit, ly) = lit.value
    BY <1>1, UnsignedBytes
    DEF Cell, serialize, resolve_value, Narrow, UnsignedTypes, SignedTypes
  <2>2. Half[ly.size] \in Nat
    BY <1>1, HalfType
  <2> QED BY <1>1, <2>1, <2>2 DEF deserialize, Seen, Cells, UnsignedTypes, SignedTypes
<1>2. CASE /\ ly.type \in SignedTypes /\ ly.size \in Sizes
           /\ lit.value \in -Half[ly.size] .. Half[ly.size] - 1
  <2>1. resolve_value(lit, ly) = lit.value
    BY <1>2, SignedBytes DEF resolve_value, Narrow
  <2>2. Cell(lit, ly) = Bytes(lit.value, ly.size)
    BY <1>2, <2>1 DEF Cell, serialize, SignedTypes
  <2>3. Half[ly.size] \in Nat \ {0} /\ lit.value \in Int
    BY <1>2, HalfType
  <2>4. Cell(lit, ly) \in Cells(ly)
    BY <1>2, <2>2, <2>3 DEF Bytes, Cells, SignedTypes
  <2>5. CASE ly.type = "i64"
    <3>1. ly.size = 8
      BY <2>5 DEF IsLayout, from_parser_type
    <3>2. deserialize(Cell(lit, ly), ly) = di64(Bytes(lit.value, 8))
      BY <2>2, <2>5, <3>1 DEF deserialize
    <3> QED BY <2>3, <2>4, <2>5, <3>2, LowBytes DEF di64, Seen
  <2>6. CASE ly.type # "i64"
    BY <1>2, <2>2, <2>4, <2>6, SignedBytes DEF deserialize, Seen, SignedTypes
  <2> QED BY <2>5, <2>6
<1>3. CASE /\ ly.type = "str"
           /\ lit.value \in Seq(Nat \ {0}) /\ Len(lit.value) <= ly.size
  <2>1. Cell(lit, ly) = serialize_str(lit.value, ly.size)
    BY <1>3 DEF Cell, serialize, resolve_value, UnsignedTypes, SignedTypes
  <2> QED BY <1>3, <2>1, StringRoundTrip DEF deserialize, Seen, Cells
<1>4. CASE ly.type \in {"f64", "bool"} /\ lit.value \in Int
  BY <1>4 DEF Cell, serialize, resolve_value, deserialize, Seen, Cells,
              UnsignedTypes, SignedTypes
<1> QED BY <1>1, <1>2, <1>3, <1>4, FitsCases

(***************************************************************************)
(* The invariant                                                           *)
(***************************************************************************)
Layouts == [type : Types, size : Nat]

\* Of a column: its layout, and the cell an INSERT that is accepted writes to it.
LEMMA ColumnFacts ==
    ASSUME NEW t \in Table
    PROVE  /\ Columns[t] \in Seq(Layouts)
           /\ \A c \in Cols(t) : Columns[t][c] \in Layouts /\ IsLayout(Columns[t][c])
<1>1. Columns \in [Table -> Seq(Layouts)]
  BY TableStoreAssumption DEF TableStoreAssumption, Layouts
<1>2. \A c \in DOMAIN Columns[t] : IsLayout(Columns[t][c])
  BY TableStoreAssumption DEF TableStoreAssumption
<1>3. Columns[t] \in Seq(Layouts)
  BY <1>1
<1>4. \A c \in DOMAIN Columns[t] : Columns[t][c] \in Layouts
  BY <1>3
<1> QED BY <1>2, <1>3, <1>4 DEF Cols

LEMMA CellFacts ==
    ASSUME NEW t \in Table, NEW row \in Row(t), NEW c \in Cols(t)
    PROVE  /\ c \in DOMAIN row
           /\ Cell(row[c], Columns[t][c]) \in Cells(Columns[t][c])
           /\ deserialize(Cell(row[c], Columns[t][c]), Columns[t][c])
                  = Seen(row[c], Columns[t][c])
<1>1. /\ row \in Seq(Literal) /\ Len(row) = Len(Columns[t])
      /\ \A k \in DOMAIN row : Fits(row[k], Columns[t][k])
  BY DEF Row
<1>2. c \in DOMAIN row
  BY <1>1, ColumnFacts DEF Cols
<1>3. row[c] \in Literal /\ Fits(row[c], Columns[t][c])
  BY <1>1, <1>2
<1> QED BY <1>2, <1>3, ColumnFacts, RoundTrip DEF Layouts

LEMMA InsertFacts ==
    ASSUME NEW s \in Inserts
    PROVE  s.t \in Table /\ (CanInsert(s) => s.values \in Row(s.t))
<1>1. s.t \in Table /\ s.values \in Seq(Literal)
  BY TableStoreAssumption DEF TableStoreAssumption
<1> QED BY <1>1 DEF CanInsert, Row

LEMMA InitInv == Init => Inv
<1> SUFFICES ASSUME Init PROVE Inv
  OBVIOUS
<1>1. DOMAIN rows = Table /\ \A t \in Table : rows[t] \in Seq(Row(t))
  BY TableStoreAssumption DEF TableStoreAssumption, Init
<1>2. ASSUME NEW t \in Table, NEW c \in Cols(t)
      PROVE  /\ Len(file[t][c]) = Len(rows[t])
             /\ file[t][c] \in Seq(Cells(Columns[t][c]))
             /\ \A i \in DOMAIN rows[t] :
                    deserialize(file[t][c][i], Columns[t][c])
                        = Seen(rows[t][i][c], Columns[t][c])
  <2>1. file[t][c] = [i \in DOMAIN rows[t] |-> Cell(rows[t][i][c], Columns[t][c])]
    BY DEF Init, Cols
  <2>2. DOMAIN rows[t] = 1 .. Len(rows[t]) /\ Len(rows[t]) \in Nat
    BY <1>1
  <2>3. \A i \in DOMAIN rows[t] : rows[t][i] \in Row(t)
    BY <1>1
  <2> QED BY <2>1, <2>2, <2>3, CellFacts
<1>3. lock = [t \in Table |-> NoOne] /\ th = [w \in Worker |-> Idle]
  BY DEF Init
<1>4. TypeOK
  <2>1. DOMAIN file = Table /\ \A t \in Table : DOMAIN file[t] = Cols(t)
    BY DEF Init, Cols
  <2>2. sent \in [Worker -> Nat] /\ \A w \in Worker : sent[w] <= MaxStatements[w]
    BY TableStoreAssumption DEF TableStoreAssumption, Init
  <2>3. \A t \in Table : \A c \in Cols(t) : file[t][c] \in Seq(Cells(Columns[t][c]))
    BY <1>2
  <2>4. /\ DOMAIN th = Worker
        /\ \A w \in Worker :
               /\ DOMAIN th[w] = DOMAIN Idle /\ th[w].pc = "idle"
               /\ th[w].s \in Statements /\ th[w].at = 1
    BY <1>3 DEF Idle, Nothing, Statements
  <2>5. lock \in [Table -> Worker \cup {NoOne}] /\ down \in BOOLEAN
    BY <1>3 DEF Init
  <2> QED BY <1>1, <2>1, <2>2, <2>3, <2>4, <2>5 DEF TypeOK, Labels
<1>5. InsertInv
  BY <1>3 DEF InsertInv, Idle
<1>6. \A t \in Table : \A c \in Cols(t) : Ahead(t, c) = 0
  BY <1>3 DEF Ahead
<1>7. \A t \in Table : Len(rows[t]) \in Nat
  BY <1>1
<1> QED BY <1>2, <1>4, <1>5, <1>6, <1>7 DEF Inv, StoredAsInserted, AheadInv

\* A step of one connection that neither appends nor holds a lock, and starts neither.
LEMMA QuietStep ==
    ASSUME Inv, NEW w \in Worker, NEW r,
           th[w].pc # "append", th' = [th EXCEPT ![w] = r],
           DOMAIN r = DOMAIN Idle, r.pc \in Labels \ {"append"}, r.s \in Statements,
           r.at \in Nat \ {0},
           r.pc = "lock" => r.s \in Inserts /\ CanInsert(r.s) /\ r.at = 1,
           r.pc \in {"show", "filter", "dead"} => r.s \in Selects,
           file' = file, lock' = lock, rows' = rows, down' \in BOOLEAN,
           sent' \in [Worker -> Nat], \A v \in Worker : sent'[v] <= MaxStatements[v]
    PROVE  Inv'
<1>1. \A v \in Worker : th'[v] = IF v = w THEN r ELSE th[v]
  BY DEF Inv, TypeOK
<1>2. \A t \in Table : lock[t] # NoOne => lock[t] \in Worker /\ th'[lock[t]] = th[lock[t]]
  BY <1>1 DEF Inv, TypeOK, InsertInv
<1>3. TypeOK'
  BY <1>1 DEF Inv, TypeOK, Cols, Statements, Labels
<1>4. InsertInv'
  BY <1>1, <1>2 DEF Inv, InsertInv, CanInsert
<1>5. \A t \in Table : \A c \in Cols(t) : Ahead(t, c)' = Ahead(t, c)
  BY <1>2 DEF Ahead
<1>6. StoredAsInserted'
  BY <1>5 DEF Inv, StoredAsInserted, Cols
<1>7. AheadInv'
  BY <1>2, <1>5 DEF Inv, AheadInv, Cols, Ahead
<1> QED BY <1>3, <1>4, <1>6, <1>7 DEF Inv

LEMMA QuietActions ==
    ASSUME Inv, NEW w \in Worker,
           SendInsert(w) \/ SendSelect(w) \/ LoadShown(w) \/ ListIndexes(w)
               \/ Filter(w) \/ Answer(w)
    PROVE  Inv'
<1>1. /\ sent \in [Worker -> Nat] /\ \A v \in Worker : sent[v] <= MaxStatements[v]
      /\ DOMAIN th[w] = DOMAIN Idle /\ down \in BOOLEAN
      /\ th[w].s \in Statements /\ th[w].at \in Nat \ {0}
      /\ th[w].pc \in {"show", "filter"} => th[w].s \in Selects
  BY DEF Inv, TypeOK
<1>2. sent[w] < MaxStatements[w] =>
          /\ [sent EXCEPT ![w] = @ + 1] \in [Worker -> Nat]
          /\ \A v \in Worker : [sent EXCEPT ![w] = @ + 1][v] <= MaxStatements[v]
  BY <1>1, TableStoreAssumption DEF TableStoreAssumption
<1>3. CASE SendInsert(w)
  <2>1. PICK s \in Inserts :
            th' = [th EXCEPT ![w] =
                [Idle EXCEPT !.pc = IF CanInsert(s) THEN "lock" ELSE "idle", !.s = s]]
    BY <1>3 DEF SendInsert, Do
  <2> DEFINE r == [Idle EXCEPT !.pc = IF CanInsert(s) THEN "lock" ELSE "idle", !.s = s]
  <2>2. /\ DOMAIN r = DOMAIN Idle /\ r.at = 1 /\ r.s = s
        /\ r.pc = IF CanInsert(s) THEN "lock" ELSE "idle"
    BY DEF Idle
  <2>3. /\ th[w].pc = "idle" /\ UNCHANGED <<file, lock, down, rows>>
        /\ sent[w] < MaxStatements[w] /\ sent' = [sent EXCEPT ![w] = @ + 1]
    BY <1>3 DEF SendInsert, CanSend, At
  <2>4. /\ th' = [th EXCEPT ![w] = r] /\ r.pc \in Labels \ {"append"} /\ r.s \in Statements
        /\ th[w].pc # "append" /\ r.at \in Nat \ {0}
        /\ r.pc = "lock" => r.s \in Inserts /\ CanInsert(r.s) /\ r.at = 1
        /\ ~ r.pc \in {"show", "filter", "dead"}
    BY <2>1, <2>2, <2>3 DEF Statements, Labels
  <2>5. /\ down' \in BOOLEAN /\ sent' \in [Worker -> Nat]
        /\ \A v \in Worker : sent'[v] <= MaxStatements[v]
    BY <1>1, <1>2, <2>3
  <2> HIDE DEF r
  <2> QED BY <2>2, <2>3, <2>4, <2>5, QuietStep
<1>4. CASE SendSelect(w)
  <2>1. PICK s \in Selects : th' = [th EXCEPT ![w] = [Idle EXCEPT !.pc = "show", !.s = s]]
    BY <1>4 DEF SendSelect, Do
  <2> DEFINE r == [Idle EXCEPT !.pc = "show", !.s = s]
  <2>2. DOMAIN r = DOMAIN Idle /\ r.at = 1 /\ r.s = s /\ r.pc = "show"
    BY DEF Idle
  <2>3. /\ th[w].pc = "idle" /\ UNCHANGED <<file, lock, down, rows>>
        /\ sent[w] < MaxStatements[w] /\ sent' = [sent EXCEPT ![w] = @ + 1]
    BY <1>4 DEF SendSelect, CanSend, At
  <2>4. /\ th' = [th EXCEPT ![w] = r] /\ r.pc \in Labels \ {"append"} /\ r.s \in Statements
        /\ th[w].pc # "append" /\ r.at \in Nat \ {0} /\ r.pc # "lock"
        /\ r.pc \in {"show", "filter", "dead"} => r.s \in Selects
    BY <2>1, <2>2, <2>3 DEF Statements, Labels
  <2>5. /\ down' \in BOOLEAN /\ sent' \in [Worker -> Nat]
        /\ \A v \in Worker : sent'[v] <= MaxStatements[v]
    BY <1>1, <1>2, <2>3
  <2> HIDE DEF r
  <2> QED BY <2>2, <2>3, <2>4, <2>5, QuietStep
<1>5. ASSUME NEW r, th' = [th EXCEPT ![w] = r], DOMAIN r = DOMAIN Idle,
             th[w].pc \in {"show", "filter"}, r.pc \in {"idle", "show", "filter", "dead"},
             r.s = th[w].s, r.at \in {1, th[w].at, th[w].at + 1},
             UNCHANGED <<file, lock, sent, rows>>, down' \in BOOLEAN
      PROVE  Inv'
  <2>1. /\ r.pc \in Labels \ {"append"} /\ r.pc # "lock" /\ th[w].pc # "append"
        /\ r.s \in Statements /\ r.s \in Selects /\ r.at \in Nat \ {0}
    BY <1>1, <1>5 DEF Labels
  <2>2. /\ sent' \in [Worker -> Nat] /\ \A v \in Worker : sent'[v] <= MaxStatements[v]
        /\ file' = file /\ lock' = lock /\ rows' = rows
    BY <1>1, <1>5
  <2> QED BY <1>5, <2>1, <2>2, QuietStep
<1>7. CASE LoadShown(w)
  BY <1>1, <1>5, <1>7 DEF LoadShown, At, Do, Idle
<1>8. CASE ListIndexes(w)
  BY <1>1, <1>5, <1>8 DEF ListIndexes, Die, At, Do, Idle
<1>9. CASE Filter(w)
  BY <1>1, <1>5, <1>9 DEF Filter, At, Do, Idle
<1>10. CASE Answer(w)
  BY <1>1, <1>5, <1>10 DEF Answer, Die, At, Do, Idle
<1> QED BY <1>3, <1>4, <1>7, <1>8, <1>9, <1>10

\* Taking the lock: nothing is ahead yet.
LEMMA LockTableInv == ASSUME Inv, NEW w \in Worker, LockTable(w) PROVE Inv'
<1> DEFINE t == th[w].s.t
<1>1. /\ th[w].pc = "lock" /\ th[w].at = 1 /\ th[w].s \in Inserts /\ CanInsert(th[w].s)
      /\ t \in Table /\ lock[t] = NoOne
  BY InsertFacts DEF LockTable, At, Inv, TypeOK, InsertInv
<1>2. /\ \A u \in Table : lock'[u] = IF u = t THEN w ELSE lock[u]
      /\ lock' \in [Table -> Worker \cup {NoOne}]
  BY <1>1 DEF LockTable, Inv, TypeOK
<1>3. /\ \A v \in Worker \ {w} : th'[v] = th[v]
      /\ th'[w].pc = "append" /\ th'[w].at = 1 /\ th'[w].s = th[w].s
      /\ DOMAIN th'[w] = DOMAIN Idle /\ DOMAIN th' = Worker
  BY <1>1 DEF LockTable, Do, Inv, TypeOK, Idle
<1>4. UNCHANGED <<file, sent, down, rows>>
  BY DEF LockTable
<1>5. \A u \in Table : lock[u] # NoOne =>
          lock[u] \in Worker /\ lock[u] # w /\ lock'[u] = lock[u] /\ th'[lock[u]] = th[lock[u]]
  BY <1>1, <1>2, <1>3 DEF Inv, TypeOK, InsertInv
<1>6. TypeOK'
  BY <1>1, <1>2, <1>3, <1>4 DEF Inv, TypeOK, Cols, Labels, Statements
<1>7. Len(Columns[t]) \in Nat
  BY <1>1, ColumnFacts
<1>8. InsertInv'
  <2>1. w # NoOne
    BY NoOneAssumption
  <2>2. \A v \in Worker \ {w} : th[v].pc = "append" => th[v].s.t # t
    BY <1>1, NoOneAssumption DEF Inv, InsertInv
  <2>3. \A v \in Worker : th[v].pc = "append" => th[v].s.t \in Table
    BY InsertFacts DEF Inv, TypeOK
  <2>4. \A v \in Worker : th'[v].pc \in {"lock", "append"} => CanInsert(th'[v].s)
    BY <1>1, <1>3 DEF Inv, InsertInv
  <2>5. \A v \in Worker : th'[v].pc = "lock" => th'[v].at = 1
    BY <1>3 DEF Inv, InsertInv
  <2>6. \A v \in Worker : th'[v].pc = "append" =>
            lock'[th'[v].s.t] = v /\ th'[v].at <= Len(Columns[th'[v].s.t]) + 1
    BY <1>1, <1>2, <1>3, <1>7, <2>2, <2>3 DEF Inv, InsertInv
  <2>7. \A u \in Table : lock'[u] # NoOne =>
            th'[lock'[u]].pc = "append" /\ th'[lock'[u]].s.t = u
    BY <1>2, <1>3, <1>5 DEF Inv, InsertInv
  <2> QED BY <2>4, <2>5, <2>6, <2>7 DEF InsertInv, CanInsert
<1>9. \A u \in Table : \A c \in Cols(u) : Ahead(u, c)' = Ahead(u, c)
  <2> SUFFICES ASSUME NEW u \in Table, NEW c \in Cols(u) PROVE Ahead(u, c)' = Ahead(u, c)
    OBVIOUS
  <2>1. CASE u = t
    <3>1. c \in Nat /\ c >= 1
      BY <2>1, ColumnFacts DEF Cols
    <3>2. Ahead(u, c) = 0
      BY <1>1, <2>1 DEF Ahead
    <3>3. lock'[u] = w /\ th'[w].at = 1 /\ ~ c < 1
      BY <1>1, <1>2, <1>3, <2>1, <3>1
    <3>4. Ahead(u, c)' = 0
      BY <3>3 DEF Ahead
    <3> QED BY <3>2, <3>4
  <2>2. CASE u # t
    BY <1>2, <1>5, <2>2 DEF Ahead
  <2> QED BY <2>1, <2>2
<1>10. StoredAsInserted'
  BY <1>4, <1>9 DEF Inv, StoredAsInserted, Cols
<1>11. AheadInv'
  <2> SUFFICES ASSUME NEW u \in Table, NEW c \in Cols(u), Ahead(u, c) = 1
               PROVE  deserialize(file[u][c][Len(rows[u]) + 1], Columns[u][c])
                          = Seen(th'[lock'[u]].s.values[c], Columns[u][c])
    BY <1>4, <1>9 DEF AheadInv, Cols
  <2>1. lock[u] # NoOne
    BY DEF Ahead
  <2> QED BY <1>5, <2>1 DEF Inv, AheadInv
<1> QED BY <1>6, <1>8, <1>10, <1>11 DEF Inv

\* Appending to a column: the cell is that of the value, and the column is ahead.
LEMMA AppendColumnInv == ASSUME Inv, NEW w \in Worker, AppendColumn(w) PROVE Inv'
<1>t. PICK t \in Table : t = th[w].s.t
  BY InsertFacts DEF AppendColumn, At, Inv, TypeOK
<1>c. PICK c \in Nat \ {0} : c = th[w].at
  BY DEF Inv, TypeOK
<1>d. PICK cell : cell = Cell(th[w].s.values[c], Columns[t][c])
  OBVIOUS
<1>1. /\ th[w].pc = "append" /\ th[w].s \in Inserts /\ CanInsert(th[w].s)
      /\ lock[t] = w /\ th[w].s.values \in Row(t)
  BY <1>t, InsertFacts DEF AppendColumn, At, Inv, TypeOK, InsertInv
<1>2. c \in Cols(t) /\ c <= Len(Columns[t]) /\ Len(Columns[t]) \in Nat
  <2>1. c <= Len(Columns[t])
    BY <1>t, <1>c DEF AppendColumn
  <2>2. Columns[t] \in Seq(Layouts)
    BY ColumnFacts
  <2>3. Len(Columns[t]) \in Nat /\ DOMAIN Columns[t] = 1 .. Len(Columns[t])
    BY <2>2
  <2> QED BY <2>1, <2>3 DEF Cols
<1>3. /\ \A v \in Worker \ {w} : th'[v] = th[v]
      /\ th'[w].pc = "append" /\ th'[w].at = c + 1 /\ th'[w].s = th[w].s
      /\ DOMAIN th'[w] = DOMAIN Idle /\ DOMAIN th' = Worker
  <2>1. th' = [th EXCEPT ![w] = [th[w] EXCEPT !.at = c + 1]]
    BY <1>c DEF AppendColumn, Do
  <2>2. DOMAIN th = Worker /\ DOMAIN th[w] = DOMAIN Idle
    BY DEF Inv, TypeOK
  <2>3. "at" \in DOMAIN th[w] /\ "pc" \in DOMAIN th[w] /\ "s" \in DOMAIN th[w]
    BY <2>2 DEF Idle
  <2>4. th'[w] = [th[w] EXCEPT !.at = c + 1] /\ DOMAIN th' = Worker
    BY <2>1, <2>2
  <2>5. \A v \in Worker \ {w} : th'[v] = th[v]
    BY <2>1, <2>2
  <2> QED BY <1>1, <2>2, <2>3, <2>4, <2>5
<1>4. UNCHANGED <<lock, sent, down, rows>>
  BY DEF AppendColumn
<1>5. /\ DOMAIN file' = Table
      /\ \A u \in Table : DOMAIN file'[u] = Cols(u)
      /\ file'[t][c] = Append(file[t][c], cell)
      /\ \A u \in Table : \A d \in Cols(u) : u # t \/ d # c => file'[u][d] = file[u][d]
  BY <1>t, <1>c, <1>d, <1>2 DEF AppendColumn, Inv, TypeOK
<1>6. /\ cell \in Cells(Columns[t][c])
      /\ deserialize(cell, Columns[t][c]) = Seen(th[w].s.values[c], Columns[t][c])
  BY <1>d, <1>1, <1>2, CellFacts
<1>7. /\ file[t][c] \in Seq(Cells(Columns[t][c])) /\ Len(file[t][c]) = Len(rows[t])
      /\ Len(rows[t]) \in Nat /\ DOMAIN rows[t] = 1 .. Len(rows[t])
  <2>1. rows[t] \in Seq(Row(t)) /\ file[t][c] \in Seq(Cells(Columns[t][c]))
    BY <1>1, <1>2 DEF Inv, TypeOK
  <2>2. Ahead(t, c) = 0
    BY <1>c, <1>1, <1>2 DEF Ahead
  <2>3. Len(file[t][c]) = Len(rows[t]) + Ahead(t, c)
    BY <1>1, <1>2 DEF Inv, StoredAsInserted
  <2> QED BY <2>1, <2>2, <2>3
<1>8. /\ file'[t][c] \in Seq(Cells(Columns[t][c]))
      /\ Len(file'[t][c]) = Len(rows[t]) + 1
      /\ file'[t][c][Len(rows[t]) + 1] = cell
      /\ \A i \in DOMAIN rows[t] : file'[t][c][i] = file[t][c][i]
  BY <1>5, <1>6, <1>7
<1>9. \A u \in Table \ {t} : lock[u] # NoOne =>
          lock[u] \in Worker /\ lock[u] # w /\ th'[lock[u]] = th[lock[u]]
  BY <1>t, <1>1, <1>3 DEF Inv, TypeOK, InsertInv
<1>10. TypeOK'
  <2>1. \A u \in Table : \A d \in Cols(u) : file'[u][d] \in Seq(Cells(Columns[u][d]))
    BY <1>5, <1>8 DEF Inv, TypeOK
  <2>2. \A v \in Worker :
           /\ DOMAIN th'[v] = DOMAIN Idle /\ th'[v].pc \in Labels
           /\ th'[v].s \in Statements /\ th'[v].at \in Nat \ {0}
           /\ th'[v].pc \in {"lock", "append"} => th'[v].s \in Inserts
           /\ th'[v].pc \in {"show", "filter", "dead"} => th'[v].s \in Selects
    <3>1. c + 1 \in Nat \ {0}
      BY <1>2
    <3> QED BY <1>1, <1>3, <3>1 DEF Inv, TypeOK
  <2>3. /\ lock' \in [Table -> Worker \cup {NoOne}] /\ down' \in BOOLEAN
        /\ sent' \in [Worker -> Nat] /\ \A v \in Worker : sent'[v] <= MaxStatements[v]
        /\ DOMAIN rows' = Table /\ \A u \in Table : rows'[u] \in Seq(Row(u))
    BY <1>4 DEF Inv, TypeOK
  <2> QED BY <1>3, <1>5, <2>1, <2>2, <2>3 DEF TypeOK, Cols, Row, Cells, Statements
<1>11. InsertInv'
  <2>1. \A v \in Worker : th'[v].pc \in {"lock", "append"} => CanInsert(th'[v].s)
    BY <1>1, <1>3 DEF Inv, InsertInv
  <2>2. \A v \in Worker : th'[v].pc = "lock" => th'[v].at = 1
    BY <1>3 DEF Inv, InsertInv
  <2>3. \A v \in Worker : th'[v].pc = "append" =>
            lock'[th'[v].s.t] = v /\ th'[v].at <= Len(Columns[th'[v].s.t]) + 1
    <3>1. th'[w].at <= Len(Columns[th'[w].s.t]) + 1 /\ lock'[th'[w].s.t] = w
      BY <1>t, <1>1, <1>2, <1>3, <1>4
    <3> QED BY <1>3, <1>4, <3>1 DEF Inv, InsertInv
  <2>4. \A u \in Table : lock'[u] # NoOne =>
            th'[lock'[u]].pc = "append" /\ th'[lock'[u]].s.t = u
    BY <1>t, <1>1, <1>3, <1>4, <1>9 DEF Inv, InsertInv
  <2> QED BY <2>1, <2>2, <2>3, <2>4 DEF InsertInv, CanInsert
<1>12. /\ \A u \in Table : \A d \in Cols(u) : u # t \/ d # c => Ahead(u, d)' = Ahead(u, d)
       /\ Ahead(t, c)' = 1
  <2>1. Ahead(t, c)' = 1
    BY <1>1, <1>2, <1>3, <1>4, NoOneAssumption DEF Ahead
  <2>2. ASSUME NEW d \in Cols(t), d # c PROVE Ahead(t, d)' = Ahead(t, d)
    <3>1. d \in Nat
      BY <1>1, ColumnFacts DEF Cols
    <3>2. d < c + 1 <=> d < c
      BY <1>2, <2>2, <3>1
    <3> QED BY <1>c, <1>1, <1>3, <1>4, <3>2 DEF Ahead
  <2>3. ASSUME NEW u \in Table, u # t, NEW d \in Cols(u) PROVE Ahead(u, d)' = Ahead(u, d)
    BY <1>4, <1>9, <2>3 DEF Ahead
  <2> QED BY <2>1, <2>2, <2>3
<1>13. StoredAsInserted'
  <2> SUFFICES ASSUME NEW u \in Table, NEW d \in Cols(u)
               PROVE  /\ Len(file'[u][d]) = Len(rows[u]) + Ahead(u, d)'
                      /\ \A i \in DOMAIN rows[u] :
                             deserialize(file'[u][d][i], Columns[u][d])
                                 = Seen(rows[u][i][d], Columns[u][d])
    BY <1>4 DEF StoredAsInserted, Cols
  <2>1. /\ Len(file[u][d]) = Len(rows[u]) + Ahead(u, d)
        /\ \A i \in DOMAIN rows[u] :
               deserialize(file[u][d][i], Columns[u][d])
                   = Seen(rows[u][i][d], Columns[u][d])
    BY DEF Inv, StoredAsInserted
  <2>2. CASE u = t /\ d = c
    BY <1>8, <1>12, <2>1, <2>2
  <2>3. CASE u # t \/ d # c
    BY <1>5, <1>12, <2>1, <2>3
  <2> QED BY <2>2, <2>3
<1>14. AheadInv'
  <2> SUFFICES ASSUME NEW u \in Table, NEW d \in Cols(u), Ahead(u, d)' = 1
               PROVE  deserialize(file'[u][d][Len(rows[u]) + 1], Columns[u][d])
                          = Seen(th'[lock[u]].s.values[d], Columns[u][d])
    BY <1>4 DEF AheadInv, Cols
  <2>1. CASE u = t /\ d = c
    BY <1>1, <1>3, <1>6, <1>8, <2>1
  <2>2. CASE u # t \/ d # c
    <3>1. Ahead(u, d) = 1 /\ file'[u][d] = file[u][d] /\ lock[u] # NoOne
      BY <1>5, <1>12, <2>2 DEF Ahead
    <3>2. th'[lock[u]].s = th[lock[u]].s
      BY <1>1, <1>3, <1>9, <3>1
    <3> QED BY <3>1, <3>2 DEF Inv, AheadInv
  <2> QED BY <2>1, <2>2
<1> QED BY <1>10, <1>11, <1>13, <1>14 DEF Inv

\* Giving the lock back: the row is complete in every column.
LEMMA UnlockInv == ASSUME Inv, NEW w \in Worker, Unlock(w) PROVE Inv'
<1>t. PICK t \in Table : t = th[w].s.t
  BY InsertFacts DEF Unlock, At, Inv, TypeOK
<1>v. PICK values : values = th[w].s.values
  OBVIOUS
<1>1. /\ th[w].pc = "append" /\ th[w].s \in Inserts /\ CanInsert(th[w].s)
      /\ lock[t] = w /\ values \in Row(t) /\ th[w].at > Len(Columns[t])
  BY <1>t, <1>v, InsertFacts DEF Unlock, At, Inv, TypeOK, InsertInv
<1>2. /\ \A u \in Table : lock'[u] = IF u = t THEN NoOne ELSE lock[u]
      /\ lock' \in [Table -> Worker \cup {NoOne}]
  BY <1>t DEF Unlock, Inv, TypeOK
<1>3. /\ \A v \in Worker \ {w} : th'[v] = th[v]
      /\ th'[w] = Idle /\ DOMAIN th' = Worker
  BY DEF Unlock, Do, Inv, TypeOK
<1>4. UNCHANGED <<file, sent, down>>
  BY DEF Unlock
<1>5. /\ DOMAIN rows' = Table /\ rows'[t] = Append(rows[t], values)
      /\ \A u \in Table \ {t} : rows'[u] = rows[u]
  BY <1>t, <1>v DEF Unlock, Inv, TypeOK
<1>6. rows[t] \in Seq(Row(t)) /\ Len(rows[t]) \in Nat /\ DOMAIN rows[t] = 1 .. Len(rows[t])
  BY DEF Inv, TypeOK
<1>7. /\ rows'[t] \in Seq(Row(t)) /\ Len(rows'[t]) = Len(rows[t]) + 1
      /\ DOMAIN rows'[t] = 1 .. Len(rows[t]) + 1
      /\ rows'[t][Len(rows[t]) + 1] = values
      /\ \A i \in DOMAIN rows[t] : rows'[t][i] = rows[t][i]
  BY <1>1, <1>5, <1>6
<1>8. \A u \in Table \ {t} : lock[u] # NoOne =>
          lock[u] \in Worker /\ lock[u] # w /\ lock'[u] = lock[u] /\ th'[lock[u]] = th[lock[u]]
  BY <1>t, <1>1, <1>2, <1>3 DEF Inv, TypeOK, InsertInv
<1>9. Idle.pc = "idle" /\ Idle.at = 1 /\ Idle.s \in Statements
  BY DEF Idle, Statements
<1>10. TypeOK'
  <2>1. \A v \in Worker :
           /\ DOMAIN th'[v] = DOMAIN Idle /\ th'[v].pc \in Labels
           /\ th'[v].s \in Statements /\ th'[v].at \in Nat \ {0}
           /\ th'[v].pc \in {"lock", "append"} => th'[v].s \in Inserts
           /\ th'[v].pc \in {"show", "filter", "dead"} => th'[v].s \in Selects
    <3> SUFFICES ASSUME NEW v \in Worker
                 PROVE  /\ DOMAIN th'[v] = DOMAIN Idle /\ th'[v].pc \in Labels
                        /\ th'[v].s \in Statements /\ th'[v].at \in Nat \ {0}
                        /\ th'[v].pc \in {"lock", "append"} => th'[v].s \in Inserts
                        /\ th'[v].pc \in {"show", "filter", "dead"} => th'[v].s \in Selects
      OBVIOUS
    <3>1. CASE v = w
      BY <1>3, <1>9, <3>1 DEF Labels
    <3>2. CASE v # w
      BY <1>3, <3>2 DEF Inv, TypeOK
    <3> QED BY <3>1, <3>2
  <2>2. \A u \in Table : rows'[u] \in Seq(Row(u))
    BY <1>5, <1>7 DEF Inv, TypeOK
  <2>3. /\ DOMAIN file' = Table /\ down' \in BOOLEAN
        /\ \A u \in Table : /\ DOMAIN file'[u] = Cols(u)
                            /\ \A c \in Cols(u) : file'[u][c] \in Seq(Cells(Columns[u][c]))
        /\ sent' \in [Worker -> Nat] /\ \A v \in Worker : sent'[v] <= MaxStatements[v]
    BY <1>4 DEF Inv, TypeOK
  <2> QED BY <1>2, <1>3, <1>5, <2>1, <2>2, <2>3 DEF TypeOK, Cols, Row, Cells, Statements
<1>11. InsertInv'
  <2>1. \A v \in Worker : th'[v].pc \in {"lock", "append"} => CanInsert(th'[v].s)
    BY <1>3, <1>9 DEF Inv, InsertInv
  <2>2. \A v \in Worker : th'[v].pc = "lock" => th'[v].at = 1
    BY <1>3, <1>9 DEF Inv, InsertInv
  <2>3. \A v \in Worker : th'[v].pc = "append" =>
            lock'[th'[v].s.t] = v /\ th'[v].at <= Len(Columns[th'[v].s.t]) + 1
    <3> SUFFICES ASSUME NEW v \in Worker \ {w}, th[v].pc = "append"
                 PROVE  lock'[th[v].s.t] = v /\ th[v].at <= Len(Columns[th[v].s.t]) + 1
      BY <1>3, <1>9
    <3>1. lock[th[v].s.t] = v /\ th[v].at <= Len(Columns[th[v].s.t]) + 1
      BY DEF Inv, InsertInv
    <3>2. th[v].s.t \in Table
      BY InsertFacts DEF Inv, TypeOK
    <3> QED BY <1>1, <1>2, <3>1, <3>2
  <2>4. \A u \in Table : lock'[u] # NoOne =>
            th'[lock'[u]].pc = "append" /\ th'[lock'[u]].s.t = u
    BY <1>2, <1>8 DEF Inv, InsertInv
  <2> QED BY <2>1, <2>2, <2>3, <2>4 DEF InsertInv, CanInsert
<1>12. \A u \in Table \ {t} : \A c \in Cols(u) : Ahead(u, c)' = Ahead(u, c)
  BY <1>2, <1>8 DEF Ahead
<1>13. \A c \in Cols(t) : Ahead(t, c) = 1 /\ Ahead(t, c)' = 0
  <2> SUFFICES ASSUME NEW c \in Cols(t) PROVE Ahead(t, c) = 1 /\ Ahead(t, c)' = 0
    OBVIOUS
  <2>1. Columns[t] \in Seq(Layouts)
    BY ColumnFacts
  <2>2. c \in Nat /\ c <= Len(Columns[t]) /\ Len(Columns[t]) \in Nat
    BY <2>1 DEF Cols
  <2>3. th[w].at \in Nat
    BY DEF Inv, TypeOK
  <2>4. c < th[w].at
    BY <1>1, <2>2, <2>3
  <2> QED BY <1>1, <1>2, <2>4, NoOneAssumption DEF Ahead
<1>14. StoredAsInserted'
  <2> SUFFICES ASSUME NEW u \in Table, NEW c \in Cols(u)
               PROVE  /\ Len(file[u][c]) = Len(rows'[u]) + Ahead(u, c)'
                      /\ \A i \in DOMAIN rows'[u] :
                             deserialize(file[u][c][i], Columns[u][c])
                                 = Seen(rows'[u][i][c], Columns[u][c])
    BY <1>4 DEF StoredAsInserted, Cols
  <2>1. /\ Len(file[u][c]) = Len(rows[u]) + Ahead(u, c)
        /\ \A i \in DOMAIN rows[u] :
               deserialize(file[u][c][i], Columns[u][c])
                   = Seen(rows[u][i][c], Columns[u][c])
    BY DEF Inv, StoredAsInserted
  <2>2. CASE u = t
    <3>1. deserialize(file[t][c][Len(rows[t]) + 1], Columns[t][c]) = Seen(values[c], Columns[t][c])
      BY <1>v, <1>1, <1>13, <2>2 DEF Inv, AheadInv
    <3>2. Len(file[t][c]) = Len(rows'[t]) + Ahead(t, c)'
      BY <1>6, <1>7, <1>13, <2>1, <2>2
    <3>3. ASSUME NEW i \in DOMAIN rows'[t]
          PROVE  deserialize(file[t][c][i], Columns[t][c]) = Seen(rows'[t][i][c], Columns[t][c])
      <4>1. CASE i = Len(rows[t]) + 1
        BY <1>7, <3>1, <4>1
      <4>2. CASE i \in DOMAIN rows[t]
        BY <1>7, <2>1, <2>2, <4>2
      <4> QED BY <1>6, <1>7, <4>1, <4>2
    <3> QED BY <2>2, <3>2, <3>3
  <2>3. CASE u # t
    BY <1>5, <1>12, <2>1, <2>3
  <2> QED BY <2>2, <2>3
<1>15. AheadInv'
  <2> SUFFICES ASSUME NEW u \in Table, NEW c \in Cols(u), Ahead(u, c)' = 1
               PROVE  deserialize(file[u][c][Len(rows'[u]) + 1], Columns[u][c])
                          = Seen(th'[lock'[u]].s.values[c], Columns[u][c])
    BY <1>4 DEF AheadInv, Cols
  <2>1. u # t
    BY <1>13
  <2>2. Ahead(u, c) = 1 /\ lock[u] # NoOne
    BY <1>12, <2>1 DEF Ahead
  <2> QED BY <1>5, <1>8, <2>1, <2>2 DEF Inv, AheadInv
<1> QED BY <1>10, <1>11, <1>14, <1>15 DEF Inv

\* Inv holds in every state, for all tables, statements and connections.
THEOREM StoreInvariance == Spec => []Inv
<1>1. Inv /\ [Next]_vars => Inv'
  <2>1. ASSUME Inv, NEW w \in Worker, Insert(w) \/ Select(w) PROVE Inv'
    BY <2>1, QuietActions, LockTableInv, AppendColumnInv, UnlockInv DEF Insert, Select
  <2>2. ASSUME Inv, UNCHANGED vars PROVE Inv'
    BY <2>2 DEF vars, Inv, TypeOK, InsertInv, StoredAsInserted, AheadInv, Ahead,
                Cols, Row, Cells, Statements, Labels, CanInsert
  <2> QED BY <2>1, <2>2 DEF Next
<1> QED BY InitInv, <1>1, PTL DEF Spec

\* The files hold exactly what was inserted (table.hpp:360-424, serializer crate).
THEOREM Stores == Spec => []StoredAsInserted
BY StoreInvariance, PTL DEF Inv

\* Every state of the store is of its type.
THEOREM StoreTypes == Spec => []TypeOK
BY StoreInvariance, PTL DEF Inv

(***************************************************************************)
(* The order of a loop over numbers.                                       *)
(***************************************************************************)
Below == OpToRel(<, Nat)

\* Induction over the numbers, for a set that holds 0 and with n also n + 1.
LEMMA EveryNumber ==
    ASSUME NEW S, 0 \in S, \A n \in Nat : n \in S => n + 1 \in S
    PROVE  Nat \subseteq S
<1> DEFINE T == Nat \ S
<1> SUFFICES ASSUME T # {} PROVE FALSE
  OBVIOUS
<1>1. IsWellFoundedOn(Below, Nat)
  BY NatLessThanWellFounded, Zenon DEF Below
<1>2. PICK x \in T : \A y \in T : ~ (<<y, x>> \in Below)
  <2>1. T \subseteq Nat
    OBVIOUS
  <2> HIDE DEF T
  <2> QED BY <1>1, <2>1, WFMin
<1>3. x # 0 /\ x - 1 \in Nat /\ x - 1 < x
  OBVIOUS
<1>4. x - 1 \in T
  BY <1>3
<1>5. <<x - 1, x>> \in Below
  BY <1>3, Zenon DEF Below, OpToRel
<1> QED BY <1>2, <1>4, <1>5

LEMMA FinitePart ==
    ASSUME NEW n \in Nat, NEW S \in SUBSET (1 .. n)
    PROVE  IsFiniteSet(S)
<1>1. 1 \in Int /\ n \in Int
  OBVIOUS
<1>2. IsFiniteSet(1 .. n)
  BY <1>1, FS_Interval
<1> QED BY <1>2, FS_Subset

\* Those of S that are not after i, and how many they are.
UpTo(S, i) == {x \in S : x <= i}
Rank(S, i) == Cardinality(UpTo(S, i))

LEMMA UpToNone == ASSUME NEW S, \A x \in S : x \in Int /\ 1 <= x PROVE UpTo(S, 0) = {}
BY DEF UpTo

LEMMA UpToAll == ASSUME NEW S, NEW n, \A x \in S : x <= n PROVE UpTo(S, n) = S
BY DEF UpTo

LEMMA UpToNext ==
    ASSUME NEW S, NEW i \in Nat, \A x \in S : x \in Int
    PROVE  UpTo(S, i + 1) = IF i + 1 \in S THEN UpTo(S, i) \cup {i + 1} ELSE UpTo(S, i)
<1>1. \A x \in S : x <= i + 1 <=> x <= i \/ x = i + 1
  OBVIOUS
<1> QED BY <1>1 DEF UpTo

LEMMA UpToIs == ASSUME NEW n \in Nat, NEW i \in 1 .. n PROVE UpTo(1 .. n, i) = 1 .. i
BY DEF UpTo

LEMMA UpToPart == ASSUME NEW S, NEW i \in Nat PROVE UpTo(S, i) \in SUBSET S /\ i + 1 \notin UpTo(S, i)
BY DEF UpTo

LEMMA RankStep ==
    ASSUME NEW S, IsFiniteSet(S), \A x \in S : x \in Int, NEW i \in Nat
    PROVE  /\ Rank(S, i) \in Nat
           /\ Rank(S, i + 1) = IF i + 1 \in S THEN Rank(S, i) + 1 ELSE Rank(S, i)
<1>1. IsFiniteSet(UpTo(S, i))
  BY UpToPart, FS_Subset
<1>2. Cardinality(UpTo(S, i)) \in Nat
  BY <1>1, FS_CardinalityType
<1>3. Cardinality(UpTo(S, i) \cup {i + 1}) = Cardinality(UpTo(S, i)) + 1
  BY <1>1, UpToPart, FS_AddElement
<1> QED BY <1>2, <1>3, UpToNext DEF Rank

\* Every number up to the size of S is the rank of one of S.
LEMMA RankReached ==
    ASSUME NEW n \in Nat, NEW S \in SUBSET (1 .. n), NEW j \in 1 .. Cardinality(S)
    PROVE  \E i \in S : Rank(S, i) = j
<1> SUFFICES ASSUME \A i \in S : Rank(S, i) # j PROVE FALSE
  OBVIOUS
<1>f. IsFiniteSet(S)
  BY FinitePart
<1>1. IsFiniteSet(S) /\ \A x \in S : x \in Int /\ 1 <= x /\ x <= n
  BY <1>f
<1>2. Cardinality(S) \in Nat /\ j \in Nat /\ j > 0
  BY <1>1, FS_CardinalityType
<1> DEFINE T == {i \in Nat : Rank(S, i) < j}
<1>3. 0 \in T
  <2>1. Rank(S, 0) = 0
    BY <1>1, UpToNone, FS_EmptySet DEF Rank
  <2> QED BY <1>2, <2>1
<1>4. ASSUME NEW i \in Nat, i \in T PROVE i + 1 \in T
  <2>1. /\ Rank(S, i) \in Nat
        /\ Rank(S, i + 1) = IF i + 1 \in S THEN Rank(S, i) + 1 ELSE Rank(S, i)
    BY <1>1, RankStep
  <2>2. Rank(S, i) < j
    BY <1>4
  <2>3. i + 1 \in S => Rank(S, i + 1) # j
    OBVIOUS
  <2> QED BY <1>2, <2>1, <2>2, <2>3
<1>5. Nat \subseteq T
  <2> HIDE DEF T
  <2> QED BY <1>3, <1>4, EveryNumber
<1>6. Rank(S, n) = Cardinality(S)
  BY <1>1, UpToAll DEF Rank
<1>7. n \in T
  BY <1>5
<1> QED BY <1>2, <1>6, <1>7

\* What the loop visits, and that it visits nothing only if there is nothing.
LEMMA AscendingFacts ==
    ASSUME NEW n \in Nat, NEW S \in SUBSET (1 .. n)
    PROVE  /\ Cardinality(S) \in Nat
           /\ DOMAIN Ascending(S) = 1 .. Cardinality(S)
           /\ \A j \in DOMAIN Ascending(S) : Ascending(S)[j] \in S
           /\ Cardinality(S) = 0 <=> S = {}
<1>1. IsFiniteSet(S)
  BY FinitePart
<1>2. Cardinality(S) \in Nat /\ (Cardinality(S) = 0 <=> S = {})
  BY <1>1, FS_CardinalityType, FS_EmptySet
<1>3. ASSUME NEW j \in 1 .. Cardinality(S)
      PROVE  (CHOOSE i \in S : Rank(S, i) = j) \in S
  BY RankReached
<1>4. Ascending(S) = [j \in 1 .. Cardinality(S) |-> CHOOSE i \in S : Rank(S, i) = j]
  BY Zenon DEF Ascending, Rank, UpTo
<1> QED BY <1>2, <1>3, <1>4

\* A loop over all numbers to n visits each in its turn.
LEMMA AscendingAll ==
    ASSUME NEW n \in Nat
    PROVE  Ascending(1 .. n) = [j \in 1 .. n |-> j]
<1>1. Cardinality(1 .. n) = n
  <2>1. 1 \in Int /\ n \in Int
    OBVIOUS
  <2> QED BY <2>1, FS_Interval
<1>2. ASSUME NEW i \in 1 .. n
      PROVE  Rank(1 .. n, i) = i
  <2>1. 1 \in Int /\ i \in Int
    OBVIOUS
  <2>2. Cardinality(1 .. i) = i
    BY <2>1, FS_Interval
  <2> QED BY <2>2, UpToIs DEF Rank
<1>3. ASSUME NEW j \in 1 .. n
      PROVE  (CHOOSE i \in 1 .. n : Rank(1 .. n, i) = j) = j
  BY <1>2
<1>4. Ascending(1 .. n) = [j \in 1 .. Cardinality(1 .. n) |-> CHOOSE i \in 1 .. n : Rank(1 .. n, i) = j]
  BY Zenon DEF Ascending, Rank, UpTo
<1> QED BY <1>1, <1>3, <1>4

\* Nothing is visited in nothing.
LEMMA AscendingNone == Ascending({}) = <<>>
<1>1. Cardinality({}) = 0
  BY FS_EmptySet
<1> QED BY <1>1 DEF Ascending

(***************************************************************************)
(* What a SELECT reads.                                                    *)
(***************************************************************************)
LEMMA SelectFacts ==
    ASSUME NEW s \in Selects
    PROVE  /\ s \notin Inserts /\ s # Nothing
           /\ Len(s.columns) \in Nat /\ DOMAIN s.columns = 1 .. Len(s.columns)
           /\ Len(s.restrictions) \in Nat /\ DOMAIN s.restrictions = 1 .. Len(s.restrictions)
           /\ \A k \in DOMAIN s.restrictions : s.restrictions[k].value \in Literal
<1>1. /\ s.op = "select" /\ s.columns \in Seq(Listed(s.columns))
      /\ s.restrictions \in Seq(Listed(s.restrictions))
      /\ \A k \in DOMAIN s.restrictions : s.restrictions[k].value \in Literal
  BY TableStoreAssumption DEF TableStoreAssumption
<1>2. s \notin Inserts
  BY <1>1, TableStoreAssumption DEF TableStoreAssumption
<1>3. s # Nothing
  BY <1>1 DEF Nothing
<1>4. Len(s.columns) \in Nat /\ DOMAIN s.columns = 1 .. Len(s.columns)
  BY <1>1
<1>5. Len(s.restrictions) \in Nat /\ DOMAIN s.restrictions = 1 .. Len(s.restrictions)
  BY <1>1
<1> QED BY <1>1, <1>2, <1>3, <1>4, <1>5

LEMMA RowsFacts ==
    ASSUME Inv, NEW t \in Table
    PROVE  /\ Len(rows[t]) \in Nat /\ DOMAIN rows[t] = 1 .. Len(rows[t])
           /\ \A i \in 1 .. Len(rows[t]) : rows[t][i] \in Row(t)
<1>1. rows[t] \in Seq(Row(t))
  BY DEF Inv, TypeOK
<1> QED BY <1>1

\* While nobody holds the lock, a column reads back as the rows that are inserted.
LEMMA LoadFacts ==
    ASSUME Inv, NEW t \in Table, NEW col, col.name = t, col.sub \in Cols(t), lock[t] = NoOne
    PROVE  /\ load_column(col) = [i \in 1 .. Len(rows[t]) |->
                                     Seen(rows[t][i][col.sub], Columns[t][col.sub])]
           /\ Loads(col) <=> Len(rows[t]) > 0
<1>1. PICK c \in Cols(t) : c = col.sub
  OBVIOUS
<1>2. Len(file[t][c]) = Len(rows[t])
  <2>1. Len(file[t][c]) = Len(rows[t]) + Ahead(t, c)
    BY DEF Inv, StoredAsInserted
  <2> QED BY <2>1, RowsFacts DEF Ahead
<1>3. file[t][c] \in Seq(Cells(Columns[t][c]))
  BY DEF Inv, TypeOK
<1>4. DOMAIN file[t][c] = 1 .. Len(rows[t])
  BY <1>2, <1>3
<1>5. \A i \in 1 .. Len(rows[t]) :
          deserialize(file[t][c][i], Columns[t][c]) = Seen(rows[t][i][c], Columns[t][c])
  BY RowsFacts DEF Inv, StoredAsInserted
<1>6. load_column(col) = [i \in 1 .. Len(rows[t]) |-> deserialize(file[t][c][i], Columns[t][c])]
  BY <1>1, <1>4 DEF load_column
<1>7. Exists(col)
  BY <1>1 DEF Exists, Cols
<1>8. file[t][c] # <<>> <=> Len(rows[t]) > 0
  BY <1>2, <1>3, RowsFacts
<1> QED BY <1>1, <1>5, <1>6, <1>7, <1>8 DEF Loads

\* Of a row that a table holds, in a column whose type SELECT compares: what is read
\* back is what was inserted, and so is the literal of the condition.
LEMMA ComparedFacts ==
    ASSUME NEW ly \in Layouts, IsLayout(ly), ly.type \in Compared,
           NEW lit \in Literal, Fits(lit, ly)
    PROVE  Seen(lit, ly) = lit.value /\ resolve_value(lit, ly) = lit.value
<1>1. ly.type \notin SignedTypes /\ ly.type # "i64"
  BY DEF Compared, UnsignedTypes, SignedTypes
<1>2. Seen(lit, ly) = lit.value
  BY <1>1 DEF Seen
<1>3. CASE /\ ly.type \in UnsignedTypes /\ ly.size \in Sizes
           /\ lit.value \in 0 .. 2 * Half[ly.size] - 1
  <2>1. Narrow(lit.value, ly) = Bytes(lit.value, ly.size)
    BY <1>1 DEF Narrow
  <2> QED BY <1>2, <1>3, <2>1, UnsignedBytes DEF resolve_value
<1>4. CASE ly.type \notin UnsignedTypes
  BY <1>1, <1>2, <1>4 DEF resolve_value
<1> QED BY <1>1, <1>3, <1>4, FitsCases DEF Layouts, UnsignedTypes

\* A condition finds the rows that meet it.
LEMMA FoundMeets ==
    ASSUME Inv, NEW t \in Table, NEW r, r.value \in Literal, r.column.name = t,
           r.column.sub \in Cols(t), lock[t] = NoOne, NEW i \in 1 .. Len(rows[t])
    PROVE  i \in Found(load_column(r.column), r, Columns[t][r.column.sub])
               <=> Meets(rows[t][i], r, t)
<1>1. PICK c, ly : c \in Cols(t) /\ c = r.column.sub /\ ly = Columns[t][c]
  OBVIOUS
<1>2. PICK values : values = load_column(r.column)
  OBVIOUS
<1>3. DOMAIN values = 1 .. Len(rows[t]) /\ values[i] = Seen(rows[t][i][c], ly)
  BY <1>1, <1>2, LoadFacts
<1>4. ly \in Layouts /\ IsLayout(ly)
  BY <1>1, ColumnFacts
<1>5. rows[t][i][c] \in Literal /\ Fits(rows[t][i][c], ly)
  <2>1. rows[t][i] \in Row(t)
    BY RowsFacts
  <2>2. c \in DOMAIN rows[t][i]
    BY <1>1, <2>1, CellFacts
  <2> QED BY <1>1, <2>1, <2>2 DEF Row
<1>6. CASE ly.type \in Compared /\ Fits(r.value, ly)
  <2>1. values[i] = rows[t][i][c].value /\ resolve_value(r.value, ly) = r.value.value
    BY <1>3, <1>4, <1>5, <1>6, ComparedFacts
  <2>2. i \in Found(values, r, ly) <=> Holds(values[i], r.op, resolve_value(r.value, ly), ly.type)
    BY <1>3, <1>6 DEF Found
  <2>3. Meets(rows[t][i], r, t) <=> Holds(rows[t][i][c].value, r.op, r.value.value, ly.type)
    BY <1>1, <1>6 DEF Meets
  <2> QED BY <1>1, <1>2, <2>1, <2>2, <2>3
<1>7. CASE ~ (ly.type \in Compared /\ Fits(r.value, ly))
  BY <1>1, <1>2, <1>7 DEF Found, Meets
<1> QED BY <1>6, <1>7

(***************************************************************************)
(* Rows are only added: what a SELECT has read of a table stays true of    *)
(* it while others insert.                                                 *)
(***************************************************************************)
Grows(t) == /\ Len(rows'[t]) \in Nat /\ Len(rows[t]) <= Len(rows'[t])
            /\ \A i \in 1 .. Len(rows[t]) : rows'[t][i] = rows[t][i]

LEMMA LoadedStays ==
    ASSUME Inv, NEW t \in Table, Grows(t), NEW col, IsLoaded(col, t)
    PROVE  IsLoaded(col, t)'
<1>1. /\ Len(col.values) \in 1 .. Len(rows[t])
      /\ DOMAIN col.values = 1 .. Len(col.values)
  BY DEF IsLoaded
<1>2. \A i \in DOMAIN col.values : rows'[t][i] = rows[t][i]
  BY <1>1, RowsFacts DEF Grows
<1>3. Len(col.values) \in 1 .. Len(rows'[t])
  BY <1>1, RowsFacts DEF Grows
<1> QED BY <1>2, <1>3 DEF IsLoaded, Cols

LEMMA MatchingStays ==
    ASSUME Inv, NEW t \in Table, Grows(t), NEW rs, NEW n \in 0 .. Len(rows[t])
    PROVE  Matching(t, rs, n)' = Matching(t, rs, n)
<1>1. \A i \in 1 .. n : rows'[t][i] = rows[t][i]
  BY RowsFacts DEF Grows
<1>2. \A i \in 1 .. n : \A k \in DOMAIN rs : Meets(rows'[t][i], rs[k], t) <=> Meets(rows[t][i], rs[k], t)
  BY <1>1
<1> QED BY <1>2 DEF Matching, Meets, Cols

LEMMA ValuesStay ==
    ASSUME NEW t \in Table, Grows(t), NEW column, NEW places,
           \A j \in DOMAIN places : places[j] \in 1 .. Len(rows[t])
    PROVE  ValuesAt(column, t, places)' = ValuesAt(column, t, places)
BY DEF ValuesAt, Grows

LEMMA ExpectedStays ==
    ASSUME Inv, NEW t \in Table, Grows(t), NEW columns, NEW rs, NEW n \in 0 .. Len(rows[t])
    PROVE  Expected(t, columns, rs, n)' = Expected(t, columns, rs, n)
<1>1. PICK S, places : S = Matching(t, rs, n) /\ places = Ascending(S)
  OBVIOUS
<1>2. S = Matching(t, rs, n)'
  BY <1>1, MatchingStays
<1>3. \A j \in DOMAIN places : places[j] \in 1 .. Len(rows[t])
  <2>1. S \in SUBSET (1 .. n) /\ n \in Nat
    BY <1>1, RowsFacts DEF Matching
  <2>2. \A j \in DOMAIN places : places[j] \in S
    BY <1>1, <2>1, AscendingFacts
  <2>3. Len(rows[t]) \in Nat /\ n \in Nat /\ n <= Len(rows[t])
    BY RowsFacts
  <2>4. 1 .. n \subseteq 1 .. Len(rows[t])
    BY <2>3
  <2> QED BY <2>1, <2>2, <2>4
<1>4. ASSUME NEW column PROVE ValuesAt(column, t, places)' = ValuesAt(column, t, places)
  BY <1>3, ValuesStay
<1>5. Expected(t, columns, rs, n) =
          IF places = <<>> THEN <<>>
          ELSE [k \in DOMAIN columns |->
                  [key |-> columns[k], values |-> ValuesAt(columns[k], t, places)]]
  BY <1>1 DEF Expected
<1>6. Expected(t, columns, rs, n)' =
          IF places = <<>> THEN <<>>
          ELSE [k \in DOMAIN columns |->
                  [key |-> columns[k], values |-> ValuesAt(columns[k], t, places)']]
  BY <1>1, <1>2 DEF Expected
<1> QED BY <1>4, <1>5, <1>6

LEMMA ShowingStays ==
    ASSUME Inv, NEW t \in Table, Grows(t), NEW x, Showing(x, t)
    PROVE  Showing(x, t)'
BY LoadedStays DEF Showing, IsSequence, Listed

LEMMA ShownFirst ==
    ASSUME Inv, NEW t \in Table, NEW x, Showing(x, t), x.shown # <<>>
    PROVE  1 \in DOMAIN x.shown /\ Len(x.shown[1].values) \in 1 .. Len(rows[t])
<1>1. 1 \in DOMAIN x.shown
  BY DEF Showing, IsSequence
<1> QED BY <1>1 DEF Showing, IsLoaded

LEMMA CountingStays ==
    ASSUME Inv, NEW t \in Table, Grows(t), NEW x, Showing(x, t), x.shown # <<>>, Counting(x, t)
    PROVE  Counting(x, t)'
<1>1. \A i \in 1 .. Len(x.shown[1].values) : rows'[t][i] = rows[t][i]
  BY ShownFirst, RowsFacts DEF Grows
<1> QED BY <1>1 DEF Counting, Meets, Cols

LEMMA ProgressStays ==
    ASSUME Inv, NEW t \in Table, Grows(t), NEW x, Progress(x, t)
    PROVE  Progress(x, t)'
<1>1. x.pc \in {"show", "filter", "idle"} => Showing(x, t)'
  BY ShowingStays DEF Progress
<1>2. x.pc = "filter" => Counting(x, t)'
  BY CountingStays DEF Progress
<1>3. x.pc = "idle" =>
          x.answer = Expected(t, [k \in DOMAIN x.shown |-> x.shown[k].key],
                              x.s.restrictions, Len(x.shown[1].values))'
  <2> SUFFICES ASSUME x.pc = "idle"
               PROVE  x.answer = Expected(t, [k \in DOMAIN x.shown |-> x.shown[k].key],
                                          x.s.restrictions, Len(x.shown[1].values))'
    OBVIOUS
  <2>1. Len(x.shown[1].values) \in 0 .. Len(rows[t])
    BY ShownFirst, RowsFacts DEF Progress
  <2> DEFINE columns == [k \in DOMAIN x.shown |-> x.shown[k].key]
             rs == x.s.restrictions
             n == Len(x.shown[1].values)
  <2>2. x.answer = Expected(t, columns, rs, n)
    BY DEF Progress
  <2> HIDE DEF columns, rs, n
  <2>3. Expected(t, columns, rs, n)' = Expected(t, columns, rs, n)
    BY <2>1, ExpectedStays DEF n
  <2> QED BY <2>2, <2>3 DEF columns, rs, n
<1>4. /\ x.pc = "show" => Handled(x, x.at)'
      /\ x.pc \in {"filter", "idle"} =>
             x.shown # <<>> /\ Handled(x, Len(x.s.columns) + 1)'
  BY DEF Progress, Handled
<1> QED BY <1>1, <1>2, <1>3, <1>4 DEF Progress

(***************************************************************************)
(* The steps of a SELECT.                                                  *)
(***************************************************************************)
LEMMA Appended ==
    ASSUME NEW seq, IsSequence(seq), NEW e
    PROVE  /\ IsSequence(Append(seq, e)) /\ Len(Append(seq, e)) = Len(seq) + 1
           /\ DOMAIN seq = 1 .. Len(seq) /\ DOMAIN Append(seq, e) = 1 .. Len(seq) + 1
           /\ \A k \in 1 .. Len(seq) : Append(seq, e)[k] = seq[k]
           /\ Append(seq, e)[Len(seq) + 1] = e
<1> DEFINE S == Listed(seq) \cup {e}
<1>1. /\ Len(seq) \in Nat /\ seq = [k \in 1 .. Len(seq) |-> seq[k]]
      /\ \A k \in 1 .. Len(seq) : seq[k] \in S
  BY DEF IsSequence, Listed
<1>2. e \in S
  OBVIOUS
<1> HIDE DEF S
<1>3. seq \in [1 .. Len(seq) -> S]
  BY <1>1
<1>4. seq \in Seq(S)
  BY <1>1, <1>3
<1>5. /\ Append(seq, e) \in Seq(S) /\ Len(Append(seq, e)) = Len(seq) + 1
      /\ \A k \in 1 .. Len(seq) : Append(seq, e)[k] = seq[k]
      /\ Append(seq, e)[Len(seq) + 1] = e
  BY <1>2, <1>4
<1>6. DOMAIN Append(seq, e) = 1 .. Len(seq) + 1
  BY <1>5
<1>7. Append(seq, e) = [k \in 1 .. Len(seq) + 1 |-> Append(seq, e)[k]]
  <2> DEFINE u == Append(seq, e)
  <2>1. u \in Seq(S) /\ DOMAIN u = 1 .. Len(seq) + 1
    BY <1>5, <1>6
  <2> HIDE DEF u
  <2>2. u = [k \in DOMAIN u |-> u[k]]
    BY <2>1
  <2>3. u = [k \in 1 .. Len(seq) + 1 |-> u[k]]
    BY <2>1, <2>2
  <2> QED BY <2>3 DEF u
<1> QED BY <1>1, <1>4, <1>5, <1>6, <1>7 DEF IsSequence

\* A column is added to those shown: it is as long as the table is now.
LEMMA ShownAppended ==
    ASSUME Inv, NEW t \in Table, NEW x, NEW y, NEW e, Showing(x, t),
           y.s = x.s, y.shown = Append(x.shown, e),
           IsLoaded(e, t), Len(e.values) = Len(rows[t]), e.key \in Listed(x.s.columns),
           \A k \in DOMAIN x.shown : x.shown[k].key # e.key
    PROVE  Showing(y, t)
<1> DEFINE n == Len(x.shown)
<1>1. /\ IsSequence(x.shown) /\ n \in Nat /\ DOMAIN x.shown = 1 .. n
      /\ IsSequence(y.shown) /\ DOMAIN y.shown = 1 .. n + 1
      /\ \A k \in 1 .. n : y.shown[k] = x.shown[k]
      /\ y.shown[n + 1] = e
  BY Appended DEF Showing, IsSequence
<1>2. \A k \in 1 .. n : IsLoaded(x.shown[k], t) /\ Len(x.shown[k].values) <= Len(rows[t])
  BY <1>1, RowsFacts DEF Showing, IsLoaded
<1>3. ASSUME NEW k \in 1 .. n + 1
      PROVE  /\ IsLoaded(y.shown[k], t)
             /\ Len(y.shown[1].values) <= Len(y.shown[k].values)
             /\ y.shown[k].key \in Listed(y.s.columns)
  <2>1. CASE k \in 1 .. n
    BY <1>1, <2>1 DEF Showing
  <2>2. CASE k = n + 1
    <3>1. CASE n = 0
      BY <1>1, <2>2, <3>1, RowsFacts
    <3>2. CASE n > 0
      BY <1>1, <1>2, <2>2, <3>2
    <3> QED BY <1>1, <3>1, <3>2
  <2> QED BY <1>1, <2>1, <2>2
<1>4. ASSUME NEW j \in 1 .. n + 1, NEW k \in 1 .. n + 1, y.shown[j].key = y.shown[k].key
      PROVE  j = k
  <2>1. \A i \in 1 .. n + 1 : i \in 1 .. n \/ i = n + 1
    BY <1>1
  <2>2. \A i \in 1 .. n : y.shown[i].key # e.key /\ y.shown[i].key = x.shown[i].key
    BY <1>1
  <2>3. CASE j \in 1 .. n /\ k \in 1 .. n
    BY <1>1, <1>4, <2>2, <2>3 DEF Showing
  <2>4. CASE j = n + 1 \/ k = n + 1
    BY <1>1, <1>4, <2>1, <2>2, <2>4
  <2> QED BY <2>1, <2>3, <2>4
<1> QED BY <1>1, <1>3, <1>4 DEF Showing

LEMMA SameShown ==
    ASSUME NEW t, NEW x, NEW y, Showing(x, t), y.s = x.s, y.shown = x.shown
    PROVE  Showing(y, t)
BY DEF Showing

LEMMA ThreadFacts ==
    ASSUME Inv, NEW w \in Worker
    PROVE  /\ DOMAIN th[w] = {"pc", "s", "at", "shown", "unread", "indexes", "answer"}
           /\ th[w].at \in Nat \ {0} /\ DOMAIN th = Worker
BY DEF Inv, TypeOK, Idle

LEMMA LoadShownProgress ==
    ASSUME Inv, NEW w \in Worker, NEW t \in Table, LoadShown(w),
           NEW x, x = th[w], NEW y, y = th'[w],
           x.s \in Selects, OfTable(x.s, t), Progress(x, t)
    PROVE  y.s = x.s /\ Progress(y, t)
<1>1. PICK col : col = x.s.columns[x.at]
  OBVIOUS
<1> DEFINE listed == \E k \in DOMAIN x.shown : x.shown[k].key = col
<1>2. /\ x.pc = "show" /\ x.at <= Len(x.s.columns)
      /\ Readable(col) \/ listed
      /\ th' = [th EXCEPT ![w] =
                   [th[w] EXCEPT !.at = @ + 1,
                       !.unread = IF Loads(col) \/ listed THEN @ ELSE @ \cup {col},
                       !.shown = IF Loads(col) /\ ~ listed
                                 THEN Append(@, [key |-> col, values |-> load_column(col)])
                                 ELSE @]]
  BY <1>1 DEF LoadShown, At, Do
<1>3. /\ y.pc = "show" /\ y.s = x.s /\ y.at = x.at + 1
      /\ y.unread = IF Loads(col) \/ listed THEN x.unread ELSE x.unread \cup {col}
      /\ y.shown = IF Loads(col) /\ ~ listed
                   THEN Append(x.shown, [key |-> col, values |-> load_column(col)])
                   ELSE x.shown
  BY <1>2, ThreadFacts
<1>4. /\ x.at \in DOMAIN x.s.columns /\ x.at \in Nat
      /\ DOMAIN x.s.columns = 1 .. Len(x.s.columns)
      /\ col.name = t /\ col \in Listed(x.s.columns)
  <2>1. x.at \in Nat \ {0}
    BY ThreadFacts
  <2>2. x.at \in DOMAIN x.s.columns
    BY <1>2, <2>1, SelectFacts
  <2> QED BY <1>1, <2>1, <2>2, SelectFacts DEF OfTable, Listed
<1>5. Showing(x, t) /\ Handled(x, x.at)
  BY <1>2 DEF Progress
<1>6. \A j \in DOMAIN x.s.columns : j < x.at + 1 => j < x.at \/ j = x.at
  BY <1>4
<1>7. CASE Loads(col) /\ ~ listed
  <2>1. col.sub \in Cols(t) /\ lock[t] = NoOne
    BY <1>2, <1>4, <1>7 DEF Loads, Exists, Readable, Cols
  <2>2. PICK e : e = [key |-> col, values |-> load_column(col)]
    OBVIOUS
  <2>3. /\ e.key = col /\ e.values = load_column(col) /\ y.shown = Append(x.shown, e)
        /\ y.unread = x.unread
    BY <1>3, <1>7, <2>2
  <2>4. /\ e.values = [i \in 1 .. Len(rows[t]) |-> Seen(rows[t][i][col.sub], Columns[t][col.sub])]
        /\ Len(rows[t]) > 0
    BY <1>4, <1>7, <2>1, <2>3, LoadFacts
  <2>5. IsLoaded(e, t) /\ Len(e.values) = Len(rows[t])
    BY <1>4, <2>1, <2>3, <2>4, RowsFacts DEF IsLoaded
  <2>6. \A k \in DOMAIN x.shown : x.shown[k].key # e.key
    BY <1>7, <2>3
  <2>7. Showing(y, t)
    BY <1>3, <1>4, <1>5, <2>3, <2>5, <2>6, ShownAppended
  <2>8. /\ DOMAIN y.shown = 1 .. Len(x.shown) + 1 /\ DOMAIN x.shown = 1 .. Len(x.shown)
        /\ Len(x.shown) \in Nat
        /\ \A k \in 1 .. Len(x.shown) : y.shown[k] = x.shown[k]
        /\ y.shown[Len(x.shown) + 1] = e
    BY <1>5, <2>3, Appended DEF Showing, IsSequence
  <2>9. Handled(y, y.at)
    <3> SUFFICES ASSUME NEW j \in DOMAIN x.s.columns, j < x.at + 1
                 PROVE  \/ x.s.columns[j] \in x.unread
                        \/ \E k \in DOMAIN y.shown : y.shown[k].key = x.s.columns[j]
      BY <1>3, <2>3 DEF Handled
    <3>1. CASE j = x.at
      <4>1. y.shown[Len(x.shown) + 1].key = x.s.columns[j] /\ Len(x.shown) + 1 \in DOMAIN y.shown
        BY <1>1, <2>3, <2>8, <3>1
      <4> QED BY <4>1
    <3>2. CASE j < x.at
      <4>1. \/ x.s.columns[j] \in x.unread
            \/ \E k \in DOMAIN x.shown : x.shown[k].key = x.s.columns[j]
        BY <1>5, <3>2 DEF Handled
      <4> QED BY <2>8, <4>1
    <3> QED BY <1>6, <3>1, <3>2
  <2> QED BY <1>3, <2>7, <2>9 DEF Progress
<1>8. CASE ~ (Loads(col) /\ ~ listed)
  <2>1. y.shown = x.shown
    BY <1>3, <1>8
  <2>2. Showing(y, t)
    BY <1>3, <1>5, <2>1, SameShown
  <2>3. Handled(y, y.at)
    <3> SUFFICES ASSUME NEW j \in DOMAIN x.s.columns, j < x.at + 1
                 PROVE  \/ x.s.columns[j] \in y.unread
                        \/ \E k \in DOMAIN x.shown : x.shown[k].key = x.s.columns[j]
      BY <1>3, <2>1 DEF Handled
    <3>1. CASE j = x.at
      BY <1>1, <1>3, <1>8, <3>1
    <3>2. CASE j < x.at
      BY <1>3, <1>5, <3>2 DEF Handled
    <3> QED BY <1>6, <3>1, <3>2
  <2> QED BY <1>3, <2>2, <2>3 DEF Progress
<1> QED BY <1>3, <1>7, <1>8

Counts == [value : Nat, fre : Nat]

\* The count of each row that is found and listed is raised, the others are appended.
Pushed(ix, found, jx) ==
    /\ jx \in Seq(Counts) /\ Len(ix) <= Len(jx)
    /\ \A k \in 1 .. Len(ix) :
           /\ jx[k].value = ix[k].value
           /\ jx[k].fre = IF ix[k].value \in found THEN ix[k].fre + 1 ELSE ix[k].fre
    /\ \A k \in DOMAIN jx : k > Len(ix) => jx[k].fre = 1

LEMMA PushFacts ==
    ASSUME NEW ix \in Seq(Counts), NEW m \in Nat, NEW found \in SUBSET (1 .. m)
    PROVE  Pushed(ix, found, push(ix, found))
<1> DEFINE listed == {ix[k].value : k \in DOMAIN ix}
           S == found \ listed
           new == Ascending(S)
           a == [k \in DOMAIN ix |-> IF ix[k].value \in found
                                     THEN [ix[k] EXCEPT !.fre = @ + 1] ELSE ix[k]]
           b == [k \in DOMAIN new |-> [value |-> new[k], fre |-> 1]]
<1>1. push(ix, found) = a \o b
  BY DEF push
<1>2. S \in SUBSET (1 .. m)
  OBVIOUS
<1>3. PICK n \in Nat : DOMAIN new = 1 .. n /\ \A j \in DOMAIN new : new[j] \in Nat
  <2> HIDE DEF S
  <2>1. /\ Cardinality(S) \in Nat /\ DOMAIN new = 1 .. Cardinality(S)
        /\ \A j \in DOMAIN new : new[j] \in S
    BY <1>2, AscendingFacts
  <2>2. S \subseteq Nat
    BY <1>2
  <2> QED BY <2>1, <2>2
<1>4. DOMAIN ix = 1 .. Len(ix) /\ Len(ix) \in Nat /\ \A k \in DOMAIN ix : ix[k] \in Counts
  OBVIOUS
<1> HIDE DEF new
<1>5. b \in Seq(Counts) /\ Len(b) = n /\ \A k \in 1 .. n : b[k].fre = 1
  <2>1. b \in [1 .. n -> Counts]
    BY <1>3 DEF Counts
  <2>2. \A k \in 1 .. n : b[k].fre = 1
    BY <1>3
  <2> QED BY <1>3, <2>1, <2>2
<1>6. ASSUME NEW k \in 1 .. Len(ix)
      PROVE  /\ a[k] \in Counts /\ a[k].value = ix[k].value
             /\ a[k].fre = IF ix[k].value \in found THEN ix[k].fre + 1 ELSE ix[k].fre
  BY <1>4 DEF Counts
<1>7. a \in Seq(Counts) /\ Len(a) = Len(ix)
  <2>1. a \in [1 .. Len(ix) -> Counts]
    BY <1>4, <1>6
  <2> QED BY <1>4, <2>1
<1> HIDE DEF a, b
<1>8. /\ a \o b \in Seq(Counts) /\ Len(a \o b) = Len(ix) + n
      /\ DOMAIN (a \o b) = 1 .. Len(ix) + n
      /\ \A k \in 1 .. Len(ix) : (a \o b)[k] = a[k]
      /\ \A k \in 1 .. n : (a \o b)[Len(ix) + k] = b[k]
  BY <1>5, <1>7
<1>9. ASSUME NEW k \in DOMAIN (a \o b), k > Len(ix) PROVE (a \o b)[k].fre = 1
  <2>1. PICK i \in 1 .. n : k = Len(ix) + i
    <3>1. k - Len(ix) \in 1 .. n /\ k = Len(ix) + (k - Len(ix))
      BY <1>4, <1>8, <1>9
    <3> QED BY <3>1
  <2> QED BY <1>5, <1>8, <2>1
<1>10. Len(ix) <= Len(a \o b)
  BY <1>4, <1>8
<1> QED BY <1>1, <1>6, <1>8, <1>9, <1>10 DEF Pushed

LEMMA ListIndexesProgress ==
    ASSUME Inv, NEW w \in Worker, NEW t \in Table, ListIndexes(w),
           NEW x, x = th[w], NEW y, y = th'[w],
           x.s \in Selects, OfTable(x.s, t), Progress(x, t)
    PROVE  y.s = x.s /\ Progress(y, t)
<1>1. x.pc = "show" /\ x.at > Len(x.s.columns)
  BY DEF ListIndexes, At
<1>2. CASE x.shown = <<>>
  <2>1. th' = [th EXCEPT ![w] = [th[w] EXCEPT !.pc = "dead"]]
    BY <1>2 DEF ListIndexes, Die, Do
  <2>2. y.pc = "dead" /\ y.s = x.s
    BY <2>1, ThreadFacts
  <2> QED BY <2>2 DEF Progress
<1>3. CASE x.shown # <<>>
  <2>1. th' = [th EXCEPT ![w] =
                  [th[w] EXCEPT !.pc = "filter", !.at = 1,
                      !.indexes = [i \in DOMAIN x.shown[1].values |-> [value |-> i, fre |-> 1]]]]
    BY <1>3 DEF ListIndexes, Do
  <2>2. /\ y.pc = "filter" /\ y.at = 1 /\ y.s = x.s /\ y.shown = x.shown /\ y.unread = x.unread
        /\ y.indexes = [i \in DOMAIN x.shown[1].values |-> [value |-> i, fre |-> 1]]
    BY <2>1, ThreadFacts
  <2>3. Showing(x, t) /\ Handled(x, x.at)
    BY <1>1 DEF Progress
  <2>4. Showing(y, t)
    BY <2>2, <2>3, SameShown
  <2>5. Handled(y, Len(y.s.columns) + 1)
    <3>1. \A j \in DOMAIN x.s.columns : j < x.at
      <4>1. x.at \in Nat
        BY ThreadFacts
      <4> QED BY <1>1, <4>1, SelectFacts
    <3> QED BY <2>2, <2>3, <3>1 DEF Handled
  <2>6. Counting(y, t)
    <3>1. PICK n \in Nat : n = Len(x.shown[1].values) /\ DOMAIN x.shown[1].values = 1 .. n
      <4>1. 1 \in DOMAIN x.shown /\ Len(x.shown[1].values) \in Nat
        BY <1>3, <2>3, ShownFirst, RowsFacts
      <4> QED BY <2>3, <4>1 DEF Showing, IsLoaded
    <3>2. y.indexes = [i \in 1 .. n |-> [value |-> i, fre |-> 1]]
      BY <2>2, <3>1
    <3>3. y.indexes \in [1 .. n -> Counts]
      BY <3>2 DEF Counts
    <3>4. y.indexes \in Seq(Counts) /\ Len(y.indexes) = n
      BY <3>3
    <3>5. 1 <= Len(x.s.restrictions) + 1
      BY SelectFacts
    <3>6. \A i \in 1 .. n : y.indexes[i].value = i /\ y.indexes[i].fre = 1
      BY <3>2
    <3>7. 1 .. y.at - 1 = {}
      BY <2>2
    <3>8. DOMAIN y.indexes = 1 .. n /\ \A i \in 1 .. n : ~ i > n
      BY <3>2
    <3> QED BY <2>2, <3>1, <3>4, <3>5, <3>6, <3>7, <3>8 DEF Counting, Counts
  <2> QED BY <1>3, <2>2, <2>4, <2>5, <2>6 DEF Progress
<1> QED BY <1>2, <1>3

LEMMA FilterProgress ==
    ASSUME Inv, NEW w \in Worker, NEW t \in Table, Filter(w),
           NEW x, x = th[w], NEW y, y = th'[w],
           x.s \in Selects, OfTable(x.s, t), Progress(x, t)
    PROVE  y.s = x.s /\ Progress(y, t)
<1>1. PICK p, r : p = x.at /\ r = x.s.restrictions[p]
  OBVIOUS
<1>2. PICK found : found = Found(load_column(r.column), r, Columns[r.column.name][r.column.sub])
  OBVIOUS
<1> DEFINE n == Len(x.shown[1].values)
           ix == x.indexes
<1>3. /\ x.pc = "filter" /\ p <= Len(x.s.restrictions) /\ Readable(r.column)
      /\ th' = [th EXCEPT ![w] =
                   [th[w] EXCEPT !.at = @ + 1,
                                 !.indexes = IF Loads(r.column) THEN push(@, found) ELSE @]]
  BY <1>1, <1>2 DEF Filter, At, Do
<1>4. /\ y.pc = "filter" /\ y.s = x.s /\ y.at = p + 1
      /\ y.shown = x.shown /\ y.unread = x.unread
      /\ y.indexes = IF Loads(r.column) THEN push(ix, found) ELSE ix
  BY <1>1, <1>3, ThreadFacts
<1>5. /\ p \in Nat \ {0} /\ p \in DOMAIN x.s.restrictions /\ Len(x.s.restrictions) \in Nat
      /\ r.column.name = t /\ r.value \in Literal
  <2>1. p \in Nat \ {0}
    BY <1>1, ThreadFacts
  <2>2. p \in DOMAIN x.s.restrictions /\ Len(x.s.restrictions) \in Nat
    BY <1>3, <2>1, SelectFacts
  <2> QED BY <1>1, <2>1, <2>2, SelectFacts DEF OfTable
<1>6. Showing(x, t) /\ Handled(x, Len(x.s.columns) + 1) /\ x.shown # <<>> /\ Counting(x, t)
  BY <1>3 DEF Progress
<1>7. /\ n \in Nat /\ 1 <= n /\ n <= Len(rows[t]) /\ Len(rows[t]) \in Nat
  BY <1>6, ShownFirst, RowsFacts
<1>8. /\ ix \in Seq(Counts) /\ n <= Len(ix) /\ Len(ix) \in Nat /\ DOMAIN ix = 1 .. Len(ix)
      /\ \A i \in DOMAIN ix : ix[i].fre \in Nat /\ ix[i].fre <= p
      /\ \A i \in 1 .. n :
             /\ ix[i].value = i
             /\ ix[i].fre = p <=> \A k \in 1 .. p - 1 : Meets(rows[t][i], x.s.restrictions[k], t)
      /\ \A i \in DOMAIN ix : i > n => ix[i].fre < p
  <2>1. ix \in Seq(Counts)
    BY <1>6 DEF Counting, Counts
  <2>2. \A i \in DOMAIN ix : ix[i].fre \in Nat
    <3>1. \A i \in DOMAIN ix : ix[i] \in Counts
      BY <2>1
    <3> QED BY <3>1 DEF Counts
  <2>3. n <= Len(ix) /\ \A i \in DOMAIN ix : ix[i].fre <= p /\ (i > n => ix[i].fre < p)
    BY <1>1, <1>6 DEF Counting
  <2>4. \A i \in 1 .. n :
            /\ ix[i].value = i
            /\ ix[i].fre = p <=> \A k \in 1 .. p - 1 : Meets(rows[t][i], x.s.restrictions[k], t)
    BY <1>1, <1>6 DEF Counting
  <2>5. Len(ix) \in Nat /\ DOMAIN ix = 1 .. Len(ix)
    BY <2>1
  <2> HIDE DEF n, ix
  <2> QED BY <2>1, <2>2, <2>3, <2>4, <2>5
<1> HIDE DEF n, ix
<1>9. \A k \in 1 .. p : k \in 1 .. p - 1 \/ k = p
  BY <1>5
<1>13. p + 1 <= Len(x.s.restrictions) + 1
  BY <1>3, <1>5
<1>14. /\ p \in Nat /\ y.at = p + 1 /\ p + 1 <= Len(y.s.restrictions) + 1
       /\ n = Len(y.shown[1].values) /\ y.at - 1 = p /\ y.s.restrictions = x.s.restrictions
  BY <1>4, <1>5, <1>13 DEF n
<1>10. Counting(y, t)
  <2>1. CASE Loads(r.column)
    <3>1. r.column.sub \in Cols(t) /\ lock[t] = NoOne
      BY <1>3, <1>5, <2>1 DEF Loads, Exists, Readable, Cols
    <3>2. found \in SUBSET (1 .. Len(rows[t]))
      <4>1. DOMAIN load_column(r.column) = 1 .. Len(rows[t])
        BY <1>5, <3>1, LoadFacts
      <4> QED BY <1>2, <4>1 DEF Found
    <3>3. \A i \in 1 .. Len(rows[t]) : i \in found <=> Meets(rows[t][i], r, t)
      BY <1>2, <1>5, <3>1, FoundMeets
    <3>4. PICK jx : jx = push(ix, found)
      OBVIOUS
    <3>5. /\ jx \in Seq(Counts) /\ Len(ix) <= Len(jx)
          /\ \A k \in 1 .. Len(ix) :
                 /\ jx[k].value = ix[k].value
                 /\ jx[k].fre = IF ix[k].value \in found THEN ix[k].fre + 1 ELSE ix[k].fre
          /\ \A k \in DOMAIN jx : k > Len(ix) => jx[k].fre = 1
      <4>1. PICK m \in Nat : m = Len(rows[t])
        BY <1>7
      <4>2. ix \in Seq(Counts) /\ found \in SUBSET (1 .. m)
        BY <1>8, <3>2, <4>1
      <4>3. Pushed(ix, found, jx)
        BY <3>4, <4>2, PushFacts
      <4> QED BY <4>3 DEF Pushed
    <3>6. Len(jx) \in Nat /\ DOMAIN jx = 1 .. Len(jx)
      BY <3>5
    <3>7. ASSUME NEW i \in DOMAIN jx
          PROVE  jx[i].fre <= p + 1 /\ (i > n => jx[i].fre < p + 1)
      <4>1. CASE i \in 1 .. Len(ix)
        <5>1. ix[i].fre \in Nat /\ ix[i].fre <= p /\ (i > n => ix[i].fre < p)
          BY <1>8, <4>1
        <5>2. jx[i].fre = ix[i].fre + 1 \/ jx[i].fre = ix[i].fre
          BY <3>5, <4>1
        <5> QED BY <1>5, <5>1, <5>2
      <4>2. CASE i > Len(ix)
        BY <1>5, <3>5, <4>2
      <4> QED BY <1>8, <3>6, <4>1, <4>2
    <3>8. ASSUME NEW i \in 1 .. n
          PROVE  /\ jx[i].value = i
                 /\ jx[i].fre = p + 1 <=> \A k \in 1 .. p : Meets(rows[t][i], x.s.restrictions[k], t)
      <4>1. i \in 1 .. Len(ix) /\ i \in 1 .. Len(rows[t])
        BY <1>7, <1>8
      <4>2. jx[i].value = i /\ jx[i].fre = IF i \in found THEN ix[i].fre + 1 ELSE ix[i].fre
        BY <1>8, <3>5, <4>1
      <4>3. ix[i].fre \in Nat /\ ix[i].fre <= p
        BY <1>8, <4>1
      <4>4. jx[i].fre = p + 1 <=> i \in found /\ ix[i].fre = p
        BY <1>5, <4>2, <4>3
      <4>5. i \in found <=> Meets(rows[t][i], x.s.restrictions[p], t)
        BY <1>1, <3>3, <4>1
      <4>6. p \in 1 .. p /\ \A k \in 1 .. p - 1 : k \in 1 .. p
        BY <1>5
      <4> QED BY <1>8, <1>9, <4>2, <4>4, <4>5, <4>6
    <3>9. y.indexes = jx
      BY <1>4, <2>1, <3>4
    <3>10. n <= Len(jx)
      BY <1>7, <1>8, <3>5, <3>6
    <3>11. jx \in Seq(Counts) /\ jx = y.indexes
      BY <3>5, <3>9
    <3> QED BY <1>14, <3>7, <3>8, <3>10, <3>11 DEF Counting, Counts
  <2>2. CASE ~ Loads(r.column)
    <3>1. r.column.sub \notin Cols(t)
      <4> SUFFICES ASSUME r.column.sub \in Cols(t) PROVE FALSE
        OBVIOUS
      <4>1. Exists(r.column)
        BY <1>5 DEF Exists, Cols
      <4>2. file[t][r.column.sub] = <<>>
        BY <1>5, <2>2, <4>1 DEF Loads
      <4>3. Len(file[t][r.column.sub]) = Len(rows[t]) + Ahead(t, r.column.sub)
        BY DEF Inv, StoredAsInserted
      <4>4. Ahead(t, r.column.sub) \in {0, 1} /\ Len(<<>>) = 0
        BY DEF Ahead
      <4>5. 0 = Len(rows[t]) + Ahead(t, r.column.sub)
        BY <4>2, <4>3, <4>4
      <4> QED BY <1>7, <4>4, <4>5
    <3>2. ASSUME NEW i \in 1 .. n PROVE ~ Meets(rows[t][i], x.s.restrictions[p], t)
      BY <1>1, <3>1 DEF Meets
    <3>3. p \in 1 .. p
      BY <1>5
    <3>4. \A i \in 1 .. n : /\ ix[i].value = i
                            /\ ix[i].fre = p + 1 <=>
                                   \A k \in 1 .. p : Meets(rows[t][i], x.s.restrictions[k], t)
      <4>1. \A i \in 1 .. n : ix[i].fre # p + 1
        BY <1>5, <1>7, <1>8
      <4> QED BY <1>8, <3>2, <3>3, <4>1
    <3>5. \A i \in DOMAIN ix : ix[i].fre <= p + 1 /\ ix[i].fre < p + 1
      BY <1>5, <1>8
    <3>6. y.indexes = ix
      BY <1>4, <2>2
    <3>7. ix \in Seq(Counts) /\ n <= Len(ix)
      BY <1>8
    <3> QED BY <1>14, <3>4, <3>5, <3>6, <3>7 DEF Counting, Counts
  <2> QED BY <2>1, <2>2
<1>11. Showing(y, t)
  BY <1>4, <1>6, SameShown
<1>12. Handled(y, Len(y.s.columns) + 1)
  BY <1>4, <1>6 DEF Handled
<1> QED BY <1>4, <1>6, <1>10, <1>11, <1>12 DEF Progress

\* The rows kept of each column are the matching ones.
LEMMA KeptMatching ==
    ASSUME Inv, NEW t \in Table, NEW x, x.s \in Selects, Showing(x, t), x.shown # <<>>,
           Counting(x, t), x.at \in Nat, x.at > Len(x.s.restrictions),
           NEW k \in DOMAIN x.shown, Len(x.shown[k].values) <= Len(x.indexes)
    PROVE  KeptOf(x, k) = Ascending(Matching(t, x.s.restrictions, Len(x.shown[1].values)))
<1>1. PICK n, m, c, ix :
          /\ n = Len(x.shown[1].values) /\ m = Len(x.shown[k].values)
          /\ c = Len(x.s.restrictions) /\ ix = x.indexes
  OBVIOUS
<1>2. /\ n \in Nat /\ m \in Nat /\ n <= m /\ m <= Len(ix) /\ c \in Nat
      /\ DOMAIN x.shown[k].values = 1 .. m
      /\ DOMAIN x.s.restrictions = 1 .. c
  <2>1. n \in Nat
    BY <1>1, ShownFirst, RowsFacts
  <2>2. IsLoaded(x.shown[k], t) /\ n <= m
    BY <1>1 DEF Showing
  <2> QED BY <1>1, <2>1, <2>2, RowsFacts, SelectFacts DEF IsLoaded
<1>3. x.at = c + 1
  <2>1. x.at <= Len(x.s.restrictions) + 1
    BY DEF Counting
  <2>2. x.at <= c + 1 /\ x.at > c
    BY <1>1, <2>1
  <2> QED BY <1>2, <2>2
<1>4. /\ ix \in Seq(Counts) /\ Len(ix) \in Nat
      /\ \A i \in 1 .. n : ix[i].fre = c + 1 <=>
             \A j \in 1 .. c : Meets(rows[t][i], x.s.restrictions[j], t)
      /\ \A i \in DOMAIN ix : i > n => ix[i].fre < c + 1
  <2>1. ix \in Seq(Counts)
    BY <1>1 DEF Counting, Counts
  <2>2. x.at - 1 = c
    BY <1>2, <1>3
  <2>3. \A i \in 1 .. n : ix[i].fre = c + 1 <=>
             \A j \in 1 .. c : Meets(rows[t][i], x.s.restrictions[j], t)
    BY <1>1, <1>3, <2>2 DEF Counting
  <2>4. \A i \in DOMAIN ix : i > n => ix[i].fre < c + 1
    BY <1>1, <1>3 DEF Counting
  <2> QED BY <2>1, <2>3, <2>4
<1>5. \A i \in 1 .. m : i \in DOMAIN ix /\ ix[i].fre \in Nat
  <2>1. \A i \in DOMAIN ix : ix[i] \in Counts
    BY <1>4
  <2>2. \A i \in 1 .. m : i \in DOMAIN ix
    BY <1>2, <1>4
  <2> QED BY <2>1, <2>2 DEF Counts
<1>6. \A i \in 1 .. m : ix[i].fre - 1 = c <=>
          /\ i \in 1 .. n
          /\ \A j \in 1 .. c : Meets(rows[t][i], x.s.restrictions[j], t)
  <2> SUFFICES ASSUME NEW i \in 1 .. m
               PROVE  ix[i].fre - 1 = c <=>
                          /\ i \in 1 .. n
                          /\ \A j \in 1 .. c : Meets(rows[t][i], x.s.restrictions[j], t)
    OBVIOUS
  <2>1. ix[i].fre - 1 = c <=> ix[i].fre = c + 1
    <3>1. PICK f \in Nat : f = ix[i].fre
      BY <1>5
    <3>2. f - 1 = c <=> f = c + 1
      BY <1>2
    <3> QED BY <3>1, <3>2
  <2>2. CASE i \in 1 .. n
    BY <1>4, <2>1, <2>2
  <2>3. CASE i > n
    <3>1. ix[i].fre < c + 1 /\ ix[i].fre \in Nat /\ i \notin 1 .. n
      BY <1>2, <1>4, <1>5, <2>3
    <3> QED BY <1>2, <2>1, <3>1
  <2> QED BY <1>2, <2>2, <2>3
<1>7. \A i \in 1 .. n : i \in 1 .. m
  BY <1>2
<1>8. {i \in 1 .. m : ix[i].fre - 1 = c}
          = {i \in 1 .. n : \A j \in 1 .. c : Meets(rows[t][i], x.s.restrictions[j], t)}
  BY <1>6, <1>7
<1>9. {i \in DOMAIN x.shown[k].values : ix[i].fre - 1 = c} = {i \in 1 .. m : ix[i].fre - 1 = c}
  BY <1>2
<1>10. KeptOf(x, k) = Ascending({i \in 1 .. m : ix[i].fre - 1 = c})
  BY <1>1, <1>9 DEF KeptOf, Kept
<1>11. Matching(t, x.s.restrictions, n)
           = {i \in 1 .. n : \A j \in 1 .. c : Meets(rows[t][i], x.s.restrictions[j], t)}
  BY <1>2 DEF Matching
<1> QED BY <1>1, <1>8, <1>10, <1>11

\* What is shown of a column at the places of matching rows.
LEMMA ShownValues ==
    ASSUME NEW t, NEW col, IsLoaded(col, t), NEW places,
           \A j \in DOMAIN places : places[j] \in DOMAIN col.values
    PROVE  [j \in DOMAIN places |-> col.values[places[j]]] = ValuesAt(col.key, t, places)
BY DEF IsLoaded, ValuesAt

\* The answer is what is expected.
LEMMA FinalExpected ==
    ASSUME Inv, NEW t \in Table, NEW x, x.s \in Selects, Showing(x, t), x.shown # <<>>,
           Counting(x, t), x.at \in Nat, x.at > Len(x.s.restrictions),
           \A k \in DOMAIN x.shown : Len(x.shown[k].values) <= Len(x.indexes)
    PROVE  Final(x) = Expected(t, [k \in DOMAIN x.shown |-> x.shown[k].key],
                               x.s.restrictions, Len(x.shown[1].values))
<1>1. PICK n, M, places :
          /\ n = Len(x.shown[1].values) /\ M = Matching(t, x.s.restrictions, n)
          /\ places = Ascending(M)
  OBVIOUS
<1>2. PICK l \in Nat : l = Len(x.shown) /\ DOMAIN x.shown = 1 .. l
  BY DEF Showing, IsSequence
<1>3. \A k \in 1 .. l : KeptOf(x, k) = places
  BY <1>1, <1>2, KeptMatching
<1>4. \A j \in DOMAIN places : places[j] \in 1 .. n
  <2>1. n \in Nat /\ M \in SUBSET (1 .. n)
    BY <1>1, ShownFirst, RowsFacts DEF Matching
  <2>2. \A j \in DOMAIN places : places[j] \in M
    BY <1>1, <2>1, AscendingFacts
  <2> QED BY <2>1, <2>2
<1>5. ASSUME NEW k \in 1 .. l
      PROVE  [j \in DOMAIN KeptOf(x, k) |-> x.shown[k].values[KeptOf(x, k)[j]]]
                 = ValuesAt(x.shown[k].key, t, places)
  <2>1. IsLoaded(x.shown[k], t) /\ n <= Len(x.shown[k].values)
    BY <1>1, <1>2 DEF Showing
  <2>2. \A j \in DOMAIN places : places[j] \in DOMAIN x.shown[k].values
    <3>1. n \in Nat /\ Len(x.shown[k].values) \in Nat
      BY <1>1, <2>1, ShownFirst, RowsFacts DEF IsLoaded
    <3> QED BY <1>4, <2>1, <3>1 DEF IsLoaded
  <2>3. [j \in DOMAIN places |-> x.shown[k].values[places[j]]] = ValuesAt(x.shown[k].key, t, places)
    BY <2>1, <2>2, ShownValues
  <2> QED BY <1>3, <2>3
<1>6. PICK left : left = Ascending({k \in DOMAIN x.shown : KeptOf(x, k) # <<>>})
  OBVIOUS
<1>7. Final(x) = [k \in DOMAIN left |->
                     [key |-> x.shown[left[k]].key,
                      values |-> [j \in DOMAIN KeptOf(x, left[k]) |->
                                     x.shown[left[k]].values[KeptOf(x, left[k])[j]]]]]
  BY <1>6 DEF Final
<1>8. Expected(t, [k \in DOMAIN x.shown |-> x.shown[k].key], x.s.restrictions, n)
          = IF places = <<>> THEN <<>>
            ELSE [k \in 1 .. l |-> [key |-> x.shown[k].key,
                                    values |-> ValuesAt(x.shown[k].key, t, places)]]
  BY <1>1, <1>2 DEF Expected
<1>9. CASE places = <<>>
  <2>1. {k \in DOMAIN x.shown : KeptOf(x, k) # <<>>} = {}
    BY <1>2, <1>3, <1>9
  <2>2. left = <<>>
    BY <1>6, <2>1, AscendingNone
  <2>3. Final(x) = <<>>
    BY <1>7, <2>2
  <2> QED BY <1>1, <1>8, <1>9, <2>3
<1>10. CASE places # <<>>
  <2>1. {k \in DOMAIN x.shown : KeptOf(x, k) # <<>>} = 1 .. l
    BY <1>2, <1>3, <1>10
  <2>2. left = [j \in 1 .. l |-> j]
    BY <1>6, <2>1, AscendingAll
  <2>3. Final(x) = [k \in 1 .. l |-> [key |-> x.shown[k].key,
                                      values |-> ValuesAt(x.shown[k].key, t, places)]]
    BY <1>5, <1>7, <2>2
  <2> QED BY <1>1, <1>8, <1>10, <2>3
<1> QED BY <1>9, <1>10

LEMMA AnswerProgress ==
    ASSUME Inv, NEW w \in Worker, NEW t \in Table, Answer(w),
           NEW x, x = th[w], NEW y, y = th'[w],
           x.s \in Selects, OfTable(x.s, t), Progress(x, t)
    PROVE  y.s = x.s /\ Progress(y, t)
<1>1. /\ x.pc = "filter" /\ x.at > Len(x.s.restrictions) /\ x.at \in Nat
  BY ThreadFacts DEF Answer, At
<1>2. CASE Die(w)
  <2>1. y.pc = "dead" /\ y.s = x.s
    BY <1>2, ThreadFacts DEF Die, Do
  <2> QED BY <2>1 DEF Progress
<1>3. CASE ~ Die(w)
  <2>1. /\ \A k \in DOMAIN x.shown : Len(x.shown[k].values) <= Len(x.indexes)
        /\ th' = [th EXCEPT ![w] = [x EXCEPT !.pc = "idle", !.answer = Final(x)]]
    BY <1>3 DEF Answer, Do
  <2>2. /\ y.pc = "idle" /\ y.s = x.s /\ y.shown = x.shown /\ y.unread = x.unread
        /\ y.answer = Final(x)
    BY <2>1, ThreadFacts
  <2>3. /\ Showing(x, t) /\ x.shown # <<>> /\ Counting(x, t)
        /\ Handled(x, Len(x.s.columns) + 1)
    BY <1>1 DEF Progress
  <2>4. Final(x) = Expected(t, [k \in DOMAIN x.shown |-> x.shown[k].key],
                            x.s.restrictions, Len(x.shown[1].values))
    BY <1>1, <2>1, <2>3, FinalExpected
  <2>5. Showing(y, t)
    BY <2>2, <2>3, SameShown
  <2>6. Handled(y, Len(y.s.columns) + 1)
    BY <2>2, <2>3 DEF Handled
  <2> QED BY <2>2, <2>3, <2>4, <2>5, <2>6 DEF Progress
<1> QED BY <1>2, <1>3

\* A SELECT begins with nothing shown.
LEMMA SendSelectProgress ==
    ASSUME Inv, NEW w \in Worker, NEW t \in Table, SendSelect(w), NEW y, y = th'[w]
    PROVE  Progress(y, t)
<1>1. PICK s \in Selects : th' = [th EXCEPT ![w] = [Idle EXCEPT !.pc = "show", !.s = s]]
  BY DEF SendSelect, Do
<1>2. y.pc = "show" /\ y.s = s /\ y.at = 1 /\ y.shown = <<>>
  BY <1>1, ThreadFacts DEF Idle
<1>3. IsSequence(<<>>) /\ DOMAIN <<>> = {}
  BY DEF IsSequence
<1>4. Showing(y, t)
  BY <1>2, <1>3 DEF Showing
<1>5. Handled(y, y.at)
  BY <1>2, SelectFacts DEF Handled
<1> QED BY <1>2, <1>4, <1>5 DEF Progress

\* The steps of an INSERT leave no SELECT in the connection.
LEMMA InsertProgress ==
    ASSUME Inv, NEW w \in Worker, Insert(w), NEW y, y = th'[w]
    PROVE  y.s \notin Selects
<1>1. CASE SendInsert(w)
  <2>1. PICK s \in Inserts :
            th' = [th EXCEPT ![w] = [Idle EXCEPT !.pc = IF CanInsert(s) THEN "lock" ELSE "idle",
                                                 !.s = s]]
    BY <1>1 DEF SendInsert, Do
  <2>2. y.s = s
    BY <2>1, ThreadFacts DEF Idle
  <2> QED BY <2>2, SelectFacts
<1>2. CASE LockTable(w)
  <2>1. y.s = th[w].s /\ th[w].pc = "lock"
    BY <1>2, ThreadFacts DEF LockTable, Do, At
  <2> QED BY <2>1, SelectFacts DEF Inv, TypeOK
<1>3. CASE AppendColumn(w)
  <2>1. y.s = th[w].s /\ th[w].pc = "append"
    BY <1>3, ThreadFacts DEF AppendColumn, Do, At
  <2> QED BY <2>1, SelectFacts DEF Inv, TypeOK
<1>4. CASE Unlock(w)
  <2>1. y.s = Nothing
    BY <1>4, ThreadFacts DEF Unlock, Do, Idle
  <2> QED BY <2>1, SelectFacts
<1> QED BY <1>1, <1>2, <1>3, <1>4 DEF Insert

\* No step takes rows away or changes them.
LEMMA RowsGrow ==
    ASSUME Inv, NEW w \in Worker, Insert(w) \/ Select(w), NEW t \in Table
    PROVE  Grows(t)
<1>1. CASE Unlock(w)
  <2>1. rows' = [rows EXCEPT ![th[w].s.t] = Append(@, th[w].s.values)]
    BY <1>1 DEF Unlock
  <2>2. th[w].s \in Inserts /\ CanInsert(th[w].s)
    BY <1>1 DEF Unlock, At, Inv, TypeOK, InsertInv
  <2>3. th[w].s.t \in Table /\ th[w].s.values \in Row(th[w].s.t)
    BY <2>2, InsertFacts
  <2>4. rows[t] \in Seq(Row(t)) /\ DOMAIN rows = Table
    BY DEF Inv, TypeOK
  <2>5. CASE t = th[w].s.t
    <3>1. rows'[t] = Append(rows[t], th[w].s.values)
      BY <2>1, <2>4, <2>5
    <3> QED BY <2>3, <2>4, <2>5, <3>1 DEF Grows
  <2>6. CASE t # th[w].s.t
    <3>1. rows'[t] = rows[t]
      BY <2>1, <2>4, <2>6
    <3> QED BY <3>1, RowsFacts DEF Grows
  <2> QED BY <2>5, <2>6
<1>2. CASE ~ Unlock(w)
  <2>1. rows' = rows
    BY <1>2 DEF Insert, Select, SendInsert, LockTable, AppendColumn, SendSelect, LoadShown,
                ListIndexes, Filter, Answer
  <2> QED BY <2>1, RowsFacts DEF Grows
<1> QED BY <1>1, <1>2

\* A step of one connection leaves the statements of the others alone.
LEMMA OthersStay ==
    ASSUME Inv, NEW w \in Worker, Insert(w) \/ Select(w), NEW v \in Worker, v # w
    PROVE  th'[v] = th[v]
<1>1. \E r : th' = [th EXCEPT ![w] = r]
  BY DEF Insert, Select, SendInsert, LockTable, AppendColumn, Unlock, SendSelect, LoadShown,
         ListIndexes, Filter, Answer, Do, Die
<1> QED BY <1>1, ThreadFacts

LEMMA SelectInvStep ==
    ASSUME Inv, SelectInv, NEW w \in Worker, Insert(w) \/ Select(w)
    PROVE  SelectInv'
<1> SUFFICES ASSUME NEW v \in Worker, NEW t \in Table, NEW y, y = th'[v],
                    y.s \in Selects, OfTable(y.s, t)
             PROVE  Progress(y, t)'
  BY DEF SelectInv, OfTable
<1>1. PICK x : x = th[v]
  OBVIOUS
<1>2. Progress(y, t) => Progress(y, t)'
  BY RowsGrow, ProgressStays
<1>3. x.s \in Selects /\ OfTable(x.s, t) => Progress(x, t)
  BY <1>1 DEF SelectInv
<1>4. CASE v # w
  <2>1. y = x
    BY <1>1, <1>4, OthersStay
  <2> QED BY <1>2, <1>3, <2>1
<1>5. CASE v = w /\ Insert(w)
  BY <1>5, InsertProgress
<1>6. CASE v = w /\ SendSelect(w)
  BY <1>2, <1>6, SendSelectProgress
<1>7. CASE v = w /\ (LoadShown(w) \/ ListIndexes(w) \/ Filter(w) \/ Answer(w))
  <2>1. y.s = x.s
    BY <1>1, <1>7, ThreadFacts DEF LoadShown, ListIndexes, Filter, Answer, Do, Die
  <2>2. x.s \in Selects /\ OfTable(x.s, t) /\ Progress(x, t)
    BY <1>3, <2>1
  <2>3. Progress(y, t)
    BY <1>1, <1>7, <2>2, LoadShownProgress, ListIndexesProgress, FilterProgress, AnswerProgress
  <2> QED BY <1>2, <2>3
<1> QED BY <1>4, <1>5, <1>6, <1>7 DEF Select

LEMMA InitSelectInv == Init => SelectInv
<1> SUFFICES ASSUME Init, NEW w \in Worker PROVE th[w].s \notin Selects
  BY DEF SelectInv
<1>1. th[w].s = Nothing
  BY DEF Init, Idle
<1> QED BY <1>1, SelectFacts

\* What holds of every SELECT at each of its stages.
THEOREM SelectInvariance == Spec => []SelectInv
<1>1. Inv /\ SelectInv /\ [Next]_vars => SelectInv'
  <2>1. ASSUME Inv, SelectInv, Next PROVE SelectInv'
    BY <2>1, SelectInvStep DEF Next
  <2>2. ASSUME Inv, SelectInv, UNCHANGED vars PROVE SelectInv'
    <3> SUFFICES ASSUME NEW w \in Worker, NEW t \in Table, NEW x, x = th[w],
                        x.s \in Selects, OfTable(x.s, t)
                 PROVE  Progress(x, t)'
      BY <2>2 DEF vars, SelectInv, OfTable
    <3>1. Grows(t)
      BY <2>2, RowsFacts DEF vars, Grows
    <3>2. Progress(x, t)
      BY <2>2 DEF SelectInv
    <3> QED BY <2>2, <3>1, <3>2, ProgressStays
  <2> QED BY <2>1, <2>2
<1> QED BY InitSelectInv, StoreInvariance, <1>1, PTL DEF Spec

LEMMA SelectInvAnswers == SelectInv => AnswersAreMatchingRows
<1> SUFFICES ASSUME SelectInv, NEW w \in Worker, NEW t \in Table, Answered(w), OfTable(th[w].s, t),
                    NEW x, x = th[w],
                    NEW columns, columns = [k \in DOMAIN x.shown |-> x.shown[k].key]
             PROVE  /\ x.answer = Expected(t, columns, x.s.restrictions, Len(x.shown[1].values))
                    /\ \A j, k \in DOMAIN columns : columns[j] = columns[k] => j = k
                    /\ Listed(x.s.columns) \ x.unread \subseteq Listed(columns)
                    /\ Listed(columns) \subseteq {col \in Listed(x.s.columns) : Exists(col)}
  BY DEF AnswersAreMatchingRows
<1>1. x.pc = "idle" /\ x.s \in Selects
  BY DEF Answered
<1>2. Progress(x, t)
  BY <1>1 DEF SelectInv
<1>3. /\ x.answer = Expected(t, columns, x.s.restrictions, Len(x.shown[1].values))
      /\ Showing(x, t) /\ Handled(x, Len(x.s.columns) + 1)
  BY <1>1, <1>2 DEF Progress
<1>4. \A j, k \in DOMAIN columns : columns[j] = columns[k] => j = k
  BY <1>3 DEF Showing
<1>5. Listed(x.s.columns) \ x.unread \subseteq Listed(columns)
  <2>1. \A j \in DOMAIN x.s.columns : j < Len(x.s.columns) + 1
    BY <1>1, SelectFacts
  <2>2. \A j \in DOMAIN x.s.columns :
            \/ x.s.columns[j] \in x.unread
            \/ \E k \in DOMAIN x.shown : x.shown[k].key = x.s.columns[j]
    BY <1>3, <2>1 DEF Handled
  <2> QED BY <2>2 DEF Listed
<1>6. Listed(columns) \subseteq {col \in Listed(x.s.columns) : Exists(col)}
  <2>1. \A k \in DOMAIN x.shown : x.shown[k].key \in Listed(x.s.columns) /\ Exists(x.shown[k].key)
    BY <1>3 DEF Showing, IsLoaded, Exists, Cols
  <2> QED BY <2>1 DEF Listed
<1> QED BY <1>3, <1>4, <1>5, <1>6

\* A SELECT over one table that is answered shows exactly the matching rows of the table
\* as it was when the first column was loaded (main.cpp:303-685 under the locks of
\* load_column).
THEOREM SelectAnswers == Spec => []AnswersAreMatchingRows
BY SelectInvariance, SelectInvAnswers, PTL
================================================================================
