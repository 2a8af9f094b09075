--------------------------- MODULE TableInfoProofs ---------------------------
(***************************************************************************)
(* What is saved in info.tbl is what is loaded, for any names, sizes and   *)
(* number of columns.                                                      *)
(*                                                                         *)
(* Neither half of LoadsWhatWasSaved is inductive: it takes where in the   *)
(* file the reader is.  Inv says that there is a place where each column   *)
(* begins (Laid), that the reader is at a place in a column that it knows  *)
(* from what it has read (ReaderInv), and that what it has read are the    *)
(* bytes before that place.                                                *)
(***************************************************************************)
EXTENDS TableInfoProperties, SequenceTheorems, TLAPS

LEMMA Bytes ==
  /\ 0 \in Byte /\ 115 \in Byte /\ Variants \subseteq Byte
  /\ \A b \in Byte : b \in Nat
BY DEF Byte, Variants

LEMMA EightBytes ==
  ASSUME NEW s \in [1 .. 8 -> Byte]
  PROVE  s \in Seq(Byte) /\ Len(s) = 8
<1>1. s \in Seq(Byte)
  BY SeqDef
<1>2. DOMAIN s = 1 .. Len(s) /\ Len(s) \in Nat
  BY <1>1, LenProperties
<1> QED  BY <1>1, <1>2

\* One sequence after another; Joined has its bytes by their places.
Cat(s, t) == s \o t

LEMMA Joined ==
  ASSUME NEW s \in Seq(Byte), NEW t \in Seq(Byte)
  PROVE  /\ Cat(s, t) \in Seq(Byte) /\ Len(Cat(s, t)) = Len(s) + Len(t)
         /\ \A k \in 1 .. Len(s) : Cat(s, t)[k] = s[k]
         /\ \A k \in 1 .. Len(t) : Cat(s, t)[Len(s) + k] = t[k]
<1>1. Len(s) \in Nat /\ Len(t) \in Nat
  BY LenProperties
<1>2. s \o t \in Seq(Byte) /\ Len(s \o t) = Len(s) + Len(t)
  BY ConcatProperties
<1>3. ASSUME NEW k \in 1 .. Len(s)  PROVE (s \o t)[k] = s[k]
  BY <1>1, ConcatProperties
<1>4. ASSUME NEW k \in 1 .. Len(t)  PROVE (s \o t)[Len(s) + k] = t[k]
  BY <1>1, ConcatProperties
<1> QED  BY <1>2, <1>3, <1>4, Zenon DEF Cat

\* The 16 bytes after a name and its zero.
Rest(col) == serialize_layout(col) \o EndMark

LEMMA RestBytes ==
  ASSUME NEW col \in Column
  PROVE  /\ Rest(col) \in Seq(Byte) /\ Len(Rest(col)) = 16
         /\ \A k \in 1 .. 8 : Rest(col)[k] = col.size[k]
         /\ Rest(col)[9] = 0 /\ Rest(col)[10] = col.type /\ col.type \in Variants
         /\ Rest(col)[11] = 0 /\ Rest(col)[12] = 0 /\ Rest(col)[13] = 0
         /\ Rest(col)[14] = 0 /\ Rest(col)[15] = 115 /\ Rest(col)[16] = 115
<1>1. col.size \in [1 .. 8 -> Byte] /\ col.type \in Variants
  BY TableInfoAssumption DEF Column
<1> DEFINE size == col.size
           tail == <<0, col.type, 0, 0, 0>>
           body == serialize_layout(col)
<1>2. size \in Seq(Byte)
  BY <1>1, EightBytes
<1>3. Len(size) = 8
  BY <1>1, EightBytes
<1>4. tail \in Seq(Byte)
  BY <1>1, Bytes
<1>5. Len(tail) = 5
  OBVIOUS
<1>6. /\ tail[1] = 0 /\ tail[2] = col.type /\ tail[3] = 0 /\ tail[4] = 0 /\ tail[5] = 0
  OBVIOUS
<1>7. body = Cat(size, tail)
  BY DEF serialize_layout, Cat
<1> HIDE DEF tail, body, size
<1>8. /\ Cat(size, tail) \in Seq(Byte) /\ Len(Cat(size, tail)) = Len(size) + Len(tail)
      /\ \A k \in 1 .. Len(size) : Cat(size, tail)[k] = size[k]
      /\ \A k \in 1 .. Len(tail) : Cat(size, tail)[Len(size) + k] = tail[k]
  BY <1>2, <1>4, Joined
<1>9. /\ body \in Seq(Byte)
      /\ \A k \in 1 .. 8 : body[k] = size[k]
      /\ \A k \in 1 .. 5 : body[8 + k] = tail[k]
  BY <1>3, <1>5, <1>7, <1>8
<1>10. /\ body[9] = 0 /\ body[10] = col.type /\ body[11] = 0 /\ body[12] = 0 /\ body[13] = 0
  <2>1. /\ body[8 + 1] = tail[1] /\ body[8 + 2] = tail[2] /\ body[8 + 3] = tail[3]
        /\ body[8 + 4] = tail[4] /\ body[8 + 5] = tail[5]
    BY <1>9
  <2> QED  BY <1>6, <2>1
<1>11. Len(body) = 13
  BY <1>3, <1>5, <1>7, <1>8
<1>12. EndMark \in Seq(Byte)
  BY Bytes DEF EndMark
<1>13. Len(EndMark) = 3 /\ EndMark[1] = 0 /\ EndMark[2] = 115 /\ EndMark[3] = 115
  BY DEF EndMark
<1>14. Rest(col) = Cat(body, EndMark)
  BY DEF Rest, body, Cat
<1>15. /\ Cat(body, EndMark) \in Seq(Byte)
       /\ Len(Cat(body, EndMark)) = Len(body) + Len(EndMark)
       /\ \A k \in 1 .. Len(body) : Cat(body, EndMark)[k] = body[k]
       /\ \A k \in 1 .. Len(EndMark) : Cat(body, EndMark)[Len(body) + k] = EndMark[k]
  BY <1>9, <1>12, Joined
<1>16. /\ \A k \in 1 .. 13 : Rest(col)[k] = body[k]
       /\ \A k \in 1 .. 3 : Rest(col)[13 + k] = EndMark[k]
       /\ Rest(col) \in Seq(Byte) /\ Len(Rest(col)) = 16
  BY <1>11, <1>13, <1>14, <1>15
<1>17. /\ Rest(col)[14] = 0 /\ Rest(col)[15] = 115 /\ Rest(col)[16] = 115
  <2>1. /\ Rest(col)[13 + 1] = EndMark[1] /\ Rest(col)[13 + 2] = EndMark[2]
        /\ Rest(col)[13 + 3] = EndMark[3]
    BY <1>16
  <2> QED  BY <1>13, <2>1
<1>18. \A k \in 1 .. 8 : Rest(col)[k] = col.size[k]
  <2>1. ASSUME NEW k \in 1 .. 8  PROVE Rest(col)[k] = size[k]
    <3>1. k \in 1 .. 13
      OBVIOUS
    <3> QED  BY <1>9, <1>16, <3>1
  <2> QED  BY <2>1 DEF size
<1>19. /\ Rest(col)[9] = 0 /\ Rest(col)[10] = col.type
       /\ Rest(col)[11] = 0 /\ Rest(col)[12] = 0 /\ Rest(col)[13] = 0
  BY <1>10, <1>16
<1> QED  BY <1>1, <1>16, <1>17, <1>18, <1>19

\* How long a column is in the file.
Length(col) == Len(col.name) + 17

LEMMA WrittenBytes ==
  ASSUME NEW col \in Column
  PROVE  /\ col.name \in Seq(Byte \ {0}) /\ Len(col.name) \in Nat \ {0}
         /\ Length(col) \in Nat
         /\ Written(col) \in Seq(Byte) /\ Len(Written(col)) = Length(col)
         /\ \A x \in 1 .. Len(col.name) : /\ Written(col)[x] = col.name[x]
                                         /\ col.name[x] \in Byte \ {0}
         /\ Written(col)[Len(col.name) + 1] = 0
         /\ \A m \in 1 .. 16 : Written(col)[Len(col.name) + 1 + m] = Rest(col)[m]
<1> DEFINE name == col.name
           l == Len(name)
           zero == <<0>>
           head == name \o zero
           layout == serialize_layout(col)
<1>1. name \in Seq(Byte \ {0}) /\ name \in Seq(Byte) /\ name # <<>>
  BY TableInfoAssumption, SeqMonotonic DEF Column
<1>2. l \in Nat \ {0}
  BY <1>1, EmptySeq
<1>3. Rest(col) \in Seq(Byte)
  BY RestBytes
<1>4. Len(Rest(col)) = 16
  BY RestBytes
<1>5. zero \in Seq(Byte)
  BY Bytes
<1>6. Len(zero) = 1 /\ zero[1] = 0
  OBVIOUS
<1>7. EndMark \in Seq(Byte)
  BY Bytes DEF EndMark
<1>8. layout \in Seq(Byte)
  <2>1. col.size \in [1 .. 8 -> Byte] /\ col.type \in Byte
    BY TableInfoAssumption, Bytes DEF Column
  <2>2. col.size \in Seq(Byte) /\ <<0, col.type, 0, 0, 0>> \in Seq(Byte)
    BY <2>1, EightBytes, Bytes
  <2> QED  BY <2>2, ConcatProperties DEF serialize_layout
<1>9. Written(col) = (head \o layout) \o EndMark /\ Rest(col) = layout \o EndMark
  BY DEF Written, Rest
<1>10. head = Cat(name, zero)
  BY DEF Cat
<1> HIDE DEF name, zero, head, layout
<1>11. /\ Cat(name, zero) \in Seq(Byte) /\ Len(Cat(name, zero)) = Len(name) + Len(zero)
       /\ \A x \in 1 .. Len(name) : Cat(name, zero)[x] = name[x]
       /\ \A x \in 1 .. Len(zero) : Cat(name, zero)[Len(name) + x] = zero[x]
  BY <1>1, <1>5, Joined
<1>12. head \in Seq(Byte) /\ \A x \in 1 .. l : head[x] = name[x]
  BY <1>10, <1>11
<1>13. Len(head) = l + 1 /\ head[l + 1] = 0
  <2>1. Len(head) = l + 1
    BY <1>6, <1>10, <1>11
  <2>2. Cat(name, zero)[Len(name) + 1] = zero[1]
    <3>1. 1 \in 1 .. Len(zero)
      BY <1>6
    <3> QED  BY <1>11, <3>1
  <2>3. head[l + 1] = 0
    BY <1>6, <1>10, <2>2
  <2> QED  BY <2>1, <2>3
<1>14. Written(col) = Cat(head, Rest(col))
  BY <1>7, <1>8, <1>9, <1>12, ConcatAssociative DEF Cat
<1>15. /\ Cat(head, Rest(col)) \in Seq(Byte)
       /\ Len(Cat(head, Rest(col))) = Len(head) + Len(Rest(col))
       /\ \A x \in 1 .. Len(head) : Cat(head, Rest(col))[x] = head[x]
       /\ \A m \in 1 .. Len(Rest(col)) : Cat(head, Rest(col))[Len(head) + m] = Rest(col)[m]
  BY <1>3, <1>12, Joined
<1>16. /\ Written(col) \in Seq(Byte) /\ Len(Written(col)) = (l + 1) + 16
       /\ \A x \in 1 .. l + 1 : Written(col)[x] = head[x]
       /\ \A m \in 1 .. 16 : Written(col)[(l + 1) + m] = Rest(col)[m]
  BY <1>4, <1>13, <1>14, <1>15
<1>17. \A x \in 1 .. l : name[x] \in Byte \ {0}
  BY <1>1, ElementOfSeq
<1>18. l = Len(name) /\ name = col.name
  BY DEF name
<1> HIDE DEF l
<1>19. \A x \in 1 .. l : Written(col)[x] = name[x]
  BY <1>2, <1>12, <1>16
<1>20. Written(col)[l + 1] = 0
  BY <1>2, <1>13, <1>16
<1>21. Length(col) \in Nat /\ Len(Written(col)) = Length(col)
  BY <1>2, <1>16, <1>18 DEF Length
<1> QED  BY <1>1, <1>2, <1>16, <1>17, <1>18, <1>19, <1>20, <1>21

\* What looks like the end mark in the rest of a column is it, or in the size.
LEMMA MarkIsLast ==
  ASSUME NEW col \in Column, NEW m \in 0 .. 13,
         Rest(col)[m + 1] = 0, Rest(col)[m + 2] = 115, Rest(col)[m + 3] = 115
  PROVE  m = 13 \/ Marked(col.size)
<1>1. CASE m <= 5
  <2>1. /\ m + 1 \in 1 .. 6 /\ m + 2 \in 1 .. 8 /\ m + 3 \in 1 .. 8
        /\ (m + 1) + 1 = m + 2 /\ (m + 1) + 2 = m + 3 /\ m + 1 \in 1 .. 8
    BY <1>1
  <2> DEFINE size == col.size
  <2>2. /\ col.size[m + 1] = 0 /\ col.size[m + 2] = 115 /\ col.size[m + 3] = 115
    <3>1. \A k \in 1 .. 8 : Rest(col)[k] = size[k]
      BY RestBytes
    <3> HIDE DEF size
    <3>2. size[m + 1] = 0 /\ size[m + 2] = 115 /\ size[m + 3] = 115
      BY <2>1, <3>1
    <3> QED  BY <3>2 DEF size
  <2>3. col.size[(m + 1) + 1] = 115 /\ col.size[(m + 1) + 2] = 115
    BY <2>1, <2>2
  <2> QED  BY <2>1, <2>2, <2>3, Zenon DEF Marked
<1>2. ASSUME m \in 6 .. 12  PROVE FALSE
  <2> DEFINE r == Rest(col)
  <2>1. /\ r[9] = 0 /\ r[10] \in Variants /\ r[11] = 0
        /\ r[12] = 0 /\ r[13] = 0 /\ r[14] = 0
    BY RestBytes
  <2> HIDE DEF r
  <2>2. r[m + 1] = 0 /\ r[m + 2] = 115 /\ r[m + 3] = 115
    BY DEF r
  <2>3. m = 6 \/ m = 7 \/ m = 8 \/ m = 9 \/ m = 10 \/ m = 11 \/ m = 12
    BY <1>2
  <2>4. 115 \notin Variants
    BY DEF Variants
  <2>5. m \in {6, 8, 9, 10, 11, 12} => r[m + 3] = 0 \/ r[m + 2] = 0
    BY <2>1
  <2>6. m = 7 => r[m + 2] = 0
    BY <2>1
  <2> QED  BY <2>2, <2>3, <2>5, <2>6
<1> QED  BY <1>1, <1>2
-----------------------------------------------------------------------------
(* The invariant. *)

\* What is in the file behind its first p bytes is the column, as far as it goes.
Behind(f, p, col) ==
    \A x \in 1 .. Length(col) : p + x <= Len(f) => f[p + x] = Written(col)[x]

\* The columns 1 to n are in the file: column k behind the first st[k] bytes.
Laid(cols, f, st, n) ==
    /\ st \in [1 .. n + 1 -> Nat] /\ st[1] = 0
    /\ \A k \in 1 .. n + 1 : st[k] <= st[n + 1]
    /\ \A k \in 1 .. n : /\ st[k + 1] = st[k] + Length(cols[k])
                         /\ Behind(f, st[k], cols[k])

SaveInv(st) ==
    /\ i \in 1 .. Len(columns) + 1
    /\ Laid(columns, file, st, i - 1)
    /\ Len(file) = st[i]
    /\ loaded = <<>>

\* The file that is read is what was written, or a part of it.
FileInv(cols, f, c, st) ==
    /\ Laid(cols, f, st, Len(cols))
    /\ Len(f) <= st[Len(cols) + 1] + 1
    /\ Len(f) = st[Len(cols) + 1] + 1 => f[st[Len(cols) + 1] + 1] = 0
    /\ ~c => Len(f) = st[Len(cols) + 1] + 1

At == Len(loaded) + 1

ReaderInv(st) ==
    /\ Len(loaded) <= Len(columns)
    /\ \A k \in 1 .. Len(loaded) : loaded[k] = columns[k]
    /\ pc = "next" => i = st[At] + 1
    /\ pc = "name" =>
          /\ At <= Len(columns) /\ serialized_layout = <<>>
          /\ Len(column_name) <= Len(columns[At].name)
          /\ i = st[At] + Len(column_name) + 1
          /\ \A x \in 1 .. Len(column_name) : column_name[x] = columns[At].name[x]
    /\ pc = "layout" =>
          /\ At <= Len(columns)
          /\ column_name = columns[At].name
          /\ i = st[At] + Len(column_name) + Len(serialized_layout) + 2
          /\ \A x \in 1 .. Len(serialized_layout) :
                serialized_layout[x] = Rest(columns[At])[x]

Inv ==
    /\ TypeOK
    /\ Distinct(columns)
    /\ pc = "save" => \E st : SaveInv(st)
    /\ pc # "save" => \E st : FileInv(columns, file, cut, st) /\ ReaderInv(st)
    /\ LoadsWhatWasSaved

LEMMA LaidAt ==
  ASSUME NEW cols \in Seq(Column), NEW f, NEW st, NEW n \in 0 .. Len(cols),
         Laid(cols, f, st, n), NEW k \in 1 .. n
  PROVE  /\ cols[k] \in Column /\ Length(cols[k]) \in Nat
         /\ k + 1 \in 1 .. n + 1 /\ st[k] \in Nat /\ st[k + 1] \in Nat
         /\ st[k + 1] = st[k] + Length(cols[k]) /\ st[k + 1] <= st[n + 1]
         /\ st[n + 1] \in Nat
         /\ Behind(f, st[k], cols[k])
<1>1. Len(cols) \in Nat /\ n \in Nat
  BY LenProperties
<1>2. k \in 1 .. Len(cols) /\ k \in 1 .. n + 1 /\ k + 1 \in 1 .. n + 1 /\ n + 1 \in 1 .. n + 1
  BY <1>1
<1>3. cols[k] \in Column
  BY <1>2, ElementOfSeq
<1>4. Length(cols[k]) \in Nat
  BY <1>3, WrittenBytes
<1>5. st[k] \in Nat /\ st[k + 1] \in Nat /\ st[n + 1] \in Nat
  BY <1>2 DEF Laid
<1>6. st[k + 1] <= st[n + 1]
  BY <1>2 DEF Laid
<1>7. st[k + 1] = st[k] + Length(cols[k]) /\ Behind(f, st[k], cols[k])
  BY DEF Laid
<1> QED  BY <1>2, <1>3, <1>4, <1>5, <1>6, <1>7

LEMMA InitInv == Init => Inv
<1> SUFFICES ASSUME Init  PROVE Inv
  OBVIOUS
<1>1. columns \in Seq(Column) /\ Distinct(columns)
  BY TableInfoAssumption DEF Init
<1>2. /\ file = <<>> /\ cut = FALSE /\ pc = "save" /\ i = 1 /\ column_name = <<>>
      /\ serialized_layout = <<>> /\ loaded = <<>>
  BY DEF Init
<1>3. TypeOK
  <2>1. serialized_layout \in Seq(Byte) /\ Len(serialized_layout) <= 13
    BY <1>2
  <2>2. /\ file \in Seq(Byte) /\ column_name \in Seq(Byte \ {0})
        /\ loaded \in Seq([name : Seq(Byte), size : Seq(Byte), type : Variants])
    BY <1>2, EmptySeq
  <2>3. /\ i \in Nat \ {0}
        /\ pc \in {"save", "next", "name", "layout", "done", "aborted", "overrun"}
    BY <1>2
  <2>4. cut \in BOOLEAN
    BY <1>2, Zenon
  <2> QED  BY <1>1, <2>1, <2>2, <2>3, <2>4 DEF TypeOK
<1> DEFINE st == [k \in 1 .. 1 |-> 0]
<1>4. st \in [1 .. 0 + 1 -> Nat] /\ st[1] = 0
  OBVIOUS
<1> HIDE DEF st
<1>5. Laid(columns, file, st, 0)
  BY <1>4 DEF Laid
<1>6. i \in 1 .. Len(columns) + 1 /\ i - 1 = 0 /\ Len(file) = st[i]
  <2>1. Len(columns) \in Nat
    BY <1>1, LenProperties
  <2>2. Len(file) = 0
    BY <1>2
  <2> QED  BY <1>2, <1>4, <2>1, <2>2
<1>7. SaveInv(st)
  BY <1>2, <1>5, <1>6 DEF SaveInv
<1> QED  BY <1>1, <1>2, <1>3, <1>7 DEF Inv, LoadsWhatWasSaved

\* Another column.
LEMMA AppendInv ==
  ASSUME Inv, AppendColumn  PROVE Inv'
<1> DEFINE col == columns[i]
           w == Written(col)
           l == Length(col)
<1>1. PICK st : SaveInv(st)
  BY DEF Inv, AppendColumn
<1>2. /\ columns \in Seq(Column) /\ file \in Seq(Byte) /\ Len(file) \in Nat
      /\ Len(columns) \in Nat
  BY LenProperties DEF Inv, TypeOK
<1>3. i \in 1 .. Len(columns) /\ i \in Nat /\ i - 1 \in 0 .. Len(columns) /\ (i - 1) + 1 = i
  BY <1>1, <1>2 DEF AppendColumn, SaveInv
<1>4. col \in Column
  BY <1>2, <1>3, ElementOfSeq
<1>5. w \in Seq(Byte) /\ Len(w) = l /\ l \in Nat
  BY <1>4, WrittenBytes
<1>6. file' = Cat(file, w) /\ columns' = columns /\ i' = i + 1
  BY DEF AppendColumn, Cat
<1>7. Laid(columns, file, st, i - 1) /\ Len(file) = st[i] /\ loaded = <<>>
  BY <1>1 DEF SaveInv
<1> HIDE DEF w
<1>8. /\ Cat(file, w) \in Seq(Byte) /\ Len(Cat(file, w)) = Len(file) + Len(w)
      /\ \A x \in 1 .. Len(file) : Cat(file, w)[x] = file[x]
      /\ \A x \in 1 .. Len(w) : Cat(file, w)[Len(file) + x] = w[x]
  BY <1>2, <1>5, Joined
<1> DEFINE f2 == file'
<1> HIDE DEF f2, l
<1>9. /\ f2 \in Seq(Byte) /\ Len(f2) = st[i] + l
      /\ \A x \in 1 .. st[i] : f2[x] = file[x]
      /\ \A x \in 1 .. l : f2[st[i] + x] = w[x]
  BY <1>5, <1>6, <1>7, <1>8 DEF f2
<1>10. st[i] \in Nat /\ st \in [1 .. i -> Nat] /\ st[1] = 0
  BY <1>2, <1>3, <1>7 DEF Laid
<1> DEFINE st2 == [k \in 1 .. i + 1 |-> IF k <= i THEN st[k] ELSE st[i] + l]
<1>11. st2 \in [1 .. i + 1 -> Nat] /\ st2[1] = 0
  BY <1>3, <1>5, <1>10
<1>12. (\A k \in 1 .. i : st2[k] = st[k]) /\ st2[i + 1] = st[i] + l
  BY <1>3
<1> HIDE DEF st2
<1>13. \A k \in 1 .. i + 1 : st2[k] <= st2[i + 1]
  <2>1. \A k \in 1 .. i : st[k] <= st[i]
    BY <1>3, <1>7 DEF Laid
  <2> QED  BY <1>3, <1>5, <1>10, <1>11, <1>12, <2>1
<1>14. Behind(f2, st2[i], columns[i])
  BY <1>3, <1>9, <1>12 DEF Behind, w, l
<1>15. ASSUME NEW k \in 1 .. i
       PROVE  st2[k + 1] = st2[k] + Length(columns[k]) /\ Behind(f2, st2[k], columns[k])
  <2>1. CASE k = i
    BY <1>3, <1>12, <1>14, <2>1 DEF l
  <2>2. CASE k \in 1 .. i - 1
    <3>1. /\ Length(columns[k]) \in Nat /\ st[k] \in Nat /\ st[k + 1] = st[k] + Length(columns[k])
          /\ st[k + 1] <= st[(i - 1) + 1] /\ Behind(file, st[k], columns[k])
      BY <1>2, <1>3, <1>7, <2>2, LaidAt
    <3>2. k + 1 \in 1 .. i
      BY <1>3, <2>2
    <3>3. ASSUME NEW x \in 1 .. Length(columns[k])
          PROVE  f2[st[k] + x] = Written(columns[k])[x]
      <4>1. st[k] + x \in 1 .. st[i]
        BY <1>3, <1>10, <3>1
      <4>2. file[st[k] + x] = Written(columns[k])[x]
        BY <1>7, <3>1, <4>1 DEF Behind
      <4> QED  BY <1>9, <4>1, <4>2
    <3> QED  BY <1>12, <3>1, <3>2, <3>3 DEF Behind
  <2> QED  BY <1>3, <2>1, <2>2
<1>16. Laid(columns, f2, st2, i)
  BY <1>11, <1>13, <1>15 DEF Laid
<1> PICK q : q = st2
  OBVIOUS
<1>17. SaveInv(q)'
  <2>1. i + 1 \in 1 .. Len(columns) + 1 /\ (i + 1) - 1 = i
    BY <1>2, <1>3
  <2>2. Len(f2) = st2[i + 1]
    BY <1>9, <1>12
  <2>3. loaded' = <<>>
    BY <1>7 DEF AppendColumn
  <2> QED  BY <1>6, <1>16, <2>1, <2>2, <2>3 DEF SaveInv, f2
<1>18. TypeOK'
  <2>1. i' \in Nat \ {0}
    BY <1>3, <1>6
  <2> QED  BY <1>9, <2>1 DEF TypeOK, Inv, AppendColumn, f2
<1> QED  BY <1>17, <1>18 DEF Inv, LoadsWhatWasSaved, AppendColumn, Distinct

\* The file is written, or a part of it.
LEMMA WriteInv ==
  ASSUME Inv, WriteFile  PROVE Inv'
<1> DEFINE n == Len(columns)
<1>1. PICK st : SaveInv(st)
  BY DEF Inv, WriteFile
<1>2. /\ columns \in Seq(Column) /\ file \in Seq(Byte) /\ Len(file) \in Nat /\ n \in Nat
  BY LenProperties DEF Inv, TypeOK
<1>3. i = n + 1 /\ i - 1 = n /\ n \in 0 .. Len(columns)
  BY <1>1, <1>2 DEF SaveInv, WriteFile
<1>4. PICK m \in 0 .. Len(file) + 1 : /\ file' = SubSeq(Append(file, 0), 1, m)
                                      /\ cut' = (m # Len(file) + 1)
  BY DEF WriteFile
<1> DEFINE whole == Append(file, 0)
           f2 == file'
<1>5. /\ \A x \in 1 .. Len(file) : whole[x] = file[x] /\ whole[x] \in Byte
      /\ whole[Len(file) + 1] = 0 /\ 0 \in Byte
  BY <1>2, AppendProperties, ElementOfSeq, Bytes
<1> HIDE DEF whole
<1>6. f2 \in Seq(Byte) /\ Len(f2) = m /\ \A x \in 1 .. m : f2[x] = whole[x]
  <2>1. \A x \in 1 .. m : whole[x] \in Byte
    BY <1>2, <1>5
  <2>2. f2 = SubSeq(whole, 1, m) /\ m \in Int
    BY <1>2, <1>4 DEF whole
  <2>3. /\ SubSeq(whole, 1, m) \in Seq(Byte)
        /\ Len(SubSeq(whole, 1, m)) = IF 1 <= m THEN m - 1 + 1 ELSE 0
        /\ \A x \in 1 .. m - 1 + 1 : SubSeq(whole, 1, m)[x] = whole[1 + x - 1]
    BY <2>1, <2>2, SubSeqProperties
  <2> DEFINE sub == SubSeq(whole, 1, m)
  <2> HIDE DEF sub
  <2>4. /\ sub \in Seq(Byte) /\ Len(sub) = IF 1 <= m THEN m - 1 + 1 ELSE 0
        /\ \A x \in 1 .. m - 1 + 1 : sub[x] = whole[1 + x - 1]
    BY <2>3 DEF sub
  <2>5. f2 = sub
    BY <2>2 DEF sub
  <2> HIDE DEF f2
  <2>6. Len(sub) = m
    BY <1>2, <2>4
  <2>7. \A x \in 1 .. m : sub[x] = whole[x]
    BY <1>2, <2>4
  <2> QED  BY <2>4, <2>5, <2>6, <2>7
<1> HIDE DEF f2
<1>7. Laid(columns, file, st, n) /\ Len(file) = st[n + 1]
  BY <1>1, <1>3 DEF SaveInv
<1>8. Laid(columns, f2, st, n)
  <2>1. ASSUME NEW k \in 1 .. n  PROVE Behind(f2, st[k], columns[k])
    <3>1. /\ Length(columns[k]) \in Nat /\ st[k] \in Nat /\ st[k + 1] = st[k] + Length(columns[k])
          /\ st[k + 1] <= st[n + 1] /\ Behind(file, st[k], columns[k])
      BY <1>2, <1>3, <1>7, LaidAt
    <3>2. ASSUME NEW x \in 1 .. Length(columns[k]), st[k] + x <= Len(f2)
          PROVE  f2[st[k] + x] = Written(columns[k])[x]
      <4>1. st[k] + x \in 1 .. Len(file) /\ st[k] + x <= Len(file) /\ st[k] + x \in 1 .. m
        BY <1>2, <1>6, <1>7, <3>1, <3>2
      <4>2. file[st[k] + x] = Written(columns[k])[x]
        BY <3>1, <4>1 DEF Behind
      <4> QED  BY <1>5, <1>6, <4>1, <4>2
    <3> QED  BY <3>2 DEF Behind
  <2> QED  BY <1>7, <2>1 DEF Laid
<1>9. FileInv(columns, f2, cut', st)
  <2>1. Len(f2) = st[n + 1] + 1 => f2[st[n + 1] + 1] = 0
    BY <1>2, <1>5, <1>6, <1>7
  <2>2. Len(f2) <= st[n + 1] + 1
    BY <1>2, <1>6, <1>7
  <2>3. ~cut' => m = Len(file) + 1
    BY <1>4, Zenon
  <2>4. ~cut' => Len(f2) = st[n + 1] + 1
    BY <1>6, <1>7, <2>3
  <2> QED  BY <1>8, <2>1, <2>2, <2>4 DEF FileInv
<1>10. /\ pc = "save" /\ pc' = "next" /\ i' = 1 /\ columns' = columns
       /\ column_name' = column_name /\ serialized_layout' = serialized_layout
       /\ loaded' = <<>> /\ cut' \in BOOLEAN
  BY <1>1, <1>4 DEF WriteFile, SaveInv
<1>11. ReaderInv(st)'
  <2>1. Len(loaded') = 0 /\ At' = 1
    BY <1>10 DEF At
  <2>2. st[1] = 0
    BY <1>7 DEF Laid
  <2> QED  BY <1>2, <1>10, <2>1, <2>2 DEF ReaderInv
<1>12. TypeOK'
  BY <1>6, <1>10 DEF TypeOK, Inv, f2
<1> QED  BY <1>9, <1>10, <1>11, <1>12 DEF Inv, LoadsWhatWasSaved, Distinct, f2

-----------------------------------------------------------------------------
(* The reader. *)

\* What there is to read in a column, and that only a cut file ends in it.
LEMMA InColumn ==
  ASSUME TypeOK, NEW st, FileInv(columns, file, cut, st), NEW a \in 1 .. Len(columns)
  PROVE  LET c == columns[a]
             l == Len(c.name)
         IN  /\ c \in Column /\ l \in Nat \ {0} /\ st[a] \in Nat
             /\ st[a + 1] = st[a] + l + 17
             /\ Len(file) < st[a] + l + 17 => cut
             /\ \A x \in 1 .. l : st[a] + x <= Len(file) =>
                   file[st[a] + x] = c.name[x] /\ c.name[x] \in Byte \ {0}
             /\ st[a] + l + 1 <= Len(file) => file[st[a] + l + 1] = 0
             /\ \A m \in 1 .. 16 : st[a] + l + 1 + m <= Len(file) =>
                   file[st[a] + l + 1 + m] = Rest(c)[m]
<1> DEFINE c == columns[a]
           l == Len(c.name)
           n == Len(columns)
<1>1. columns \in Seq(Column) /\ n \in Nat /\ Len(file) \in Nat
  BY LenProperties DEF TypeOK
<1>2. Laid(columns, file, st, n) /\ n \in 0 .. Len(columns)
  BY <1>1 DEF FileInv
<1>3. /\ c \in Column /\ st[a] \in Nat /\ st[a + 1] = st[a] + Length(c)
      /\ st[a + 1] <= st[n + 1] /\ st[n + 1] \in Nat /\ Behind(file, st[a], c)
  BY <1>1, <1>2, LaidAt
<1>4. /\ l \in Nat \ {0}
      /\ \A x \in 1 .. l : Written(c)[x] = c.name[x] /\ c.name[x] \in Byte \ {0}
      /\ Written(c)[l + 1] = 0
      /\ \A m \in 1 .. 16 : Written(c)[l + 1 + m] = Rest(c)[m]
  BY <1>3, WrittenBytes
<1>5. Length(c) = l + 17
  BY DEF Length
<1>6. ~cut => Len(file) = st[n + 1] + 1
  BY Zenon DEF FileInv
<1> HIDE DEF c, l, n
<1>7. \A x \in 1 .. l + 17 : st[a] + x <= Len(file) => file[st[a] + x] = Written(c)[x]
  BY <1>3, <1>5 DEF Behind
<1>8. l \in Nat \ {0} /\ st[a] \in Nat /\ st[a + 1] <= st[n + 1] /\ st[n + 1] \in Nat
  BY <1>3, <1>4
<1>9. st[a + 1] = st[a] + l + 17
  <2>1. st[a + 1] = st[a] + (l + 17)
    BY <1>3, <1>5
  <2> QED  BY <1>8, <2>1
<1>10. Len(file) < st[a] + l + 17 => cut
  <2>1. Len(file) < st[a] + l + 17 => Len(file) # st[n + 1] + 1
    BY <1>1, <1>8, <1>9
  <2> QED  BY <1>6, <2>1, Zenon
<1>11. \A x \in 1 .. l : st[a] + x <= Len(file) =>
          file[st[a] + x] = c.name[x] /\ c.name[x] \in Byte \ {0}
  <2>1. \A x \in 1 .. l : x \in 1 .. l + 17
    BY <1>4
  <2> QED  BY <1>4, <1>7, <2>1
<1>12. st[a] + l + 1 <= Len(file) => file[st[a] + l + 1] = 0
  <2>1. l + 1 \in 1 .. l + 17 /\ st[a] + (l + 1) = st[a] + l + 1
    BY <1>8
  <2> QED  BY <1>4, <1>7, <2>1
<1>13. ASSUME NEW m \in 1 .. 16, st[a] + l + 1 + m <= Len(file)
       PROVE  file[st[a] + l + 1 + m] = Rest(c)[m]
  <2>1. l + 1 + m \in 1 .. l + 17 /\ st[a] + (l + 1 + m) = st[a] + l + 1 + m
    BY <1>8
  <2>2. file[st[a] + (l + 1 + m)] = Written(c)[l + 1 + m]
    BY <1>7, <1>13, <2>1
  <2> QED  BY <1>4, <2>1, <2>2
<1> QED  BY <1>3, <1>4, <1>9, <1>10, <1>11, <1>12, <1>13 DEF c, l, n

LEMMA SameSeq ==
  ASSUME NEW S, NEW T, NEW s \in Seq(S), NEW t \in Seq(T), Len(s) = Len(t),
         \A x \in 1 .. Len(s) : s[x] = t[x]
  PROVE  s = t
<1>1. s \in [1 .. Len(s) -> S] /\ t \in [1 .. Len(s) -> T]
  BY LenProperties
<1> QED  BY <1>1

LEMMA NextColumnInv ==
  ASSUME Inv, NextColumn  PROVE Inv'
<1> DEFINE n == Len(columns)
<1>1. PICK st : FileInv(columns, file, cut, st) /\ ReaderInv(st)
  BY DEF Inv, NextColumn
<1>2. /\ TypeOK /\ Distinct(columns) /\ pc = "next"
      /\ columns' = columns /\ file' = file /\ cut' = cut
      /\ n \in Nat /\ Len(file) \in Nat /\ Len(loaded) \in Nat
  BY LenProperties DEF Inv, NextColumn, TypeOK
<1>3. /\ At \in 1 .. n + 1 /\ i = st[At] + 1
      /\ Len(loaded) <= n /\ \A k \in 1 .. Len(loaded) : loaded[k] = columns[k]
  BY <1>1, <1>2 DEF ReaderInv, At
<1>4. /\ st[At] \in Nat /\ st[At] <= st[n + 1] /\ st[n + 1] \in Nat
  BY <1>1, <1>2, <1>3 DEF FileInv, Laid
<1>5. /\ Len(file) <= st[n + 1] + 1
      /\ Len(file) = st[n + 1] + 1 => file[st[n + 1] + 1] = 0
  BY <1>1 DEF FileInv
<1>6. CASE ~IsIn(i)
  <2>1. pc' = "overrun" /\ UNCHANGED <<i, column_name, serialized_layout, loaded>>
    BY <1>6 DEF NextColumn, Overrun
  <2>2. Len(file) # st[n + 1] + 1
    BY <1>2, <1>3, <1>4, <1>6 DEF IsIn
  <2>3. cut
    BY <1>1, <2>2, Zenon DEF FileInv
  <2>4. TypeOK'
    BY <1>2, <2>1 DEF TypeOK
  <2>5. ReaderInv(st)'
    BY <1>1, <1>2, <2>1 DEF ReaderInv, At
  <2>6. LoadsWhatWasSaved'
    BY <1>2, <2>1, <2>3 DEF LoadsWhatWasSaved
  <2> QED  BY <1>1, <1>2, <2>1, <2>4, <2>5, <2>6 DEF Inv, Distinct
<1>7. CASE IsIn(i)
  <2>1. /\ pc' = IF file[i] = 0 THEN "done" ELSE "name"
        /\ column_name' = <<>> /\ serialized_layout' = <<>> /\ i' = i /\ loaded' = loaded
    BY <1>7 DEF NextColumn
  <2>2. TypeOK'
    <3>1. column_name' \in Seq(Byte \ {0})
      BY <2>1, EmptySeq
    <3>2. serialized_layout' \in Seq(Byte) /\ Len(serialized_layout') <= 13
      BY <2>1
    <3>3. pc' \in {"save", "next", "name", "layout", "done", "aborted", "overrun"}
      BY <2>1
    <3> QED  BY <1>2, <2>1, <3>1, <3>2, <3>3 DEF TypeOK
  <2>3. file[i] = 0 => loaded = columns
    <3>1. SUFFICES ASSUME file[i] = 0  PROVE loaded = columns
      OBVIOUS
    <3>2. ~(At \in 1 .. n)
      <4> SUFFICES ASSUME At \in 1 .. n  PROVE FALSE
        OBVIOUS
      <4>1. /\ Len(columns[At].name) \in Nat \ {0}
            /\ \A x \in 1 .. Len(columns[At].name) : st[At] + x <= Len(file) =>
                  file[st[At] + x] = columns[At].name[x] /\ columns[At].name[x] \in Byte \ {0}
        BY <1>1, <1>2, InColumn
      <4>2. 1 \in 1 .. Len(columns[At].name)
        BY <4>1
      <4>3. st[At] + 1 <= Len(file)
        BY <1>3, <1>7 DEF IsIn
      <4>4. file[st[At] + 1] # 0
        BY <4>1, <4>2, <4>3
      <4> QED  BY <1>3, <3>1, <4>4
    <3>3. Len(loaded) = Len(columns)
      BY <1>2, <1>3, <3>2 DEF At
    <3>4. /\ loaded \in Seq([name : Seq(Byte), size : Seq(Byte), type : Variants])
          /\ columns \in Seq(Column)
      BY <1>2 DEF TypeOK
    <3> QED  BY <1>3, <3>3, <3>4, SameSeq
  <2>4. file[i] # 0 => At <= n
    BY <1>2, <1>3, <1>4, <1>5, <1>7 DEF IsIn
  <2>5. ReaderInv(st)'
    <3>1. At' = At /\ Len(column_name') = 0
      BY <2>1 DEF At
    <3>2. pc' = "name" => At <= n
      BY <2>1, <2>4
    <3>3. pc' = "name" => 0 <= Len(columns[At].name)
      <4>1. At <= n => Len(columns[At].name) \in Nat
        BY <1>1, <1>2, <1>3, InColumn
      <4> QED  BY <3>2, <4>1
    <3>4. pc' # "next" /\ pc' # "layout"
      BY <2>1
    <3>5. i = st[At] + 0 + 1
      BY <1>3, <1>4
    <3> QED  BY <1>2, <1>3, <2>1, <3>1, <3>2, <3>3, <3>4, <3>5 DEF ReaderInv
  <2>6. LoadsWhatWasSaved'
    BY <1>2, <2>1, <2>3 DEF LoadsWhatWasSaved
  <2>7. pc' # "save"
    BY <2>1
  <2> QED  BY <1>1, <1>2, <2>2, <2>5, <2>6, <2>7 DEF Inv, Distinct
<1> QED  BY <1>6, <1>7

\* What the two inner loops start from: the reader is in column At.
LEMMA ReadingInv ==
  ASSUME Inv, pc \in {"name", "layout"}
  PROVE  /\ TypeOK /\ Distinct(columns)
         /\ Len(columns) \in Nat /\ Len(file) \in Nat /\ Len(loaded) \in Nat
         /\ Len(column_name) \in Nat /\ Len(serialized_layout) \in Nat
         /\ At = Len(loaded) + 1 /\ At \in 1 .. Len(columns)
         /\ \E st : FileInv(columns, file, cut, st) /\ ReaderInv(st)
<1>1. /\ TypeOK /\ Distinct(columns)
      /\ Len(columns) \in Nat /\ Len(file) \in Nat /\ Len(loaded) \in Nat
      /\ Len(column_name) \in Nat /\ Len(serialized_layout) \in Nat
  BY LenProperties DEF Inv, TypeOK
<1>2. PICK st : FileInv(columns, file, cut, st) /\ ReaderInv(st)
  BY DEF Inv
<1>3. At = Len(loaded) + 1 /\ At \in 1 .. Len(columns)
  BY <1>1, <1>2 DEF ReaderInv, At
<1> QED  BY <1>1, <1>2, <1>3

LEMMA ReadNameInv ==
  ASSUME Inv, ReadName  PROVE Inv'
<1> DEFINE c == columns[At]
           l == Len(c.name)
           h == Len(column_name)
<1>1. /\ TypeOK /\ Distinct(columns) /\ pc = "name"
      /\ columns' = columns /\ file' = file /\ cut' = cut
      /\ Len(columns) \in Nat /\ Len(file) \in Nat /\ h \in Nat
      /\ At \in 1 .. Len(columns)
  BY ReadingInv DEF ReadName
<1>2. PICK st : FileInv(columns, file, cut, st) /\ ReaderInv(st)
  BY <1>1, ReadingInv
<1>3. /\ c \in Column /\ l \in Nat \ {0} /\ st[At] \in Nat
      /\ Len(file) < st[At] + l + 17 => cut
      /\ \A x \in 1 .. l : st[At] + x <= Len(file) =>
            file[st[At] + x] = c.name[x] /\ c.name[x] \in Byte \ {0}
      /\ st[At] + l + 1 <= Len(file) => file[st[At] + l + 1] = 0
  BY <1>1, <1>2, InColumn
<1>4. /\ h <= l /\ i = st[At] + h + 1 /\ serialized_layout = <<>>
      /\ \A x \in 1 .. h : column_name[x] = c.name[x]
      /\ Len(loaded) <= Len(columns) /\ At <= Len(columns)
      /\ \A k \in 1 .. Len(loaded) : loaded[k] = columns[k]
  BY <1>1, <1>2 DEF ReaderInv
<1>5. c.name \in Seq(Byte \ {0}) /\ column_name \in Seq(Byte \ {0}) /\ file \in Seq(Byte)
  BY <1>1, <1>3, WrittenBytes DEF TypeOK
<1> HIDE DEF c, l, h
<1>6. h \in Nat /\ l \in Nat \ {0} /\ st[At] \in Nat /\ h <= l /\ i = st[At] + h + 1
  BY <1>1, <1>3, <1>4
<1>7. CASE ~IsIn(i)
  <2>1. pc' = "overrun" /\ UNCHANGED <<i, column_name, serialized_layout, loaded>>
    BY <1>7 DEF ReadName, Overrun
  <2>2. Len(file) < st[At] + l + 17
    BY <1>1, <1>3, <1>4, <1>7 DEF IsIn
  <2>3. cut
    BY <1>3, <2>2
  <2>4. TypeOK'
    BY <1>1, <2>1 DEF TypeOK
  <2>5. ReaderInv(st)'
    BY <1>1, <1>4, <2>1 DEF ReaderInv, At
  <2>6. LoadsWhatWasSaved'
    BY <1>1, <2>1, <2>3 DEF LoadsWhatWasSaved
  <2> QED  BY <1>1, <1>2, <2>1, <2>4, <2>5, <2>6 DEF Inv, Distinct
<1>8. CASE IsIn(i) /\ file[i] = 0
  <2>1. /\ pc' = "layout" /\ i' = i + 1 /\ column_name' = column_name
        /\ serialized_layout' = serialized_layout /\ loaded' = loaded
    BY <1>8 DEF ReadName, EndName
  <2>2. h = l
    <3> SUFFICES ASSUME h # l  PROVE FALSE
      OBVIOUS
    <3>1. h + 1 \in 1 .. l /\ st[At] + (h + 1) = i
      BY <1>6
    <3>2. file[i] # 0
      BY <1>3, <1>8, <3>1 DEF IsIn
    <3> QED  BY <1>8, <3>2
  <2>3. column_name = c.name
    BY <1>4, <1>5, <2>2, SameSeq DEF h, l
  <2>4. TypeOK'
    <3>1. i' \in Nat \ {0}
      BY <1>1, <2>1 DEF TypeOK
    <3> QED  BY <1>1, <2>1, <3>1 DEF TypeOK
  <2>5. ReaderInv(st)'
    <3>1. At' = At /\ Len(serialized_layout') = 0
      BY <1>4, <2>1 DEF At
    <3>2. i' = st[At] + Len(column_name) + 0 + 2
      BY <1>1, <1>3, <1>4, <2>1 DEF h
    <3>3. pc' # "next" /\ pc' # "name"
      BY <2>1
    <3> QED  BY <1>1, <1>4, <2>1, <2>3, <3>1, <3>2, <3>3 DEF ReaderInv, c
  <2>6. LoadsWhatWasSaved'
    BY <2>1 DEF LoadsWhatWasSaved
  <2> QED  BY <1>1, <1>2, <2>1, <2>4, <2>5, <2>6 DEF Inv, Distinct
<1>9. CASE IsIn(i) /\ file[i] # 0
  <2>1. /\ pc' = "name" /\ i' = i + 1 /\ column_name' = Append(column_name, file[i])
        /\ serialized_layout' = serialized_layout /\ loaded' = loaded
    BY <1>1, <1>9 DEF ReadName
  <2>2. h + 1 \in 1 .. l /\ st[At] + (h + 1) = i
    <3>1. st[At] + l + 1 # i
      BY <1>3, <1>9 DEF IsIn
    <3> QED  BY <1>1, <1>3, <1>4, <3>1
  <2>3. file[i] = c.name[h + 1] /\ file[i] \in Byte \ {0}
    BY <1>3, <1>9, <2>2 DEF IsIn
  <2>4. /\ column_name' \in Seq(Byte \ {0}) /\ Len(column_name') = h + 1
        /\ \A x \in 1 .. h : column_name'[x] = column_name[x]
        /\ column_name'[h + 1] = file[i]
    <3> DEFINE longer == Append(column_name, file[i])
    <3>1. /\ longer \in Seq(Byte \ {0}) /\ Len(longer) = h + 1
          /\ \A x \in 1 .. h : longer[x] = column_name[x]
          /\ longer[h + 1] = file[i]
      BY <1>5, <2>3, AppendProperties DEF h
    <3>2. column_name' = longer
      BY <2>1
    <3> HIDE DEF longer
    <3> QED  BY <3>1, <3>2
  <2>5. TypeOK'
    <3>1. i' \in Nat \ {0}
      BY <1>1, <2>1 DEF TypeOK
    <3> QED  BY <1>1, <2>1, <2>4, <3>1 DEF TypeOK
  <2>6. ReaderInv(st)'
    <3>1. At' = At
      BY <2>1 DEF At
    <3>2. i' = st[At] + (h + 1) + 1 /\ h + 1 <= l
      BY <1>1, <1>3, <1>4, <2>1, <2>2
    <3>3. \A x \in 1 .. h + 1 : column_name'[x] = c.name[x]
      <4> TAKE x \in 1 .. h + 1
      <4>1. x \in 1 .. h \/ x = h + 1
        BY <1>6
      <4>2. x \in 1 .. h => column_name'[x] = c.name[x]
        BY <1>4, <2>4
      <4> QED  BY <2>3, <2>4, <4>1, <4>2
    <3>4. pc' # "next" /\ pc' # "layout"
      BY <2>1
    <3> QED  BY <1>1, <1>4, <2>1, <2>4, <3>1, <3>2, <3>3, <3>4 DEF ReaderInv, c, l
  <2>7. LoadsWhatWasSaved'
    BY <2>1 DEF LoadsWhatWasSaved
  <2> QED  BY <1>1, <1>2, <2>1, <2>5, <2>6, <2>7 DEF Inv, Distinct
<1> QED  BY <1>7, <1>8, <1>9

LEMMA ReadLayoutInv ==
  ASSUME Inv, ReadLayout  PROVE Inv'
<1> DEFINE c == columns[At]
           l == Len(c.name)
           m == Len(serialized_layout)
<1>1. /\ pc = "layout" /\ columns' = columns /\ file' = file /\ cut' = cut
      /\ column_name' = column_name
  BY DEF ReadLayout, Overrun
<1>2. /\ TypeOK /\ Distinct(columns) /\ pc = "layout"
      /\ columns' = columns /\ file' = file /\ cut' = cut /\ column_name' = column_name
      /\ Len(columns) \in Nat /\ Len(file) \in Nat /\ m \in Nat
      /\ At \in 1 .. Len(columns)
  BY <1>1, ReadingInv
<1>3. At = Len(loaded) + 1 /\ Len(loaded) \in Nat
  BY <1>1, ReadingInv
<1>4. PICK st : FileInv(columns, file, cut, st) /\ ReaderInv(st)
  BY <1>2, ReadingInv
<1> DEFINE p == st[At] + l + 1
<1>5. /\ c \in Column /\ l \in Nat \ {0} /\ st[At] \in Nat
      /\ st[At + 1] = st[At] + l + 17
      /\ Len(file) < st[At] + l + 17 => cut
      /\ \A k \in 1 .. 16 : p + k <= Len(file) => file[p + k] = Rest(c)[k]
  BY <1>2, <1>4, InColumn
<1>6. /\ column_name = c.name /\ i = st[At] + Len(column_name) + m + 2
      /\ \A x \in 1 .. m : serialized_layout[x] = Rest(c)[x]
      /\ Len(loaded) <= Len(columns) /\ At <= Len(columns)
      /\ \A k \in 1 .. Len(loaded) : loaded[k] = columns[k]
  BY <1>2, <1>4 DEF ReaderInv
<1>7. m <= 13 /\ serialized_layout \in Seq(Byte) /\ file \in Seq(Byte)
  BY <1>2 DEF TypeOK
<1>8. /\ Rest(c) \in Seq(Byte) /\ Len(Rest(c)) = 16
      /\ \A k \in 1 .. 8 : Rest(c)[k] = c.size[k]
      /\ Rest(c)[9] = 0 /\ Rest(c)[10] = c.type /\ c.type \in Variants
      /\ Rest(c)[11] = 0 /\ Rest(c)[12] = 0 /\ Rest(c)[13] = 0
      /\ Rest(c)[14] = 0 /\ Rest(c)[15] = 115 /\ Rest(c)[16] = 115
  BY <1>5, RestBytes
<1>9. Len(column_name) = l
  BY <1>6
<1> HIDE DEF c, l, m
<1>10. /\ m \in Nat /\ l \in Nat \ {0} /\ st[At] \in Nat /\ m <= 13
       /\ i = st[At] + l + m + 2 /\ st[At + 1] = st[At] + l + 17 /\ p = st[At] + l + 1
  BY <1>2, <1>5, <1>6, <1>7, <1>9
<1>11. /\ m \in 0 .. 13 /\ l \in Nat \ {0} /\ st[At] \in Nat /\ p \in Nat
       /\ i = p + m + 1 /\ st[At + 1] = p + 16
  BY <1>10
<1>12. Len(file) < p + 16 => cut
  <2>1. p + 16 = st[At] + l + 17
    BY <1>10
  <2> HIDE DEF p
  <2> QED  BY <1>5, <2>1
<1> HIDE DEF p
<1>13. CASE ~MayLook
  <2>1. pc' = "overrun" /\ UNCHANGED <<i, column_name, serialized_layout, loaded>>
    BY <1>2, <1>13 DEF ReadLayout, Overrun
  <2>2. Len(file) < p + 16
    BY <1>2, <1>11, <1>13 DEF MayLook, IsIn
  <2>3. cut
    BY <1>12, <2>2
  <2>4. TypeOK'
    BY <1>2, <2>1 DEF TypeOK
  <2>5. ReaderInv(st)'
    BY <1>2, <1>6, <2>1 DEF ReaderInv, At
  <2>6. LoadsWhatWasSaved'
    BY <1>2, <2>1, <2>3 DEF LoadsWhatWasSaved
  <2> QED  BY <1>2, <1>4, <2>1, <2>4, <2>5, <2>6 DEF Inv, Distinct
\* Here is a byte of the layout.
<1>14. CASE MayLook /\ ~AtMark
  <2>1. /\ pc' = "layout" /\ i' = i + 1 /\ loaded' = loaded
        /\ serialized_layout' = Append(serialized_layout, file[i])
    BY <1>2, <1>14 DEF ReadLayout
  <2>2. IsIn(i) /\ i \in 1 .. Len(file)
    BY <1>2, <1>11, <1>14 DEF MayLook, IsIn
  <2>3. file[i] = Rest(c)[m + 1] /\ file[i] \in Byte
    <3>1. m + 1 \in 1 .. 16 /\ p + (m + 1) = i
      BY <1>11
    <3>2. file[i] = Rest(c)[m + 1]
      BY <1>5, <2>2, <3>1 DEF IsIn
    <3> QED  BY <1>7, <2>2, <3>2, ElementOfSeq
  <2>4. m < 13
    <3> SUFFICES ASSUME m = 13  PROVE FALSE
      BY <1>11
    <3>1. i = p + 14 /\ i + 1 = p + 15 /\ i + 2 = p + 16
      BY <1>11
    <3>2. \A k \in {14, 15, 16} : p + k <= Len(file) => file[p + k] = Rest(c)[k]
      BY <1>5
    <3>3. file[i] = 0
      BY <1>8, <2>2, <3>1, <3>2 DEF IsIn
    <3>4. file[i + 1] = 115
      BY <1>8, <1>14, <3>1, <3>2, <3>3 DEF IsIn, MayLook
    <3>5. file[i + 2] = 115
      BY <1>8, <1>14, <3>1, <3>2, <3>3, <3>4 DEF IsIn, MayLook
    <3> QED  BY <1>14, <3>3, <3>4, <3>5 DEF AtMark
  <2>5. /\ serialized_layout' \in Seq(Byte) /\ Len(serialized_layout') = m + 1
        /\ \A x \in 1 .. m : serialized_layout'[x] = serialized_layout[x]
        /\ serialized_layout'[m + 1] = file[i]
    <3> DEFINE longer == Append(serialized_layout, file[i])
    <3>1. /\ longer \in Seq(Byte) /\ Len(longer) = m + 1
          /\ \A x \in 1 .. m : longer[x] = serialized_layout[x]
          /\ longer[m + 1] = file[i]
      BY <1>7, <2>3, AppendProperties DEF m
    <3>2. serialized_layout' = longer
      BY <2>1
    <3> HIDE DEF longer
    <3> QED  BY <3>1, <3>2
  <2>6. TypeOK'
    <3>1. i' \in Nat \ {0} /\ m + 1 <= 13
      BY <1>11, <2>1, <2>4
    <3> QED  BY <1>2, <2>1, <2>5, <3>1 DEF TypeOK
  <2>7. ReaderInv(st)'
    <3>1. At' = At
      BY <2>1 DEF At
    <3>2. i' = st[At] + Len(column_name) + (m + 1) + 2
      <4>1. i' = i + 1
        BY <2>1
      <4>2. i' = st[At] + l + (m + 1) + 2
        BY <1>10, <4>1
      <4> QED  BY <1>9, <4>2
    <3>3. \A x \in 1 .. m + 1 : serialized_layout'[x] = Rest(c)[x]
      <4> TAKE x \in 1 .. m + 1
      <4>1. x \in 1 .. m \/ x = m + 1
        BY <1>11
      <4>2. x \in 1 .. m => serialized_layout'[x] = Rest(c)[x]
        BY <1>6, <2>5
      <4> QED  BY <2>3, <2>5, <4>1, <4>2
    <3>4. pc' # "next" /\ pc' # "name"
      BY <2>1
    <3> QED  BY <1>2, <1>6, <2>1, <2>5, <3>1, <3>2, <3>3, <3>4 DEF ReaderInv, c
  <2>8. LoadsWhatWasSaved'
    BY <2>1 DEF LoadsWhatWasSaved
  <2> QED  BY <1>2, <1>4, <2>1, <2>6, <2>7, <2>8 DEF Inv, Distinct
\* Here is the end mark, or what looks like it.
<1>15. CASE MayLook /\ AtMark
  <2>1. EndColumn /\ serialized_layout' = serialized_layout
    BY <1>15 DEF ReadLayout
  <2>2. m = 13 \/ Marked(c.size)
    <3>1. IsIn(i) /\ IsIn(i + 1) /\ IsIn(i + 2)
      BY <1>15 DEF MayLook, AtMark
    <3>2. /\ m + 1 \in 1 .. 16 /\ m + 2 \in 1 .. 16 /\ m + 3 \in 1 .. 16
          /\ p + (m + 1) = i /\ p + (m + 2) = i + 1 /\ p + (m + 3) = i + 2
      BY <1>11
    <3>3. /\ Rest(c)[m + 1] = file[i] /\ Rest(c)[m + 2] = file[i + 1]
          /\ Rest(c)[m + 3] = file[i + 2]
      BY <1>5, <3>1, <3>2 DEF IsIn
    <3>4. /\ Rest(c)[m + 1] = 0 /\ Rest(c)[m + 2] = 115 /\ Rest(c)[m + 3] = 115
      BY <1>15, <3>3 DEF AtMark
    <3>5. c \in Column /\ m \in 0 .. 13
      BY <1>5, <1>11
    <3> QED  BY <3>4, <3>5, MarkIsLast
  <2>3. m = 13 => Decodes(serialized_layout)
    <3> SUFFICES ASSUME m = 13  PROVE Decodes(serialized_layout)
      OBVIOUS
    <3>1. /\ serialized_layout[9] = Rest(c)[9] /\ serialized_layout[10] = Rest(c)[10]
          /\ serialized_layout[11] = Rest(c)[11] /\ serialized_layout[12] = Rest(c)[12]
          /\ serialized_layout[13] = Rest(c)[13]
      BY <1>6
    <3>2. Len(serialized_layout) >= 13
      BY DEF m
    <3> QED  BY <1>8, <3>1, <3>2 DEF Decodes
  <2>4. CASE ~Decodes(serialized_layout)
    <3>1. pc' = "aborted" /\ i' = i + 3 /\ loaded' = loaded
      BY <2>1, <2>4 DEF EndColumn
    <3>2. Marked(columns[At].size)
      BY <2>2, <2>3, <2>4 DEF c
    <3>3. TypeOK'
      <4>1. i' \in Nat \ {0}
        BY <1>11, <3>1
      <4> QED  BY <1>2, <2>1, <3>1, <4>1 DEF TypeOK
    <3>4. ReaderInv(st)'
      BY <1>2, <1>6, <3>1 DEF ReaderInv, At
    <3>5. LoadsWhatWasSaved'
      <4>1. columns \in Seq(Column) /\ DOMAIN columns = 1 .. Len(columns)
        BY <1>2, LenProperties DEF TypeOK
      <4> QED  BY <1>2, <3>1, <3>2, <4>1 DEF LoadsWhatWasSaved
    <3> QED  BY <1>2, <1>4, <3>1, <3>3, <3>4, <3>5 DEF Inv, Distinct
  <2>5. CASE Decodes(serialized_layout)
    <3> DEFINE new == [name |-> column_name, size |-> SubSeq(serialized_layout, 1, 8),
                       type |-> serialized_layout[10]]
    <3>1. m = 13
      <4>1. m >= 13
        BY <2>5 DEF Decodes, m
      <4> QED  BY <1>11, <4>1
    <3>2. SubSeq(serialized_layout, 1, 8) = c.size
      <4>1. c.size \in Seq(Byte) /\ Len(c.size) = 8
        <5>1. c.size \in [1 .. 8 -> Byte]
          BY <1>5, TableInfoAssumption DEF Column
        <5> QED  BY <5>1, EightBytes
      <4>2. \A x \in 1 .. 8 : serialized_layout[x] \in Byte
        <5> TAKE x \in 1 .. 8
        <5>1. x \in 1 .. Len(serialized_layout)
          BY <3>1 DEF m
        <5> QED  BY <1>7, <5>1, ElementOfSeq
      <4> DEFINE sub == SubSeq(serialized_layout, 1, 8)
      <4>3. /\ sub \in Seq(Byte) /\ Len(sub) = IF 1 <= 8 THEN 8 - 1 + 1 ELSE 0
            /\ \A x \in 1 .. 8 - 1 + 1 : sub[x] = serialized_layout[1 + x - 1]
        BY <4>2, SubSeqProperties
      <4> HIDE DEF sub
      <4>4. Len(sub) = 8
        BY <4>3
      <4>5. \A x \in 1 .. 8 : sub[x] = c.size[x]
        <5> TAKE x \in 1 .. 8
        <5>1. sub[x] = serialized_layout[x]
          BY <4>3
        <5>2. serialized_layout[x] = Rest(c)[x] /\ Rest(c)[x] = c.size[x]
          <6>1. x \in 1 .. m
            BY <3>1
          <6> QED  BY <1>6, <1>8, <6>1
        <5> QED  BY <5>1, <5>2
      <4>6. sub = c.size
        BY <4>1, <4>3, <4>4, <4>5, SameSeq
      <4> QED  BY <4>6 DEF sub
    <3>3. serialized_layout[10] = c.type
      BY <1>6, <1>8, <3>1
    <3>4. new = c
      BY <1>5, <1>6, <3>2, <3>3 DEF Column
    <3>5. ~ \E k \in DOMAIN loaded : loaded[k].name = column_name
      <4> SUFFICES ASSUME NEW k \in DOMAIN loaded, loaded[k].name = column_name  PROVE FALSE
        OBVIOUS
      <4>1. DOMAIN loaded = 1 .. Len(loaded) /\ DOMAIN columns = 1 .. Len(columns)
        BY <1>2, LenProperties DEF TypeOK
      <4>2. k \in 1 .. Len(loaded) /\ k \in 1 .. Len(columns) /\ k # At
        BY <1>2, <1>3, <1>6, <4>1
      <4>3. columns[k].name = columns[At].name
        BY <1>6, <4>2 DEF c
      <4> QED  BY <1>2, <4>1, <4>2, <4>3 DEF Distinct
    <3>6. /\ pc' = "next" /\ i' = i + 3 /\ loaded' = Append(loaded, c)
      <4>1. pc' = "next" /\ i' = i + 3 /\ loaded' = Append(loaded, new)
        BY <2>1, <2>5, <3>5 DEF EndColumn, insert, dLayout
      <4> HIDE DEF new
      <4> QED  BY <3>4, <4>1
    <3>7. c \in [name : Seq(Byte), size : Seq(Byte), type : Variants]
      <4>1. c.name \in Seq(Byte) /\ c.type \in Variants
        <5>1. c.name \in Seq(Byte \ {0}) /\ Byte \ {0} \subseteq Byte
          BY <1>5, WrittenBytes
        <5> QED  BY <1>8, <5>1, SeqMonotonic
      <4>2. c.size \in Seq(Byte)
        <5>1. c.size \in [1 .. 8 -> Byte]
          BY <1>5, TableInfoAssumption DEF Column
        <5> QED  BY <5>1, EightBytes
      <4> QED  BY <1>5, <4>1, <4>2 DEF Column
    <3>8. /\ loaded' \in Seq([name : Seq(Byte), size : Seq(Byte), type : Variants])
          /\ Len(loaded') = At
          /\ \A k \in 1 .. Len(loaded) : loaded'[k] = loaded[k]
          /\ loaded'[At] = c
      <4> DEFINE longer == Append(loaded, c)
      <4>1. loaded \in Seq([name : Seq(Byte), size : Seq(Byte), type : Variants])
        BY <1>2 DEF TypeOK
      <4>2. /\ longer \in Seq([name : Seq(Byte), size : Seq(Byte), type : Variants])
            /\ Len(longer) = Len(loaded) + 1
            /\ \A k \in 1 .. Len(loaded) : longer[k] = loaded[k]
            /\ longer[Len(loaded) + 1] = c
        BY <3>7, <4>1, AppendProperties
      <4>3. loaded' = longer
        BY <3>6
      <4> HIDE DEF longer
      <4> QED  BY <1>3, <4>2, <4>3
    <3>9. TypeOK'
      <4>1. i' \in Nat \ {0}
        BY <1>11, <3>6
      <4> QED  BY <1>2, <2>1, <3>6, <3>8, <4>1 DEF TypeOK
    <3>10. ReaderInv(st)'
      <4>1. At' = At + 1
        BY <3>8 DEF At
      <4>2. i' = st[At + 1] + 1
        BY <1>11, <3>1, <3>6
      <4>3. \A k \in 1 .. At : loaded'[k] = columns[k]
        <5> TAKE k \in 1 .. At
        <5>1. k \in 1 .. Len(loaded) \/ k = At
          BY <1>3
        <5> QED  BY <1>6, <3>8, <5>1 DEF c
      <4> QED  BY <1>2, <1>6, <3>6, <3>8, <4>1, <4>2, <4>3 DEF ReaderInv
    <3>11. LoadsWhatWasSaved'
      BY <3>6 DEF LoadsWhatWasSaved
    <3> QED  BY <1>2, <1>4, <3>6, <3>9, <3>10, <3>11 DEF Inv, Distinct
  <2> QED  BY <2>4, <2>5
<1> QED  BY <1>13, <1>14, <1>15

-----------------------------------------------------------------------------
(* The theorems. *)

LEMMA InvNext == Inv /\ [Next]_vars => Inv'
<1> SUFFICES ASSUME Inv, [Next]_vars  PROVE Inv'
  OBVIOUS
<1>1. CASE AppendColumn
  BY <1>1, AppendInv
<1>2. CASE WriteFile
  BY <1>2, WriteInv
<1>3. CASE NextColumn
  BY <1>3, NextColumnInv
<1>4. CASE ReadName
  BY <1>4, ReadNameInv
<1>5. CASE ReadLayout
  BY <1>5, ReadLayoutInv
<1>6. CASE UNCHANGED vars
  <2>1. /\ columns' = columns /\ file' = file /\ cut' = cut /\ pc' = pc /\ i' = i
        /\ column_name' = column_name /\ serialized_layout' = serialized_layout
        /\ loaded' = loaded
    BY <1>6 DEF vars
  <2>2. TypeOK' /\ Distinct(columns)' /\ LoadsWhatWasSaved'
    BY <2>1 DEF Inv, TypeOK, Distinct, LoadsWhatWasSaved
  <2>3. ASSUME NEW st, SaveInv(st)  PROVE SaveInv(st)'
    BY <2>1, <2>3 DEF SaveInv
  <2>4. ASSUME NEW st, FileInv(columns, file, cut, st), ReaderInv(st)
        PROVE  FileInv(columns', file', cut', st) /\ ReaderInv(st)'
    BY <2>1, <2>4 DEF ReaderInv, At
  <2> QED  BY <2>1, <2>2, <2>3, <2>4 DEF Inv
<1> QED  BY <1>1, <1>2, <1>3, <1>4, <1>5, <1>6 DEF Next

LEMMA InvAlways == Spec => []Inv
BY InitInv, InvNext, PTL DEF Spec

\* Every variable of the file and of its reader is of its type, and no layout is
\* read beyond its 13 bytes (DatabaseTable::into_vec and from_vec, table.cpp).
THEOREM InfoTypes == Spec => []TypeOK
<1>1. Inv => TypeOK
  BY DEF Inv
<1> QED  BY InvAlways, <1>1, PTL

\* Wherever info.tbl is cut, a start that gets through it has the columns the table
\* was created with, a start that does not get through has met the end mark in a
\* size, and only a cut file is read past its end (DatabaseTable::from_vec,
\* table.cpp 38-66).
THEOREM InfoLoads == Spec => []LoadsWhatWasSaved
<1>1. Inv => LoadsWhatWasSaved
  BY DEF Inv
<1> QED  BY InvAlways, <1>1, PTL
=============================================================================
