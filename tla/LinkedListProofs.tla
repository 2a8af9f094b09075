--------------------------- MODULE LinkedListProofs ---------------------------
(***************************************************************************)
(* Proofs about the lists of linkedList.hpp.  The invariant says that the  *)
(* nodes can be given an owner and a place such that next and prev lead to *)
(* the neighbouring places, and that a running call stands on a node of    *)
(* the list it is about.                                                   *)
(***************************************************************************)
EXTENDS LinkedListProperties, FiniteSetTheorems, SequenceTheorems, WellFoundedInduction, TLAPS

IsNode(r) == r = [key |-> r.key, val |-> r.val, prev |-> r.prev, next |-> r.next]

HeapOK(h) ==
    /\ h = [n \in DOMAIN h |-> h[n]]
    /\ DOMAIN h \subseteq Nodes
    /\ \A n \in DOMAIN h : IsNode(h[n])

IsList(r) == r = [head |-> r.head, tail |-> r.tail, size |-> r.size] /\ r.size \in Nat

ObjOK(o) ==
    /\ o = [l \in DOMAIN o |-> o[l]]
    /\ DOMAIN o \subseteq Objects
    /\ \A l \in DOMAIN o : IsList(o[l])

\* Node n is the p-th of list l.
Stands(h, ow, ps, n, l, p) == n \in DOMAIN h /\ ow[n] = l /\ ps[n] = p

InRange(h, o, A, ow, ps) ==
    \A n \in DOMAIN h : ow[n] \in A => ps[n] \in Int /\ 1 <= ps[n] /\ ps[n] <= o[ow[n]].size

Forward(h, o, A, ow, ps) ==
    \A n \in DOMAIN h : ow[n] \in A =>
        IF ps[n] = o[ow[n]].size THEN h[n].next = Null
        ELSE Stands(h, ow, ps, h[n].next, ow[n], ps[n] + 1)

Backward(h, o, A, ow, ps) ==
    \A n \in DOMAIN h : ow[n] \in A =>
        IF ps[n] = 1 THEN h[n].prev = Null
        ELSE Stands(h, ow, ps, h[n].prev, ow[n], ps[n] - 1)

OneEach(h, A, ow, ps) ==
    \A n, m \in DOMAIN h : ow[n] \in A /\ ow[n] = ow[m] /\ ps[n] = ps[m] => n = m

EndsOK(h, o, A, ow, ps) ==
    \A l \in A :
        IF o[l].size = 0 THEN o[l].head = Null /\ o[l].tail = Null
        ELSE /\ Stands(h, ow, ps, o[l].head, l, 1)
             /\ Stands(h, ow, ps, o[l].tail, l, o[l].size)

Links(h, o, A, ow, ps) ==
    /\ InRange(h, o, A, ow, ps)
    /\ Forward(h, o, A, ow, ps)
    /\ Backward(h, o, A, ow, ps)
    /\ OneEach(h, A, ow, ps)
    /\ EndsOK(h, o, A, ow, ps)

-----------------------------------------------------------------------------
(* Linking a node and unlinking one, on any heap. *)

InsertedOwner(h, ow, f, l) == [n \in DOMAIN h \cup {f} |-> IF n = f THEN l ELSE ow[n]]

InsertedPlace(h, ow, ps, f, l, p) ==
    [n \in DOMAIN h \cup {f} |->
        IF n = f THEN p ELSE IF ow[n] = l /\ ps[n] >= p THEN ps[n] + 1 ELSE ps[n]]

\* h2 and o2 are h and o with node f linked as the p-th of l, between a and b.
LinkedIn(h, o, A, ow, ps, h2, o2, f, l, p, a, b) ==
    /\ l \in A /\ A \subseteq DOMAIN o
    /\ f \notin DOMAIN h /\ Null \notin DOMAIN h
    /\ p \in Int /\ 1 <= p /\ p <= o[l].size + 1
    /\ IF p = 1 THEN a = Null ELSE Stands(h, ow, ps, a, l, p - 1)
    /\ IF p = o[l].size + 1 THEN b = Null ELSE Stands(h, ow, ps, b, l, p)
    /\ DOMAIN h2 = DOMAIN h \cup {f}
    /\ h2[f].prev = a /\ h2[f].next = b
    /\ \A n \in DOMAIN h : h2[n].next = IF n = a THEN f ELSE h[n].next
    /\ \A n \in DOMAIN h : h2[n].prev = IF n = b THEN f ELSE h[n].prev
    /\ DOMAIN o2 = DOMAIN o
    /\ \A k \in DOMAIN o : k # l => o2[k] = o[k]
    /\ o2[l].size = o[l].size + 1
    /\ o2[l].head = IF p = 1 THEN f ELSE o[l].head
    /\ o2[l].tail = IF p = o[l].size + 1 THEN f ELSE o[l].tail

LEMMA LinkKeepsLinks ==
    ASSUME NEW h, NEW o, NEW A, NEW ow, NEW ps, NEW h2, NEW o2, NEW f, NEW l, NEW p, NEW a, NEW b,
           \A k \in A : o[k].size \in Nat,
           Links(h, o, A, ow, ps),
           LinkedIn(h, o, A, ow, ps, h2, o2, f, l, p, a, b)
    PROVE  Links(h2, o2, A, InsertedOwner(h, ow, f, l), InsertedPlace(h, ow, ps, f, l, p))
<1> DEFINE w == InsertedOwner(h, ow, f, l)
           q == InsertedPlace(h, ow, ps, f, l, p)
<1>1. /\ DOMAIN h2 = DOMAIN h \cup {f}
      /\ w[f] = l /\ q[f] = p
      /\ \A n \in DOMAIN h : /\ n # f
                             /\ w[n] = ow[n]
                             /\ ow[n] = l /\ ps[n] >= p => q[n] = ps[n] + 1
                             /\ ~ (ow[n] = l /\ ps[n] >= p) => q[n] = ps[n]
  BY DEF InsertedOwner, InsertedPlace, LinkedIn
<1> HIDE DEF w, q
<1>2. InRange(h2, o2, A, w, q)
  BY <1>1 DEF Links, InRange, LinkedIn
<1>3. OneEach(h2, A, w, q)
  <2> SUFFICES ASSUME NEW n \in DOMAIN h2, NEW m \in DOMAIN h2,
                      w[n] \in A, w[n] = w[m], q[n] = q[m]
               PROVE  n = m
    BY DEF OneEach
  <2>1. CASE n = f \/ m = f
    BY <1>1, <2>1 DEF Links, InRange, LinkedIn
  <2>2. CASE n # f /\ m # f
    BY <1>1, <2>2 DEF Links, InRange, OneEach, LinkedIn
  <2> QED BY <2>1, <2>2
<1>4. Forward(h2, o2, A, w, q)
  <2> SUFFICES ASSUME NEW n \in DOMAIN h2, w[n] \in A
               PROVE  IF q[n] = o2[w[n]].size THEN h2[n].next = Null
                      ELSE Stands(h2, w, q, h2[n].next, w[n], q[n] + 1)
    BY DEF Forward
  <2>1. CASE n = f
    BY <1>1, <2>1 DEF Links, LinkedIn, Stands
  <2>2. CASE n # f /\ n = a
    BY <1>1, <2>2 DEF Links, InRange, LinkedIn, Stands
  <2>3. CASE n # f /\ n # a
    <3>1. n \in DOMAIN h /\ h2[n].next = h[n].next /\ w[n] = ow[n]
      BY <1>1, <2>3 DEF LinkedIn
    <3>2. CASE ow[n] # l
      BY <1>1, <3>1, <3>2 DEF Links, Forward, LinkedIn, Stands
    <3>3. CASE ow[n] = l
      <4>1. ps[n] # p - 1
        BY <2>3, <3>1, <3>3 DEF Links, OneEach, InRange, LinkedIn, Stands
      <4>2. ps[n] \in Int /\ 1 <= ps[n] /\ ps[n] <= o[l].size
        BY <3>1, <3>3 DEF Links, InRange, LinkedIn
      <4>3. CASE ps[n] = o[l].size
        BY <1>1, <3>1, <3>3, <4>1, <4>2, <4>3 DEF Links, Forward, LinkedIn
      <4>4. CASE ps[n] # o[l].size
        BY <1>1, <3>1, <3>3, <4>1, <4>2, <4>4 DEF Links, Forward, LinkedIn, Stands
      <4> QED BY <4>3, <4>4
    <3> QED BY <3>2, <3>3
  <2> QED BY <2>1, <2>2, <2>3
<1>5. Backward(h2, o2, A, w, q)
  <2> SUFFICES ASSUME NEW n \in DOMAIN h2, w[n] \in A
               PROVE  IF q[n] = 1 THEN h2[n].prev = Null
                      ELSE Stands(h2, w, q, h2[n].prev, w[n], q[n] - 1)
    BY DEF Backward
  <2>1. CASE n = f
    BY <1>1, <2>1 DEF Links, LinkedIn, Stands
  <2>2. CASE n # f /\ n = b
    BY <1>1, <2>2 DEF Links, InRange, LinkedIn, Stands
  <2>3. CASE n # f /\ n # b
    <3>1. n \in DOMAIN h /\ h2[n].prev = h[n].prev /\ w[n] = ow[n]
      BY <1>1, <2>3 DEF LinkedIn
    <3>2. CASE ow[n] # l
      BY <1>1, <3>1, <3>2 DEF Links, Backward, LinkedIn, Stands
    <3>3. CASE ow[n] = l
      <4>1. ps[n] # p
        BY <2>3, <3>1, <3>3 DEF Links, OneEach, InRange, LinkedIn, Stands
      <4>2. ps[n] \in Int /\ 1 <= ps[n] /\ ps[n] <= o[l].size
        BY <3>1, <3>3 DEF Links, InRange, LinkedIn
      <4>3. CASE ps[n] = 1
        BY <1>1, <3>1, <3>3, <4>1, <4>2, <4>3 DEF Links, Backward, LinkedIn
      <4>4. CASE ps[n] # 1
        BY <1>1, <3>1, <3>3, <4>1, <4>2, <4>4 DEF Links, Backward, LinkedIn, Stands
      <4> QED BY <4>3, <4>4
    <3> QED BY <3>2, <3>3
  <2> QED BY <2>1, <2>2, <2>3
<1>6. EndsOK(h2, o2, A, w, q)
  <2> SUFFICES ASSUME NEW k \in A
               PROVE  IF o2[k].size = 0 THEN o2[k].head = Null /\ o2[k].tail = Null
                      ELSE /\ Stands(h2, w, q, o2[k].head, k, 1)
                           /\ Stands(h2, w, q, o2[k].tail, k, o2[k].size)
    BY DEF EndsOK
  <2>1. CASE k # l
    BY <1>1, <2>1 DEF Links, EndsOK, LinkedIn, Stands
  <2>2. CASE k = l
    <3>1. o2[l].size # 0
      BY DEF LinkedIn
    <3>2. Stands(h2, w, q, o2[l].head, l, 1)
      <4>1. CASE p = 1
        BY <1>1, <4>1 DEF LinkedIn, Stands
      <4>2. CASE p # 1
        BY <1>1, <4>2 DEF Links, EndsOK, LinkedIn, Stands
      <4> QED BY <4>1, <4>2
    <3>3. Stands(h2, w, q, o2[l].tail, l, o2[l].size)
      <4>1. CASE p = o[l].size + 1
        BY <1>1, <4>1 DEF LinkedIn, Stands
      <4>2. CASE p # o[l].size + 1
        BY <1>1, <4>2 DEF Links, EndsOK, LinkedIn, Stands
      <4> QED BY <4>1, <4>2
    <3> QED BY <2>2, <3>1, <3>2, <3>3
  <2> QED BY <2>1, <2>2
<1> QED BY <1>2, <1>3, <1>4, <1>5, <1>6 DEF Links, w, q

RemovedPlace(h, ow, ps, d) ==
    [n \in DOMAIN h \ {d} |-> IF ow[n] = ow[d] /\ ps[n] > ps[d] THEN ps[n] - 1 ELSE ps[n]]

\* h2 and o2 are h and o without node d of list l.
LinkedOut(h, o, A, ow, h2, o2, d, l) ==
    /\ l \in A /\ A \subseteq DOMAIN o
    /\ d \in DOMAIN h /\ ow[d] = l /\ Null \notin DOMAIN h
    /\ DOMAIN h2 = DOMAIN h \ {d}
    /\ \A n \in DOMAIN h2 : h2[n].next = IF n = h[d].prev THEN h[d].next ELSE h[n].next
    /\ \A n \in DOMAIN h2 : h2[n].prev = IF n = h[d].next THEN h[d].prev ELSE h[n].prev
    /\ DOMAIN o2 = DOMAIN o
    /\ \A k \in DOMAIN o : k # l => o2[k] = o[k]
    /\ o2[l].size = o[l].size - 1
    /\ o2[l].head = IF d = o[l].head THEN h[d].next ELSE o[l].head
    /\ o2[l].tail = IF d = o[l].tail THEN h[d].prev ELSE o[l].tail

LEMMA UnlinkKeepsLinks ==
    ASSUME NEW h, NEW o, NEW A, NEW ow, NEW ps, NEW h2, NEW o2, NEW d, NEW l,
           \A k \in A : o[k].size \in Nat,
           Links(h, o, A, ow, ps),
           LinkedOut(h, o, A, ow, h2, o2, d, l)
    PROVE  Links(h2, o2, A, ow, RemovedPlace(h, ow, ps, d)) /\ o[l].size > 0
<1> DEFINE q == RemovedPlace(h, ow, ps, d)
           p == ps[d]
<1>1. /\ DOMAIN h2 = DOMAIN h \ {d}
      /\ \A n \in DOMAIN h2 : /\ n # d /\ n \in DOMAIN h
                              /\ ow[n] = l /\ ps[n] > p => q[n] = ps[n] - 1
                              /\ ~ (ow[n] = l /\ ps[n] > p) => q[n] = ps[n]
  BY DEF RemovedPlace, LinkedOut
<1>2. p \in Int /\ 1 <= p /\ p <= o[l].size /\ o[l].size \in Nat
  BY DEF Links, InRange, LinkedOut
<1>3. \A n \in DOMAIN h2 : ow[n] = l => ps[n] \in Int /\ 1 <= ps[n] /\ ps[n] <= o[l].size /\ ps[n] # p
  BY <1>1 DEF Links, InRange, OneEach, LinkedOut
<1>4. IF p = o[l].size THEN h[d].next = Null ELSE Stands(h, ow, ps, h[d].next, l, p + 1)
  BY DEF Links, Forward, LinkedOut
<1>5. IF p = 1 THEN h[d].prev = Null ELSE Stands(h, ow, ps, h[d].prev, l, p - 1)
  BY DEF Links, Backward, LinkedOut
<1>11. ow[d] = l /\ ps[d] = p /\ d \in DOMAIN h /\ d # Null /\ l \in A
  BY DEF LinkedOut
<1> HIDE DEF p, q
<1>6. InRange(h2, o2, A, ow, q)
  BY <1>1, <1>2, <1>3 DEF Links, InRange, LinkedOut
<1>7. OneEach(h2, A, ow, q)
  <2> SUFFICES ASSUME NEW n \in DOMAIN h2, NEW m \in DOMAIN h2,
                      ow[n] \in A, ow[n] = ow[m], q[n] = q[m]
               PROVE  n = m
    BY DEF OneEach
  <2>1. CASE ow[n] # l
    BY <1>1, <2>1 DEF Links, OneEach
  <2>2. CASE ow[n] = l
    <3> DEFINE shift(i) == IF i > p THEN i - 1 ELSE i
    <3>2. q[n] = shift(ps[n]) /\ q[m] = shift(ps[m])
      BY <1>1, <2>2
    <3>3. /\ ps[n] \in Int /\ ps[n] # p /\ ps[m] \in Int /\ ps[m] # p
      BY <1>3, <2>2
    <3>4. \A i, j \in Int : i # p /\ j # p /\ shift(i) = shift(j) => i = j
      BY <1>2
    <3>5. shift(ps[n]) = shift(ps[m])
      BY <3>2
    <3> HIDE DEF shift
    <3>1. ps[n] = ps[m]
      BY <3>3, <3>4, <3>5
    <3> QED BY <1>1, <3>1 DEF Links, OneEach
  <2> QED BY <2>1, <2>2
<1>8. Forward(h2, o2, A, ow, q)
  <2> SUFFICES ASSUME NEW n \in DOMAIN h2, ow[n] \in A
               PROVE  IF q[n] = o2[ow[n]].size THEN h2[n].next = Null
                      ELSE Stands(h2, ow, q, h2[n].next, ow[n], q[n] + 1)
    BY DEF Forward
  <2>1. CASE ow[n] # l
    <3>1. h2[n].next = h[n].next /\ o2[ow[n]] = o[ow[n]] /\ q[n] = ps[n]
      BY <1>1, <1>2, <1>5, <2>1 DEF LinkedOut, Stands
    <3>2. IF ps[n] = o[ow[n]].size THEN h[n].next = Null
          ELSE Stands(h, ow, ps, h[n].next, ow[n], ps[n] + 1)
      BY <1>1 DEF Links, Forward
    <3>3. \A m : Stands(h, ow, ps, m, ow[n], ps[m]) => m # d /\ q[m] = ps[m] /\ m \in DOMAIN h2
      BY <1>1, <1>11, <2>1 DEF Stands
    <3> QED BY <2>1, <3>1, <3>2, <3>3 DEF Stands
  <2>2. CASE ow[n] = l /\ n = h[d].prev
    <3>1. p # 1 /\ ps[n] = p - 1 /\ h2[n].next = h[d].next /\ q[n] = p - 1
      BY <1>1, <1>2, <1>5, <2>2 DEF LinkedOut, Stands
    <3>2. o2[l].size = o[l].size - 1
      BY DEF LinkedOut
    <3>3. CASE p = o[l].size
      BY <1>2, <1>4, <2>2, <3>1, <3>2, <3>3
    <3>4. CASE p # o[l].size
      <4> DEFINE m == h[d].next
      <4>1. m \in DOMAIN h /\ ow[m] = l /\ ps[m] = p + 1
        BY <1>4, <3>4 DEF Stands
      <4>2. m \in DOMAIN h2 /\ q[m] = p
        BY <1>1, <1>2, <1>11, <4>1
      <4> QED BY <1>2, <2>2, <3>1, <3>2, <3>4, <4>1, <4>2 DEF Stands
    <3> QED BY <3>3, <3>4
  <2>3. CASE ow[n] = l /\ n # h[d].prev
    <3>1. h2[n].next = h[n].next
      BY <2>3 DEF LinkedOut
    <3>2. ps[n] # p - 1
      BY <1>1, <1>2, <1>3, <1>5, <2>3 DEF Stands, Links, OneEach
    <3>3. IF ps[n] = o[l].size THEN h[n].next = Null
          ELSE Stands(h, ow, ps, h[n].next, l, ps[n] + 1)
      BY <1>1, <2>3 DEF Links, Forward
    <3>4. q[n] = (IF ps[n] > p THEN ps[n] - 1 ELSE ps[n]) /\ o2[l].size = o[l].size - 1
      BY <1>1, <2>3 DEF LinkedOut
    <3>5. CASE ps[n] = o[l].size
      BY <1>2, <1>3, <2>3, <3>1, <3>3, <3>4, <3>5
    <3>6. CASE ps[n] # o[l].size
      <4> DEFINE m == h[n].next
      <4>1. m \in DOMAIN h /\ ow[m] = l /\ ps[m] = ps[n] + 1
        BY <3>3, <3>6 DEF Stands
      <4>2. m # d
        BY <1>2, <1>3, <2>3, <3>2, <4>1 DEF p
      <4>3. m \in DOMAIN h2 /\ q[m] = (IF ps[m] > p THEN ps[m] - 1 ELSE ps[m])
        BY <1>1, <4>1, <4>2
      <4>4. q[m] = q[n] + 1 /\ q[n] # o2[l].size
        BY <1>2, <1>3, <2>3, <3>2, <3>4, <3>6, <4>1, <4>3
      <4> QED BY <2>3, <3>1, <4>1, <4>3, <4>4 DEF Stands
    <3> QED BY <3>5, <3>6
  <2> QED BY <2>1, <2>2, <2>3
<1>9. Backward(h2, o2, A, ow, q)
  <2> SUFFICES ASSUME NEW n \in DOMAIN h2, ow[n] \in A
               PROVE  IF q[n] = 1 THEN h2[n].prev = Null
                      ELSE Stands(h2, ow, q, h2[n].prev, ow[n], q[n] - 1)
    BY DEF Backward
  <2>1. CASE ow[n] # l
    <3>1. h2[n].prev = h[n].prev /\ q[n] = ps[n]
      BY <1>1, <1>2, <1>4, <2>1 DEF LinkedOut, Stands
    <3>2. IF ps[n] = 1 THEN h[n].prev = Null
          ELSE Stands(h, ow, ps, h[n].prev, ow[n], ps[n] - 1)
      BY <1>1 DEF Links, Backward
    <3>3. \A m : Stands(h, ow, ps, m, ow[n], ps[m]) => m # d /\ q[m] = ps[m] /\ m \in DOMAIN h2
      BY <1>1, <1>11, <2>1 DEF Stands
    <3> QED BY <2>1, <3>1, <3>2, <3>3 DEF Stands
  <2>2. CASE ow[n] = l /\ n = h[d].next
    <3>1. p # o[l].size /\ ps[n] = p + 1 /\ h2[n].prev = h[d].prev /\ q[n] = p
      BY <1>1, <1>2, <1>4, <2>2 DEF LinkedOut, Stands
    <3>2. CASE p = 1
      BY <1>2, <1>5, <2>2, <3>1, <3>2
    <3>3. CASE p # 1
      <4> DEFINE m == h[d].prev
      <4>1. m \in DOMAIN h /\ ow[m] = l /\ ps[m] = p - 1
        BY <1>5, <3>3 DEF Stands
      <4>2. m \in DOMAIN h2 /\ q[m] = p - 1
        BY <1>1, <1>2, <1>11, <4>1
      <4> QED BY <1>2, <2>2, <3>1, <3>3, <4>1, <4>2 DEF Stands
    <3> QED BY <3>2, <3>3
  <2>3. CASE ow[n] = l /\ n # h[d].next
    <3>1. h2[n].prev = h[n].prev
      BY <2>3 DEF LinkedOut
    <3>2. ps[n] # p + 1
      BY <1>1, <1>2, <1>3, <1>4, <2>3 DEF Stands, Links, OneEach
    <3>3. IF ps[n] = 1 THEN h[n].prev = Null
          ELSE Stands(h, ow, ps, h[n].prev, l, ps[n] - 1)
      BY <1>1, <2>3 DEF Links, Backward
    <3>4. q[n] = (IF ps[n] > p THEN ps[n] - 1 ELSE ps[n])
      BY <1>1, <2>3
    <3>5. CASE ps[n] = 1
      BY <1>2, <1>3, <2>3, <3>1, <3>3, <3>4, <3>5
    <3>6. CASE ps[n] # 1
      <4> DEFINE m == h[n].prev
      <4>1. m \in DOMAIN h /\ ow[m] = l /\ ps[m] = ps[n] - 1
        BY <3>3, <3>6 DEF Stands
      <4>2. m # d
        BY <1>2, <1>3, <2>3, <3>2, <4>1 DEF p
      <4>3. m \in DOMAIN h2 /\ q[m] = (IF ps[m] > p THEN ps[m] - 1 ELSE ps[m])
        BY <1>1, <4>1, <4>2
      <4>4. q[m] = q[n] - 1 /\ q[n] # 1
        BY <1>2, <1>3, <2>3, <3>2, <3>4, <3>6, <4>1, <4>3
      <4> QED BY <2>3, <3>1, <4>1, <4>3, <4>4 DEF Stands
    <3> QED BY <3>5, <3>6
  <2> QED BY <2>1, <2>2, <2>3
<1>10. EndsOK(h2, o2, A, ow, q)
  <2> SUFFICES ASSUME NEW k \in A
               PROVE  IF o2[k].size = 0 THEN o2[k].head = Null /\ o2[k].tail = Null
                      ELSE /\ Stands(h2, ow, q, o2[k].head, k, 1)
                           /\ Stands(h2, ow, q, o2[k].tail, k, o2[k].size)
    BY DEF EndsOK
  <2>1. CASE k # l
    BY <1>1, <2>1 DEF Links, EndsOK, LinkedOut, Stands
  <2>2. CASE k = l
    <3>1. Stands(h, ow, ps, o[l].head, l, 1) /\ Stands(h, ow, ps, o[l].tail, l, o[l].size)
      BY <1>2 DEF Links, EndsOK, LinkedOut
    <3>2. (d = o[l].head <=> p = 1) /\ (d = o[l].tail <=> p = o[l].size)
      BY <3>1 DEF Links, OneEach, LinkedOut, Stands, p
    <3>3. o2[l].size = o[l].size - 1
      BY DEF LinkedOut
    <3>4. CASE o[l].size = 1
      BY <1>2, <1>4, <1>5, <2>2, <3>2, <3>3, <3>4 DEF LinkedOut
    <3>5. CASE o[l].size # 1
      <4>1. Stands(h2, ow, q, o2[l].head, l, 1)
        BY <1>1, <1>2, <1>4, <3>1, <3>2, <3>5 DEF LinkedOut, Stands
      <4>2. Stands(h2, ow, q, o2[l].tail, l, o2[l].size)
        BY <1>1, <1>2, <1>5, <3>1, <3>2, <3>3, <3>5 DEF LinkedOut, Stands
      <4> QED BY <1>2, <2>2, <3>3, <3>5, <4>1, <4>2
    <3> QED BY <3>4, <3>5
  <2> QED BY <2>1, <2>2
<1> QED BY <1>2, <1>6, <1>7, <1>8, <1>9, <1>10 DEF Links, q

-----------------------------------------------------------------------------
(* The invariant, of a heap, its lists and the running call. *)

AliveOf(o, c) == DOMAIN o \ (IF c.op = "destroy" THEN {c.on} ELSE {})

OwnersOK(h, o, ow) == \A n \in DOMAIN h : ow[n] \in DOMAIN o \cup {Null}

IsCall(c) ==
    c = [op |-> c.op, on |-> c.on, key |-> c.key, val |-> c.val, from |-> c.from,
         cur |-> c.cur, other |-> c.other]

LookOK(h, o, c, ow) ==
    c.op \in LookOps =>
        /\ c.on \in DOMAIN o
        /\ c.cur = Null \/ (c.cur \in DOMAIN h /\ ow[c.cur] = c.on)

RoomOK(h, c) == c.op \in LookOps \ {"get_at", "equal"} => \E n \in Nodes : n \notin DOMAIN h

EqualOK(h, o, c, ow, ps) ==
    c.op = "equal" =>
        /\ c.from \in DOMAIN o /\ o[c.on].size = o[c.from].size
        /\ c.cur = Null \/ Stands(h, ow, ps, c.other, c.from, ps[c.cur])

CopyOK(h, o, c, ow, ps) ==
    c.op = "copy" =>
        /\ {c.on, c.from} \subseteq DOMAIN o /\ c.on # c.from
        /\ \/ c.cur = Null
           \/ /\ c.cur \in DOMAIN h /\ ow[c.cur] = c.from
              /\ Cardinality(Nodes \ DOMAIN h) >= o[c.from].size - ps[c.cur] + 1

\* What is left of a list that is being destroyed: the nodes from cur on.
DestroyOK(h, o, c, ow, ps) ==
    c.op = "destroy" =>
        /\ c.on \in DOMAIN o
        /\ InRange(h, o, {c.on}, ow, ps)
        /\ Forward(h, o, {c.on}, ow, ps)
        /\ OneEach(h, {c.on}, ow, ps)
        /\ IF c.cur = Null THEN \A n \in DOMAIN h : ow[n] # c.on
           ELSE /\ c.cur \in DOMAIN h /\ ow[c.cur] = c.on
                /\ \A n \in DOMAIN h : ow[n] = c.on => ps[n] >= ps[c.cur]

Shape(h, o, c, ow) == HeapOK(h) /\ ObjOK(o) /\ OwnersOK(h, o, ow) /\ IsCall(c)

CallOK(h, o, c, ow, ps) ==
    /\ LookOK(h, o, c, ow)
    /\ RoomOK(h, c)
    /\ EqualOK(h, o, c, ow, ps)
    /\ CopyOK(h, o, c, ow, ps)
    /\ DestroyOK(h, o, c, ow, ps)

Inv(h, o, c, ow, ps) ==
    /\ Shape(h, o, c, ow)
    /\ Links(h, o, AliveOf(o, c), ow, ps)
    /\ CallOK(h, o, c, ow, ps)

IInv == kind \in Kinds /\ \E ow, ps : Inv(heap, obj, call, ow, ps)

\* A node without an owner is one no list leads to: a step makes none, but for a move
\* assignment to a list that is not empty.
NoneLost(ow, w) == \A n \in DOMAIN heap' : w[n] = Null => n \in DOMAIN heap /\ ow[n] = Null

LosesList == \E l, from \in DOMAIN obj : MoveAssign(l, from) /\ obj[l].size > 0

\* What every step does.
Kept(ow) ==
    /\ kind' = kind
    /\ \E w, q : Inv(heap', obj', call', w, q) /\ (NoneLost(ow, w) \/ LosesList)

-----------------------------------------------------------------------------
LEMMA Updated ==
    ASSUME NEW f, NEW x \in DOMAIN f, NEW v
    PROVE  LET g == [f EXCEPT ![x] = v]
           IN  /\ DOMAIN g = DOMAIN f /\ g[x] = v
               /\ \A y \in DOMAIN f : y # x => g[y] = f[y]
               /\ g = [y \in DOMAIN g |-> g[y]]
OBVIOUS

LEMMA Ops ==
    /\ LookOps = {"insert", "insert_update", "update", "get", "delete_key", "push", "pop",
                  "append", "push_ord", "get_at", "equal"}
    /\ \A k \in Kinds : Searches[k] \subseteq LookOps \ {"push_ord", "get_at", "equal"}
<1>1. /\ Searches["map"] = {"insert", "insert_update", "update", "get", "delete_key"}
      /\ Searches["fre"] = {"push", "pop"}
      /\ Searches["cortina"] = {"append", "delete_key", "insert", "insert_update", "update", "get"}
      /\ Searches["list"] = {}
  BY DEF Searches
<1>2. UNION {Searches[k] : k \in Kinds}
        = Searches["map"] \cup Searches["fre"] \cup Searches["cortina"] \cup Searches["list"]
  BY DEF Kinds
<1>3. LookOps = {"insert", "insert_update", "update", "get", "delete_key", "push", "pop",
                 "append", "push_ord", "get_at", "equal"}
  <2>1. LookOps = (Searches["map"] \cup Searches["fre"] \cup Searches["cortina"] \cup Searches["list"])
                  \cup {"push_ord", "get_at", "equal"}
    BY <1>2 DEF LookOps
  <2>2. LookOps = ({"insert", "insert_update", "update", "get", "delete_key"} \cup {"push", "pop"}
                     \cup {"append", "delete_key", "insert", "insert_update", "update", "get"} \cup {})
                    \cup {"push_ord", "get_at", "equal"}
    BY <1>1, <2>1
  <2> QED BY <2>2
<1>4. \A k \in Kinds : Searches[k] \subseteq LookOps \ {"push_ord", "get_at", "equal"}
  <2> SUFFICES ASSUME NEW k \in Kinds, NEW op \in Searches[k]
               PROVE  op \in LookOps \ {"push_ord", "get_at", "equal"}
    OBVIOUS
  <2>1. op \in {"insert", "insert_update", "update", "get", "delete_key", "push", "pop", "append"}
    <3>1. CASE k = "map"
      BY <1>1, <3>1
    <3>2. CASE k = "fre"
      BY <1>1, <3>2
    <3>3. CASE k = "cortina"
      BY <1>1, <3>3
    <3>4. CASE k = "list"
      BY <1>1, <3>4
    <3> QED BY <3>1, <3>2, <3>3, <3>4 DEF Kinds
  <2> QED BY <1>3, <2>1
<1> QED BY <1>3, <1>4

LEMMA IdleCall ==
    /\ IsCall(NoCall) /\ NoCall.op = "none"
    /\ \A h, o, ow, ps : CallOK(h, o, NoCall, ow, ps)
    /\ \A o : AliveOf(o, NoCall) = DOMAIN o
BY Ops DEF NoCall, IsCall, CallOK, LookOK, RoomOK, EqualOK, CopyOK, DestroyOK, AliveOf

\* A node of a living list has neighbours that may be read.
LEMMA NodesMayLink ==
    ASSUME NEW ow, NEW ps, Links(heap, obj, AliveOf(obj, call), ow, ps),
           NEW n \in DOMAIN heap, ow[n] \in AliveOf(obj, call)
    PROVE  MayLink(n)
<1>1. heap[n].next \in DOMAIN heap \cup {Null}
  BY DEF Links, Forward, Stands
<1>2. heap[n].prev \in DOMAIN heap \cup {Null}
  BY DEF Links, Backward, Stands
<1> QED BY <1>1, <1>2 DEF MayLink

LEMMA NullIsNoNode == ASSUME HeapOK(heap) PROVE Null \notin DOMAIN heap
BY ListAssumption DEF HeapOK

LEMMA FreshIsFree ==
    ASSUME \E n \in Nodes : n \notin DOMAIN heap
    PROVE  Fresh \in Nodes /\ Fresh \notin DOMAIN heap
BY DEF Fresh

LEMMA RoomForOne == ASSUME Room(1) PROVE \E n \in Nodes : n \notin DOMAIN heap
<1>1. CASE Nodes \ DOMAIN heap = {}
  <2>1. Cardinality(Nodes \ DOMAIN heap) = 0
    BY <1>1, FS_EmptySet
  <2> QED BY <2>1 DEF Room
<1> QED BY <1>1

\* Where the ends of a list are.
LEMMA ListEnds ==
    ASSUME NEW ow, NEW ps, HeapOK(heap), ObjOK(obj),
           Links(heap, obj, AliveOf(obj, call), ow, ps), NEW l \in AliveOf(obj, call)
    PROVE  /\ obj[l].size \in Nat
           /\ obj[l].head = Null <=> obj[l].size = 0
           /\ obj[l].size = 0 => obj[l].tail = Null
           /\ obj[l].size # 0 => /\ Stands(heap, ow, ps, obj[l].head, l, 1)
                                 /\ Stands(heap, ow, ps, obj[l].tail, l, obj[l].size)
                                 /\ MayLink(obj[l].head) /\ MayLink(obj[l].tail)
           /\ MayPushBk(l)
<1>1. obj[l].size \in Nat
  BY DEF ObjOK, IsList, AliveOf
<1>2. IF obj[l].size = 0 THEN obj[l].head = Null /\ obj[l].tail = Null
      ELSE /\ Stands(heap, ow, ps, obj[l].head, l, 1)
           /\ Stands(heap, ow, ps, obj[l].tail, l, obj[l].size)
  BY DEF Links, EndsOK
<1>3. obj[l].size # 0 => MayLink(obj[l].head) /\ MayLink(obj[l].tail)
  BY <1>2, NodesMayLink DEF Stands
<1> QED BY <1>1, <1>2, <1>3, NullIsNoNode DEF Stands, MayPushBk

-----------------------------------------------------------------------------
(* The primitives that change the heap. *)

LEMMA PushBkLinks ==
    ASSUME NEW ow, NEW ps, NEW l \in AliveOf(obj, call), NEW key, NEW val,
           HeapOK(heap), ObjOK(obj), Links(heap, obj, AliveOf(obj, call), ow, ps),
           \E n \in Nodes : n \notin DOMAIN heap,
           PushBk(l, key, val)
    PROVE  /\ LinkedIn(heap, obj, AliveOf(obj, call), ow, ps, heap', obj', Fresh, l,
                       obj[l].size + 1, obj[l].tail, Null)
           /\ HeapOK(heap') /\ ObjOK(obj')
           /\ Fresh \in Nodes \ DOMAIN heap /\ DOMAIN heap' = DOMAIN heap \cup {Fresh}
<1>1. Fresh \in Nodes /\ Fresh \notin DOMAIN heap /\ Null \notin DOMAIN heap
  BY FreshIsFree, NullIsNoNode
<1>2. /\ obj[l].size \in Nat /\ l \in DOMAIN obj
      /\ obj[l].head = Null <=> obj[l].size = 0
      /\ obj[l].size = 0 => obj[l].tail = Null
      /\ obj[l].size # 0 => Stands(heap, ow, ps, obj[l].tail, l, obj[l].size)
  BY ListEnds DEF AliveOf
<1>3. /\ DOMAIN obj' = DOMAIN obj
      /\ \A k \in DOMAIN obj : k # l => obj'[k] = obj[k]
      /\ obj'[l].size = obj[l].size + 1
      /\ obj'[l].tail = Fresh
      /\ obj'[l].head = IF obj[l].head = Null THEN Fresh ELSE obj[l].head
      /\ obj' = [k \in DOMAIN obj' |-> obj'[k]] /\ IsList(obj'[l])
  <2>1. IsList(obj[l]) /\ obj = [k \in DOMAIN obj |-> obj[k]]
    BY <1>2 DEF ObjOK
  <2>2. obj' = [obj EXCEPT ![l] = Grown(obj[l], IF obj[l].head = Null THEN Fresh ELSE obj[l].head, Fresh)]
    BY DEF PushBk
  <2>3. /\ DOMAIN obj' = DOMAIN obj /\ obj' = [k \in DOMAIN obj' |-> obj'[k]]
        /\ obj'[l] = Grown(obj[l], IF obj[l].head = Null THEN Fresh ELSE obj[l].head, Fresh)
        /\ \A k \in DOMAIN obj : k # l => obj'[k] = obj[k]
    BY <1>2, <2>2, Updated
  <2> QED BY <1>2, <2>3 DEF IsList, Grown
<1>4. ObjOK(obj')
  BY <1>3 DEF ObjOK
<1>5. CASE obj[l].head = Null
  <2>1. heap' = PushAlone(key, val)
    BY <1>5 DEF PushBk
  <2>2. HeapOK(heap') /\ DOMAIN heap' = DOMAIN heap \cup {Fresh}
    BY <1>1, <2>1 DEF PushAlone, HeapOK, IsNode
  <2>3. heap'[Fresh].prev = Null /\ heap'[Fresh].next = Null
    BY <2>1 DEF PushAlone
  <2>4. \A n \in DOMAIN heap : heap'[n] = heap[n]
    BY <1>1, <2>1 DEF PushAlone
  <2> QED BY <1>1, <1>2, <1>3, <1>4, <1>5, <2>2, <2>3, <2>4 DEF LinkedIn, AliveOf
<1>6. CASE obj[l].head # Null
  <2> DEFINE t == obj[l].tail
  <2>1. heap' = PushAfter(t, key, val)
    BY <1>6 DEF PushBk
  <2>2. t \in DOMAIN heap /\ heap[t].next = Null /\ ow[t] = l /\ ps[t] = obj[l].size /\ obj[l].size # 0
    BY <1>2, <1>6 DEF Stands, Links, Forward
  <2> HIDE DEF t
  <2>3. \A n \in DOMAIN heap : IsNode(heap[n]) /\ n # Null /\ n # Fresh
    BY <1>1 DEF HeapOK
  <2>4. /\ DOMAIN heap' = DOMAIN heap \cup {Fresh}
        /\ heap'[Fresh] = [key |-> key, val |-> val, prev |-> t, next |-> Null]
        /\ \A n \in DOMAIN heap : heap'[n] = IF n = t THEN [heap[n] EXCEPT !.next = Fresh] ELSE heap[n]
    BY <1>1, <2>1, <2>2, <2>3 DEF PushAfter
  <2>5. HeapOK(heap')
    <3>1. heap' = [n \in DOMAIN heap' |-> heap'[n]]
      BY <2>1 DEF PushAfter
    <3>2. \A n \in DOMAIN heap' : IsNode(heap'[n])
      BY <2>3, <2>4 DEF IsNode
    <3> QED BY <1>1, <2>4, <3>1, <3>2 DEF HeapOK
  <2>6. /\ heap'[Fresh].prev = t /\ heap'[Fresh].next = Null
        /\ \A n \in DOMAIN heap : heap'[n].next = IF n = t THEN Fresh ELSE heap[n].next
        /\ \A n \in DOMAIN heap : heap'[n].prev = heap[n].prev
    BY <2>3, <2>4 DEF IsNode
  <2> QED BY <1>1, <1>2, <1>3, <1>4, <1>6, <2>2, <2>3, <2>4, <2>5, <2>6
          DEF LinkedIn, AliveOf, Stands, t
<1> QED BY <1>5, <1>6

\* A node linked before the node at of list l.
LEMMA PushBeforeLinks ==
    ASSUME NEW ow, NEW ps, NEW l \in AliveOf(obj, call), NEW at, NEW key, NEW val,
           HeapOK(heap), ObjOK(obj), Links(heap, obj, AliveOf(obj, call), ow, ps),
           \E n \in Nodes : n \notin DOMAIN heap,
           at \in DOMAIN heap, ow[at] = l,
           heap' = PushBefore(at, key, val),
           obj' = [obj EXCEPT ![l] = Grown(obj[l], IF at = obj[l].head THEN Fresh ELSE obj[l].head,
                                           obj[l].tail)]
    PROVE  /\ LinkedIn(heap, obj, AliveOf(obj, call), ow, ps, heap', obj', Fresh, l,
                       ps[at], heap[at].prev, at)
           /\ HeapOK(heap') /\ ObjOK(obj')
           /\ Fresh \in Nodes \ DOMAIN heap /\ DOMAIN heap' = DOMAIN heap \cup {Fresh}
<1>1. Fresh \in Nodes /\ Fresh \notin DOMAIN heap /\ Null \notin DOMAIN heap
  BY FreshIsFree, NullIsNoNode
<1>2. obj[l].size \in Nat /\ l \in DOMAIN obj /\ IsList(obj[l])
  BY DEF AliveOf, ObjOK, IsList
<1>3. ps[at] \in Int /\ 1 <= ps[at] /\ ps[at] <= obj[l].size
  BY DEF Links, InRange
<1>4. IF ps[at] = 1 THEN heap[at].prev = Null ELSE Stands(heap, ow, ps, heap[at].prev, l, ps[at] - 1)
  BY DEF Links, Backward
<1>5. at = obj[l].head <=> ps[at] = 1
  <2>1. Stands(heap, ow, ps, obj[l].head, l, 1)
    BY <1>2, <1>3, ListEnds
  <2> QED BY <2>1 DEF Links, OneEach, Stands
<1>6. /\ DOMAIN obj' = DOMAIN obj /\ obj' = [k \in DOMAIN obj' |-> obj'[k]]
      /\ obj'[l] = Grown(obj[l], IF at = obj[l].head THEN Fresh ELSE obj[l].head, obj[l].tail)
      /\ \A k \in DOMAIN obj : k # l => obj'[k] = obj[k]
  BY <1>2, Updated
<1>7. /\ obj'[l].size = obj[l].size + 1
      /\ obj'[l].head = IF ps[at] = 1 THEN Fresh ELSE obj[l].head
      /\ obj'[l].tail = obj[l].tail
      /\ IsList(obj'[l])
  BY <1>2, <1>5, <1>6 DEF Grown, IsList
<1>8. ObjOK(obj')
  BY <1>6, <1>7 DEF ObjOK
<1>9. \A n \in DOMAIN heap : IsNode(heap[n]) /\ n # Null /\ n # Fresh
  BY <1>1 DEF HeapOK
<1>10. /\ DOMAIN heap' = DOMAIN heap \cup {Fresh} /\ heap' = [n \in DOMAIN heap' |-> heap'[n]]
       /\ heap'[Fresh] = [key |-> key, val |-> val, prev |-> heap[at].prev, next |-> at]
       /\ \A n \in DOMAIN heap :
             heap'[n] = IF n = at THEN [heap[n] EXCEPT !.prev = Fresh]
                        ELSE IF n = heap[at].prev THEN [heap[n] EXCEPT !.next = Fresh] ELSE heap[n]
  BY <1>1, <1>9 DEF PushBefore
<1>11. at # heap[at].prev
  BY <1>1, <1>3, <1>4 DEF Stands
<1>12. /\ heap'[Fresh].prev = heap[at].prev /\ heap'[Fresh].next = at
       /\ \A n \in DOMAIN heap : heap'[n].next = IF n = heap[at].prev THEN Fresh ELSE heap[n].next
       /\ \A n \in DOMAIN heap : heap'[n].prev = IF n = at THEN Fresh ELSE heap[n].prev
       /\ \A n \in DOMAIN heap' : IsNode(heap'[n])
  BY <1>9, <1>10, <1>11 DEF IsNode
<1>13. HeapOK(heap')
  BY <1>1, <1>10, <1>12 DEF HeapOK
<1> DEFINE p == ps[at]
           b == heap[at].prev
<1>14. Stands(heap, ow, ps, at, l, p) /\ p # obj[l].size + 1
  BY <1>2, <1>3 DEF Stands
<1>15. AliveOf(obj, call) \subseteq DOMAIN obj
  BY DEF AliveOf
<1>16. /\ p \in Int /\ 1 <= p /\ p <= obj[l].size + 1
       /\ obj'[l].tail = IF p = obj[l].size + 1 THEN Fresh ELSE obj[l].tail
  BY <1>2, <1>3, <1>7
<1>17. LinkedIn(heap, obj, AliveOf(obj, call), ow, ps, heap', obj', Fresh, l, p, b, at)
  BY <1>1, <1>4, <1>6, <1>7, <1>10, <1>12, <1>14, <1>15, <1>16 DEF LinkedIn
<1> QED BY <1>1, <1>8, <1>10, <1>13, <1>17

LEMMA PushFtLinks ==
    ASSUME NEW ow, NEW ps, NEW l \in AliveOf(obj, call), NEW key, NEW val,
           HeapOK(heap), ObjOK(obj), Links(heap, obj, AliveOf(obj, call), ow, ps),
           \E n \in Nodes : n \notin DOMAIN heap,
           PushFt(l, key, val)
    PROVE  /\ \E a, b : LinkedIn(heap, obj, AliveOf(obj, call), ow, ps, heap', obj', Fresh, l, 1, a, b)
           /\ HeapOK(heap') /\ ObjOK(obj')
           /\ Fresh \in Nodes \ DOMAIN heap /\ DOMAIN heap' = DOMAIN heap \cup {Fresh}
<1>1. /\ obj[l].head = Null <=> obj[l].size = 0
      /\ obj[l].size = 0 => obj[l].tail = Null
      /\ obj[l].size # 0 => Stands(heap, ow, ps, obj[l].head, l, 1)
  BY ListEnds
<1>2. CASE obj[l].head = Null
  <2>1. PushBk(l, key, val)
    BY <1>2 DEF PushFt, PushBk
  <2>2. obj[l].size + 1 = 1
    BY <1>1, <1>2
  <2>3. /\ LinkedIn(heap, obj, AliveOf(obj, call), ow, ps, heap', obj', Fresh, l,
                    obj[l].size + 1, obj[l].tail, Null)
        /\ HeapOK(heap') /\ ObjOK(obj')
        /\ Fresh \in Nodes \ DOMAIN heap /\ DOMAIN heap' = DOMAIN heap \cup {Fresh}
    BY <2>1, PushBkLinks
  <2> QED BY <2>2, <2>3
<1>3. CASE obj[l].head # Null
  <2>1. /\ heap' = PushBefore(obj[l].head, key, val)
        /\ obj' = [obj EXCEPT ![l] = Grown(obj[l], IF obj[l].head = obj[l].head THEN Fresh ELSE obj[l].head,
                                           obj[l].tail)]
    BY <1>3 DEF PushFt
  <2>2. obj[l].head \in DOMAIN heap /\ ow[obj[l].head] = l /\ ps[obj[l].head] = 1
    BY <1>1, <1>3 DEF Stands
  <2> DEFINE at == obj[l].head
  <2>3. at \in DOMAIN heap /\ ow[at] = l /\ ps[at] = 1
    BY <2>2
  <2>4. heap' = PushBefore(at, key, val)
        /\ obj' = [obj EXCEPT ![l] = Grown(obj[l], IF at = obj[l].head THEN Fresh ELSE obj[l].head,
                                           obj[l].tail)]
    BY <2>1
  <2> HIDE DEF at
  <2>5. /\ LinkedIn(heap, obj, AliveOf(obj, call), ow, ps, heap', obj', Fresh, l,
                    ps[at], heap[at].prev, at)
        /\ HeapOK(heap') /\ ObjOK(obj')
        /\ Fresh \in Nodes \ DOMAIN heap /\ DOMAIN heap' = DOMAIN heap \cup {Fresh}
    BY <2>3, <2>4, PushBeforeLinks
  <2> QED BY <2>3, <2>5
<1> QED BY <1>2, <1>3

LEMMA DeleteLinks ==
    ASSUME NEW ow, NEW ps, NEW l \in AliveOf(obj, call), NEW d \in DOMAIN heap, ow[d] = l,
           HeapOK(heap), ObjOK(obj), Links(heap, obj, AliveOf(obj, call), ow, ps),
           DeleteNode(l, d)
    PROVE  /\ LinkedOut(heap, obj, AliveOf(obj, call), ow, heap', obj', d, l)
           /\ HeapOK(heap') /\ ObjOK(obj')
<1>1. Null \notin DOMAIN heap /\ AliveOf(obj, call) \subseteq DOMAIN obj
  BY NullIsNoNode DEF AliveOf
<1>2. obj[l].size \in Nat /\ l \in DOMAIN obj /\ IsList(obj[l])
  BY DEF AliveOf, ObjOK, IsList
<1>3. ps[d] \in Int /\ 1 <= ps[d] /\ ps[d] <= obj[l].size
  BY DEF Links, InRange
<1>4. obj' = [obj EXCEPT ![l] = Shrunk(obj[l], d)]
  BY DEF DeleteNode
<1>5. /\ DOMAIN obj' = DOMAIN obj /\ obj' = [k \in DOMAIN obj' |-> obj'[k]]
      /\ obj'[l] = Shrunk(obj[l], d)
      /\ \A k \in DOMAIN obj : k # l => obj'[k] = obj[k]
  BY <1>2, <1>4, Updated
<1>6. /\ obj'[l].size = obj[l].size - 1
      /\ obj'[l].head = IF d = obj[l].head THEN heap[d].next ELSE obj[l].head
      /\ obj'[l].tail = IF d = obj[l].tail THEN heap[d].prev ELSE obj[l].tail
      /\ IsList(obj'[l])
  BY <1>2, <1>3, <1>5 DEF Shrunk, IsList
<1>7. ObjOK(obj')
  BY <1>5, <1>6 DEF ObjOK
<1>9. /\ DOMAIN heap' = DOMAIN heap \ {d} /\ heap' = [n \in DOMAIN heap' |-> heap'[n]]
      /\ \A n \in DOMAIN heap' :
            heap'[n] = [key |-> heap[n].key, val |-> heap[n].val,
                        prev |-> IF n = heap[d].next THEN heap[d].prev ELSE heap[n].prev,
                        next |-> IF n = heap[d].prev THEN heap[d].next ELSE heap[n].next]
  BY DEF DeleteNode, Unlinked
<1>10. /\ \A n \in DOMAIN heap' :
             heap'[n].next = IF n = heap[d].prev THEN heap[d].next ELSE heap[n].next
       /\ \A n \in DOMAIN heap' :
             heap'[n].prev = IF n = heap[d].next THEN heap[d].prev ELSE heap[n].prev
       /\ \A n \in DOMAIN heap' : IsNode(heap'[n])
  BY <1>9 DEF IsNode
<1>11. HeapOK(heap')
  BY <1>9, <1>10 DEF HeapOK
<1>12. LinkedOut(heap, obj, AliveOf(obj, call), ow, heap', obj', d, l)
  BY <1>1, <1>5, <1>6, <1>9, <1>10 DEF LinkedOut
<1> QED BY <1>7, <1>11, <1>12

-----------------------------------------------------------------------------
(* How a call ends: nothing changes, a value, or the nodes of one list. *)

LEMMA EndQuiet ==
    ASSUME NEW ow, NEW ps, Inv(heap, obj, call, ow, ps), call.op # "destroy",
           heap' = heap, obj' = obj, call' = NoCall, kind' = kind
    PROVE  Kept(ow)
<1>1. AliveOf(obj', call') = AliveOf(obj, call)
  BY IdleCall DEF AliveOf
<1>2. Inv(heap', obj', call', ow, ps)
  BY <1>1, IdleCall DEF Inv, Shape
<1> QED BY <1>2 DEF Kept, NoneLost

\* The node that was linked has an owner.
LEMMA NewHasOwner ==
    ASSUME NEW ow, NEW f, NEW l, NEW p, NEW a, NEW b, NEW ps, ObjOK(obj),
           LinkedIn(heap, obj, AliveOf(obj, call), ow, ps, heap', obj', f, l, p, a, b)
    PROVE  NoneLost(ow, InsertedOwner(heap, ow, f, l))
<1>1. l # Null
  BY ListAssumption DEF ObjOK, LinkedIn, AliveOf
<1> QED BY <1>1 DEF NoneLost, InsertedOwner, LinkedIn

LEMMA EndByPush ==
    ASSUME NEW ow, NEW ps, Inv(heap, obj, call, ow, ps), call.op # "destroy",
           NEW l, NEW p, NEW a, NEW b,
           LinkedIn(heap, obj, AliveOf(obj, call), ow, ps, heap', obj', Fresh, l, p, a, b),
           HeapOK(heap'), ObjOK(obj'), call' = NoCall, kind' = kind
    PROVE  Kept(ow)
<1> DEFINE w == InsertedOwner(heap, ow, Fresh, l)
           q == InsertedPlace(heap, ow, ps, Fresh, l, p)
<1>1. \A k \in AliveOf(obj, call) : obj[k].size \in Nat
  BY DEF Inv, Shape, ObjOK, IsList, AliveOf
<1>2. AliveOf(obj', call') = AliveOf(obj, call)
  BY IdleCall DEF AliveOf, LinkedIn
<1>3. Links(heap', obj', AliveOf(obj', call'), w, q)
  BY <1>1, <1>2, LinkKeepsLinks DEF Inv
<1>4. OwnersOK(heap', obj', w)
  BY DEF OwnersOK, LinkedIn, InsertedOwner, Inv, Shape, AliveOf
<1>5. CallOK(heap', obj', call', w, q) /\ IsCall(call')
  BY IdleCall
<1>6. NoneLost(ow, w)
  BY NewHasOwner DEF Inv, Shape
<1> HIDE DEF w, q
<1>7. Inv(heap', obj', call', w, q)
  BY <1>3, <1>4, <1>5 DEF Inv, Shape
<1> QED BY <1>6, <1>7 DEF Kept

LEMMA EndByDelete ==
    ASSUME NEW ow, NEW ps, Inv(heap, obj, call, ow, ps), call.op # "destroy",
           NEW l \in DOMAIN obj, NEW d \in DOMAIN heap, ow[d] = l,
           DeleteNode(l, d), call' = NoCall, kind' = kind
    PROVE  Kept(ow)
<1> DEFINE q == RemovedPlace(heap, ow, ps, d)
<1>0. l \in AliveOf(obj, call) /\ AliveOf(obj, call) = DOMAIN obj
  BY DEF AliveOf
<1>1. \A k \in AliveOf(obj, call) : obj[k].size \in Nat
  BY DEF Inv, Shape, ObjOK, IsList, AliveOf
<1>2. /\ LinkedOut(heap, obj, AliveOf(obj, call), ow, heap', obj', d, l)
      /\ HeapOK(heap') /\ ObjOK(obj')
  BY <1>0, DeleteLinks DEF Inv, Shape
<1>3. AliveOf(obj', call') = AliveOf(obj, call)
  BY <1>0, <1>2, IdleCall DEF LinkedOut
<1>4. Links(heap', obj', AliveOf(obj', call'), ow, q)
  BY <1>1, <1>2, <1>3, UnlinkKeepsLinks DEF Inv
<1>5. OwnersOK(heap', obj', ow)
  BY <1>2 DEF OwnersOK, LinkedOut, Inv, Shape
<1>6. CallOK(heap', obj', call', ow, q) /\ IsCall(call')
  BY IdleCall
<1> HIDE DEF q
<1>7. Inv(heap', obj', call', ow, q)
  BY <1>2, <1>4, <1>5, <1>6 DEF Inv, Shape
<1> QED BY <1>2, <1>7 DEF Kept, NoneLost, LinkedOut

LEMMA SameLinks ==
    ASSUME NEW h, NEW h2, NEW o, NEW A, NEW ow, NEW ps, Links(h, o, A, ow, ps),
           DOMAIN h2 = DOMAIN h,
           \A n \in DOMAIN h : h2[n].next = h[n].next /\ h2[n].prev = h[n].prev
    PROVE  Links(h2, o, A, ow, ps)
<1>1. InRange(h2, o, A, ow, ps) /\ OneEach(h2, A, ow, ps)
  BY DEF Links, InRange, OneEach
<1>2. Forward(h2, o, A, ow, ps)
  BY DEF Links, Forward, Stands
<1>3. Backward(h2, o, A, ow, ps)
  BY DEF Links, Backward, Stands
<1>4. EndsOK(h2, o, A, ow, ps)
  BY DEF Links, EndsOK, Stands
<1> QED BY <1>1, <1>2, <1>3, <1>4 DEF Links

LEMMA EndByChange ==
    ASSUME NEW ow, NEW ps, Inv(heap, obj, call, ow, ps), call.op # "destroy",
           NEW val, call.cur \in DOMAIN heap, Changed(val), call' = NoCall, kind' = kind
    PROVE  Kept(ow)
<1> DEFINE c == call.cur
<1>1. heap' = [heap EXCEPT ![c] = [heap[c] EXCEPT !.val = val]] /\ c \in DOMAIN heap
  BY DEF Changed
<1> HIDE DEF c
<1>2. \A n \in DOMAIN heap : IsNode(heap[n])
  BY DEF Inv, Shape, HeapOK
<1>3. /\ DOMAIN heap' = DOMAIN heap /\ heap' = [n \in DOMAIN heap' |-> heap'[n]]
      /\ heap'[c] = [heap[c] EXCEPT !.val = val]
      /\ \A n \in DOMAIN heap : n # c => heap'[n] = heap[n]
  BY <1>1, Updated
<1>4. heap'[c] = [key |-> heap[c].key, val |-> val, prev |-> heap[c].prev, next |-> heap[c].next]
  BY <1>1, <1>2, <1>3 DEF IsNode
<1>5. \A n \in DOMAIN heap :
         heap'[n].next = heap[n].next /\ heap'[n].prev = heap[n].prev /\ IsNode(heap'[n])
  BY <1>2, <1>3, <1>4 DEF IsNode
<1>6. HeapOK(heap')
  BY <1>3, <1>5 DEF Inv, Shape, HeapOK
<1>7. AliveOf(obj', call') = AliveOf(obj, call) /\ obj' = obj
  BY IdleCall DEF AliveOf, Changed
<1>8. Links(heap', obj', AliveOf(obj', call'), ow, ps)
  BY <1>3, <1>5, <1>7, SameLinks DEF Inv
<1>9. Inv(heap', obj', call', ow, ps)
  BY <1>3, <1>6, <1>7, <1>8, IdleCall DEF Inv, Shape, OwnersOK
<1> QED BY <1>3, <1>9 DEF Kept, NoneLost

-----------------------------------------------------------------------------
(* The calls that begin. *)

\* A call begins on lists and nodes that stay as they are.
LEMMA BeginKeeps ==
    ASSUME NEW ow, NEW ps, Inv(heap, obj, call, ow, ps), call.op # "destroy",
           heap' = heap, obj' = obj, kind' = kind,
           IsCall(call'), call'.op # "destroy", CallOK(heap, obj, call', ow, ps)
    PROVE  Kept(ow)
<1>1. AliveOf(obj', call') = AliveOf(obj, call)
  BY DEF AliveOf
<1>2. Inv(heap', obj', call', ow, ps)
  BY <1>1 DEF Inv, Shape
<1> QED BY <1>2 DEF Kept, NoneLost

\* The first node of a list.
LEMMA HeadOf ==
    ASSUME NEW ow, NEW ps, Inv(heap, obj, call, ow, ps), NEW l \in AliveOf(obj, call)
    PROVE  obj[l].head = Null \/ Stands(heap, ow, ps, obj[l].head, l, 1)
BY ListEnds DEF Inv, Shape

LEMMA IdleFacts ==
    ASSUME Idle
    PROVE  call.op = "none" /\ AliveOf(obj, call) = DOMAIN obj
BY IdleCall DEF Idle, AliveOf

LEMMA SearchBegins ==
    ASSUME NEW ow, NEW ps, Inv(heap, obj, call, ow, ps), kind \in Kinds,
           NEW l, NEW op \in Searches[kind], NEW key, NEW val, Search(op, l, key, val)
    PROVE  Kept(ow) /\ crashed' = crashed
<1>1. /\ l \in AliveOf(obj, call) /\ l \in DOMAIN obj /\ call.op = "none"
      /\ \E n \in Nodes : n \notin DOMAIN heap
  BY IdleFacts, RoomForOne DEF Search
<1>2. op \in LookOps \ {"push_ord", "get_at", "equal"} /\ op \notin {"copy", "destroy", "equal", "get_at"}
  BY Ops
<1>3. /\ call' = [op |-> op, on |-> l, key |-> key, val |-> val, from |-> Null,
                  cur |-> obj[l].head, other |-> Null]
      /\ heap' = heap /\ obj' = obj /\ kind' = kind /\ crashed' = crashed
  BY DEF Search, Begin
<1>4. IsCall(call') /\ call'.op = op /\ call'.on = l /\ call'.cur = obj[l].head
  BY <1>3 DEF IsCall
<1>5. CallOK(heap, obj, call', ow, ps)
  BY <1>1, <1>2, <1>4, HeadOf DEF CallOK, LookOK, RoomOK, EqualOK, CopyOK, DestroyOK, Stands
<1> QED BY <1>1, <1>2, <1>3, <1>4, <1>5, BeginKeeps

LEMMA PushOrdBegins ==
    ASSUME NEW ow, NEW ps, Inv(heap, obj, call, ow, ps), NEW l, NEW key, NEW ord, NEW val,
           PushOrd(l, key, ord, val)
    PROVE  Kept(ow) /\ crashed' = crashed
<1>1. /\ l \in AliveOf(obj, call) /\ l \in DOMAIN obj /\ call.op = "none"
      /\ \E n \in Nodes : n \notin DOMAIN heap
  BY IdleFacts, RoomForOne DEF PushOrd
<1>3. /\ call' = [op |-> "push_ord", on |-> l, key |-> key, val |-> <<ord, val>>, from |-> Null,
                  cur |-> obj[l].head, other |-> Null]
      /\ heap' = heap /\ obj' = obj /\ kind' = kind /\ crashed' = crashed
  BY DEF PushOrd, Begin
<1>4. IsCall(call') /\ call'.op = "push_ord" /\ call'.on = l /\ call'.cur = obj[l].head
  BY <1>3 DEF IsCall
<1>5. CallOK(heap, obj, call', ow, ps)
  BY <1>1, <1>4, HeadOf DEF CallOK, LookOK, RoomOK, EqualOK, CopyOK, DestroyOK, Stands
<1> QED BY <1>1, <1>3, <1>4, <1>5, BeginKeeps

LEMMA GetAtBegins ==
    ASSUME NEW ow, NEW ps, Inv(heap, obj, call, ow, ps), NEW l, NEW index, GetAt(l, index)
    PROVE  Kept(ow) /\ crashed' = crashed
<1>1. /\ l \in AliveOf(obj, call) /\ l \in DOMAIN obj /\ call.op = "none" /\ call = NoCall
      /\ heap' = heap /\ obj' = obj /\ kind' = kind /\ crashed' = crashed
  BY IdleFacts DEF GetAt, Idle
<1>2. CASE call' = call
  BY <1>1, <1>2, EndQuiet
<1>3. CASE call' = [op |-> "get_at", on |-> l, key |-> Null, val |-> index, from |-> Null,
                    cur |-> obj[l].head, other |-> index]
  <2>1. IsCall(call') /\ call'.op = "get_at" /\ call'.on = l /\ call'.cur = obj[l].head
    BY <1>3 DEF IsCall
  <2>2. CallOK(heap, obj, call', ow, ps)
    BY <1>1, <2>1, HeadOf DEF CallOK, LookOK, RoomOK, EqualOK, CopyOK, DestroyOK, Stands
  <2> QED BY <1>1, <2>1, <2>2, BeginKeeps
<1> QED BY <1>2, <1>3 DEF GetAt, Begin

LEMMA EqualBegins ==
    ASSUME NEW ow, NEW ps, Inv(heap, obj, call, ow, ps), NEW l, NEW from, Equal(l, from)
    PROVE  Kept(ow) /\ crashed' = crashed
<1>1. /\ l \in AliveOf(obj, call) /\ l \in DOMAIN obj
      /\ from \in AliveOf(obj, call) /\ from \in DOMAIN obj
      /\ call.op = "none" /\ call = NoCall
      /\ heap' = heap /\ obj' = obj /\ kind' = kind /\ crashed' = crashed
  BY IdleFacts DEF Equal, Idle
<1>2. CASE call' = call
  BY <1>1, <1>2, EndQuiet
<1>3. CASE /\ obj[l].size = obj[from].size
           /\ call' = [op |-> "equal", on |-> l, key |-> Null, val |-> Null, from |-> from,
                       cur |-> obj[l].head, other |-> obj[from].head]
  <2>1. /\ IsCall(call') /\ call'.op = "equal" /\ call'.on = l /\ call'.cur = obj[l].head
        /\ call'.from = from /\ call'.other = obj[from].head
    BY <1>3 DEF IsCall
  <2>2. obj[l].head = Null \/ Stands(heap, ow, ps, obj[l].head, l, 1)
    BY <1>1, HeadOf
  <2>3. obj[l].head = Null \/ Stands(heap, ow, ps, obj[from].head, from, 1)
    BY <1>1, <1>3, ListEnds DEF Inv, Shape
  <2>4. CallOK(heap, obj, call', ow, ps)
    BY <1>1, <1>3, <2>1, <2>2, <2>3 DEF CallOK, LookOK, RoomOK, EqualOK, CopyOK, DestroyOK, Stands
  <2> QED BY <1>1, <2>1, <2>4, BeginKeeps
<1> QED BY <1>2, <1>3 DEF Equal, Begin

-----------------------------------------------------------------------------
(* The objects come and go. *)

\* A new list without nodes beside the others.
LEMMA NewLinks ==
    ASSUME NEW ow, NEW ps, HeapOK(heap), ObjOK(obj), OwnersOK(heap, obj, ow),
           Links(heap, obj, DOMAIN obj, ow, ps),
           NEW l \in Objects, l \notin DOMAIN obj, obj' = With(l, Empty)
    PROVE  /\ ObjOK(obj') /\ DOMAIN obj' = DOMAIN obj \cup {l}
           /\ \A k \in DOMAIN obj : obj'[k] = obj[k]
           /\ OwnersOK(heap, obj', ow)
           /\ Links(heap, obj', DOMAIN obj', ow, ps)
<1>1. /\ DOMAIN obj' = DOMAIN obj \cup {l} /\ obj' = [k \in DOMAIN obj' |-> obj'[k]]
      /\ \A k \in DOMAIN obj : obj'[k] = obj[k]
      /\ obj'[l] = Empty
  BY DEF With
<1>2. IsList(Empty) /\ Empty.size = 0 /\ Empty.head = Null /\ Empty.tail = Null
  BY DEF IsList, Empty
<1>3. ObjOK(obj')
  BY <1>1, <1>2 DEF ObjOK
<1>4. \A n \in DOMAIN heap : ow[n] \in DOMAIN obj' => ow[n] \in DOMAIN obj
  BY <1>1, ListAssumption DEF OwnersOK
<1>5. InRange(heap, obj', DOMAIN obj', ow, ps)
  BY <1>1, <1>4 DEF Links, InRange
<1>6. Forward(heap, obj', DOMAIN obj', ow, ps)
  BY <1>1, <1>4 DEF Links, Forward
<1>7. Backward(heap, obj', DOMAIN obj', ow, ps)
  BY <1>1, <1>4 DEF Links, Backward
<1>8. OneEach(heap, DOMAIN obj', ow, ps)
  BY <1>4 DEF Links, OneEach
<1>9. EndsOK(heap, obj', DOMAIN obj', ow, ps)
  BY <1>1, <1>2 DEF Links, EndsOK
<1>10. OwnersOK(heap, obj', ow)
  BY <1>1 DEF OwnersOK
<1> QED BY <1>1, <1>3, <1>5, <1>6, <1>7, <1>8, <1>9, <1>10 DEF Links

LEMMA ConstructKeeps ==
    ASSUME NEW ow, NEW ps, Inv(heap, obj, call, ow, ps), NEW l \in Objects, Construct(l)
    PROVE  Kept(ow) /\ crashed' = crashed
<1>1. /\ l \notin DOMAIN obj /\ obj' = With(l, Empty) /\ AliveOf(obj, call) = DOMAIN obj
      /\ call = NoCall /\ call' = call /\ heap' = heap /\ kind' = kind /\ crashed' = crashed
  BY IdleFacts DEF Construct, Idle
<1>2. /\ ObjOK(obj') /\ OwnersOK(heap, obj', ow) /\ Links(heap, obj', DOMAIN obj', ow, ps)
  BY <1>1, NewLinks DEF Inv, Shape
<1>3. Inv(heap', obj', call', ow, ps)
  BY <1>1, <1>2, IdleCall DEF Inv, Shape
<1> QED BY <1>1, <1>3 DEF Kept, NoneLost

\* A copy has room for every node from the head on.
LEMMA CopyBegins ==
    ASSUME NEW o, NEW ow, NEW ps, NEW l, NEW from, NEW val, {l, from} \subseteq DOMAIN o, l # from,
           Cardinality(Nodes \ DOMAIN heap) >= o[from].size, o[from].size \in Nat,
           o[from].head = Null \/ Stands(heap, ow, ps, o[from].head, from, 1),
           call' = [op |-> "copy", on |-> l, key |-> Null, val |-> val, from |-> from,
                    cur |-> o[from].head, other |-> Null]
    PROVE  IsCall(call') /\ call'.op = "copy" /\ CallOK(heap, o, call', ow, ps)
<1>1. /\ IsCall(call') /\ call'.op = "copy" /\ call'.on = l /\ call'.from = from
      /\ call'.cur = o[from].head
  BY DEF IsCall
<1>2. CopyOK(heap, o, call', ow, ps)
  <2>1. CASE o[from].head = Null
    BY <1>1, <2>1 DEF CopyOK
  <2>2. CASE o[from].head # Null
    <3>1. /\ o[from].head \in DOMAIN heap /\ ow[o[from].head] = from /\ ps[o[from].head] = 1
          /\ o[from].size - 1 + 1 = o[from].size
      BY <2>2 DEF Stands
    <3> QED BY <1>1, <3>1 DEF CopyOK
  <2> QED BY <2>1, <2>2
<1> QED BY <1>1, <1>2, Ops DEF CallOK, LookOK, RoomOK, EqualOK, DestroyOK

LEMMA CopyConstructKeeps ==
    ASSUME NEW ow, NEW ps, Inv(heap, obj, call, ow, ps),
           NEW l \in Objects, NEW from \in Objects, CopyConstruct(l, from)
    PROVE  Kept(ow) /\ crashed' = crashed
<1>1. /\ l \notin DOMAIN obj /\ obj' = With(l, Empty) /\ AliveOf(obj, call) = DOMAIN obj
      /\ from \in DOMAIN obj /\ Cardinality(Nodes \ DOMAIN heap) >= obj[from].size
      /\ heap' = heap /\ kind' = kind /\ crashed' = crashed
      /\ call' = [op |-> "copy", on |-> l, key |-> Null, val |-> 0, from |-> from,
                  cur |-> obj[from].head, other |-> Null]
  BY IdleFacts DEF CopyConstruct, Begin, Room
<1>2. /\ ObjOK(obj') /\ OwnersOK(heap, obj', ow) /\ Links(heap, obj', DOMAIN obj', ow, ps)
      /\ obj'[from] = obj[from] /\ DOMAIN obj' = DOMAIN obj \cup {l}
  BY <1>1, NewLinks DEF Inv, Shape
<1>3. obj[from].size \in Nat /\ (obj[from].head = Null \/ Stands(heap, ow, ps, obj[from].head, from, 1))
  BY <1>1, HeadOf DEF Inv, Shape, ObjOK, IsList
<1>4. IsCall(call') /\ call'.op = "copy" /\ CallOK(heap, obj', call', ow, ps)
  BY <1>1, <1>2, <1>3, CopyBegins
<1>5. AliveOf(obj', call') = DOMAIN obj'
  BY <1>4 DEF AliveOf
<1>6. Inv(heap', obj', call', ow, ps)
  BY <1>1, <1>2, <1>4, <1>5 DEF Inv, Shape
<1> QED BY <1>1, <1>6 DEF Kept, NoneLost

LEMMA CopyAssignKeeps ==
    ASSUME NEW ow, NEW ps, Inv(heap, obj, call, ow, ps), NEW l, NEW from, CopyAssign(l, from)
    PROVE  Kept(ow) /\ crashed' = crashed
<1>1. /\ AliveOf(obj, call) = DOMAIN obj /\ l # from /\ call.op = "none"
      /\ {l, from} \subseteq DOMAIN obj /\ Cardinality(Nodes \ DOMAIN heap) >= obj[from].size
      /\ heap' = heap /\ obj' = obj /\ kind' = kind /\ crashed' = crashed
      /\ call' = [op |-> "copy", on |-> l, key |-> Null, val |-> obj[l].size, from |-> from,
                  cur |-> obj[from].head, other |-> Null]
  BY IdleFacts DEF CopyAssign, Begin, Room
<1>2. obj[from].size \in Nat /\ (obj[from].head = Null \/ Stands(heap, ow, ps, obj[from].head, from, 1))
  BY <1>1, HeadOf DEF Inv, Shape, ObjOK, IsList
<1>3. IsCall(call') /\ call'.op = "copy" /\ CallOK(heap, obj, call', ow, ps)
  BY <1>1, <1>2, CopyBegins
<1> QED BY <1>1, <1>3, BeginKeeps

\* The nodes of from become those of l, whose own are lost.
MovedOwner(h, ow, l, from) ==
    [n \in DOMAIN h |-> IF ow[n] = from THEN l ELSE IF ow[n] = l THEN Null ELSE ow[n]]

LEMMA MovedKeeps ==
    ASSUME NEW ow, NEW ps, Inv(heap, obj, call, ow, ps), Idle,
           NEW l \in Objects, NEW from \in DOMAIN obj, l # from, obj' = Moved(l, from),
           heap' = heap, call' = call, kind' = kind,
           l \in DOMAIN obj /\ obj[l].size > 0 => LosesList
    PROVE  Kept(ow)
<1> DEFINE w == MovedOwner(heap, ow, l, from)
           A == DOMAIN obj \cup {l}
<1>1. /\ DOMAIN obj' = A /\ obj' = [k \in DOMAIN obj' |-> obj'[k]]
      /\ obj'[l] = obj[from] /\ obj'[from] = Empty
      /\ \A k \in DOMAIN obj : k # l /\ k # from => obj'[k] = obj[k]
  BY DEF Moved
<1>2. IsList(Empty) /\ Empty.size = 0 /\ Empty.head = Null /\ Empty.tail = Null
  BY DEF IsList, Empty
<1>3. ObjOK(obj')
  BY <1>1, <1>2 DEF ObjOK, Inv, Shape
<1>4. AliveOf(obj, call) = DOMAIN obj /\ call = NoCall
  BY IdleFacts DEF Idle
<1>5. Null \notin A
  BY ListAssumption DEF Inv, Shape, ObjOK
<1>6. \A n \in DOMAIN heap :
         /\ w[n] = l <=> ow[n] = from
         /\ w[n] # from
         /\ \A k \in DOMAIN obj : k # l /\ k # from => (w[n] = k <=> ow[n] = k)
         /\ w[n] \in A => ow[n] \in DOMAIN obj /\ obj'[w[n]] = obj[ow[n]]
         /\ w[n] \in A \cup {Null}
  BY <1>1, <1>5 DEF MovedOwner, Inv, Shape, OwnersOK
<1>7. \A n, m \in DOMAIN heap : w[n] \in A => (w[n] = w[m] <=> ow[n] = ow[m])
  BY <1>5, <1>6 DEF MovedOwner
<1>16. \A n \in DOMAIN heap : w[n] = Null => ow[n] = l \/ ow[n] = Null
  BY ListAssumption DEF MovedOwner, Inv, Shape, ObjOK
<1> HIDE DEF w, A
<1>8. Links(heap, obj, DOMAIN obj, ow, ps)
  BY <1>4 DEF Inv
<1>9. InRange(heap, obj', A, w, ps)
  BY <1>6, <1>8 DEF Links, InRange
<1>10. Forward(heap, obj', A, w, ps)
  BY <1>6, <1>7, <1>8 DEF Links, Forward, Stands
<1>11. Backward(heap, obj', A, w, ps)
  BY <1>6, <1>7, <1>8 DEF Links, Backward, Stands
<1>12. OneEach(heap, A, w, ps)
  BY <1>6, <1>7, <1>8 DEF Links, OneEach
<1>13. EndsOK(heap, obj', A, w, ps)
  <2> SUFFICES ASSUME NEW k \in A
               PROVE  IF obj'[k].size = 0 THEN obj'[k].head = Null /\ obj'[k].tail = Null
                      ELSE /\ Stands(heap, w, ps, obj'[k].head, k, 1)
                           /\ Stands(heap, w, ps, obj'[k].tail, k, obj'[k].size)
    BY DEF EndsOK
  <2>1. CASE k = l
    BY <1>1, <1>6, <1>8, <2>1 DEF Links, EndsOK, Stands
  <2>2. CASE k = from
    BY <1>1, <1>2, <2>2
  <2>3. CASE k # l /\ k # from
    <3>1. k \in DOMAIN obj /\ obj'[k] = obj[k]
      BY <1>1, <2>3 DEF A
    <3> QED BY <1>6, <1>8, <2>3, <3>1 DEF Links, EndsOK, Stands
  <2> QED BY <2>1, <2>2, <2>3
<1>14. OwnersOK(heap, obj', w)
  BY <1>1, <1>6 DEF OwnersOK
<1>15. Inv(heap', obj', call', w, ps)
  BY <1>1, <1>3, <1>4, <1>9, <1>10, <1>11, <1>12, <1>13, <1>14, IdleCall DEF Inv, Shape, Links
<1>17. ASSUME ~ LosesList PROVE NoneLost(ow, w)
  <2>1. l \in DOMAIN obj => obj[l].size = 0
    BY <1>17 DEF Inv, Shape, ObjOK, IsList
  <2>2. \A n \in DOMAIN heap : ow[n] # l
    <3> SUFFICES ASSUME NEW n \in DOMAIN heap, ow[n] = l PROVE FALSE
      OBVIOUS
    <3>1. l \in DOMAIN obj
      BY ListAssumption DEF Inv, Shape, OwnersOK
    <3>2. 1 <= ps[n] /\ ps[n] <= obj[l].size /\ ps[n] \in Int
      BY <1>8, <3>1 DEF Links, InRange
    <3> QED BY <2>1, <3>1, <3>2
  <2> QED BY <1>16, <2>2 DEF NoneLost
<1> QED BY <1>15, <1>17 DEF Kept

LEMMA MoveKeeps ==
    ASSUME NEW ow, NEW ps, Inv(heap, obj, call, ow, ps), NEW l \in Objects, NEW from \in Objects,
           MoveConstruct(l, from) \/ MoveAssign(l, from)
    PROVE  Kept(ow) /\ crashed' = crashed
<1>1. /\ Idle /\ from \in DOMAIN obj /\ l # from /\ obj' = Moved(l, from)
      /\ heap' = heap /\ call' = call /\ kind' = kind /\ crashed' = crashed
  BY DEF MoveConstruct, MoveAssign
<1>2. l \in DOMAIN obj /\ obj[l].size > 0 => LosesList
  BY <1>1 DEF MoveConstruct, LosesList
<1> QED BY <1>1, <1>2, MovedKeeps

LEMMA DestroyBegins ==
    ASSUME NEW ow, NEW ps, Inv(heap, obj, call, ow, ps), NEW l, Destroy(l)
    PROVE  Kept(ow) /\ crashed' = crashed
<1>1. /\ AliveOf(obj, call) = DOMAIN obj /\ l \in DOMAIN obj
      /\ heap' = heap /\ obj' = obj /\ kind' = kind /\ crashed' = crashed
      /\ call' = [op |-> "destroy", on |-> l, key |-> Null, val |-> Null, from |-> Null,
                  cur |-> IF obj[l].size > 0 THEN obj[l].head ELSE Null, other |-> Null]
  BY IdleFacts DEF Destroy, Begin
<1>2. /\ IsCall(call') /\ call'.op = "destroy" /\ call'.on = l
      /\ call'.cur = IF obj[l].size > 0 THEN obj[l].head ELSE Null
  BY <1>1 DEF IsCall
<1>3. /\ InRange(heap, obj, DOMAIN obj, ow, ps) /\ Forward(heap, obj, DOMAIN obj, ow, ps)
      /\ Backward(heap, obj, DOMAIN obj, ow, ps) /\ OneEach(heap, DOMAIN obj, ow, ps)
      /\ EndsOK(heap, obj, DOMAIN obj, ow, ps)
  BY <1>1 DEF Inv, Links
<1>4. AliveOf(obj', call') \subseteq DOMAIN obj
  BY <1>1, <1>2 DEF AliveOf
<1>5. Links(heap', obj', AliveOf(obj', call'), ow, ps)
  BY <1>1, <1>3, <1>4 DEF Links, InRange, Forward, Backward, OneEach, EndsOK
<1>6. /\ obj[l].size \in Nat
      /\ obj[l].size # 0 => Stands(heap, ow, ps, obj[l].head, l, 1)
  BY <1>1, ListEnds DEF Inv, Shape
<1>7. DestroyOK(heap, obj, call', ow, ps)
  <2>1. InRange(heap, obj, {l}, ow, ps) /\ Forward(heap, obj, {l}, ow, ps) /\ OneEach(heap, {l}, ow, ps)
    BY <1>1, <1>3 DEF InRange, Forward, OneEach
  <2>2. CASE obj[l].size = 0
    <3>1. \A n \in DOMAIN heap : ow[n] # l
      BY <2>1, <2>2 DEF InRange
    <3> QED BY <1>1, <1>2, <2>1, <2>2, <3>1 DEF DestroyOK
  <2>3. CASE obj[l].size # 0
    <3>1. /\ call'.cur = obj[l].head /\ call'.cur \in DOMAIN heap
          /\ ow[call'.cur] = l /\ ps[call'.cur] = 1
      BY <1>2, <1>6, <2>3 DEF Stands
    <3>2. call'.cur # Null
      BY <3>1, NullIsNoNode DEF Inv, Shape
    <3>3. \A n \in DOMAIN heap : ow[n] = l => ps[n] >= 1
      BY <2>1 DEF InRange
    <3> QED BY <1>1, <1>2, <2>1, <3>1, <3>2, <3>3 DEF DestroyOK
  <2> QED BY <2>2, <2>3
<1>8. CallOK(heap', obj', call', ow, ps)
  BY <1>1, <1>2, <1>7, Ops DEF CallOK, LookOK, RoomOK, EqualOK, CopyOK
<1>9. Inv(heap', obj', call', ow, ps)
  BY <1>1, <1>2, <1>5, <1>8 DEF Inv, Shape
<1> QED BY <1>1, <1>9 DEF Kept, NoneLost

-----------------------------------------------------------------------------
(* The calls without a loop. *)

LEMMA PushFrontKeeps ==
    ASSUME NEW ow, NEW ps, Inv(heap, obj, call, ow, ps), NEW l, NEW key, PushFront(l, key)
    PROVE  Kept(ow) /\ crashed' = crashed
<1>1. /\ l \in AliveOf(obj, call) /\ call = NoCall /\ call.op # "destroy"
      /\ \E n \in Nodes : n \notin DOMAIN heap
  BY IdleFacts, RoomForOne DEF PushFront, Idle
<1>2. obj[l].head = Null \/ MayLink(obj[l].head)
  BY <1>1, ListEnds DEF Inv, Shape
<1>3. PushFt(l, key, Null) /\ call' = NoCall /\ kind' = kind /\ crashed' = crashed
  BY <1>1, <1>2 DEF PushFront, Done
<1>4. PICK a, b : /\ LinkedIn(heap, obj, AliveOf(obj, call), ow, ps, heap', obj', Fresh, l, 1, a, b)
                  /\ HeapOK(heap') /\ ObjOK(obj')
  BY <1>1, <1>3, PushFtLinks DEF Inv, Shape
<1> QED BY <1>1, <1>3, <1>4, EndByPush

LEMMA PushBackKeeps ==
    ASSUME NEW ow, NEW ps, Inv(heap, obj, call, ow, ps), NEW l, NEW key, NEW val,
           PushBack(l, key, val)
    PROVE  Kept(ow) /\ crashed' = crashed
<1>1. /\ l \in AliveOf(obj, call) /\ call = NoCall /\ call.op # "destroy"
      /\ \E n \in Nodes : n \notin DOMAIN heap
  BY IdleFacts, RoomForOne DEF PushBack, Idle
<1>2. MayPushBk(l)
  BY <1>1, ListEnds DEF Inv, Shape
<1>3. PushBk(l, key, val) /\ call' = NoCall /\ kind' = kind /\ crashed' = crashed
  BY <1>1, <1>2 DEF PushBack, Done
<1>4. /\ LinkedIn(heap, obj, AliveOf(obj, call), ow, ps, heap', obj', Fresh, l,
                  obj[l].size + 1, obj[l].tail, Null)
      /\ HeapOK(heap') /\ ObjOK(obj')
  BY <1>1, <1>3, PushBkLinks DEF Inv, Shape
<1> QED BY <1>1, <1>3, <1>4, EndByPush

LEMMA PopKeeps ==
    ASSUME NEW ow, NEW ps, Inv(heap, obj, call, ow, ps), NEW l, Pop(l)
    PROVE  Kept(ow) /\ (crashed' = crashed \/ obj[l].size = 0)
<1>1. /\ l \in AliveOf(obj, call) /\ l \in DOMAIN obj /\ call = NoCall /\ call.op # "destroy"
  BY IdleFacts DEF Pop, Idle
<1>2. CASE MayLink(obj[l].tail)
  <2>1. DeleteNode(l, obj[l].tail) /\ call' = NoCall /\ kind' = kind /\ crashed' = crashed
    BY <1>1, <1>2 DEF Pop, Done
  <2>2. obj[l].tail \in DOMAIN heap
    BY <1>2 DEF MayLink
  <2>3. obj[l].size # 0
    BY <1>1, <2>2, ListEnds, NullIsNoNode DEF Inv, Shape
  <2>4. ow[obj[l].tail] = l
    BY <1>1, <2>3, ListEnds DEF Inv, Shape, Stands
  <2> QED BY <1>1, <2>1, <2>2, <2>4, EndByDelete
<1>3. CASE ~ MayLink(obj[l].tail)
  <2>1. obj[l].size = 0
    BY <1>1, <1>3, ListEnds DEF Inv, Shape
  <2>2. heap' = heap /\ obj' = obj /\ call' = NoCall /\ kind' = kind
    BY <1>1, <1>3 DEF Pop, Fault
  <2> QED BY <1>1, <2>1, <2>2, EndQuiet
<1> QED BY <1>2, <1>3

-----------------------------------------------------------------------------
(* The loops that look for a node. *)

\* Where a loop that looks for a node stands.
LEMMA LoopFacts ==
    ASSUME NEW ow, NEW ps, Inv(heap, obj, call, ow, ps), call.op \in LookOps
    PROVE  /\ call.op # "destroy" /\ call.op # "copy" /\ call.on \in DOMAIN obj
           /\ AliveOf(obj, call) = DOMAIN obj
           /\ call.cur = Null \/ (call.cur \in DOMAIN heap /\ ow[call.cur] = call.on)
           /\ call.cur # Null => Follows \subseteq DOMAIN heap /\ MayLink(call.cur)
<1>1. /\ call.op # "destroy" /\ call.op # "copy" /\ call.on \in DOMAIN obj
      /\ call.cur = Null \/ (call.cur \in DOMAIN heap /\ ow[call.cur] = call.on)
  BY Ops DEF Inv, CallOK, LookOK
<1>2. AliveOf(obj, call) = DOMAIN obj
  BY <1>1 DEF AliveOf
<1>3. call.cur # Null => MayLink(call.cur)
  BY <1>1, <1>2, NodesMayLink DEF Inv
<1>4. call.cur # Null => Follows \subseteq DOMAIN heap
  BY <1>1 DEF Follows, Inv, CallOK, EqualOK, Stands
<1> QED BY <1>1, <1>2, <1>3, <1>4

LEMMA WalkKeeps ==
    ASSUME NEW ow, NEW ps, Inv(heap, obj, call, ow, ps), Walk
    PROVE  Kept(ow) /\ crashed' = crashed
<1> DEFINE o1 == CASE call.op = "equal"  -> heap[call.other].next
                   [] call.op = "get_at" -> call.other - 1
                   [] OTHER              -> call.other
<1>1. call.op \in LookOps /\ call.cur # Null
  BY DEF Walk, Looking, Doing
<1>2. /\ call.op # "destroy" /\ call.op # "copy" /\ call.on \in DOMAIN obj
      /\ AliveOf(obj, call) = DOMAIN obj
      /\ call.cur \in DOMAIN heap /\ ow[call.cur] = call.on
      /\ Follows \subseteq DOMAIN heap
  BY <1>1, LoopFacts
<1>3. /\ call' = [call EXCEPT !.cur = heap[call.cur].next, !.other = o1]
      /\ heap' = heap /\ obj' = obj /\ kind' = kind /\ crashed' = crashed
  BY <1>2 DEF Walk
<1>4. IsCall(call)
  BY DEF Inv, Shape
<1>5. /\ IsCall(call') /\ call'.op = call.op /\ call'.on = call.on /\ call'.from = call.from
      /\ call'.cur = heap[call.cur].next
      /\ call.op = "equal" => call'.other = heap[call.other].next
  <2> HIDE DEF o1
  <2>1. call' = [op |-> call.op, on |-> call.on, key |-> call.key, val |-> call.val,
                 from |-> call.from, cur |-> heap[call.cur].next, other |-> o1]
    BY <1>3, <1>4 DEF IsCall
  <2>2. call.op = "equal" => o1 = heap[call.other].next
    BY DEF o1
  <2> QED BY <2>1, <2>2 DEF IsCall
<1>6. IF ps[call.cur] = obj[call.on].size THEN heap[call.cur].next = Null
      ELSE Stands(heap, ow, ps, heap[call.cur].next, call.on, ps[call.cur] + 1)
  BY <1>2 DEF Inv, Links, Forward
<1>7. LookOK(heap, obj, call', ow)
  BY <1>2, <1>5, <1>6 DEF LookOK, Stands
<1>8. RoomOK(heap, call')
  BY <1>5 DEF RoomOK, Inv, CallOK
<1>9. EqualOK(heap, obj, call', ow, ps)
  <2> SUFFICES ASSUME call.op = "equal"
               PROVE  EqualOK(heap, obj, call', ow, ps)
    BY <1>5 DEF EqualOK
  <2>1. /\ call.from \in DOMAIN obj /\ obj[call.on].size = obj[call.from].size
        /\ Stands(heap, ow, ps, call.other, call.from, ps[call.cur])
    BY <1>1 DEF Inv, CallOK, EqualOK
  <2>2. IF ps[call.cur] = obj[call.on].size THEN heap[call.other].next = Null
        ELSE Stands(heap, ow, ps, heap[call.other].next, call.from, ps[call.cur] + 1)
    BY <1>2, <2>1 DEF Inv, Links, Forward, Stands
  <2>3. CASE ps[call.cur] = obj[call.on].size
    BY <1>5, <1>6, <2>1, <2>3 DEF EqualOK
  <2>4. CASE ps[call.cur] # obj[call.on].size
    <3>1. ps[call'.cur] = ps[call.cur] + 1
      BY <1>5, <1>6, <2>4 DEF Stands
    <3>2. Stands(heap, ow, ps, call'.other, call'.from, ps[call'.cur])
      BY <1>5, <2>2, <2>4, <3>1
    <3> QED BY <1>5, <2>1, <3>2 DEF EqualOK
  <2> QED BY <2>3, <2>4
<1>10. CallOK(heap, obj, call', ow, ps)
  BY <1>2, <1>5, <1>7, <1>8, <1>9 DEF CallOK, CopyOK, DestroyOK
<1> QED BY <1>2, <1>3, <1>5, <1>10, BeginKeeps

\* The loop ended: at a node it looked for, or behind the last.
LEMMA FoundFacts ==
    ASSUME NEW ow, NEW ps, Inv(heap, obj, call, ow, ps), NEW op \in LookOps, Found(op)
    PROVE  /\ call.op \in LookOps /\ call.op # "destroy" /\ call.on \in DOMAIN obj
           /\ call.cur \in DOMAIN heap /\ ow[call.cur] = call.on /\ MayLink(call.cur)
<1>1. call.op \in LookOps /\ call.cur \in DOMAIN heap
  BY DEF Found, Doing, Follows
<1>2. call.cur # Null
  BY <1>1, NullIsNoNode DEF Inv, Shape
<1> QED BY <1>1, <1>2, LoopFacts

LEMMA PushReturns ==
    ASSUME NEW ow, NEW ps, Inv(heap, obj, call, ow, ps), NEW op \in LookOps \ {"get_at", "equal"},
           Missed(op), NEW val, NEW result, Push(val, result)
    PROVE  Kept(ow) /\ crashed' = crashed
<1>1. /\ call.op \in LookOps \ {"get_at", "equal"} /\ call.op # "destroy"
      /\ call.on \in AliveOf(obj, call)
  BY LoopFacts DEF Missed, Doing
<1>2. \E n \in Nodes : n \notin DOMAIN heap
  BY <1>1 DEF Inv, CallOK, RoomOK
<1>3. MayPushBk(call.on)
  BY <1>1, ListEnds DEF Inv, Shape
<1>4. /\ PushBk(call.on, call.key, val)
      /\ call' = NoCall /\ kind' = kind /\ crashed' = crashed
  BY <1>3 DEF Push, Return
<1> DEFINE l == call.on
           k == call.key
<1>5. l \in AliveOf(obj, call) /\ PushBk(l, k, val)
  BY <1>1, <1>4
<1> HIDE DEF l, k
<1>6. /\ LinkedIn(heap, obj, AliveOf(obj, call), ow, ps, heap', obj', Fresh, l,
                  obj[l].size + 1, obj[l].tail, Null)
      /\ HeapOK(heap') /\ ObjOK(obj')
  BY <1>2, <1>5, PushBkLinks DEF Inv, Shape
<1> QED BY <1>1, <1>4, <1>6, EndByPush

LEMMA QuietReturns ==
    ASSUME NEW ow, NEW ps, Inv(heap, obj, call, ow, ps), NEW op \in LookOps,
           Missed(op) \/ Found(op), Same, NEW result, Return(result)
    PROVE  Kept(ow) /\ crashed' = crashed
<1>1. call.op # "destroy"
  BY Ops DEF Missed, Found, Doing
<1> QED BY <1>1, EndQuiet DEF Same, Return

LEMMA ChangeReturns ==
    ASSUME NEW ow, NEW ps, Inv(heap, obj, call, ow, ps), NEW op \in LookOps, Found(op),
           NEW val, Changed(val), NEW result, Return(result)
    PROVE  Kept(ow) /\ crashed' = crashed
<1>1. call.op # "destroy" /\ call.cur \in DOMAIN heap
  BY FoundFacts
<1> QED BY <1>1, EndByChange DEF Return

LEMMA DropReturns ==
    ASSUME NEW ow, NEW ps, Inv(heap, obj, call, ow, ps), NEW op \in LookOps, Found(op),
           NEW result, Drop(result)
    PROVE  Kept(ow) /\ crashed' = crashed
<1> DEFINE l == call.on
           d == call.cur
<1>1. /\ call.op # "destroy" /\ l \in DOMAIN obj /\ d \in DOMAIN heap /\ ow[d] = l /\ MayLink(d)
  BY FoundFacts
<1>2. DeleteNode(l, d) /\ call' = NoCall /\ kind' = kind /\ crashed' = crashed
  BY <1>1 DEF Drop, Return
<1> HIDE DEF l, d
<1> QED BY <1>1, <1>2, EndByDelete

LEMMA SearchReturns ==
    ASSUME NEW ow, NEW ps, Inv(heap, obj, call, ow, ps),
           \/ Insert \/ InsertUpdate \/ Update \/ Get \/ DeleteKey \/ FrePush \/ FrePop
           \/ CortinaAppend \/ AtIndex \/ Compared
    PROVE  Kept(ow) /\ crashed' = crashed
<1>1. CASE Insert
  BY <1>1, Ops, PushReturns, QuietReturns DEF Insert
<1>2. CASE InsertUpdate
  BY <1>2, Ops, PushReturns, ChangeReturns DEF InsertUpdate
<1>3. CASE Update
  BY <1>3, Ops, QuietReturns, ChangeReturns DEF Update
<1>4. CASE Get
  BY <1>4, Ops, QuietReturns DEF Get
<1>5. CASE DeleteKey
  BY <1>5, Ops, QuietReturns, DropReturns DEF DeleteKey
<1>6. CASE FrePush
  BY <1>6, Ops, PushReturns, ChangeReturns DEF FrePush
<1>7. CASE FrePop
  BY <1>7, Ops, QuietReturns, ChangeReturns, DropReturns DEF FrePop
<1>8. CASE CortinaAppend
  BY <1>8, Ops, PushReturns, ChangeReturns DEF CortinaAppend
<1>9. CASE AtIndex
  BY <1>9, Ops, QuietReturns DEF AtIndex
<1>10. CASE Compared
  BY <1>10, Ops, QuietReturns DEF Compared
<1> QED BY <1>1, <1>2, <1>3, <1>4, <1>5, <1>6, <1>7, <1>8, <1>9, <1>10

LEMMA OrdPushedKeeps ==
    ASSUME NEW ow, NEW ps, Inv(heap, obj, call, ow, ps), OrdPushed
    PROVE  Kept(ow) /\ crashed' = crashed
<1>1. CASE Missed("push_ord") /\ Push(call.val[2], Nothing)
  BY <1>1, Ops, PushReturns
<1>2. CASE Found("push_ord")
  <2> DEFINE l == call.on
             at == call.cur
             key == call.key
             val == call.val[2]
  <2>1. /\ call.op = "push_ord" /\ call.op \in LookOps \ {"get_at", "equal"}
    BY <1>2, Ops DEF Found, Doing
  <2>2. /\ call.op # "destroy" /\ l \in AliveOf(obj, call)
        /\ at \in DOMAIN heap /\ ow[at] = l /\ MayLink(at)
    BY <1>2, <2>1, FoundFacts, LoopFacts
  <2>3. \E n \in Nodes : n \notin DOMAIN heap
    BY <2>1 DEF Inv, CallOK, RoomOK
  <2>4. LinkBefore(l, at, key, val) /\ call' = NoCall /\ kind' = kind /\ crashed' = crashed
    <3>1. ~ Missed("push_ord")
      BY <2>2, NullIsNoNode DEF Missed, Inv, Shape
    <3> QED BY <2>2, <3>1 DEF OrdPushed, Return
  <2> HIDE DEF l, at, key, val
  <2>5. /\ heap' = PushBefore(at, key, val)
        /\ obj' = [obj EXCEPT ![l] = Grown(obj[l], IF at = obj[l].head THEN Fresh ELSE obj[l].head,
                                           obj[l].tail)]
    BY <2>4 DEF LinkBefore
  <2>6. /\ LinkedIn(heap, obj, AliveOf(obj, call), ow, ps, heap', obj', Fresh, l,
                    ps[at], heap[at].prev, at)
        /\ HeapOK(heap') /\ ObjOK(obj')
    BY <2>2, <2>3, <2>5, PushBeforeLinks DEF Inv, Shape
  <2> QED BY <2>2, <2>4, <2>6, EndByPush
<1> QED BY <1>1, <1>2 DEF OrdPushed

-----------------------------------------------------------------------------
(* The copy and the destructor, node by node. *)

LEMMA RoomShrinks ==
    ASSUME DOMAIN heap \subseteq Nodes, Fresh \in Nodes \ DOMAIN heap,
           DOMAIN heap' = DOMAIN heap \cup {Fresh}
    PROVE  /\ Cardinality(Nodes \ DOMAIN heap) \in Nat
           /\ Cardinality(Nodes \ DOMAIN heap') = Cardinality(Nodes \ DOMAIN heap) - 1
<1> DEFINE free == Nodes \ DOMAIN heap
<1>1. IsFiniteSet(free)
  BY ListAssumption, FS_Subset
<1>2. Nodes \ DOMAIN heap' = free \ {Fresh} /\ Fresh \in free
  OBVIOUS
<1> HIDE DEF free
<1>3. Cardinality(free) \in Nat /\ Cardinality(free \ {Fresh}) = Cardinality(free) - 1
  BY <1>1, <1>2, FS_CardinalityType, FS_RemoveElement
<1> QED BY <1>2, <1>3 DEF free

LEMMA CopyNodeKeeps ==
    ASSUME NEW ow, NEW ps, Inv(heap, obj, call, ow, ps), CopyNode
    PROVE  Kept(ow) /\ crashed' = crashed
<1> DEFINE l == call.on
           from == call.from
           c == call.cur
           room == Cardinality(Nodes \ DOMAIN heap)
           key == heap[c].key
           val == heap[c].val
<1>1. /\ call.op = "copy" /\ c # Null
      /\ {l, from} \subseteq DOMAIN obj /\ l # from
      /\ c \in DOMAIN heap /\ ow[c] = from
      /\ room >= obj[from].size - ps[c] + 1
  BY DEF CopyNode, Doing, Inv, CallOK, CopyOK
<1>2. AliveOf(obj, call) = DOMAIN obj /\ IsCall(call)
  BY <1>1 DEF AliveOf, Inv, Shape
<1>3. MayPushBk(l)
  BY <1>1, <1>2, ListEnds DEF Inv, Shape
<1>4. /\ PushBk(l, key, val) /\ call' = [call EXCEPT !.cur = heap[c].next]
      /\ kind' = kind /\ crashed' = crashed
  BY <1>1, <1>3 DEF CopyNode
<1>5. ps[c] \in Int /\ 1 <= ps[c] /\ ps[c] <= obj[from].size /\ obj[from].size \in Nat
  BY <1>1, <1>2 DEF Inv, Links, InRange, Shape, ObjOK, IsList
<1>6. IF ps[c] = obj[from].size THEN heap[c].next = Null
      ELSE Stands(heap, ow, ps, heap[c].next, from, ps[c] + 1)
  BY <1>1, <1>2 DEF Inv, Links, Forward
<1>7. \E n \in Nodes : n \notin DOMAIN heap
  <2>1. CASE Nodes \ DOMAIN heap = {}
    <3>1. room = 0
      BY <2>1, FS_EmptySet
    <3> QED BY <1>1, <1>5, <3>1
  <2> QED BY <2>1
<1>8. /\ call'.op = "copy" /\ call'.on = l /\ call'.from = from /\ call'.cur = heap[c].next
      /\ IsCall(call')
  <2>1. call' = [op |-> call.op, on |-> call.on, key |-> call.key, val |-> call.val,
                 from |-> call.from, cur |-> heap[c].next, other |-> call.other]
    BY <1>2, <1>4 DEF IsCall
  <2> QED BY <1>1, <2>1 DEF IsCall
<1> HIDE DEF l, from, c, key, val
<1>9. /\ LinkedIn(heap, obj, AliveOf(obj, call), ow, ps, heap', obj', Fresh, l,
                  obj[l].size + 1, obj[l].tail, Null)
      /\ HeapOK(heap') /\ ObjOK(obj')
      /\ Fresh \in Nodes \ DOMAIN heap /\ DOMAIN heap' = DOMAIN heap \cup {Fresh}
  BY <1>1, <1>2, <1>4, <1>7, PushBkLinks DEF Inv, Shape
<1> DEFINE p == obj[l].size + 1
           w == InsertedOwner(heap, ow, Fresh, l)
           q == InsertedPlace(heap, ow, ps, Fresh, l, p)
<1>10. \A k \in AliveOf(obj, call) : obj[k].size \in Nat
  BY DEF Inv, Shape, ObjOK, IsList, AliveOf
<1>11. Links(heap', obj', AliveOf(obj, call), w, q)
  BY <1>9, <1>10, LinkKeepsLinks DEF Inv
<1>12. DOMAIN obj' = DOMAIN obj /\ obj'[from] = obj[from]
  BY <1>1, <1>9 DEF LinkedIn
<1>13. AliveOf(obj', call') = AliveOf(obj, call)
  BY <1>2, <1>8, <1>12 DEF AliveOf
<1>14. OwnersOK(heap', obj', w)
  BY <1>1, <1>9, <1>12 DEF OwnersOK, InsertedOwner, Inv, Shape
<1>20. NoneLost(ow, w)
  BY <1>9, NewHasOwner DEF Inv, Shape
<1>15. \A n \in DOMAIN heap : ow[n] = from => w[n] = from /\ q[n] = ps[n]
  BY <1>1, <1>9 DEF InsertedOwner, InsertedPlace
<1> HIDE DEF w, q
<1>16. room \in Nat /\ Cardinality(Nodes \ DOMAIN heap') = room - 1
  BY <1>9, RoomShrinks DEF Inv, Shape, HeapOK
<1> HIDE DEF room
<1>17. CopyOK(heap', obj', call', w, q)
  <2>1. CASE ps[c] = obj[from].size
    BY <1>1, <1>6, <1>8, <1>12, <2>1 DEF CopyOK
  <2>2. CASE ps[c] # obj[from].size
    <3>1. /\ heap[c].next \in DOMAIN heap' /\ w[heap[c].next] = from
          /\ q[heap[c].next] = ps[c] + 1
      BY <1>6, <1>9, <1>15, <2>2 DEF Stands
    <3>2. room - 1 >= obj[from].size - (ps[c] + 1) + 1
      BY <1>1, <1>5, <1>16
    <3> QED BY <1>1, <1>8, <1>12, <1>16, <3>1, <3>2 DEF CopyOK
  <2> QED BY <2>1, <2>2
<1>18. CallOK(heap', obj', call', w, q)
  BY <1>8, <1>17, Ops DEF CallOK, LookOK, RoomOK, EqualOK, DestroyOK
<1>19. Inv(heap', obj', call', w, q)
  BY <1>8, <1>9, <1>11, <1>13, <1>14, <1>18 DEF Inv, Shape
<1> QED BY <1>4, <1>19, <1>20 DEF Kept

LEMMA CopiedKeeps ==
    ASSUME NEW ow, NEW ps, Inv(heap, obj, call, ow, ps), Copied
    PROVE  Kept(ow) /\ crashed' = crashed
<1>1. /\ call.op # "destroy" /\ heap' = heap /\ obj' = obj /\ call' = NoCall /\ kind' = kind
      /\ crashed' = crashed
  BY DEF Copied, Doing
<1> QED BY <1>1, EndQuiet

LEMMA FreeNodeKeeps ==
    ASSUME NEW ow, NEW ps, Inv(heap, obj, call, ow, ps), FreeNode
    PROVE  Kept(ow) /\ crashed' = crashed
<1> DEFINE l == call.on
           c == call.cur
           A == AliveOf(obj, call)
<1>1. /\ call.op = "destroy" /\ c # Null /\ l \in DOMAIN obj
      /\ InRange(heap, obj, {l}, ow, ps) /\ Forward(heap, obj, {l}, ow, ps)
      /\ OneEach(heap, {l}, ow, ps)
      /\ c \in DOMAIN heap /\ ow[c] = l
      /\ \A n \in DOMAIN heap : ow[n] = l => ps[n] >= ps[c]
  BY DEF FreeNode, Doing, Inv, CallOK, DestroyOK
<1>2. /\ heap' = [n \in DOMAIN heap \ {c} |-> heap[n]]
      /\ call' = [call EXCEPT !.cur = heap[c].next]
      /\ kind' = kind /\ obj' = obj /\ crashed' = crashed
  BY <1>1 DEF FreeNode
<1>3. /\ call'.op = "destroy" /\ call'.on = l /\ call'.cur = heap[c].next /\ IsCall(call')
  <2>1. IsCall(call)
    BY DEF Inv, Shape
  <2>2. call' = [op |-> call.op, on |-> call.on, key |-> call.key, val |-> call.val,
                 from |-> call.from, cur |-> heap[c].next, other |-> call.other]
    BY <1>2, <2>1 DEF IsCall
  <2> QED BY <1>1, <2>2 DEF IsCall
<1>4. l \notin A /\ AliveOf(obj', call') = A /\ A \subseteq DOMAIN obj
  BY <1>1, <1>2, <1>3 DEF AliveOf
<1>5. Links(heap, obj, A, ow, ps)
  BY DEF Inv
<1>6. HeapOK(heap)
  BY DEF Inv, Shape
<1> HIDE DEF l, c, A
<1>7. /\ DOMAIN heap' = DOMAIN heap \ {c}
      /\ \A n \in DOMAIN heap' : n \in DOMAIN heap /\ n # c /\ heap'[n] = heap[n]
  BY <1>2
<1>8. HeapOK(heap')
  BY <1>2, <1>6, <1>7 DEF HeapOK
<1>9. \A n, k, p : Stands(heap, ow, ps, n, k, p) /\ k \in A => Stands(heap', ow, ps, n, k, p)
  BY <1>1, <1>4, <1>7 DEF Stands
<1>10. InRange(heap', obj, A, ow, ps) /\ OneEach(heap', A, ow, ps)
  BY <1>5, <1>7 DEF Links, InRange, OneEach
<1>11. Forward(heap', obj, A, ow, ps)
  BY <1>5, <1>7, <1>9 DEF Links, Forward
<1>12. Backward(heap', obj, A, ow, ps)
  BY <1>5, <1>7, <1>9 DEF Links, Backward
<1>13. EndsOK(heap', obj, A, ow, ps)
  BY <1>5, <1>9 DEF Links, EndsOK
<1>14. OwnersOK(heap', obj, ow)
  BY <1>7 DEF OwnersOK, Inv, Shape
<1>15. DestroyOK(heap', obj, call', ow, ps)
  <2>1. InRange(heap', obj, {l}, ow, ps) /\ OneEach(heap', {l}, ow, ps)
    BY <1>1, <1>7 DEF InRange, OneEach
  <2>2. \A n \in DOMAIN heap : ow[n] = l => ps[n] \in Int /\ ps[n] <= obj[l].size
    BY <1>1 DEF InRange
  <2>3. \A n \in DOMAIN heap' : ow[n] = l => ps[n] # ps[c] /\ ps[n] >= ps[c] + 1
    <3>1. \A n \in DOMAIN heap' : ow[n] = l => ps[n] # ps[c]
      BY <1>1, <1>7 DEF OneEach
    <3> QED BY <1>1, <1>7, <2>2, <3>1
  <2>4. Forward(heap', obj, {l}, ow, ps)
    <3> SUFFICES ASSUME NEW n \in DOMAIN heap', ow[n] = l
                 PROVE  IF ps[n] = obj[l].size THEN heap'[n].next = Null
                        ELSE Stands(heap', ow, ps, heap'[n].next, l, ps[n] + 1)
      BY DEF Forward
    <3>1. IF ps[n] = obj[l].size THEN heap[n].next = Null
          ELSE Stands(heap, ow, ps, heap[n].next, l, ps[n] + 1)
      BY <1>1, <1>7 DEF Forward
    <3>2. heap[n].next = c => ps[n] = obj[l].size
      <4>1. ps[n] >= ps[c] + 1 /\ ps[n] \in Int /\ ps[c] \in Int
        BY <1>1, <1>7, <2>2, <2>3
      <4> QED BY <3>1, <4>1 DEF Stands
    <3> QED BY <1>7, <3>1, <3>2 DEF Stands
  <2>5. IF ps[c] = obj[l].size THEN heap[c].next = Null
        ELSE Stands(heap, ow, ps, heap[c].next, l, ps[c] + 1)
    BY <1>1 DEF Forward
  <2>6. ps[c] \in Int /\ obj[l].size \in Nat
    BY <1>1, <2>2 DEF Inv, Shape, ObjOK, IsList
  <2>7. CASE ps[c] = obj[l].size
    <3>1. \A n \in DOMAIN heap' : ow[n] # l
      BY <1>7, <2>2, <2>3, <2>6, <2>7
    <3> QED BY <1>1, <1>3, <2>1, <2>4, <2>5, <2>7, <3>1 DEF DestroyOK
  <2>8. CASE ps[c] # obj[l].size
    <3>1. /\ heap[c].next \in DOMAIN heap /\ ow[heap[c].next] = l /\ ps[heap[c].next] = ps[c] + 1
      BY <2>5, <2>8 DEF Stands
    <3>2. heap[c].next \in DOMAIN heap' /\ heap[c].next # Null
      BY <1>6, <1>7, <2>6, <3>1, NullIsNoNode
    <3> QED BY <1>1, <1>3, <2>1, <2>3, <2>4, <3>1, <3>2 DEF DestroyOK
  <2> QED BY <2>7, <2>8
<1>16. CallOK(heap', obj, call', ow, ps)
  BY <1>3, <1>15, Ops DEF CallOK, LookOK, RoomOK, EqualOK, CopyOK
<1>17. Inv(heap', obj', call', ow, ps)
  BY <1>2, <1>3, <1>4, <1>8, <1>10, <1>11, <1>12, <1>13, <1>14, <1>16 DEF Inv, Shape, Links
<1> QED BY <1>2, <1>17 DEF Kept, NoneLost

LEMMA DestroyedKeeps ==
    ASSUME NEW ow, NEW ps, Inv(heap, obj, call, ow, ps), Destroyed
    PROVE  Kept(ow) /\ crashed' = crashed
<1> DEFINE l == call.on
           A == AliveOf(obj, call)
<1>1. /\ call.op = "destroy" /\ l \in DOMAIN obj /\ \A n \in DOMAIN heap : ow[n] # l
  BY DEF Destroyed, Doing, Inv, CallOK, DestroyOK
<1>2. /\ obj' = [o \in DOMAIN obj \ {l} |-> obj[o]] /\ call' = NoCall
      /\ heap' = heap /\ kind' = kind /\ crashed' = crashed
  BY DEF Destroyed
<1>3. AliveOf(obj', call') = A /\ A = DOMAIN obj \ {l}
  BY <1>1, <1>2, IdleCall DEF AliveOf
<1> HIDE DEF l, A
<1>4. DOMAIN obj' = A /\ \A k \in A : obj'[k] = obj[k]
  BY <1>2, <1>3
<1>5. Links(heap, obj, A, ow, ps)
  BY DEF Inv, A
<1>6. Links(heap, obj', A, ow, ps)
  <2>1. InRange(heap, obj', A, ow, ps) /\ OneEach(heap, A, ow, ps)
    BY <1>4, <1>5 DEF Links, InRange, OneEach
  <2>2. Forward(heap, obj', A, ow, ps) /\ Backward(heap, obj', A, ow, ps)
    BY <1>4, <1>5 DEF Links, Forward, Backward
  <2>3. EndsOK(heap, obj', A, ow, ps)
    BY <1>4, <1>5 DEF Links, EndsOK
  <2> QED BY <1>5, <2>1, <2>2, <2>3 DEF Links
<1>7. ObjOK(obj')
  BY <1>2, <1>3, <1>4 DEF ObjOK, Inv, Shape
<1>8. OwnersOK(heap, obj', ow)
  BY <1>1, <1>3, <1>4 DEF OwnersOK, Inv, Shape
<1>9. Inv(heap', obj', call', ow, ps)
  BY <1>2, <1>3, <1>6, <1>7, <1>8, IdleCall DEF Inv, Shape
<1> QED BY <1>2, <1>9 DEF Kept, NoneLost

-----------------------------------------------------------------------------
(* The theorems. *)

LEMMA InitOK == Init => IInv
<1> SUFFICES ASSUME Init PROVE IInv
  OBVIOUS
<1> DEFINE none == [n \in {} |-> Null]
<1>1. DOMAIN heap = {} /\ DOMAIN obj = {} /\ call = NoCall /\ kind \in Kinds
  BY DEF Init
<1>2. HeapOK(heap) /\ ObjOK(obj)
  BY <1>1 DEF Init, HeapOK, ObjOK
<1>3. Links(heap, obj, AliveOf(obj, call), none, none)
  BY <1>1, IdleCall DEF Links, InRange, Forward, Backward, OneEach, EndsOK
<1>4. Inv(heap, obj, call, none, none)
  BY <1>1, <1>2, <1>3, IdleCall DEF Inv, Shape, OwnersOK
<1> QED BY <1>1, <1>4 DEF IInv

\* A loop's step keeps the invariant and follows no bad pointer.
LEMMA StepOK ==
    ASSUME NEW ow, NEW ps, Inv(heap, obj, call, ow, ps), Step
    PROVE  Kept(ow) /\ crashed' = crashed
<1>1. Inv(heap, obj, call, ow, ps)
  OBVIOUS
<1>2. CASE Walk
  BY <1>1, <1>2, WalkKeeps
<1>3. CASE \/ Insert \/ InsertUpdate \/ Update \/ Get \/ DeleteKey \/ FrePush \/ FrePop
           \/ CortinaAppend \/ AtIndex \/ Compared
  BY <1>1, <1>3, SearchReturns
<1>4. CASE OrdPushed
  BY <1>1, <1>4, OrdPushedKeeps
<1>5. CASE CopyNode \/ Copied
  BY <1>1, <1>5, CopyNodeKeeps, CopiedKeeps
<1>6. CASE FreeNode \/ Destroyed
  BY <1>1, <1>6, FreeNodeKeeps, DestroyedKeeps
<1> QED BY <1>2, <1>3, <1>4, <1>5, <1>6 DEF Step

LEMMA NextOK ==
    ASSUME NEW ow, NEW ps, Inv(heap, obj, call, ow, ps), kind \in Kinds, [Next]_vars
    PROVE  Kept(ow) /\ (crashed' = crashed \/ \E l \in DOMAIN obj : Pop(l) /\ obj[l].size = 0)
<1>1. Inv(heap, obj, call, ow, ps)
  OBVIOUS
<1>2. CASE Step
  BY <1>1, <1>2, StepOK
<1>3. CASE UNCHANGED vars
  BY <1>1, <1>3 DEF vars, Kept, NoneLost
<1>4. ASSUME NEW l \in Objects, Construct(l) \/ Destroy(l)
      PROVE  Kept(ow) /\ crashed' = crashed
  BY <1>1, <1>4, ConstructKeeps, DestroyBegins
<1>5. ASSUME NEW l \in Objects, Pop(l)
      PROVE  Kept(ow) /\ (crashed' = crashed \/ \E k \in DOMAIN obj : Pop(k) /\ obj[k].size = 0)
  BY <1>1, <1>5, PopKeeps DEF Pop
<1>6. ASSUME NEW l \in Objects, NEW from \in Objects,
             CopyConstruct(l, from) \/ CopyAssign(l, from)
      PROVE  Kept(ow) /\ crashed' = crashed
  BY <1>1, <1>6, CopyConstructKeeps, CopyAssignKeeps
<1>7. ASSUME NEW l \in Objects, NEW from \in Objects,
             MoveConstruct(l, from) \/ MoveAssign(l, from) \/ Equal(l, from)
      PROVE  Kept(ow) /\ crashed' = crashed
  BY <1>1, <1>7, MoveKeeps, EqualBegins
<1>8. ASSUME NEW l \in Objects, NEW key \in Keys,
             \/ PushFront(l, key)
             \/ \E val : PushBack(l, key, val) \/ \E ord \in {"Asc", "Des"} : PushOrd(l, key, ord, val)
      PROVE  Kept(ow) /\ crashed' = crashed
  BY <1>1, <1>8, PushFrontKeeps, PushBackKeeps, PushOrdBegins
<1>9. ASSUME NEW l \in Objects, NEW key \in Keys, NEW op \in Searches[kind], NEW val,
             Search(op, l, key, val)
      PROVE  Kept(ow) /\ crashed' = crashed
  BY <1>1, <1>9, SearchBegins DEF IInv
<1>10. ASSUME NEW l \in Objects, NEW index, GetAt(l, index)
       PROVE  Kept(ow) /\ crashed' = crashed
  BY <1>1, <1>10, GetAtBegins
<1> QED BY <1>2, <1>3, <1>4, <1>5, <1>6, <1>7, <1>8, <1>9, <1>10 DEF Next

LEMMA IInvKept ==
    ASSUME IInv, [Next]_vars
    PROVE  IInv' /\ (crashed' = crashed \/ \E l \in DOMAIN obj : Pop(l) /\ obj[l].size = 0)
<1>1. PICK ow, ps : Inv(heap, obj, call, ow, ps)
  BY DEF IInv
<1>2. Kept(ow) /\ (crashed' = crashed \/ \E l \in DOMAIN obj : Pop(l) /\ obj[l].size = 0)
  BY <1>1, NextOK DEF IInv
<1>3. PICK w, q : Inv(heap', obj', call', w, q)
  BY <1>2 DEF Kept
<1> QED BY <1>2, <1>3 DEF IInv, Kept, Inv

LEMMA Invariance == Spec => []IInv
<1>1. Init => IInv
  BY InitOK
<1>2. IInv /\ [Next]_vars => IInv'
  BY IInvKept
<1> QED BY <1>1, <1>2, PTL DEF Spec

LEMMA LinksAreWell ==
    ASSUME NEW ow, NEW ps, ObjOK(obj), Links(heap, obj, Alive, ow, ps)
    PROVE  WellLinkedBy(ow, ps)
<1> DEFINE list(n) == obj[ow[n]]
           isAt(n, m, p) == m \in DOMAIN heap /\ ow[m] = ow[n] /\ ps[m] = p
           headAt(l, m, p) == m \in DOMAIN heap /\ ow[m] = l /\ ps[m] = p
<1>1. \A n \in DOMAIN heap : ow[n] \in Alive =>
         /\ ps[n] \in 1 .. list(n).size
         /\ IF ps[n] = list(n).size THEN heap[n].next = Null ELSE isAt(n, heap[n].next, ps[n] + 1)
         /\ IF ps[n] = 1 THEN heap[n].prev = Null ELSE isAt(n, heap[n].prev, ps[n] - 1)
  <2> SUFFICES ASSUME NEW n \in DOMAIN heap, ow[n] \in Alive
               PROVE  /\ ps[n] \in 1 .. list(n).size
                      /\ IF ps[n] = list(n).size THEN heap[n].next = Null
                         ELSE isAt(n, heap[n].next, ps[n] + 1)
                      /\ IF ps[n] = 1 THEN heap[n].prev = Null ELSE isAt(n, heap[n].prev, ps[n] - 1)
    OBVIOUS
  <2>1. ps[n] \in 1 .. list(n).size
    <3>1. list(n).size \in Nat
      BY DEF Alive, ObjOK, IsList
    <3> QED BY <3>1 DEF Links, InRange
  <2>2. IF ps[n] = list(n).size THEN heap[n].next = Null ELSE isAt(n, heap[n].next, ps[n] + 1)
    BY DEF Links, Forward, Stands
  <2>3. IF ps[n] = 1 THEN heap[n].prev = Null ELSE isAt(n, heap[n].prev, ps[n] - 1)
    BY DEF Links, Backward, Stands
  <2> QED BY <2>1, <2>2, <2>3
<1>2. \A n, m \in DOMAIN heap : ow[n] = ow[m] /\ ow[n] \in Alive /\ ps[n] = ps[m] => n = m
  BY DEF Links, OneEach
<1>3. \A l \in Alive :
         IF obj[l].size = 0 THEN obj[l].head = Null /\ obj[l].tail = Null
         ELSE headAt(l, obj[l].head, 1) /\ headAt(l, obj[l].tail, obj[l].size)
  BY DEF Links, EndsOK, Stands
<1> QED BY <1>1, <1>2, <1>3 DEF WellLinkedBy

LEMMA LinkedByOwners == IInv => \E owner, pos : WellLinkedBy(owner, pos)
<1> SUFFICES ASSUME IInv PROVE \E owner, pos : WellLinkedBy(owner, pos)
  OBVIOUS
<1>1. PICK ow, ps : Inv(heap, obj, call, ow, ps)
  BY DEF IInv
<1>2. ObjOK(obj) /\ Links(heap, obj, Alive, ow, ps)
  BY <1>1 DEF Inv, Alive, AliveOf, Shape
<1> QED BY <1>2, LinksAreWell

(* The nodes of every list form one chain from its head to its tail, with  *)
(* as many nodes as its size says, and no node is in two lists, however    *)
(* many lists, nodes and keys there are.  WellLinked asks the same of the  *)
(* order that the next pointers give.                                      *)
THEOREM ListsStayLinked == Spec => [](\E owner, pos : WellLinkedBy(owner, pos))
BY Invariance, LinkedByOwners, PTL

(* No call follows a null pointer or a pointer to a deleted node, except   *)
(* the pops of an empty List (linkedList.hpp 207-217).                     *)
THEOREM OnlyEmptyPopFaults == Spec => FaultsOnlyOnEmptyPop
<1>1. IInv /\ [Next]_vars
        => [crashed' # crashed => \E l \in DOMAIN obj : Pop(l) /\ obj[l].size = 0]_vars
  BY IInvKept
<1>2. Spec => []IInv
  BY Invariance
<1>3. Spec => [][Next]_vars
  BY PTL DEF Spec
<1>4. Spec => [][crashed' # crashed => \E l \in DOMAIN obj : Pop(l) /\ obj[l].size = 0]_vars
  BY <1>1, <1>2, <1>3, PTL
<1> QED BY <1>4 DEF FaultsOnlyOnEmptyPop

-----------------------------------------------------------------------------
(* The order that the next pointers give. *)

Limit == Cardinality(Nodes)

\* The nodes of a heap in the order of the next pointers, from an address on.
FromIn(h, address) ==
    LET node[i \in 1 .. Limit + 1] ==
            IF i = 1 THEN address
            ELSE IF node[i - 1] \in DOMAIN h THEN h[node[i - 1]].next ELSE Null
    IN  node

\* The first k nodes from address a on are g[1], ..., g[k], and no more follow.
LeadsThrough(h, a, k, g) ==
    /\ a = IF k = 0 THEN Null ELSE g[1]
    /\ \A i \in 1 .. k : /\ g[i] \in DOMAIN h
                         /\ h[g[i]].next = IF i = k THEN Null ELSE g[i + 1]

LEMMA FromHeap == \A address : From(address) = FromIn(heap, address)
BY DEF From, FromIn, Limit

Less == OpToRel(<, Nat)

\* Induction over the numbers, for a set that holds 0 and with n also n + 1.
LEMMA EveryNumber ==
    ASSUME NEW S, 0 \in S, \A n \in Nat : n \in S => n + 1 \in S
    PROVE  Nat \subseteq S
<1> DEFINE T == Nat \ S
<1> SUFFICES ASSUME T # {} PROVE FALSE
  OBVIOUS
<1>1. IsWellFoundedOn(Less, Nat)
  BY NatLessThanWellFounded, Zenon DEF Less
<1>2. PICK x \in T : \A y \in T : ~ (<<y, x>> \in Less)
  <2>1. T \subseteq Nat
    OBVIOUS
  <2> HIDE DEF T
  <2> QED BY <1>1, <2>1, WFMin
<1>3. x # 0 /\ x - 1 \in Nat /\ x - 1 < x
  OBVIOUS
<1>4. x - 1 \in T
  BY <1>3
<1>5. <<x - 1, x>> \in Less
  BY <1>3, Zenon DEF Less, OpToRel
<1> QED BY <1>2, <1>4, <1>5

\* What the recursion of From computes from an address that leads through k nodes.
LEMMA FromIs ==
    ASSUME NEW h, NEW a, NEW k \in Nat, NEW g, LeadsThrough(h, a, k, g), Null \notin DOMAIN h, Limit \in Nat
    PROVE  FromIn(h, a) = [i \in 1 .. Limit + 1 |-> IF i <= k THEN g[i] ELSE Null]
<1> DEFINE S == 1 .. Limit + 1
           W == [i \in S |-> IF i <= k THEN g[i] ELSE Null]
           Eq(f) == f = [i \in S |-> IF i = 1 THEN a
                                     ELSE IF f[i - 1] \in DOMAIN h THEN h[f[i - 1]].next
                                     ELSE Null]
<1>1. FromIn(h, a) = CHOOSE f : Eq(f)
  BY DEF FromIn
<1>2. Eq(W)
  <2> SUFFICES ASSUME NEW i \in S
               PROVE  W[i] = IF i = 1 THEN a
                             ELSE IF W[i - 1] \in DOMAIN h THEN h[W[i - 1]].next ELSE Null
    OBVIOUS
  <2>1. CASE i = 1
    BY <2>1 DEF LeadsThrough
  <2>2. CASE i # 1
    <3>1. i - 1 \in S /\ i - 1 \in Nat /\ i \in Int
      BY <2>2
    <3>2. CASE i <= k
      <4>1. i - 1 \in 1 .. k /\ W[i - 1] = g[i - 1] /\ W[i] = g[i] /\ i - 1 # k /\ (i - 1) + 1 = i
        BY <2>2, <3>1, <3>2
      <4> QED BY <2>2, <4>1 DEF LeadsThrough
    <3>3. CASE ~ (i <= k)
      <4>1. W[i] = Null
        BY <3>3
      <4>2. CASE i - 1 <= k
        <5>1. i - 1 = k /\ k \in 1 .. k /\ W[i - 1] = g[k]
          BY <2>2, <3>1, <3>3, <4>2
        <5> QED BY <2>2, <4>1, <5>1 DEF LeadsThrough
      <4>3. CASE ~ (i - 1 <= k)
        <5>1. W[i - 1] = Null
          BY <3>1, <4>3
        <5> QED BY <2>2, <4>1, <5>1
      <4> QED BY <4>2, <4>3
    <3> QED BY <3>2, <3>3
  <2> QED BY <2>1, <2>2
<1>3. ASSUME NEW f, Eq(f) PROVE f = W
  <2>1. \A i \in S : f[i] = IF i = 1 THEN a
                            ELSE IF f[i - 1] \in DOMAIN h THEN h[f[i - 1]].next ELSE Null
    BY <1>3
  <2>2. \A i \in S : W[i] = IF i = 1 THEN a
                            ELSE IF W[i - 1] \in DOMAIN h THEN h[W[i - 1]].next ELSE Null
    BY <1>2
  <2>3. DOMAIN f = S /\ f = [i \in S |-> f[i]]
    <3> DEFINE G == [i \in S |-> IF i = 1 THEN a
                                 ELSE IF f[i - 1] \in DOMAIN h THEN h[f[i - 1]].next
                                 ELSE Null]
    <3>1. f = G
      BY <1>3
    <3>2. DOMAIN G = S /\ G = [i \in S |-> G[i]]
      OBVIOUS
    <3> HIDE DEF G
    <3> QED BY <3>1, <3>2
  <2> DEFINE T == {n \in Nat : n + 1 \in S => f[n + 1] = W[n + 1]}
  <2> HIDE DEF W
  <2>4. 0 \in T
    BY <2>1, <2>2
  <2>5. \A n \in Nat : n \in T => n + 1 \in T
    <3> SUFFICES ASSUME NEW n \in Nat, n \in T, (n + 1) + 1 \in S
                 PROVE  f[(n + 1) + 1] = W[(n + 1) + 1]
      OBVIOUS
    <3>1. n + 1 \in S /\ ((n + 1) + 1) - 1 = n + 1 /\ (n + 1) + 1 # 1
      OBVIOUS
    <3>2. f[n + 1] = W[n + 1]
      BY <3>1
    <3> HIDE DEF S
    <3> QED BY <2>1, <2>2, <3>1, <3>2
  <2>6. Nat \subseteq T
    <3> HIDE DEF T
    <3> QED BY <2>4, <2>5, EveryNumber
  <2>7. \A i \in S : f[i] = W[i]
    <3> SUFFICES ASSUME NEW i \in S PROVE f[i] = W[i]
      OBVIOUS
    <3>1. i - 1 \in Nat /\ (i - 1) + 1 = i
      OBVIOUS
    <3>2. i - 1 \in T
      BY <2>6, <3>1
    <3> QED BY <3>1, <3>2
  <2>8. W = [i \in S |-> W[i]]
    BY DEF W
  <2> HIDE DEF S, T
  <2> QED BY <2>3, <2>7, <2>8
<1> HIDE DEF W, Eq
<1>4. (CHOOSE f : Eq(f)) = W
  BY <1>2, <1>3
<1> QED BY <1>1, <1>4 DEF W

\* The node that stands i-th in a list.
NodeAt(h, ow, ps, l, i) == CHOOSE n \in DOMAIN h : ow[n] = l /\ ps[n] = i

OrderOf(h, ow, ps, l, k) == [i \in 1 .. k |-> NodeAt(h, ow, ps, l, i)]

\* A list has a node at every place up to its size, and fits in the heap.
LEMMA ListIsOrdered ==
    ASSUME NEW ow, NEW ps, HeapOK(heap), ObjOK(obj),
           Links(heap, obj, AliveOf(obj, call), ow, ps), NEW l \in AliveOf(obj, call)
    PROVE  LET k == obj[l].size
               g == OrderOf(heap, ow, ps, l, k)
           IN  /\ Limit \in Nat /\ k \in 0 .. Limit
               /\ \A i \in 1 .. k : g[i] \in DOMAIN heap /\ ow[g[i]] = l /\ ps[g[i]] = i
               /\ \A n \in DOMAIN heap : ow[n] = l => ps[n] \in 1 .. k /\ g[ps[n]] = n
               /\ LeadsThrough(heap, obj[l].head, k, g)
<1> DEFINE k == obj[l].size
           g == OrderOf(heap, ow, ps, l, k)
           A == AliveOf(obj, call)
<1>1. k \in Nat /\ Limit \in Nat /\ Null \notin DOMAIN heap /\ DOMAIN heap \subseteq Nodes
  <2>1. k \in Nat
    BY DEF ObjOK, IsList, AliveOf
  <2>2. Limit \in Nat
    BY ListAssumption, FS_CardinalityType DEF Limit
  <2> QED BY <2>1, <2>2, NullIsNoNode DEF HeapOK
<1>2. \A n \in DOMAIN heap : ow[n] = l => ps[n] \in 1 .. k
  BY <1>1 DEF Links, InRange
<1>3. \A i \in 1 .. k : \E n \in DOMAIN heap : ow[n] = l /\ ps[n] = i
  <2> DEFINE S == {i \in Nat : i + 1 <= k => \E n \in DOMAIN heap : ow[n] = l /\ ps[n] = i + 1}
  <2>1. 0 \in S
    <3>1. 1 <= k => \E n \in DOMAIN heap : ow[n] = l /\ ps[n] = 1
      BY <1>1 DEF Links, EndsOK, Stands
    <3> QED BY <3>1
  <2>2. ASSUME NEW i \in Nat, i \in S PROVE i + 1 \in S
    <3> SUFFICES ASSUME (i + 1) + 1 <= k
                 PROVE  \E n \in DOMAIN heap : ow[n] = l /\ ps[n] = (i + 1) + 1
      OBVIOUS
    <3>1. i + 1 <= k /\ i + 1 # k
      BY <1>1
    <3>2. PICK n \in DOMAIN heap : ow[n] = l /\ ps[n] = i + 1
      BY <2>2, <3>1
    <3>3. Stands(heap, ow, ps, heap[n].next, l, (i + 1) + 1)
      BY <3>1, <3>2 DEF Links, Forward
    <3> QED BY <3>3 DEF Stands
  <2>3. Nat \subseteq S
    <3> HIDE DEF S
    <3> QED BY <2>1, <2>2, EveryNumber
  <2> SUFFICES ASSUME NEW i \in 1 .. k PROVE \E n \in DOMAIN heap : ow[n] = l /\ ps[n] = i
    OBVIOUS
  <2>4. i - 1 \in Nat /\ (i - 1) + 1 = i /\ i <= k
    BY <1>1
  <2>5. i - 1 \in S
    BY <2>3, <2>4
  <2> QED BY <2>4, <2>5
<1>4. \A i \in 1 .. k : g[i] \in DOMAIN heap /\ ow[g[i]] = l /\ ps[g[i]] = i
  <2> SUFFICES ASSUME NEW i \in 1 .. k
               PROVE  g[i] \in DOMAIN heap /\ ow[g[i]] = l /\ ps[g[i]] = i
    OBVIOUS
  <2>1. g[i] = CHOOSE n \in DOMAIN heap : ow[n] = l /\ ps[n] = i
    BY DEF OrderOf, NodeAt
  <2>2. \E n \in DOMAIN heap : ow[n] = l /\ ps[n] = i
    BY <1>3
  <2> HIDE DEF g
  <2> QED BY <2>1, <2>2
<1>5. \A n \in DOMAIN heap : ow[n] = l => ps[n] \in 1 .. k /\ g[ps[n]] = n
  <2> HIDE DEF g
  <2> QED BY <1>2, <1>4 DEF Links, OneEach
<1>6. k <= Limit
  <2>1. IsFiniteSet(1 .. k) /\ Cardinality(1 .. k) = k
    <3>1. k \in Int /\ 1 \in Int /\ (IF 1 > k THEN 0 ELSE k - 1 + 1) = k
      BY <1>1
    <3> HIDE DEF k
    <3> QED BY <3>1, FS_Interval
  <2>2. g \in [1 .. k -> Nodes]
    <3>1. g = [i \in 1 .. k |-> g[i]]
      BY DEF OrderOf
    <3> HIDE DEF g
    <3> QED BY <1>1, <1>4, <3>1
  <2> HIDE DEF g, k
  <2>3. ~ (Limit < k)
    <3> SUFFICES ASSUME Limit < k PROVE FALSE
      OBVIOUS
    <3>1. \E x, y \in 1 .. k : x # y /\ g[x] = g[y]
      <4>1. IsFiniteSet(Nodes) /\ Cardinality(Nodes) < Cardinality(1 .. k)
        BY <2>1, ListAssumption DEF Limit
      <4> QED BY <2>1, <2>2, <4>1, FS_PigeonHole
    <3> QED BY <1>4, <3>1
  <2> QED BY <1>1, <2>3
<1>7. LeadsThrough(heap, obj[l].head, k, g)
  <2>1. obj[l].head = IF k = 0 THEN Null ELSE g[1]
    <3>1. CASE k = 0
      BY <3>1 DEF Links, EndsOK
    <3>2. CASE k # 0
      <4>1. Stands(heap, ow, ps, obj[l].head, l, 1)
        BY <3>2 DEF Links, EndsOK
      <4> HIDE DEF g
      <4> QED BY <1>5, <3>2, <4>1 DEF Stands
    <3> QED BY <3>1, <3>2
  <2>2. ASSUME NEW i \in 1 .. k
        PROVE  /\ g[i] \in DOMAIN heap
               /\ heap[g[i]].next = IF i = k THEN Null ELSE g[i + 1]
    <3>1. g[i] \in DOMAIN heap /\ ow[g[i]] = l /\ ps[g[i]] = i
      BY <1>4
    <3> HIDE DEF g
    <3>2. IF i = k THEN heap[g[i]].next = Null
          ELSE Stands(heap, ow, ps, heap[g[i]].next, l, i + 1)
      BY <3>1 DEF Links, Forward
    <3> QED BY <1>5, <3>1, <3>2 DEF Stands
  <2> HIDE DEF g, k
  <2> QED BY <2>1, <2>2 DEF LeadsThrough
<1> HIDE DEF g
<1> QED BY <1>1, <1>4, <1>5, <1>6, <1>7 DEF g

\* The addresses of a list of k nodes, and null behind them.
Chain(h, ow, ps, l, k) ==
    [i \in 1 .. Limit + 1 |-> IF i <= k THEN NodeAt(h, ow, ps, l, i) ELSE Null]

NodesOwned(h, ow, l) == {n \in DOMAIN h : ow[n] = l}

LEMMA OrderFrom ==
    ASSUME NEW ow, NEW ps, HeapOK(heap), ObjOK(obj),
           Links(heap, obj, AliveOf(obj, call), ow, ps), NEW l \in AliveOf(obj, call)
    PROVE  /\ From(obj[l].head) = Chain(heap, ow, ps, l, obj[l].size)
           /\ NodesOf(l) = NodesOwned(heap, ow, l)
<1> DEFINE k == obj[l].size
           g == OrderOf(heap, ow, ps, l, k)
           W == [i \in 1 .. Limit + 1 |-> IF i <= k THEN g[i] ELSE Null]
<1>1. /\ Limit \in Nat /\ k \in 0 .. Limit
      /\ \A i \in 1 .. k : g[i] \in DOMAIN heap /\ ow[g[i]] = l /\ ps[g[i]] = i
      /\ \A n \in DOMAIN heap : ow[n] = l => ps[n] \in 1 .. k /\ g[ps[n]] = n
      /\ LeadsThrough(heap, obj[l].head, k, g)
  BY ListIsOrdered
<1>2. Null \notin DOMAIN heap
  BY NullIsNoNode
<1>3. From(obj[l].head) = W
  <2> HIDE DEF g
  <2> QED BY <1>1, <1>2, FromIs, FromHeap
<1>4. W = Chain(heap, ow, ps, l, k)
  BY <1>1 DEF OrderOf, Chain
<1>5. NodesOf(l) = {W[i] : i \in 1 .. Limit} \cap DOMAIN heap
  BY <1>3 DEF NodesOf, NodesFrom, Limit
<1>6. ASSUME NEW n \in DOMAIN heap PROVE n \in {W[i] : i \in 1 .. Limit} <=> ow[n] = l
  <2>1. ASSUME NEW i \in 1 .. Limit, W[i] = n PROVE ow[n] = l
    <3>1. i <= k /\ W[i] = g[i] /\ i \in 1 .. k
      BY <1>1, <1>2, <2>1
    <3> HIDE DEF g, W
    <3> QED BY <1>1, <2>1, <3>1
  <2>2. ASSUME ow[n] = l PROVE \E i \in 1 .. Limit : W[i] = n
    <3>1. ps[n] \in 1 .. k /\ g[ps[n]] = n
      BY <1>1, <2>2
    <3>2. ps[n] \in 1 .. Limit /\ W[ps[n]] = g[ps[n]]
      BY <1>1, <3>1
    <3> HIDE DEF W, g
    <3> QED BY <3>1, <3>2
  <2> HIDE DEF W
  <2> QED BY <2>1, <2>2
<1> HIDE DEF W
<1> QED BY <1>3, <1>4, <1>5, <1>6 DEF NodesOwned

LEMMA OrderedByNext == IInv => WellLinked
<1> SUFFICES ASSUME IInv PROVE WellLinked
  OBVIOUS
<1>1. PICK ow, ps : Inv(heap, obj, call, ow, ps)
  BY DEF IInv
<1> DEFINE A == Alive
           w == Owners
           q == Places(w)
<1>2. /\ A = AliveOf(obj, call) /\ Links(heap, obj, A, ow, ps)
      /\ HeapOK(heap) /\ ObjOK(obj) /\ Null \notin A /\ A \subseteq DOMAIN obj
  BY <1>1, ListAssumption DEF Inv, Alive, AliveOf, Shape, ObjOK
<1>3. \A l \in A : /\ From(obj[l].head) = Chain(heap, ow, ps, l, obj[l].size)
                   /\ NodesOf(l) = NodesOwned(heap, ow, l)
  BY <1>2, OrderFrom
<1>4. \A l \in A :
         /\ Limit \in Nat /\ obj[l].size \in 0 .. Limit
         /\ \A i \in 1 .. obj[l].size : /\ NodeAt(heap, ow, ps, l, i) \in DOMAIN heap
                                        /\ ps[NodeAt(heap, ow, ps, l, i)] = i
         /\ \A n \in DOMAIN heap : ow[n] = l => /\ ps[n] \in 1 .. obj[l].size
                                                /\ NodeAt(heap, ow, ps, l, ps[n]) = n
  <2> SUFFICES ASSUME NEW l \in A
               PROVE  /\ Limit \in Nat /\ obj[l].size \in 0 .. Limit
                      /\ \A i \in 1 .. obj[l].size : /\ NodeAt(heap, ow, ps, l, i) \in DOMAIN heap
                                                     /\ ps[NodeAt(heap, ow, ps, l, i)] = i
                      /\ \A n \in DOMAIN heap : ow[n] = l => /\ ps[n] \in 1 .. obj[l].size
                                                             /\ NodeAt(heap, ow, ps, l, ps[n]) = n
    OBVIOUS
  <2> DEFINE k == obj[l].size
             g == OrderOf(heap, ow, ps, l, k)
  <2>1. /\ Limit \in Nat /\ k \in 0 .. Limit
        /\ \A i \in 1 .. k : g[i] \in DOMAIN heap /\ ow[g[i]] = l /\ ps[g[i]] = i
        /\ \A n \in DOMAIN heap : ow[n] = l => ps[n] \in 1 .. k /\ g[ps[n]] = n
    BY <1>2, ListIsOrdered
  <2>2. \A i \in 1 .. k : g[i] = NodeAt(heap, ow, ps, l, i)
    BY DEF OrderOf
  <2> HIDE DEF g
  <2> QED BY <2>1, <2>2
<1>5. \A n \in DOMAIN heap : w[n] = IF ow[n] \in A THEN ow[n] ELSE Null
  <2> SUFFICES ASSUME NEW n \in DOMAIN heap PROVE w[n] = IF ow[n] \in A THEN ow[n] ELSE Null
    OBVIOUS
  <2>1. w[n] = IF \E l \in A : n \in NodesOf(l) THEN CHOOSE l \in A : n \in NodesOf(l) ELSE Null
    BY DEF Owners
  <2>2. \A l \in A : n \in NodesOf(l) <=> ow[n] = l
    BY <1>3 DEF NodesOwned
  <2> HIDE DEF w, A
  <2>3. CASE ow[n] \in A
    <3>1. \E l \in A : n \in NodesOf(l)
      BY <2>2, <2>3
    <3>2. (CHOOSE l \in A : n \in NodesOf(l)) = ow[n]
      BY <2>2, <3>1
    <3> QED BY <2>1, <2>3, <3>1, <3>2
  <2>4. CASE ow[n] \notin A
    BY <2>1, <2>2, <2>4
  <2> QED BY <2>3, <2>4
<1>6. \A n \in DOMAIN heap : ow[n] \in A => q[n] = ps[n]
  <2> SUFFICES ASSUME NEW n \in DOMAIN heap, ow[n] \in A PROVE q[n] = ps[n]
    OBVIOUS
  <2> DEFINE order == From(obj[ow[n]].head)
  <2>1. w[n] = ow[n] /\ w[n] # Null
    BY <1>2, <1>5
  <2>2. q[n] = CHOOSE i \in DOMAIN order : order[i] = n
    <3> HIDE DEF w
    <3> QED BY <2>1 DEF Places
  <2>3. /\ DOMAIN order = 1 .. Limit + 1
        /\ \A i \in 1 .. Limit + 1 :
              order[i] = IF i <= obj[ow[n]].size THEN NodeAt(heap, ow, ps, ow[n], i) ELSE Null
    <3>1. order = Chain(heap, ow, ps, ow[n], obj[ow[n]].size)
      BY <1>3
    <3> HIDE DEF order
    <3> QED BY <3>1 DEF Chain
  <2>4. n # Null /\ ps[n] \in 1 .. Limit + 1 /\ order[ps[n]] = n
    <3>1. /\ Limit \in Nat /\ obj[ow[n]].size \in 0 .. Limit /\ ps[n] \in 1 .. obj[ow[n]].size
          /\ NodeAt(heap, ow, ps, ow[n], ps[n]) = n
      BY <1>4
    <3> HIDE DEF order
    <3> QED BY <1>2, <2>3, <3>1, NullIsNoNode
  <2>5. \A i \in 1 .. Limit + 1 : order[i] = n => i = ps[n]
    <3> SUFFICES ASSUME NEW i \in 1 .. Limit + 1, order[i] = n PROVE i = ps[n]
      OBVIOUS
    <3>1. Limit \in Nat /\ obj[ow[n]].size \in 0 .. Limit
      BY <1>4
    <3> HIDE DEF order
    <3>2. i <= obj[ow[n]].size /\ NodeAt(heap, ow, ps, ow[n], i) = n
      BY <2>3, <2>4
    <3>3. i \in 1 .. obj[ow[n]].size
      BY <3>1, <3>2
    <3> QED BY <1>4, <3>2, <3>3
  <2> HIDE DEF order, q
  <2> QED BY <2>2, <2>3, <2>4, <2>5
<1> HIDE DEF w, q, A
<1>7. \A n \in DOMAIN heap : w[n] \in A <=> ow[n] \in A
  BY <1>2, <1>5
<1>8. \A n \in DOMAIN heap : w[n] \in A => w[n] = ow[n] /\ q[n] = ps[n]
  BY <1>2, <1>5, <1>6
<1>9. Links(heap, obj, A, w, q)
  <2>1. InRange(heap, obj, A, w, q)
    BY <1>2, <1>8 DEF Links, InRange
  <2>2. Forward(heap, obj, A, w, q)
    BY <1>2, <1>7, <1>8 DEF Links, Forward, Stands
  <2>3. Backward(heap, obj, A, w, q)
    BY <1>2, <1>7, <1>8 DEF Links, Backward, Stands
  <2>4. OneEach(heap, A, w, q)
    BY <1>2, <1>8 DEF Links, OneEach
  <2>5. EndsOK(heap, obj, A, w, q)
    BY <1>2, <1>7, <1>8 DEF Links, EndsOK, Stands
  <2> QED BY <2>1, <2>2, <2>3, <2>4, <2>5 DEF Links
<1>10. WellLinkedBy(w, q)
  BY <1>2, <1>9, LinksAreWell DEF A
<1> QED BY <1>10 DEF WellLinked, w, q

(* The order of the next pointers is that order: from the head of every    *)
(* list, next leads through its nodes to null, prev leads back, the last   *)
(* is the tail, there are as many as the size says, and no node is reached *)
(* from two lists (linkedList.hpp: push_bk, push_ft, push_before,          *)
(* delete_node, the copies, the moves and the destructors).                *)
THEOREM NodesStayLinked == Spec => []WellLinked
BY Invariance, OrderedByNext, PTL

-----------------------------------------------------------------------------
(* The types: what a node, a list and a running call hold. *)

Pointers == Nodes \cup {Null}

ValuesOf(k) ==
    CASE k = "map"     -> Vals
      [] k = "fre"     -> 1 .. MaxCount
      [] k = "cortina" -> UNION {[1 .. n -> Vals] : n \in 0 .. MaxCount}
      [] k = "list"    -> {Null}

TypedNode(k, r) == r.key \in Keys /\ r.val \in ValuesOf(k) /\ r.prev \in Pointers /\ r.next \in Pointers

TypedHeap(k, h) == \A n \in DOMAIN h : TypedNode(k, h[n])

TypedEnds(o) == \A l \in DOMAIN o : o[l].head \in Pointers /\ o[l].tail \in Pointers

SizesFit(o) == \A l \in DOMAIN o : o[l].size \in 0 .. Limit

Looped == {"get_at", "equal", "copy", "destroy", "none"}

\* The class of the lists has the call that runs.
OpOf(k, op) ==
    \/ op \in Looped
    \/ op = "push_ord"
    \/ k \in {"map", "cortina"} /\ op \in {"insert", "insert_update", "update", "get", "delete_key"}
    \/ k = "fre" /\ op \in {"push", "pop"}
    \/ k = "cortina" /\ op = "append"

AssignedOf(k, old, new) == IF k = "cortina" THEN old \o new ELSE new

\* The calls that may leave more with a key, and what the nodes with it have room for.
Growing == {"push", "append", "insert_update", "update"}

HasRoom(k, h, op, key, val) ==
    \A n \in DOMAIN h : h[n].key = key =>
        /\ op = "push" => h[n].val < MaxCount
        /\ op = "append" => Len(h[n].val) < MaxCount
        /\ op \in {"insert_update", "update"} => AssignedOf(k, h[n].val, val) \in ValuesOf(k)

\* The value a call comes with.
GivenTo(k, op, val) ==
    /\ op = "append" => val \in Vals
    /\ op \in {"insert", "insert_update", "update"} => val \in ValuesOf(k)
    /\ op = "push_ord" => val[2] \in ValuesOf(k)

TypedCall(k, h, c) ==
    /\ OpOf(k, c.op)
    /\ c.op = "none" => c = NoCall
    /\ c.cur \in Pointers
    /\ c.op \notin Looped => c.key \in Keys
    /\ GivenTo(k, c.op, c.val)
    /\ c.op \in Growing => HasRoom(k, h, c.op, c.key, c.val)

TInv ==
    /\ TypedHeap(kind, heap)
    /\ TypedEnds(obj)
    /\ SizesFit(obj)
    /\ TypedCall(kind, heap, call)

\* What every step does to the types; the sizes follow from the links.
TypesKept ==
    /\ TypedHeap(kind', heap')
    /\ TypedEnds(obj')
    /\ TypedCall(kind', heap', call')
    /\ call'.op = "destroy" => obj' = obj

LEMMA NoCallTyped == \A k, h : TypedCall(k, h, NoCall) /\ NoCall.op = "none"
BY DEF NoCall, TypedCall, OpOf, Looped, Pointers, GivenTo, Growing

LEMMA NewNodeTypes ==
    ASSUME NEW k, NEW at, NEW key \in Keys, NEW val \in ValuesOf(k), TypedHeap(k, heap),
           HeapOK(heap), Fresh \in Nodes
    PROVE  /\ TypedHeap(k, PushAlone(key, val))
           /\ at \in DOMAIN heap => /\ TypedHeap(k, PushBefore(at, key, val))
                                    /\ TypedHeap(k, PushAfter(at, key, val))
<1> HIDE DEF Fresh
<1>1. TypedHeap(k, PushAlone(key, val))
  BY DEF TypedHeap, TypedNode, PushAlone, Pointers
<1>2. ASSUME at \in DOMAIN heap PROVE TypedHeap(k, PushBefore(at, key, val))
  <2> DEFINE h == PushBefore(at, key, val)
  <2>1. /\ DOMAIN h = DOMAIN heap \cup {Fresh}
        /\ h[Fresh] = [key |-> key, val |-> val, prev |-> heap[at].prev, next |-> at]
        /\ \A n \in DOMAIN heap : n # Fresh =>
              /\ h[n].key = heap[n].key /\ h[n].val = heap[n].val
              /\ h[n].prev \in {heap[n].prev, Fresh} /\ h[n].next \in {heap[n].next, Fresh}
    BY DEF PushBefore, HeapOK, IsNode
  <2>2. at \in Pointers /\ heap[at].prev \in Pointers /\ Fresh \in Pointers
    BY <1>2 DEF TypedHeap, TypedNode, Pointers, HeapOK
  <2>3. ASSUME NEW n \in DOMAIN h PROVE TypedNode(k, h[n])
    <3> HIDE DEF h
    <3> QED BY <2>1, <2>2, <2>3 DEF TypedHeap, TypedNode
  <2> QED BY <2>3 DEF TypedHeap
<1>3. ASSUME at \in DOMAIN heap PROVE TypedHeap(k, PushAfter(at, key, val))
  <2> DEFINE h == PushAfter(at, key, val)
  <2>1. /\ DOMAIN h = DOMAIN heap \cup {Fresh}
        /\ h[Fresh] = [key |-> key, val |-> val, prev |-> at, next |-> heap[at].next]
        /\ \A n \in DOMAIN heap : n # Fresh =>
              /\ h[n].key = heap[n].key /\ h[n].val = heap[n].val
              /\ h[n].prev \in {heap[n].prev, Fresh} /\ h[n].next \in {heap[n].next, Fresh}
    BY DEF PushAfter, HeapOK, IsNode
  <2>2. at \in Pointers /\ heap[at].next \in Pointers /\ Fresh \in Pointers
    BY <1>3 DEF TypedHeap, TypedNode, Pointers, HeapOK
  <2>3. ASSUME NEW n \in DOMAIN h PROVE TypedNode(k, h[n])
    <3> HIDE DEF h
    <3> QED BY <2>1, <2>2, <2>3 DEF TypedHeap, TypedNode
  <2> QED BY <2>3 DEF TypedHeap
<1> QED BY <1>1, <1>2, <1>3

LEMMA GrownTypes ==
    ASSUME NEW l \in DOMAIN obj, NEW head \in Pointers, NEW tail \in Pointers, ObjOK(obj), TypedEnds(obj),
           obj' = [obj EXCEPT ![l] = Grown(obj[l], head, tail)]
    PROVE  TypedEnds(obj')
<1>1. /\ DOMAIN obj' = DOMAIN obj /\ obj'[l] = Grown(obj[l], head, tail)
      /\ \A o \in DOMAIN obj : o # l => obj'[o] = obj[o]
  BY Updated
<1>2. obj'[l].head = head /\ obj'[l].tail = tail
  BY <1>1 DEF Grown
<1> QED BY <1>1, <1>2 DEF TypedEnds

LEMMA PushBkTypes ==
    ASSUME NEW k, NEW l \in DOMAIN obj, NEW key \in Keys, NEW val \in ValuesOf(k),
           HeapOK(heap), ObjOK(obj), TypedHeap(k, heap), TypedEnds(obj), Fresh \in Nodes,
           MayPushBk(l), PushBk(l, key, val)
    PROVE  TypedHeap(k, heap') /\ TypedEnds(obj')
<1>1. Fresh \in Pointers /\ obj[l].head \in Pointers
  BY DEF Pointers, TypedEnds
<1>2. TypedHeap(k, heap')
  <2>1. CASE obj[l].head = Null
    BY <2>1, NewNodeTypes DEF PushBk
  <2>2. CASE obj[l].head # Null
    <3>1. obj[l].tail \in DOMAIN heap
      BY <2>2 DEF MayPushBk, MayLink
    <3>2. heap' = PushAfter(obj[l].tail, key, val)
      BY <2>2 DEF PushBk
    <3> QED BY <3>1, <3>2, NewNodeTypes
  <2> QED BY <2>1, <2>2
<1> DEFINE f == Fresh
           head == IF obj[l].head = Null THEN f ELSE obj[l].head
<1>3. head \in Pointers /\ f \in Pointers
  BY <1>1
<1>4. obj' = [obj EXCEPT ![l] = Grown(obj[l], head, f)]
  BY DEF PushBk
<1> HIDE DEF f, head
<1>5. TypedEnds(obj')
  BY <1>3, <1>4, GrownTypes
<1> QED BY <1>2, <1>5

LEMMA PushFtTypes ==
    ASSUME NEW k, NEW l \in DOMAIN obj, NEW key \in Keys, NEW val \in ValuesOf(k),
           HeapOK(heap), ObjOK(obj), TypedHeap(k, heap), TypedEnds(obj), Fresh \in Nodes,
           obj[l].head = Null \/ obj[l].head \in DOMAIN heap, PushFt(l, key, val)
    PROVE  TypedHeap(k, heap') /\ TypedEnds(obj')
<1>1. Fresh \in Pointers /\ obj[l].tail \in Pointers
  BY DEF Pointers, TypedEnds
<1>2. TypedHeap(k, heap')
  <2>1. CASE obj[l].head = Null
    BY <2>1, NewNodeTypes DEF PushFt
  <2>2. CASE obj[l].head # Null
    <3>1. heap' = PushBefore(obj[l].head, key, val)
      BY <2>2 DEF PushFt
    <3> QED BY <2>2, <3>1, NewNodeTypes
  <2> QED BY <2>1, <2>2
<1> DEFINE f == Fresh
           tail == IF obj[l].head = Null THEN f ELSE obj[l].tail
<1>3. tail \in Pointers /\ f \in Pointers
  BY <1>1
<1>4. obj' = [obj EXCEPT ![l] = Grown(obj[l], f, tail)]
  BY DEF PushFt
<1> HIDE DEF f, tail
<1>5. TypedEnds(obj')
  BY <1>3, <1>4, GrownTypes
<1> QED BY <1>2, <1>5

LEMMA LinkBeforeTypes ==
    ASSUME NEW k, NEW l \in DOMAIN obj, NEW key \in Keys, NEW val \in ValuesOf(k),
           NEW at \in DOMAIN heap, LinkBefore(l, at, key, val),
           HeapOK(heap), ObjOK(obj), TypedHeap(k, heap), TypedEnds(obj), Fresh \in Nodes
    PROVE  TypedHeap(k, heap') /\ TypedEnds(obj')
<1>1. Fresh \in Pointers /\ obj[l].head \in Pointers /\ obj[l].tail \in Pointers
  BY DEF Pointers, TypedEnds
<1>2. TypedHeap(k, heap')
  BY NewNodeTypes DEF LinkBefore
<1> DEFINE head == IF at = obj[l].head THEN Fresh ELSE obj[l].head
           tail == obj[l].tail
<1>3. head \in Pointers /\ tail \in Pointers
  BY <1>1
<1>4. obj' = [obj EXCEPT ![l] = Grown(obj[l], head, tail)]
  BY DEF LinkBefore
<1> HIDE DEF head, tail
<1>5. TypedEnds(obj')
  BY <1>3, <1>4, GrownTypes
<1> QED BY <1>2, <1>5

LEMMA DeleteTypes ==
    ASSUME NEW k, NEW l \in DOMAIN obj, NEW d \in DOMAIN heap,
           HeapOK(heap), ObjOK(obj), TypedHeap(k, heap), TypedEnds(obj), DeleteNode(l, d)
    PROVE  TypedHeap(k, heap') /\ TypedEnds(obj')
<1>1. heap[d].prev \in Pointers /\ heap[d].next \in Pointers
  BY DEF TypedHeap, TypedNode
<1>2. TypedHeap(k, heap')
  <2>1. /\ DOMAIN heap' = DOMAIN heap \ {d}
        /\ \A n \in DOMAIN heap' :
              /\ heap'[n].key = heap[n].key /\ heap'[n].val = heap[n].val
              /\ heap'[n].prev \in {heap[d].prev, heap[n].prev}
              /\ heap'[n].next \in {heap[d].next, heap[n].next}
    BY DEF DeleteNode, Unlinked
  <2> QED BY <1>1, <2>1 DEF TypedHeap, TypedNode
<1>3. /\ DOMAIN obj' = DOMAIN obj /\ obj'[l] = Shrunk(obj[l], d)
      /\ \A o \in DOMAIN obj : o # l => obj'[o] = obj[o]
  BY Updated DEF DeleteNode
<1>4. obj'[l].head \in {heap[d].next, obj[l].head} /\ obj'[l].tail \in {heap[d].prev, obj[l].tail}
  BY <1>3 DEF Shrunk
<1> QED BY <1>1, <1>2, <1>3, <1>4 DEF TypedEnds

LEMMA ChangeTypes ==
    ASSUME NEW k, NEW val \in ValuesOf(k), HeapOK(heap), TypedHeap(k, heap),
           call.cur \in DOMAIN heap, heap' = [heap EXCEPT ![call.cur].val = val]
    PROVE  TypedHeap(k, heap')
<1>1. /\ DOMAIN heap' = DOMAIN heap
      /\ \A n \in DOMAIN heap : /\ heap'[n].key = heap[n].key
                                /\ heap'[n].val \in {heap[n].val, val}
                                /\ heap'[n].prev = heap[n].prev /\ heap'[n].next = heap[n].next
  BY DEF HeapOK, IsNode
<1> QED BY <1>1 DEF TypedHeap, TypedNode

\* The calls that end, and those that only begin or go on.
LEMMA EndTypes ==
    ASSUME kind' = kind, call' = NoCall, TypedHeap(kind, heap'), TypedEnds(obj')
    PROVE  TypesKept
BY NoCallTyped DEF TypesKept

LEMMA QuietTypes ==
    ASSUME TInv, kind' = kind, heap' = heap, obj' = obj, TypedCall(kind, heap, call')
    PROVE  TypesKept
BY DEF TypesKept, TInv

\* A function over 1 .. n is a sequence.
LEMMA FunctionIsSeq ==
    ASSUME NEW S, NEW n \in Nat, NEW f \in [1 .. n -> S]
    PROVE  f \in Seq(S) /\ Len(f) = n
BY SeqDef, LenProperties

\* What a class keeps with a key.
LEMMA ValuesOfClass ==
    /\ ValuesOf("map") = Vals
    /\ ValuesOf("fre") = 1 .. MaxCount
    /\ ValuesOf("cortina") = UNION {[1 .. n -> Vals] : n \in 0 .. MaxCount}
    /\ ValuesOf("list") = {Null}
BY DEF ValuesOf

LEMMA CallIs ==
    ASSUME TInv
    PROVE  /\ call.op \in {"insert", "insert_update", "update", "get"} => kind \in {"map", "cortina"}
           /\ call.op \in {"push", "pop"} => kind = "fre"
           /\ call.op = "append" => kind = "cortina"
           /\ call.op \notin Looped => call.key \in Keys
BY DEF TInv, TypedCall, OpOf, Looped

\* What a call may come with is a value of the class.
LEMMA GivenFits == ASSUME kind \in Kinds PROVE \A val \in Given : val \in ValuesOf(kind)
<1>1. MaxCount \in Nat /\ MaxGiven \in Nat /\ MaxGiven <= MaxCount
  BY ListAssumption
<1>2. CASE kind = "map"
  BY <1>2 DEF Given, UpTo, ValuesOf
<1>3. CASE kind = "fre"
  <2>1. Given = 1 .. MaxGiven /\ ValuesOf(kind) = 1 .. MaxCount
    BY <1>3 DEF Given, UpTo, ValuesOf
  <2> QED BY <1>1, <2>1
<1>4. CASE kind = "cortina"
  <2>1. /\ Given = UNION {[1 .. n -> Vals] : n \in 0 .. MaxGiven}
        /\ ValuesOf(kind) = UNION {[1 .. n -> Vals] : n \in 0 .. MaxCount}
    BY <1>4 DEF Given, UpTo, ValuesOf
  <2>2. 0 .. MaxGiven \subseteq 0 .. MaxCount
    BY <1>1
  <2> QED BY <2>1, <2>2
<1>5. CASE kind = "list"
  BY <1>5 DEF Given, UpTo, ValuesOf
<1> QED BY <1>2, <1>3, <1>4, <1>5 DEF Kinds

LEMMA PushTypes ==
    ASSUME NEW ow, NEW ps, Inv(heap, obj, call, ow, ps), TInv, NEW op \in LookOps \ {"get_at", "equal"},
           Missed(op), NEW val \in ValuesOf(kind), NEW result, Push(val, result)
    PROVE  TypesKept
<1>1. /\ call.op = op /\ call.op \notin Looped /\ call.op # "destroy"
      /\ call.on \in DOMAIN obj /\ call.on \in AliveOf(obj, call)
  BY Ops, LoopFacts DEF Missed, Doing, Looped
<1>2. \E n \in Nodes : n \notin DOMAIN heap
  BY <1>1 DEF Inv, CallOK, RoomOK
<1>3. MayPushBk(call.on)
  BY <1>1, ListEnds DEF Inv, Shape
<1>4. /\ PushBk(call.on, call.key, val)
      /\ call' = NoCall /\ kind' = kind
  BY <1>3 DEF Push, Return
<1>5. call.key \in Keys /\ Fresh \in Nodes
  BY <1>1, <1>2, CallIs, FreshIsFree
<1> DEFINE l == call.on
           key == call.key
<1>6. l \in DOMAIN obj /\ key \in Keys /\ MayPushBk(l) /\ PushBk(l, key, val)
  BY <1>1, <1>3, <1>4, <1>5
<1> HIDE DEF l, key
<1>7. TypedHeap(kind, heap') /\ TypedEnds(obj')
  BY <1>5, <1>6, PushBkTypes DEF TInv, Inv, Shape
<1> QED BY <1>4, <1>7, EndTypes

LEMMA ReturnTypes ==
    ASSUME TInv, Same, NEW result, Return(result)
    PROVE  TypesKept
BY QuietTypes, NoCallTyped DEF Same, Return

LEMMA ChangedTypes ==
    ASSUME NEW ow, NEW ps, Inv(heap, obj, call, ow, ps), TInv, NEW op \in LookOps, Found(op),
           NEW val \in ValuesOf(kind), Changed(val), NEW result, Return(result)
    PROVE  TypesKept
<1>1. call.cur \in DOMAIN heap
  BY FoundFacts
<1>2. TypedHeap(kind, heap')
  BY <1>1, ChangeTypes DEF Changed, TInv, Inv, Shape
<1>3. TypedEnds(obj')
  BY DEF Changed, TInv
<1> QED BY <1>2, <1>3, EndTypes DEF Return

LEMMA DroppedTypes ==
    ASSUME NEW ow, NEW ps, Inv(heap, obj, call, ow, ps), TInv, NEW op \in LookOps, Found(op),
           NEW result, Drop(result)
    PROVE  TypesKept
<1> DEFINE l == call.on
           d == call.cur
<1>1. l \in DOMAIN obj /\ d \in DOMAIN heap /\ MayLink(d)
  BY FoundFacts
<1>2. DeleteNode(l, d) /\ call' = NoCall /\ kind' = kind
  BY <1>1 DEF Drop, Return
<1> HIDE DEF l, d
<1>3. TypedHeap(kind, heap') /\ TypedEnds(obj')
  BY <1>1, <1>2, DeleteTypes DEF TInv, Inv, Shape
<1> QED BY <1>2, <1>3, EndTypes

LEMMA FrePushTypes ==
    ASSUME NEW ow, NEW ps, Inv(heap, obj, call, ow, ps), TInv, FrePush \/ FrePop
    PROVE  TypesKept
<1>1. call.op \in {"push", "pop"} /\ kind = "fre" /\ ValuesOf(kind) = 1 .. MaxCount
  BY CallIs, ValuesOfClass DEF FrePush, FrePop, Missed, Found, Doing
<1>2. MaxCount \in Nat \ {0}
  BY ListAssumption
<1>3. CASE Missed("push") /\ Push(1, Nothing)
  <2>1. 1 \in ValuesOf(kind) /\ "push" \in LookOps \ {"get_at", "equal"}
    BY <1>1, <1>2, Ops
  <2> QED BY <1>3, <2>1, PushTypes
<1>4. CASE Found("push") /\ Changed(heap[call.cur].val + 1) /\ Return(Nothing)
  <2>1. call.op = "push" /\ call.cur \in DOMAIN heap /\ heap[call.cur].key = call.key
    BY <1>4 DEF Found, Doing, Follows, Sought
  <2>2. heap[call.cur].val \in 1 .. MaxCount
    BY <1>1, <2>1 DEF TInv, TypedHeap, TypedNode
  <2>3. heap[call.cur].val < MaxCount
    BY <1>1, <2>1 DEF TInv, TypedCall, HasRoom, Growing
  <2> DEFINE val == heap[call.cur].val + 1
  <2>4. val \in ValuesOf(kind) /\ "push" \in LookOps
    BY <1>1, <1>2, <2>2, <2>3, Ops
  <2>5. Changed(val)
    BY <1>4
  <2> HIDE DEF val
  <2> QED BY <1>4, <2>4, <2>5, ChangedTypes
<1>5. CASE Missed("pop") /\ Same /\ Return(Nothing)
  BY <1>5, ReturnTypes
<1>6. CASE Found("pop") /\ heap[call.cur].val > 1 /\ Changed(heap[call.cur].val - 1) /\ Return(Nothing)
  <2>1. call.cur \in DOMAIN heap
    BY <1>6 DEF Found, Follows
  <2>2. heap[call.cur].val \in 1 .. MaxCount
    BY <1>1, <2>1 DEF TInv, TypedHeap, TypedNode
  <2> DEFINE val == heap[call.cur].val - 1
  <2>3. val \in ValuesOf(kind) /\ "pop" \in LookOps
    BY <1>1, <1>2, <1>6, <2>2, Ops
  <2>4. Changed(val)
    BY <1>6
  <2> HIDE DEF val
  <2> QED BY <1>6, <2>3, <2>4, ChangedTypes
<1>7. CASE Found("pop") /\ Drop(Nothing)
  BY <1>7, Ops, DroppedTypes
<1> QED BY <1>3, <1>4, <1>5, <1>6, <1>7 DEF FrePush, FrePop

LEMMA AppendTypes ==
    ASSUME NEW ow, NEW ps, Inv(heap, obj, call, ow, ps), TInv, CortinaAppend
    PROVE  TypesKept
<1>1. /\ call.op = "append" /\ kind = "cortina" /\ call.val \in Vals
      /\ ValuesOf(kind) = UNION {[1 .. n -> Vals] : n \in 0 .. MaxCount}
  <2>1. call.op = "append"
    BY DEF CortinaAppend, Missed, Found, Doing
  <2> QED BY <2>1, CallIs, ValuesOfClass DEF TInv, TypedCall, GivenTo
<1>2. MaxCount \in Nat \ {0}
  BY ListAssumption
<1>3. CASE Missed("append") /\ Push(<<call.val>>, Nothing)
  <2> DEFINE val == <<call.val>>
  <2>1. val \in [1 .. 1 -> Vals] /\ 1 \in 0 .. MaxCount
    BY <1>1, <1>2
  <2>2. val \in ValuesOf(kind) /\ "append" \in LookOps \ {"get_at", "equal"}
    BY <1>1, <2>1, Ops
  <2>3. Push(val, Nothing)
    BY <1>3
  <2> HIDE DEF val
  <2> QED BY <1>3, <2>2, <2>3, PushTypes
<1>4. CASE Found("append") /\ Changed(Append(heap[call.cur].val, call.val)) /\ Return(Nothing)
  <2> DEFINE old == heap[call.cur].val
             val == Append(old, call.val)
  <2>1. call.cur \in DOMAIN heap /\ heap[call.cur].key = call.key
    BY <1>1, <1>4 DEF Found, Follows, Sought
  <2>2. old \in ValuesOf(kind) /\ Len(old) < MaxCount
    BY <1>1, <2>1 DEF TInv, TypedHeap, TypedNode, TypedCall, HasRoom, Growing
  <2>3. PICK n \in 0 .. MaxCount : old \in [1 .. n -> Vals]
    BY <1>1, <2>2
  <2>4. old \in Seq(Vals) /\ Len(old) = n
    BY <1>2, <2>3, FunctionIsSeq
  <2>5. val \in Seq(Vals) /\ Len(val) = n + 1
    BY <1>1, <2>4
  <2>6. val \in [1 .. n + 1 -> Vals] /\ n + 1 \in 0 .. MaxCount
    <3>1. val \in [1 .. Len(val) -> Vals]
      <4> HIDE DEF val
      <4> QED BY <2>5, LenProperties
    <3>2. n + 1 \in 0 .. MaxCount
      BY <1>2, <2>2, <2>4
    <3> HIDE DEF val
    <3> QED BY <2>5, <3>1, <3>2
  <2>7. val \in ValuesOf(kind) /\ "append" \in LookOps
    BY <1>1, <2>6, Ops
  <2>8. Changed(val)
    BY <1>4
  <2> HIDE DEF val
  <2> QED BY <1>4, <2>7, <2>8, ChangedTypes
<1> QED BY <1>3, <1>4 DEF CortinaAppend

LEMMA MapTypes ==
    ASSUME NEW ow, NEW ps, Inv(heap, obj, call, ow, ps), TInv,
           Insert \/ InsertUpdate \/ Update \/ Get
    PROVE  TypesKept
<1>1. call.op \in {"insert", "insert_update", "update", "get"}
  BY DEF Insert, InsertUpdate, Update, Get, Missed, Found, Doing
<1>2. call.op # "get" => call.val \in ValuesOf(kind)
  BY <1>1 DEF TInv, TypedCall, GivenTo
<1> DEFINE val == Assigned(heap[call.cur].val, call.val)
<1>0. ASSUME NEW op \in {"insert_update", "update"}, Found(op) PROVE val \in ValuesOf(kind)
  <2>1. call.op = op /\ call.cur \in DOMAIN heap /\ heap[call.cur].key = call.key
    BY <1>0 DEF Found, Doing, Follows, Sought
  <2>2. AssignedOf(kind, heap[call.cur].val, call.val) \in ValuesOf(kind)
    BY <2>1 DEF TInv, TypedCall, HasRoom, Growing
  <2> QED BY <2>2 DEF Assigned, AssignedOf
<1>3. CASE Insert
  <2>1. call.op # "get"
    BY <1>3 DEF Insert, Missed, Found, Doing
  <2> QED BY <1>2, <1>3, <2>1, Ops, PushTypes, ReturnTypes DEF Insert
<1>4. CASE InsertUpdate
  <2>1. call.op # "get"
    BY <1>4 DEF InsertUpdate, Missed, Found, Doing
  <2>2. CASE Missed("insert_update") /\ Push(call.val, Yes)
    BY <1>2, <2>1, <2>2, Ops, PushTypes
  <2>3. CASE Found("insert_update") /\ Changed(val) /\ Return(No)
    <3>1. val \in ValuesOf(kind)
      BY <1>0, <2>3
    <3> HIDE DEF val
    <3> QED BY <2>3, <3>1, Ops, ChangedTypes
  <2> QED BY <1>4, <2>2, <2>3 DEF InsertUpdate
<1>5. CASE Update
  <2>2. CASE Missed("update") /\ Same /\ Return(No)
    BY <2>2, ReturnTypes
  <2>3. CASE Found("update") /\ Changed(val) /\ Return(Yes)
    <3>1. val \in ValuesOf(kind)
      BY <1>0, <2>3
    <3> HIDE DEF val
    <3> QED BY <2>3, <3>1, Ops, ChangedTypes
  <2> QED BY <1>5, <2>2, <2>3 DEF Update
<1>6. CASE Get
  BY <1>6, ReturnTypes DEF Get
<1> QED BY <1>3, <1>4, <1>5, <1>6

LEMMA PlainTypes ==
    ASSUME NEW ow, NEW ps, Inv(heap, obj, call, ow, ps), TInv, DeleteKey \/ AtIndex \/ Compared
    PROVE  TypesKept
<1>1. CASE DeleteKey
  BY <1>1, Ops, ReturnTypes, DroppedTypes DEF DeleteKey
<1>2. CASE AtIndex \/ Compared
  BY <1>2, ReturnTypes DEF AtIndex, Compared
<1> QED BY <1>1, <1>2

LEMMA OrdTypes ==
    ASSUME NEW ow, NEW ps, Inv(heap, obj, call, ow, ps), TInv, OrdPushed
    PROVE  TypesKept
<1>0. call.op = "push_ord" /\ call.key \in Keys
  BY CallIs DEF OrdPushed, Missed, Found, Doing, Looped
<1>1. call.op = "push_ord" /\ call.key \in Keys /\ call.val[2] \in ValuesOf(kind)
  BY <1>0 DEF TInv, TypedCall, GivenTo
<1>2. CASE Missed("push_ord") /\ Push(call.val[2], Nothing)
  BY <1>1, <1>2, Ops, PushTypes
<1>3. CASE Found("push_ord")
  <2> DEFINE l == call.on
             at == call.cur
             key == call.key
             val == call.val[2]
  <2>1. l \in DOMAIN obj /\ at \in DOMAIN heap /\ MayLink(at) /\ call.op \in LookOps \ {"get_at", "equal"}
    BY <1>1, <1>3, Ops, FoundFacts
  <2>2. Fresh \in Nodes
    BY <2>1, FreshIsFree DEF Inv, CallOK, RoomOK
  <2>3. ~ Missed("push_ord")
    BY <2>1, NullIsNoNode DEF Missed, Inv, Shape
  <2>4. LinkBefore(l, at, key, val) /\ call' = NoCall /\ kind' = kind
    BY <2>1, <2>3 DEF OrdPushed, Return
  <2>5. key \in Keys /\ val \in ValuesOf(kind)
    BY <1>1
  <2> HIDE DEF l, at, key, val
  <2>6. TypedHeap(kind, heap') /\ TypedEnds(obj')
    BY <2>1, <2>2, <2>4, <2>5, LinkBeforeTypes DEF TInv, Inv, Shape
  <2> QED BY <2>4, <2>6, EndTypes
<1> QED BY <1>2, <1>3 DEF OrdPushed

\* A loop's step leaves the call as it is, but for the places it is at.
LEMMA GoesOnTypes ==
    ASSUME NEW h, NEW c, NEW k, IsCall(call), TypedCall(k, heap, call), call.op # "none", IsCall(c),
           c.op = call.op, c.key = call.key, c.val = call.val, c.cur \in Pointers,
           call.op \in Growing => h = heap
    PROVE  TypedCall(k, h, c)
BY DEF TypedCall

LEMMA WalkTypes ==
    ASSUME NEW ow, NEW ps, Inv(heap, obj, call, ow, ps), TInv, Walk
    PROVE  TypesKept
<1> DEFINE other == CASE call.op = "equal"  -> heap[call.other].next
                      [] call.op = "get_at" -> call.other - 1
                      [] OTHER              -> call.other
<1>1. call.op \in LookOps /\ call.op # "none" /\ call.cur \in DOMAIN heap /\ Follows \subseteq DOMAIN heap
  BY Ops, LoopFacts DEF Walk, Looking, Doing
<1>2. IsCall(call)
  BY DEF Inv, Shape
<1>3. /\ call' = [op |-> call.op, on |-> call.on, key |-> call.key, val |-> call.val,
                  from |-> call.from, cur |-> heap[call.cur].next, other |-> other]
      /\ kind' = kind /\ heap' = heap /\ obj' = obj
  <2>1. /\ call' = [call EXCEPT !.cur = heap[call.cur].next, !.other = other]
        /\ kind' = kind /\ heap' = heap /\ obj' = obj
    BY <1>1 DEF Walk
  <2> HIDE DEF other
  <2> QED BY <1>2, <2>1 DEF IsCall
<1> HIDE DEF other
<1>4. /\ IsCall(call') /\ call'.op = call.op /\ call'.key = call.key /\ call'.val = call.val
      /\ call'.cur = heap[call.cur].next
  BY <1>3 DEF IsCall
<1>5. call'.cur \in Pointers
  BY <1>1, <1>4 DEF TInv, TypedHeap, TypedNode
<1>6. TypedCall(kind, heap, call')
  BY <1>1, <1>2, <1>4, <1>5, GoesOnTypes DEF TInv
<1> QED BY <1>3, <1>6, QuietTypes

LEMMA CopyNodeTypes ==
    ASSUME NEW ow, NEW ps, Inv(heap, obj, call, ow, ps), TInv, CopyNode
    PROVE  TypesKept
<1> DEFINE l == call.on
           c == call.cur
           key == heap[c].key
           val == heap[c].val
<1>1. /\ call.op = "copy" /\ c # Null /\ l \in DOMAIN obj /\ c \in DOMAIN heap
      /\ ow[c] = call.from /\ call.from \in DOMAIN obj
      /\ Cardinality(Nodes \ DOMAIN heap) >= obj[call.from].size - ps[c] + 1
  BY DEF CopyNode, Doing, Inv, CallOK, CopyOK
<1>2. AliveOf(obj, call) = DOMAIN obj /\ IsCall(call)
  BY <1>1 DEF AliveOf, Inv, Shape
<1>3. MayPushBk(l)
  BY <1>1, <1>2, ListEnds DEF Inv, Shape
<1>4. /\ PushBk(l, key, val) /\ call' = [call EXCEPT !.cur = heap[c].next]
      /\ kind' = kind
  BY <1>1, <1>3 DEF CopyNode
<1>5. Fresh \in Nodes
  <2>1. ps[c] \in Int /\ ps[c] <= obj[call.from].size /\ obj[call.from].size \in Nat
    BY <1>1, <1>2 DEF Inv, Links, InRange, Shape, ObjOK, IsList
  <2>2. Cardinality(Nodes \ DOMAIN heap) \in Nat
    BY ListAssumption, FS_Subset, FS_CardinalityType
  <2>3. Room(1)
    BY <1>1, <2>1, <2>2 DEF Room
  <2> QED BY <2>3, RoomForOne, FreshIsFree
<1>6. key \in Keys /\ val \in ValuesOf(kind) /\ heap[c].next \in Pointers
  BY <1>1 DEF TInv, TypedHeap, TypedNode
<1>7. /\ call' = [op |-> call.op, on |-> call.on, key |-> call.key, val |-> call.val,
                  from |-> call.from, cur |-> heap[c].next, other |-> call.other]
  BY <1>2, <1>4 DEF IsCall
<1>8. /\ IsCall(call') /\ call'.op = call.op /\ call'.key = call.key /\ call'.val = call.val
      /\ call'.cur = heap[c].next
  BY <1>7 DEF IsCall
<1>9. TypedCall(kind, heap', call')
  BY <1>1, <1>2, <1>6, <1>8, GoesOnTypes DEF TInv, Growing
<1> HIDE DEF l, c, key, val
<1>10. TypedHeap(kind, heap') /\ TypedEnds(obj')
  BY <1>1, <1>3, <1>4, <1>5, <1>6, PushBkTypes DEF TInv, Inv, Shape
<1> QED BY <1>1, <1>4, <1>8, <1>9, <1>10 DEF TypesKept

LEMMA FreeNodeTypes ==
    ASSUME NEW ow, NEW ps, Inv(heap, obj, call, ow, ps), TInv, FreeNode
    PROVE  TypesKept
<1> DEFINE c == call.cur
<1>1. call.op = "destroy" /\ c # Null /\ c \in DOMAIN heap
  BY DEF FreeNode, Doing, Inv, CallOK, DestroyOK
<1>2. /\ heap' = [n \in DOMAIN heap \ {c} |-> heap[n]]
      /\ call' = [call EXCEPT !.cur = heap[c].next]
      /\ kind' = kind /\ obj' = obj
  BY <1>1 DEF FreeNode
<1>3. TypedHeap(kind, heap')
  BY <1>2 DEF TInv, TypedHeap
<1>4. IsCall(call)
  BY DEF Inv, Shape
<1>5. /\ call' = [op |-> call.op, on |-> call.on, key |-> call.key, val |-> call.val,
                  from |-> call.from, cur |-> heap[c].next, other |-> call.other]
  BY <1>2, <1>4 DEF IsCall
<1>6. /\ IsCall(call') /\ call'.op = call.op /\ call'.key = call.key /\ call'.val = call.val
      /\ call'.cur = heap[c].next
  BY <1>5 DEF IsCall
<1>7. heap[c].next \in Pointers
  BY <1>1 DEF TInv, TypedHeap, TypedNode
<1>8. TypedCall(kind, heap', call')
  BY <1>1, <1>4, <1>6, <1>7, GoesOnTypes DEF TInv, Growing
<1> QED BY <1>2, <1>3, <1>8 DEF TypesKept, TInv

LEMMA OverTypes ==
    ASSUME TInv, Copied \/ Destroyed
    PROVE  TypesKept
<1>1. CASE Copied
  BY <1>1, QuietTypes, NoCallTyped DEF Copied
<1>2. CASE Destroyed
  <2>1. TypedEnds(obj')
    BY <1>2 DEF Destroyed, TypedEnds, TInv
  <2> QED BY <1>2, <2>1, EndTypes DEF Destroyed, TInv
<1> QED BY <1>1, <1>2

LEMMA StepTypes ==
    ASSUME NEW ow, NEW ps, Inv(heap, obj, call, ow, ps), TInv, Step
    PROVE  TypesKept
<1>1. CASE Insert \/ InsertUpdate \/ Update \/ Get
  BY <1>1, MapTypes
<1>2. CASE DeleteKey \/ AtIndex \/ Compared
  BY <1>2, PlainTypes
<1>3. CASE FrePush \/ FrePop
  BY <1>3, FrePushTypes
<1>4. CASE CortinaAppend \/ OrdPushed
  BY <1>4, AppendTypes, OrdTypes
<1>5. CASE Walk
  BY <1>5, WalkTypes
<1>6. CASE CopyNode \/ Copied \/ FreeNode \/ Destroyed
  BY <1>6, CopyNodeTypes, FreeNodeTypes, OverTypes
<1> QED BY <1>1, <1>2, <1>3, <1>4, <1>5, <1>6 DEF Step

-----------------------------------------------------------------------------
LEMMA UnchangedTypes == TInv /\ UNCHANGED <<kind, obj, heap, call>> => TypesKept
BY DEF TInv, TypesKept

\* A call that begins stands on the first node of a list.
LEMMA BeginTypes ==
    ASSUME TInv, NEW op, NEW l, NEW key, NEW val, NEW from, NEW cur \in Pointers, NEW other,
           op # "none", OpOf(kind, op), op \notin Looped => key \in Keys,
           GivenTo(kind, op, val), op \in Growing => HasRoom(kind, heap, op, key, val),
           Begin(op, l, key, val, from, cur, other), UNCHANGED <<kind, obj, heap>>
    PROVE  TypesKept
<1>1. call' = [op |-> op, on |-> l, key |-> key, val |-> val, from |-> from, cur |-> cur, other |-> other]
  BY DEF Begin
<1>2. TypedCall(kind, heap, call')
  BY <1>1 DEF TypedCall
<1> QED BY <1>2, QuietTypes

LEMMA SearchTypes ==
    ASSUME kind \in Kinds, TInv, NEW l, NEW key \in Keys, NEW op \in Searches[kind], NEW val,
           Search(op, l, key, val)
    PROVE  TypesKept
<1>1. obj[l].head \in Pointers /\ Begin(op, l, key, val, Null, obj[l].head, Null)
  BY DEF Search, TInv, TypedEnds
<1>2. op # "none" /\ OpOf(kind, op) /\ op \in LookOps
  BY Ops DEF Kinds, Searches, OpOf
<1>3. GivenTo(kind, op, val)
  <2>1. op # "push_ord"
    BY Ops
  <2>2. ASSUME op = "append" PROVE val \in Vals
    <3>1. val \in (CASE op = "append"    -> Vals
                     [] op \in TakeValue -> Given
                     [] OTHER            -> {Null})
      BY DEF Search
    <3> QED BY <2>2, <3>1, Zenon DEF TakeValue
  <2>3. ASSUME op \in {"insert", "insert_update", "update"} PROVE val \in ValuesOf(kind)
    <3>1. val \in Given
      BY <2>3 DEF Search, TakeValue
    <3> QED BY <3>1, GivenFits
  <2> QED BY <2>1, <2>2, <2>3 DEF GivenTo
<1>4. op \in Growing => HasRoom(kind, heap, op, key, val)
  <2>1. MayGrow(op, key, val)
    BY DEF Search
  <2>2. Values = ValuesOf(kind)
    BY DEF Values, UpTo, ValuesOf
  <2> QED BY <2>1, <2>2 DEF MayGrow, HasRoom, Assigned, AssignedOf
<1> QED BY <1>1, <1>2, <1>3, <1>4, BeginTypes DEF Search

LEMMA CopyTypes ==
    ASSUME NEW ow, NEW ps, Inv(heap, obj, call, ow, ps), TInv, NEW l, NEW from,
           CopyConstruct(l, from) \/ CopyAssign(l, from)
    PROVE  TypesKept
<1>1. obj[from].head \in Pointers /\ Null \in Pointers
  BY DEF CopyConstruct, CopyAssign, TInv, TypedEnds, Pointers
<1>2. /\ OpOf(kind, "copy") /\ "copy" \in Looped /\ "copy" \notin Growing
      /\ \A val : GivenTo(kind, "copy", val)
  BY DEF OpOf, Looped, Growing, GivenTo
<1>3. CASE CopyAssign(l, from)
  BY <1>1, <1>2, <1>3, BeginTypes DEF CopyAssign
<1>4. CASE CopyConstruct(l, from)
  <2>1. call' = [op |-> "copy", on |-> l, key |-> Null, val |-> 0, from |-> from,
                 cur |-> obj[from].head, other |-> Null]
    BY <1>4 DEF CopyConstruct, Begin
  <2>2. TypedCall(kind, heap, call')
    BY <1>1, <1>2, <2>1 DEF TypedCall
  <2>3. TypedEnds(obj')
    BY <1>1, <1>4 DEF CopyConstruct, With, Empty, TypedEnds, TInv
  <2> QED BY <1>4, <2>1, <2>2, <2>3 DEF CopyConstruct, TypesKept, TInv
<1> QED BY <1>3, <1>4

LEMMA ObjectTypes ==
    ASSUME TInv, NEW l, NEW from, Construct(l) \/ MoveConstruct(l, from) \/ MoveAssign(l, from)
    PROVE  TypesKept
<1>1. Null \in Pointers
  BY DEF Pointers
<1>2. call' = NoCall /\ heap' = heap /\ kind' = kind
  BY DEF Construct, MoveConstruct, MoveAssign, Idle
<1>3. TypedEnds(obj')
  <2>1. CASE Construct(l)
    BY <1>1, <2>1 DEF Construct, With, Empty, TypedEnds, TInv
  <2>2. CASE MoveConstruct(l, from) \/ MoveAssign(l, from)
    <3>1. obj' = Moved(l, from) /\ from \in DOMAIN obj
      BY <2>2 DEF MoveConstruct, MoveAssign
    <3>2. ASSUME NEW o \in DOMAIN obj' PROVE obj'[o].head \in Pointers /\ obj'[o].tail \in Pointers
      <4>1. obj'[o] = IF o = l THEN obj[from] ELSE IF o = from THEN Empty ELSE obj[o]
        BY <3>1, <3>2 DEF Moved
      <4>2. Empty.head = Null /\ Empty.tail = Null
        BY DEF Empty
      <4>3. o = l \/ o \in DOMAIN obj
        BY <3>1, <3>2 DEF Moved
      <4> QED BY <1>1, <3>1, <4>1, <4>2, <4>3 DEF TInv, TypedEnds
    <3> QED BY <3>2 DEF TypedEnds
  <2> QED BY <2>1, <2>2
<1> QED BY <1>2, <1>3, EndTypes DEF TInv

LEMMA DestroyTypes ==
    ASSUME TInv, NEW l, Destroy(l)
    PROVE  TypesKept
<1>1. (IF obj[l].size > 0 THEN obj[l].head ELSE Null) \in Pointers
  BY DEF Destroy, TInv, TypedEnds, Pointers
<1>2. /\ OpOf(kind, "destroy") /\ "destroy" \in Looped /\ "destroy" \notin Growing
      /\ \A val : GivenTo(kind, "destroy", val)
  BY DEF OpOf, Looped, Growing, GivenTo
<1> QED BY <1>1, <1>2, BeginTypes DEF Destroy

LEMMA PushOrdTypes ==
    ASSUME kind \in Kinds, TInv, NEW l, NEW key \in Keys, NEW ord, NEW val, PushOrd(l, key, ord, val)
    PROVE  TypesKept
<1> DEFINE pair == <<ord, val>>
<1>1. obj[l].head \in Pointers /\ val \in ValuesOf(kind)
  BY GivenFits DEF PushOrd, TInv, TypedEnds
<1>2. OpOf(kind, "push_ord") /\ "push_ord" \notin Growing /\ GivenTo(kind, "push_ord", pair)
  BY <1>1 DEF OpOf, Growing, GivenTo
<1>3. Begin("push_ord", l, key, pair, Null, obj[l].head, Null) /\ UNCHANGED <<kind, obj, heap>>
  BY DEF PushOrd
<1> HIDE DEF pair
<1> QED BY <1>1, <1>2, <1>3, BeginTypes

LEMMA GetAtTypes ==
    ASSUME TInv, NEW l, NEW index, GetAt(l, index)
    PROVE  TypesKept
<1>1. CASE call' = call
  BY <1>1, UnchangedTypes DEF GetAt
<1>2. CASE call' # call
  <2>1. /\ Begin("get_at", l, Null, index, Null, obj[l].head, index)
        /\ UNCHANGED <<kind, obj, heap>> /\ obj[l].head \in Pointers
    BY <1>2 DEF GetAt, TInv, TypedEnds
  <2>2. /\ OpOf(kind, "get_at") /\ "get_at" \in Looped /\ "get_at" \notin Growing
        /\ \A val : GivenTo(kind, "get_at", val)
    BY DEF OpOf, Looped, Growing, GivenTo
  <2> QED BY <2>1, <2>2, BeginTypes
<1> QED BY <1>1, <1>2

LEMMA EqualTypes ==
    ASSUME TInv, NEW l, NEW from, Equal(l, from)
    PROVE  TypesKept
<1>1. CASE call' = call
  BY <1>1, UnchangedTypes DEF Equal
<1>2. CASE call' # call
  <2>1. /\ Begin("equal", l, Null, Null, from, obj[l].head, obj[from].head)
        /\ UNCHANGED <<kind, obj, heap>> /\ obj[l].head \in Pointers
    BY <1>2 DEF Equal, TInv, TypedEnds
  <2>2. /\ OpOf(kind, "equal") /\ "equal" \in Looped /\ "equal" \notin Growing
        /\ \A val : GivenTo(kind, "equal", val)
    BY DEF OpOf, Looped, Growing, GivenTo
  <2> QED BY <2>1, <2>2, BeginTypes
<1> QED BY <1>1, <1>2

LEMMA PushFrontTypes ==
    ASSUME NEW ow, NEW ps, Inv(heap, obj, call, ow, ps), TInv, NEW l, NEW key \in Keys,
           PushFront(l, key)
    PROVE  TypesKept
<1>1. kind = "list" /\ Null \in ValuesOf(kind) /\ call = NoCall /\ l \in DOMAIN obj /\ Room(1)
  BY ValuesOfClass DEF PushFront, Idle
<1>2. CASE Fault
  BY <1>2, UnchangedTypes DEF Fault
<1>3. CASE ~ Fault
  <2>1. Fresh \in Nodes
    BY <1>1, RoomForOne, FreshIsFree
  <2>2. /\ PushFt(l, key, Null) /\ (obj[l].head = Null \/ obj[l].head \in DOMAIN heap)
        /\ call' = call /\ kind' = kind
    BY <1>3 DEF PushFront, MayLink, Done
  <2>3. TypedHeap(kind, heap') /\ TypedEnds(obj')
    BY <1>1, <2>1, <2>2, PushFtTypes DEF TInv, Inv, Shape
  <2> QED BY <1>1, <2>2, <2>3, EndTypes
<1> QED BY <1>2, <1>3

LEMMA PushBackTypes ==
    ASSUME NEW ow, NEW ps, Inv(heap, obj, call, ow, ps), TInv, NEW l, NEW key \in Keys,
           NEW val, PushBack(l, key, val), kind \in Kinds
    PROVE  TypesKept
<1>1. val \in ValuesOf(kind) /\ call = NoCall /\ l \in DOMAIN obj /\ Room(1)
  BY GivenFits DEF PushBack, Idle
<1>2. CASE Fault
  BY <1>2, UnchangedTypes DEF Fault
<1>3. CASE ~ Fault
  <2>1. Fresh \in Nodes
    BY <1>1, RoomForOne, FreshIsFree
  <2>2. PushBk(l, key, val) /\ MayPushBk(l) /\ call' = call /\ kind' = kind
    BY <1>3 DEF PushBack, Done
  <2>3. TypedHeap(kind, heap') /\ TypedEnds(obj')
    BY <1>1, <2>1, <2>2, PushBkTypes DEF TInv, Inv, Shape
  <2> QED BY <1>1, <2>2, <2>3, EndTypes
<1> QED BY <1>2, <1>3

LEMMA PopTypes ==
    ASSUME NEW ow, NEW ps, Inv(heap, obj, call, ow, ps), TInv, NEW l, Pop(l)
    PROVE  TypesKept
<1>1. call = NoCall /\ l \in DOMAIN obj
  BY DEF Pop, Idle
<1>2. CASE Fault
  BY <1>2, UnchangedTypes DEF Fault
<1>3. CASE ~ Fault
  <2> DEFINE d == obj[l].tail
  <2>1. DeleteNode(l, d) /\ d \in DOMAIN heap /\ call' = call /\ kind' = kind
    BY <1>3 DEF Pop, MayLink, Done
  <2> HIDE DEF d
  <2>2. TypedHeap(kind, heap') /\ TypedEnds(obj')
    BY <1>1, <2>1, DeleteTypes DEF TInv, Inv, Shape
  <2> QED BY <1>1, <2>1, <2>2, EndTypes
<1> QED BY <1>2, <1>3

LEMMA NextTypes ==
    ASSUME IInv, TInv, [Next]_vars
    PROVE  TypesKept
<1>1. PICK ow, ps : Inv(heap, obj, call, ow, ps)
  BY DEF IInv
<1>2. kind \in Kinds
  BY DEF IInv
<1>3. CASE Step
  BY <1>1, <1>3, StepTypes
<1>4. CASE UNCHANGED vars
  BY <1>4, UnchangedTypes DEF vars
<1>5. ASSUME NEW l \in Objects, Construct(l) \/ Destroy(l) \/ Pop(l)
      PROVE  TypesKept
  <2>1. CASE Construct(l)
    BY <2>1, ObjectTypes
  <2>2. CASE Destroy(l)
    BY <2>2, DestroyTypes
  <2>3. CASE Pop(l)
    BY <1>1, <2>3, PopTypes
  <2> QED BY <1>5, <2>1, <2>2, <2>3
<1>6. ASSUME NEW l \in Objects, NEW from \in Objects,
             \/ CopyConstruct(l, from) \/ CopyAssign(l, from)
             \/ MoveConstruct(l, from) \/ MoveAssign(l, from) \/ Equal(l, from)
      PROVE  TypesKept
  BY <1>1, <1>6, CopyTypes, ObjectTypes, EqualTypes
<1>7. ASSUME NEW l \in Objects, NEW key \in Keys,
             \/ PushFront(l, key)
             \/ \E val : PushBack(l, key, val) \/ \E ord \in {"Asc", "Des"} : PushOrd(l, key, ord, val)
      PROVE  TypesKept
  BY <1>1, <1>2, <1>7, PushFrontTypes, PushBackTypes, PushOrdTypes
<1>8. ASSUME NEW l \in Objects, NEW key \in Keys, NEW op \in Searches[kind], NEW val,
             Search(op, l, key, val)
      PROVE  TypesKept
  BY <1>2, <1>8, SearchTypes
<1>9. ASSUME NEW l \in Objects, NEW index, GetAt(l, index)
      PROVE  TypesKept
  BY <1>9, GetAtTypes
<1> QED BY <1>3, <1>4, <1>5, <1>6, <1>7, <1>8, <1>9 DEF Next

\* Where every size fits in the heap: in lists, and in what was a list.
ListsFit == \A l \in Alive : obj[l].size \in 0 .. Limit

LEMMA ListsAllFit == IInv => ListsFit
<1> SUFFICES ASSUME IInv, NEW l \in Alive PROVE obj[l].size \in 0 .. Limit
  BY DEF ListsFit
<1>1. PICK ow, ps : Inv(heap, obj, call, ow, ps)
  BY DEF IInv
<1>2. l \in AliveOf(obj, call)
  BY DEF Alive, AliveOf
<1> QED BY <1>1, <1>2, ListIsOrdered DEF Inv, Shape

LEMMA TInvKept ==
    ASSUME TInv, TypesKept, \A l \in Alive' : obj'[l].size \in 0 .. Limit
    PROVE  TInv'
<1>1. SizesFit(obj')
  <2> SUFFICES ASSUME NEW l \in DOMAIN obj' PROVE obj'[l].size \in 0 .. Limit
    BY DEF SizesFit
  <2>1. CASE l \in Alive'
    BY <2>1
  <2>2. CASE l \notin Alive'
    <3>1. call'.op = "destroy"
      BY <2>2 DEF Alive
    <3> QED BY <3>1 DEF TypesKept, TInv, SizesFit
  <2> QED BY <2>1, <2>2
<1> QED BY <1>1 DEF TInv, TypesKept, TypedHeap, TypedNode, TypedEnds, SizesFit, TypedCall,
                      GivenTo, HasRoom, AssignedOf, ValuesOf

LEMMA TypedInvariance == Spec => []TInv
<1>1. Init => TInv
  <2> SUFFICES ASSUME Init PROVE TInv
    OBVIOUS
  <2>1. DOMAIN heap = {} /\ DOMAIN obj = {} /\ call = NoCall
    BY DEF Init
  <2> QED BY <2>1, NoCallTyped DEF TInv, TypedHeap, TypedEnds, SizesFit
<1>2. TInv /\ IInv /\ IInv' /\ [Next]_vars => TInv'
  <2>1. IInv' => ListsFit'
    BY ListsAllFit, PTL
  <2>2. ListsFit' => \A l \in Alive' : obj'[l].size \in 0 .. Limit
    BY DEF ListsFit
  <2> QED BY <2>1, <2>2, NextTypes, TInvKept
<1>3. Spec => []IInv
  BY Invariance
<1> QED BY <1>1, <1>2, <1>3, PTL DEF Spec

LEMMA TypedIsTypeOK == IInv /\ TInv => TypeOK
<1> SUFFICES ASSUME IInv, TInv PROVE TypeOK
  OBVIOUS
<1>1. PICK ow, ps : Inv(heap, obj, call, ow, ps)
  BY DEF IInv
<1>2. kind \in Kinds /\ DOMAIN obj \subseteq Objects /\ DOMAIN heap \subseteq Nodes
  BY <1>1 DEF IInv, Inv, Shape, ObjOK, HeapOK
<1>3. \A l \in DOMAIN obj :
         obj[l] \in [head : Nodes \cup {Null}, tail : Nodes \cup {Null}, size : 0 .. Cardinality(Nodes)]
  BY <1>1 DEF Inv, Shape, ObjOK, IsList, TInv, TypedEnds, SizesFit, Pointers, Limit
<1>4. \A n \in DOMAIN heap : /\ heap[n].key \in Keys /\ heap[n].val \in ValuesOf(kind)
                             /\ {heap[n].prev, heap[n].next} \subseteq Nodes \cup {Null}
  BY DEF TInv, TypedHeap, TypedNode, Pointers
<1>5. call.cur \in Nodes \cup {Null}
  BY DEF TInv, TypedCall, Pointers
<1>6. call # NoCall => call.on \in DOMAIN obj
  <2>1. CASE call.op \in LookOps
    BY <1>1, <2>1 DEF Inv, CallOK, LookOK
  <2>2. CASE call.op = "copy"
    BY <1>1, <2>2 DEF Inv, CallOK, CopyOK
  <2>3. CASE call.op = "destroy"
    BY <1>1, <2>3 DEF Inv, CallOK, DestroyOK
  <2>4. CASE call.op = "none"
    BY <2>4 DEF TInv, TypedCall
  <2> QED BY <2>1, <2>2, <2>3, <2>4, Ops DEF TInv, TypedCall, OpOf, Looped
<1> QED BY <1>2, <1>3, <1>4, <1>5, <1>6 DEF TypeOK, Values, UpTo, ValuesOf

(* A list never counts more nodes than there are, the count of a ListFre   *)
(* is never 0, what an entry holds stays within its bound, and a running   *)
(* call is about a list that lives.                                        *)
THEOREM ListsTypeCorrect == Spec => []TypeOK
<1>1. Spec => []TInv /\ []IInv
  BY Invariance, TypedInvariance, PTL
<1> QED BY <1>1, TypedIsTypeOK, PTL

-----------------------------------------------------------------------------
(* What the lists hold: the entries in the order of the next pointers. *)

Order(l) == From(obj[l].head)

EntryOf(n) == [key |-> heap[n].key, val |-> heap[n].val]

Entries(l) == [i \in 1 .. obj[l].size |-> EntryOf(Order(l)[i])]

\* g is the order of the nodes of list l; null stands behind the last.
IsOrder(h, o, l, g) ==
    /\ o[l].size \in 0 .. Limit
    /\ g = [i \in 1 .. Limit + 1 |-> g[i]]
    /\ g[1] = o[l].head
    /\ o[l].size > 0 => g[o[l].size] = o[l].tail
    /\ \A i \in 1 .. Limit + 1 : i > o[l].size => g[i] = Null
    /\ \A i \in 1 .. o[l].size : /\ g[i] \in DOMAIN h
                                 /\ h[g[i]].next = g[i + 1]
                                 /\ h[g[i]].prev = IF i = 1 THEN Null ELSE g[i - 1]

\* Every living list has its order, and no node is twice in them.
Ordered ==
    /\ \A l \in Alive : IsOrder(heap, obj, l, Order(l))
    /\ \A l, m \in Alive : \A i \in 1 .. obj[l].size, j \in 1 .. obj[m].size :
          Order(l)[i] = Order(m)[j] => l = m /\ i = j

\* The entry of key goes before this one.
GoesBefore(key, ord, entry) == IF ord = "Asc" THEN entry.key > key ELSE entry.key < key

\* A loop stands at place i of its list, one behind the last if it is at null, and
\* what it looks for is not before that place.
SoughtBehind(i) ==
    LET s == Entries(call.on)
    IN  /\ call.cur = Order(call.on)[i]
        /\ CASE call.op = "push_ord" -> \A j \in 1 .. i - 1 : ~ GoesBefore(call.key, call.val[1], s[j])
             [] call.op = "get_at"   -> call.val \in Nat /\ call.other \in Nat /\ call.other = call.val - (i - 1)
             [] call.op = "equal"    -> /\ call.other = Order(call.from)[i]
                                        /\ \A j \in 1 .. i - 1 : s[j] = Entries(call.from)[j]
             [] OTHER                -> \A j \in 1 .. i - 1 : s[j].key # call.key

\* What a copy has appended to its target so far.
CopiedUpTo(i) ==
    LET s == Entries(call.on)
    IN  /\ call.cur = Order(call.from)[i]
        /\ call.val \in Nat /\ obj[call.on].size = call.val + (i - 1)
        /\ \A j \in 1 .. i - 1 : s[call.val + j] = Entries(call.from)[j]

SoughtOK == call.op \in LookOps => \E i \in 1 .. obj[call.on].size + 1 : SoughtBehind(i)

CopiedOK == call.op = "copy" => \E i \in 1 .. obj[call.from].size + 1 : CopiedUpTo(i)

LoopInv == SoughtOK /\ CopiedOK

-----------------------------------------------------------------------------
LEMMA ListsInOrder ==
    ASSUME NEW ow, NEW ps, HeapOK(heap), ObjOK(obj), Links(heap, obj, Alive, ow, ps)
    PROVE  /\ Ordered
           /\ \A l \in Alive : \A i \in 1 .. obj[l].size :
                 ow[Order(l)[i]] = l /\ ps[Order(l)[i]] = i
           /\ \A n \in DOMAIN heap : ow[n] \in Alive =>
                 ps[n] \in 1 .. obj[ow[n]].size /\ Order(ow[n])[ps[n]] = n
<1>1. Alive = AliveOf(obj, call)
  BY DEF Alive, AliveOf
<1>2. ASSUME NEW l \in Alive
      PROVE  /\ IsOrder(heap, obj, l, Order(l))
             /\ \A i \in 1 .. obj[l].size : ow[Order(l)[i]] = l /\ ps[Order(l)[i]] = i
             /\ \A n \in DOMAIN heap : ow[n] = l =>
                   ps[n] \in 1 .. obj[l].size /\ Order(l)[ps[n]] = n
  <2> DEFINE k == obj[l].size
             g == OrderOf(heap, ow, ps, l, k)
             W == Order(l)
  <2>1. /\ Limit \in Nat /\ k \in 0 .. Limit
        /\ \A i \in 1 .. k : g[i] \in DOMAIN heap /\ ow[g[i]] = l /\ ps[g[i]] = i
        /\ \A n \in DOMAIN heap : ow[n] = l => ps[n] \in 1 .. k /\ g[ps[n]] = n
        /\ LeadsThrough(heap, obj[l].head, k, g)
    BY <1>1, ListIsOrdered
  <2>2. W = Chain(heap, ow, ps, l, k)
    BY <1>1, OrderFrom DEF Order
  <2>3. /\ W = [i \in 1 .. Limit + 1 |-> W[i]]
        /\ \A i \in 1 .. k : W[i] = g[i]
        /\ \A i \in 1 .. Limit + 1 : i > k => W[i] = Null
    <3>1. /\ W = [i \in 1 .. Limit + 1 |-> IF i <= k THEN NodeAt(heap, ow, ps, l, i) ELSE Null]
          /\ g = [i \in 1 .. k |-> NodeAt(heap, ow, ps, l, i)]
      BY <2>2 DEF Chain, OrderOf
    <3> HIDE DEF W, g, k
    <3> QED BY <2>1, <3>1
  <2> HIDE DEF g, W
  <2>8. \A n, i : Stands(heap, ow, ps, n, l, i) => W[i] = n
    BY <2>1, <2>3 DEF Stands
  <2>4. W[1] = obj[l].head /\ (k > 0 => W[k] = obj[l].tail)
    <3>1. k = 0 => obj[l].head = Null
      BY DEF Links, EndsOK
    <3>2. k > 0 => Stands(heap, ow, ps, obj[l].head, l, 1) /\ Stands(heap, ow, ps, obj[l].tail, l, k)
      BY DEF Links, EndsOK
    <3> HIDE DEF k
    <3>3. k = 0 => W[1] = Null
      BY <2>1, <2>3
    <3>4. k = 0 \/ k > 0
      BY <2>1
    <3> QED BY <2>8, <3>1, <3>2, <3>3, <3>4
  <2>5. ASSUME NEW i \in 1 .. k
        PROVE  /\ W[i] \in DOMAIN heap /\ ow[W[i]] = l /\ ps[W[i]] = i
               /\ heap[W[i]].next = W[i + 1]
               /\ heap[W[i]].prev = IF i = 1 THEN Null ELSE W[i - 1]
    <3>1. W[i] \in DOMAIN heap /\ ow[W[i]] = l /\ ps[W[i]] = i
      BY <2>1, <2>3
    <3>2. IF i = k THEN heap[W[i]].next = Null ELSE Stands(heap, ow, ps, heap[W[i]].next, l, i + 1)
      BY <3>1 DEF Links, Forward
    <3>3. IF i = 1 THEN heap[W[i]].prev = Null ELSE Stands(heap, ow, ps, heap[W[i]].prev, l, i - 1)
      BY <3>1 DEF Links, Backward
    <3> HIDE DEF k
    <3>4. /\ i = k => W[i + 1] = Null
          /\ i \in Nat
      BY <2>1, <2>3
    <3> QED BY <2>8, <3>1, <3>2, <3>3, <3>4
  <2>6. \A n \in DOMAIN heap : ow[n] = l => ps[n] \in 1 .. k /\ W[ps[n]] = n
    BY <2>1, <2>3
  <2>7. IsOrder(heap, obj, l, W)
    BY <2>1, <2>3, <2>4, <2>5 DEF IsOrder
  <2> QED BY <2>5, <2>6, <2>7 DEF W
<1>3. \A l, m \in Alive : \A i \in 1 .. obj[l].size, j \in 1 .. obj[m].size :
         Order(l)[i] = Order(m)[j] => l = m /\ i = j
  <2> SUFFICES ASSUME NEW l \in Alive, NEW m \in Alive,
                      NEW i \in 1 .. obj[l].size, NEW j \in 1 .. obj[m].size,
                      Order(l)[i] = Order(m)[j]
               PROVE  l = m /\ i = j
    OBVIOUS
  <2>1. ow[Order(l)[i]] = l /\ ps[Order(l)[i]] = i
    BY <1>2
  <2>2. ow[Order(m)[j]] = m /\ ps[Order(m)[j]] = j
    BY <1>2
  <2> QED BY <2>1, <2>2
<1> QED BY <1>2, <1>3 DEF Ordered

LEMMA AlwaysOrdered == IInv => Ordered
<1> SUFFICES ASSUME IInv PROVE Ordered
  OBVIOUS
<1>1. PICK ow, ps : Inv(heap, obj, call, ow, ps)
  BY DEF IInv
<1>2. Links(heap, obj, Alive, ow, ps) /\ HeapOK(heap) /\ ObjOK(obj)
  BY <1>1 DEF Inv, Shape, Alive, AliveOf
<1> QED BY <1>2, ListsInOrder

-----------------------------------------------------------------------------
(* What linking and unlinking a node do to the order of a list. *)

PutAt(s, k, p, e) == [i \in 1 .. k + 1 |-> IF i < p THEN s[i] ELSE IF i = p THEN e ELSE s[i - 1]]

DropAt(s, k, p) == [i \in 1 .. k - 1 |-> IF i < p THEN s[i] ELSE s[i + 1]]

Padded(g, k) == [i \in 1 .. Limit + 1 |-> IF i <= k THEN g[i] ELSE Null]

\* g[1], ..., g[k] are nodes of h, each once, and follow each other.
IsChain(h, g, k) ==
    /\ \A i \in 1 .. k : /\ g[i] \in DOMAIN h
                         /\ h[g[i]].next = IF i = k THEN Null ELSE g[i + 1]
    /\ \A i, j \in 1 .. k : g[i] = g[j] => i = j

LEMMA LimitIsNat == Limit \in Nat
<1>1. IsFiniteSet(Nodes)
  BY ListAssumption
<1> QED BY <1>1, FS_CardinalityType DEF Limit

LEMMA ChainStays ==
    ASSUME NEW h, NEW h2, NEW k \in Nat, NEW g, NEW head, Null \notin DOMAIN h2,
           IsChain(h, g, k), head = IF k = 0 THEN Null ELSE g[1],
           \A i \in 1 .. k : g[i] \in DOMAIN h2 /\ h2[g[i]].next = h[g[i]].next
    PROVE  FromIn(h2, head) = Padded(g, k)
<1>1. LeadsThrough(h2, head, k, g)
  BY DEF LeadsThrough, IsChain
<1> QED BY <1>1, FromIs, LimitIsNat DEF Padded

\* h2 is h with f in front of what was the p-th of the chain.
ChainWith(h, h2, g, k, f, p, head) ==
    /\ Null \notin DOMAIN h2 /\ IsChain(h, g, k) /\ DOMAIN h2 = DOMAIN h \cup {f} /\ f \notin DOMAIN h
    /\ h2[f].next = IF p = k + 1 THEN Null ELSE g[p]
    /\ \A n \in DOMAIN h : h2[n].next = IF p > 1 /\ n = g[p - 1] THEN f ELSE h[n].next
    /\ head = IF p = 1 THEN f ELSE g[1]

LEMMA ChainGrows ==
    ASSUME NEW h, NEW h2, NEW k \in Nat, NEW g, NEW f, NEW p \in 1 .. k + 1, NEW head,
           ChainWith(h, h2, g, k, f, p, head)
    PROVE  FromIn(h2, head) = Padded(PutAt(g, k, p, f), k + 1)
<1> USE DEF ChainWith
<1> DEFINE g2 == [i \in 1 .. k + 1 |-> IF i < p THEN g[i] ELSE IF i = p THEN f ELSE g[i - 1]]
<1>1. ASSUME NEW i \in 1 .. k + 1
      PROVE  g2[i] \in DOMAIN h2 /\ h2[g2[i]].next = IF i = k + 1 THEN Null ELSE g2[i + 1]
  <2>1. CASE i = p
    <3>1. i # k + 1 => g2[i + 1] = g[p]
      BY <2>1
    <3> QED BY <2>1, <3>1
  <2>2. CASE i < p
    <3>1. g2[i] = g[i] /\ i \in 1 .. k /\ i # k + 1 /\ p > 1
      BY <2>2
    <3>2. g[i] \in DOMAIN h /\ h[g[i]].next = IF i = k THEN Null ELSE g[i + 1]
      BY <3>1 DEF IsChain
    <3>3. CASE i = p - 1
      <4>1. g2[i + 1] = f /\ g[i] = g[p - 1]
        BY <3>3
      <4> QED BY <3>1, <3>2, <4>1
    <3>4. CASE i # p - 1
      <4>1. g2[i + 1] = g[i + 1] /\ i # k
        BY <2>2, <3>4
      <4>2. p - 1 \in 1 .. k
        BY <3>1
      <4>3. g[i] # g[p - 1]
        BY <3>1, <3>4, <4>2 DEF IsChain
      <4> QED BY <3>1, <3>2, <4>1, <4>3
    <3> QED BY <3>3, <3>4
  <2>3. CASE i > p
    <3>1. g2[i] = g[i - 1] /\ i - 1 \in 1 .. k /\ (i # k + 1 => g2[i + 1] = g[i])
      BY <2>3
    <3>2. g[i - 1] \in DOMAIN h /\ h[g[i - 1]].next = IF i - 1 = k THEN Null ELSE g[i]
      BY <3>1 DEF IsChain
    <3>3. ~ (p > 1 /\ g[i - 1] = g[p - 1])
      <4>1. p > 1 => p - 1 \in 1 .. k /\ p - 1 # i - 1
        BY <2>3
      <4> QED BY <3>1, <4>1 DEF IsChain
    <3>4. i - 1 = k <=> i = k + 1
      OBVIOUS
    <3> HIDE DEF g2
    <3> QED BY <3>1, <3>2, <3>3, <3>4
  <2> QED BY <2>1, <2>2, <2>3
<1>2. head = g2[1] /\ k + 1 # 0 /\ k + 1 \in Nat
  OBVIOUS
<1> HIDE DEF g2
<1>3. LeadsThrough(h2, head, k + 1, g2)
  BY <1>1, <1>2 DEF LeadsThrough
<1>4. FromIn(h2, head) = Padded(g2, k + 1)
  BY <1>2, <1>3, FromIs, LimitIsNat DEF Padded
<1> QED BY <1>4 DEF g2, PutAt

\* h2 is h without the p-th of the chain.
ChainWithout(h, h2, g, k, p, head) ==
    /\ Null \notin DOMAIN h2 /\ IsChain(h, g, k) /\ DOMAIN h2 = DOMAIN h \ {g[p]}
    /\ \A n \in DOMAIN h2 : h2[n].next = IF p > 1 /\ n = g[p - 1] THEN h[g[p]].next ELSE h[n].next
    /\ head = IF p = 1 THEN h[g[p]].next ELSE g[1]

LEMMA ChainShrinks ==
    ASSUME NEW h, NEW h2, NEW k \in Nat, NEW g, NEW p \in 1 .. k, NEW head,
           ChainWithout(h, h2, g, k, p, head)
    PROVE  FromIn(h2, head) = Padded(DropAt(g, k, p), k - 1)
<1> USE DEF ChainWithout
<1> DEFINE g2 == [i \in 1 .. k - 1 |-> IF i < p THEN g[i] ELSE g[i + 1]]
<1>1. ASSUME NEW i \in 1 .. k - 1
      PROVE  g2[i] \in DOMAIN h2 /\ h2[g2[i]].next = IF i = k - 1 THEN Null ELSE g2[i + 1]
  <2>1. CASE i < p
    <3>1. g2[i] = g[i] /\ i \in 1 .. k /\ i # k /\ i # p
      BY <2>1
    <3>2. g[i] \in DOMAIN h2 /\ h[g[i]].next = g[i + 1]
      BY <3>1 DEF IsChain
    <3>3. CASE i = p - 1
      <4>1. h2[g[i]].next = h[g[p]].next
        BY <3>2, <3>3
      <4>2. i = k - 1 <=> p = k
        BY <3>3
      <4>3. i # k - 1 => g2[i + 1] = g[p + 1]
        BY <3>3
      <4> HIDE DEF g2
      <4> QED BY <3>1, <3>2, <4>1, <4>2, <4>3 DEF IsChain
    <3>4. CASE i # p - 1
      <4>1. i # k - 1 /\ g2[i + 1] = g[i + 1] /\ p - 1 \in 1 .. k
        BY <2>1, <3>4
      <4>2. g[i] # g[p - 1]
        BY <3>1, <3>4, <4>1 DEF IsChain
      <4> HIDE DEF g2
      <4> QED BY <3>1, <3>2, <4>1, <4>2
    <3> QED BY <3>3, <3>4
  <2>2. CASE i >= p
    <3>1. g2[i] = g[i + 1] /\ i + 1 \in 1 .. k /\ i + 1 # p /\ (i # k - 1 => g2[i + 1] = g[i + 2])
      BY <2>2
    <3>2. g[i + 1] \in DOMAIN h2 /\ h[g[i + 1]].next = IF i + 1 = k THEN Null ELSE g[(i + 1) + 1]
      BY <3>1 DEF IsChain
    <3>3. ~ (p > 1 /\ g[i + 1] = g[p - 1])
      <4>1. p > 1 => p - 1 \in 1 .. k /\ p - 1 # i + 1
        BY <2>2
      <4> QED BY <3>1, <4>1 DEF IsChain
    <3>4. (i + 1 = k <=> i = k - 1) /\ (i + 1) + 1 = i + 2
      OBVIOUS
    <3> HIDE DEF g2
    <3> QED BY <3>1, <3>2, <3>3, <3>4
  <2> QED BY <2>1, <2>2
<1>2. head = IF k - 1 = 0 THEN Null ELSE g2[1]
  <2>1. CASE p = 1
    <3>1. h[g[1]].next = IF k = 1 THEN Null ELSE g[2]
      BY <2>1 DEF IsChain
    <3> QED BY <2>1, <3>1
  <2>2. CASE p # 1
    BY <2>2
  <2> QED BY <2>1, <2>2
<1>3. k - 1 \in Nat
  OBVIOUS
<1> HIDE DEF g2
<1>4. LeadsThrough(h2, head, k - 1, g2)
  BY <1>1, <1>2 DEF LeadsThrough
<1>5. FromIn(h2, head) = Padded(g2, k - 1)
  BY <1>3, <1>4, FromIs, LimitIsNat DEF Padded
<1> QED BY <1>5 DEF g2, DropAt

LEMMA OrderIsChain ==
    ASSUME Ordered, NEW l \in Alive
    PROVE  /\ obj[l].size \in Nat /\ IsChain(heap, Order(l), obj[l].size)
           /\ obj[l].head = IF obj[l].size = 0 THEN Null ELSE Order(l)[1]
           /\ Order(l) = Padded(Order(l), obj[l].size)
<1> DEFINE g == Order(l)
           k == obj[l].size
<1>1. IsOrder(heap, obj, l, g) /\ \A i, j \in 1 .. k : g[i] = g[j] => i = j
  BY DEF Ordered
<1> HIDE DEF g
<1>2. k \in 0 .. Limit /\ Limit \in Nat
  BY <1>1, LimitIsNat DEF IsOrder
<1>3. g[k + 1] = Null
  BY <1>1, <1>2 DEF IsOrder
<1>4. IsChain(heap, g, k)
  <2>1. ASSUME NEW i \in 1 .. k
        PROVE  g[i] \in DOMAIN heap /\ heap[g[i]].next = IF i = k THEN Null ELSE g[i + 1]
    <3>1. g[i] \in DOMAIN heap /\ heap[g[i]].next = g[i + 1]
      BY <1>1 DEF IsOrder
    <3> QED BY <1>3, <3>1
  <2> QED BY <1>1, <2>1 DEF IsChain
<1>5. obj[l].head = IF k = 0 THEN Null ELSE g[1]
  BY <1>1, <1>2, <1>3 DEF IsOrder
<1>6. g = Padded(g, k)
  BY <1>1, <1>2 DEF IsOrder, Padded
<1> QED BY <1>2, <1>4, <1>5, <1>6 DEF g

LEMMA NullNoNode2 == ASSUME HeapOK(heap') PROVE Null \notin DOMAIN heap'
BY ListAssumption DEF HeapOK

\* A list whose nodes keep their successors keeps its order.
LEMMA OrderStays ==
    ASSUME Ordered, HeapOK(heap'), NEW l \in Alive, obj'[l] = obj[l],
           \A i \in 1 .. obj[l].size : /\ Order(l)[i] \in DOMAIN heap'
                                       /\ heap'[Order(l)[i]].next = heap[Order(l)[i]].next
    PROVE  Order(l)' = Order(l)
<1> DEFINE g == Order(l)
<1> DEFINE k == obj[l].size
           hd == obj[l].head
<1>1. /\ k \in Nat /\ IsChain(heap, g, k) /\ hd = IF k = 0 THEN Null ELSE g[1]
      /\ g = Padded(g, k)
  BY OrderIsChain
<1>2. Null \notin DOMAIN heap'
  BY NullNoNode2
<1>3. Order(l)' = FromIn(heap', hd)
  BY DEF Order, From, FromIn, Limit
<1>4. \A i \in 1 .. k : g[i] \in DOMAIN heap' /\ heap'[g[i]].next = heap[g[i]].next
  OBVIOUS
<1> HIDE DEF g, k, hd
<1>5. LeadsThrough(heap', hd, k, g)
  BY <1>1, <1>4 DEF LeadsThrough, IsChain
<1>6. FromIn(heap', hd) = Padded(g, k)
  BY <1>1, <1>2, <1>5, FromIs, LimitIsNat DEF Padded
<1> QED BY <1>1, <1>3, <1>6 DEF g

\* The nodes of h2 hold what those of h hold, but for the new node.
SameData(h, h2) ==
    \A n \in DOMAIN h \cap DOMAIN h2 : h2[n].key = h[n].key /\ h2[n].val = h[n].val

LEMMA EntriesStay ==
    ASSUME Ordered, HeapOK(heap'), NEW l \in Alive, obj'[l] = obj[l],
           \A i \in 1 .. obj[l].size : /\ Order(l)[i] \in DOMAIN heap'
                                       /\ heap'[Order(l)[i]].next = heap[Order(l)[i]].next,
           SameData(heap, heap')
    PROVE  Order(l)' = Order(l) /\ Entries(l)' = Entries(l)
<1>1. Order(l)' = Order(l)
  BY OrderStays
<1>2. \A i \in 1 .. obj[l].size : Order(l)[i] \in DOMAIN heap
  BY DEF Ordered, IsOrder
<1>3. \A i \in 1 .. obj[l].size : EntryOf(Order(l)[i])' = EntryOf(Order(l)[i])
  BY <1>1, <1>2 DEF EntryOf, SameData
<1>4. Entries(l)' = [i \in 1 .. obj[l].size |-> EntryOf(Order(l)[i])']
  BY DEF Entries
<1> QED BY <1>1, <1>3, <1>4 DEF Entries

LEMMA EntriesOf ==
    ASSUME Ordered, NEW l \in Alive
    PROVE  /\ obj[l].size \in 0 .. Limit /\ Limit \in Nat
           /\ Entries(l) = [i \in 1 .. obj[l].size |-> Entries(l)[i]]
           /\ \A i \in 1 .. obj[l].size : Order(l)[i] \in DOMAIN heap /\ Entries(l)[i] = EntryOf(Order(l)[i])
BY LimitIsNat DEF Ordered, IsOrder, Entries

\* What linking a node does to the entries of the lists.
LEMMA EntriesPushed ==
    ASSUME NEW ow, NEW ps, HeapOK(heap), ObjOK(obj), Links(heap, obj, Alive, ow, ps), HeapOK(heap'),
           NEW f, NEW l, NEW p, NEW a, NEW b,
           LinkedIn(heap, obj, Alive, ow, ps, heap', obj', f, l, p, a, b),
           SameData(heap, heap'),
           NEW key, NEW val, heap'[f].key = key, heap'[f].val = val
    PROVE  /\ l \in Alive /\ p \in 1 .. obj[l].size + 1 /\ obj'[l].size = obj[l].size + 1
           /\ Order(l)' = Padded(PutAt(Order(l), obj[l].size, p, f), obj[l].size + 1)
           /\ Entries(l)' = PutAt(Entries(l), obj[l].size, p, [key |-> key, val |-> val])
           /\ \A m \in Alive \ {l} : Order(m)' = Order(m) /\ Entries(m)' = Entries(m)
<1> DEFINE g == Order(l)
           k == obj[l].size
           hd == obj'[l].head
<1>1. /\ Ordered
      /\ \A m \in Alive : \A i \in 1 .. obj[m].size : ow[Order(m)[i]] = m /\ ps[Order(m)[i]] = i
      /\ \A n \in DOMAIN heap : ow[n] \in Alive =>
            ps[n] \in 1 .. obj[ow[n]].size /\ Order(ow[n])[ps[n]] = n
  BY ListsInOrder
<1>2. /\ l \in Alive /\ k \in 0 .. Limit /\ Limit \in Nat /\ p \in 1 .. k + 1 /\ obj'[l].size = k + 1
      /\ Null \notin DOMAIN heap'
  BY <1>1, EntriesOf, NullNoNode2 DEF LinkedIn
<1>3. k \in Nat /\ IsChain(heap, g, k) /\ obj[l].head = IF k = 0 THEN Null ELSE g[1]
  BY <1>1, <1>2, OrderIsChain
<1>4. /\ p > 1 => a = g[p - 1] /\ a \in DOMAIN heap /\ ow[a] = l
      /\ p = 1 => a = Null
      /\ p = k + 1 => b = Null
      /\ p # k + 1 => b = g[p]
  <2>1. IF p = 1 THEN a = Null ELSE Stands(heap, ow, ps, a, l, p - 1)
    BY DEF LinkedIn
  <2>2. IF p = k + 1 THEN b = Null ELSE Stands(heap, ow, ps, b, l, p)
    BY DEF LinkedIn
  <2> HIDE DEF g, k
  <2>3. \A n, i : Stands(heap, ow, ps, n, l, i) => g[i] = n
    BY <1>1, <1>2 DEF Stands, g
  <2> QED BY <1>2, <2>1, <2>2, <2>3 DEF Stands
<1>5. /\ DOMAIN heap' = DOMAIN heap \cup {f} /\ f \notin DOMAIN heap
      /\ heap'[f].next = IF p = k + 1 THEN Null ELSE g[p]
      /\ hd = IF p = 1 THEN f ELSE g[1]
  <2>1. heap'[f].next = b /\ hd = IF p = 1 THEN f ELSE obj[l].head
    BY DEF LinkedIn
  <2>2. p # 1 => k # 0
    BY <1>2
  <2>3. DOMAIN heap' = DOMAIN heap \cup {f} /\ f \notin DOMAIN heap
    BY DEF LinkedIn
  <2> HIDE DEF g, k, hd
  <2> QED BY <1>2, <1>3, <1>4, <2>1, <2>2, <2>3
<1>6. \A n \in DOMAIN heap : heap'[n].next = IF p > 1 /\ n = g[p - 1] THEN f ELSE heap[n].next
  <2>1. \A n \in DOMAIN heap : heap'[n].next = IF n = a THEN f ELSE heap[n].next
    BY DEF LinkedIn
  <2>2. Null \notin DOMAIN heap
    BY <1>2, <1>5
  <2> HIDE DEF g, k
  <2> QED BY <1>2, <1>4, <2>1, <2>2
<1>7. Order(l)' = FromIn(heap', hd)
  BY DEF Order, From, FromIn, Limit
<1>8. Order(l)' = Padded(PutAt(g, k, p, f), k + 1)
  <2> HIDE DEF g, k, hd
  <2>1. FromIn(heap', hd) = Padded(PutAt(g, k, p, f), k + 1)
    <3>1. ChainWith(heap, heap', g, k, f, p, hd) /\ k \in Nat
      BY <1>2, <1>3, <1>5, <1>6 DEF ChainWith
    <3> QED BY <1>2, <3>1, ChainGrows
  <2> QED BY <1>7, <2>1
<1>9. Entries(l)' = PutAt(Entries(l), k, p, [key |-> key, val |-> val])
  <2> DEFINE W == Order(l)'
             s == Entries(l)
             e == [key |-> key, val |-> val]
             N(n) == [key |-> heap'[n].key, val |-> heap'[n].val]
  <2>1. \A i \in 1 .. k + 1 : W[i] = IF i < p THEN g[i] ELSE IF i = p THEN f ELSE g[i - 1]
    <3> HIDE DEF g, k, W
    <3> QED BY <1>2, <1>8 DEF Padded, PutAt, W
  <2>2. \A i \in 1 .. k : g[i] \in DOMAIN heap /\ s[i] = EntryOf(g[i])
    BY <1>1, <1>2, EntriesOf
  <2>3. \A i \in 1 .. k : N(g[i]) = s[i]
    BY <1>5, <2>2 DEF SameData, EntryOf
  <2>4. N(f) = e
    OBVIOUS
  <2>5. Entries(l)' = [i \in 1 .. k + 1 |-> N(W[i])]
    BY <1>2 DEF Entries, EntryOf
  <2> HIDE DEF g, k, W, s, e, N
  <2>6. \A i \in 1 .. k + 1 : N(W[i]) = IF i < p THEN s[i] ELSE IF i = p THEN e ELSE s[i - 1]
    BY <1>2, <2>1, <2>3, <2>4
  <2>7. Entries(l)' = PutAt(s, k, p, e)
    BY <2>5, <2>6 DEF PutAt
  <2> QED BY <2>7 DEF s, e
<1>10. ASSUME NEW m \in Alive \ {l} PROVE Order(m)' = Order(m) /\ Entries(m)' = Entries(m)
  <2>1. obj'[m] = obj[m]
    BY DEF LinkedIn
  <2>2. \A i \in 1 .. obj[m].size : Order(m)[i] \in DOMAIN heap /\ ow[Order(m)[i]] = m
    BY <1>1, EntriesOf
  <2>3. \A n \in DOMAIN heap : n # a => heap'[n].next = heap[n].next
    BY DEF LinkedIn
  <2>4. \A n \in DOMAIN heap : ow[n] = m => n # a
    <3>1. Null \notin DOMAIN heap
      BY <1>2, <1>5
    <3> HIDE DEF g, k, hd
    <3> QED BY <1>2, <1>4, <3>1
  <2>5. \A i \in 1 .. obj[m].size : /\ Order(m)[i] \in DOMAIN heap'
                                    /\ heap'[Order(m)[i]].next = heap[Order(m)[i]].next
    BY <1>5, <2>2, <2>3, <2>4
  <2> QED BY <1>1, <2>1, <2>5, EntriesStay
<1> QED BY <1>2, <1>8, <1>9, <1>10

\* What unlinking a node does to them.
LEMMA EntriesDropped ==
    ASSUME NEW ow, NEW ps, HeapOK(heap), ObjOK(obj), Links(heap, obj, Alive, ow, ps), HeapOK(heap'),
           NEW d, NEW l, LinkedOut(heap, obj, Alive, ow, heap', obj', d, l),
           SameData(heap, heap')
    PROVE  /\ l \in Alive /\ ps[d] \in 1 .. obj[l].size /\ obj'[l].size = obj[l].size - 1
           /\ Order(l)[ps[d]] = d
           /\ Order(l)' = Padded(DropAt(Order(l), obj[l].size, ps[d]), obj[l].size - 1)
           /\ Entries(l)' = DropAt(Entries(l), obj[l].size, ps[d])
           /\ \A m \in Alive \ {l} : Order(m)' = Order(m) /\ Entries(m)' = Entries(m)
<1> DEFINE g == Order(l)
           k == obj[l].size
           hd == obj'[l].head
           p == ps[d]
<1>1. /\ Ordered
      /\ \A m \in Alive : \A i \in 1 .. obj[m].size : ow[Order(m)[i]] = m /\ ps[Order(m)[i]] = i
      /\ \A n \in DOMAIN heap : ow[n] \in Alive =>
            ps[n] \in 1 .. obj[ow[n]].size /\ Order(ow[n])[ps[n]] = n
  BY ListsInOrder
<1>2. /\ l \in Alive /\ k \in 0 .. Limit /\ Limit \in Nat /\ p \in 1 .. k /\ obj'[l].size = k - 1
      /\ g[p] = d /\ d \in DOMAIN heap /\ ow[d] = l /\ Null \notin DOMAIN heap'
      /\ DOMAIN heap' = DOMAIN heap \ {d}
  BY <1>1, EntriesOf, NullNoNode2 DEF LinkedOut
<1>3. k \in Nat /\ IsChain(heap, g, k) /\ obj[l].head = IF k = 0 THEN Null ELSE g[1]
  BY <1>1, <1>2, OrderIsChain
<1>4. heap[d].prev = IF p = 1 THEN Null ELSE g[p - 1]
  <2>1. IsOrder(heap, obj, l, g)
    BY <1>1, <1>2 DEF Ordered
  <2>2. heap[g[p]].prev = IF p = 1 THEN Null ELSE g[p - 1]
    BY <1>2, <2>1 DEF IsOrder
  <2> HIDE DEF g, k, p
  <2> QED BY <1>2, <2>2
<1>5. hd = IF p = 1 THEN heap[g[p]].next ELSE g[1]
  <2>1. hd = IF d = obj[l].head THEN heap[d].next ELSE obj[l].head
    BY DEF LinkedOut
  <2>2. d = g[1] <=> p = 1
    BY <1>1, <1>2
  <2> HIDE DEF g, k, p, hd
  <2> QED BY <1>2, <1>3, <2>1, <2>2
<1>6. \A n \in DOMAIN heap' : heap'[n].next = IF p > 1 /\ n = g[p - 1] THEN heap[g[p]].next ELSE heap[n].next
  <2>1. \A n \in DOMAIN heap' : heap'[n].next = IF n = heap[d].prev THEN heap[d].next ELSE heap[n].next
    BY DEF LinkedOut
  <2> HIDE DEF g, k, p
  <2> QED BY <1>2, <1>4, <2>1
<1>7. Order(l)' = FromIn(heap', hd)
  BY DEF Order, From, FromIn, Limit
<1>8. Order(l)' = Padded(DropAt(g, k, p), k - 1)
  <2> HIDE DEF g, k, hd, p
  <2>1. ChainWithout(heap, heap', g, k, p, hd)
    BY <1>2, <1>3, <1>5, <1>6 DEF ChainWithout
  <2> QED BY <1>2, <1>3, <1>7, <2>1, ChainShrinks
<1>9. Entries(l)' = DropAt(Entries(l), k, p)
  <2> DEFINE W == Order(l)'
             s == Entries(l)
             N(n) == [key |-> heap'[n].key, val |-> heap'[n].val]
  <2>1. \A i \in 1 .. k - 1 : W[i] = IF i < p THEN g[i] ELSE g[i + 1]
    <3> HIDE DEF g, k, W, p
    <3> QED BY <1>2, <1>8 DEF Padded, DropAt, W
  <2>2. \A i \in 1 .. k : g[i] \in DOMAIN heap /\ s[i] = EntryOf(g[i])
    BY <1>1, <1>2, EntriesOf
  <2>3. \A i \in 1 .. k : i # p => g[i] # d
    BY <1>1, <1>2
  <2>4. \A i \in 1 .. k : i # p => N(g[i]) = s[i]
    <3>1. ASSUME NEW i \in 1 .. k, i # p PROVE N(g[i]) = s[i]
      <4>1. g[i] \in DOMAIN heap \cap DOMAIN heap' /\ s[i] = EntryOf(g[i])
        BY <1>2, <2>2, <2>3, <3>1
      <4> QED BY <4>1 DEF SameData, EntryOf
    <3> QED BY <3>1
  <2>5. Entries(l)' = [i \in 1 .. k - 1 |-> N(W[i])]
    BY <1>2 DEF Entries, EntryOf
  <2> HIDE DEF g, k, W, s, N, p
  <2>6. \A i \in 1 .. k - 1 : N(W[i]) = IF i < p THEN s[i] ELSE s[i + 1]
    BY <1>2, <2>1, <2>4
  <2>7. Entries(l)' = DropAt(s, k, p)
    BY <2>5, <2>6 DEF DropAt
  <2> QED BY <2>7 DEF s
<1>10. ASSUME NEW m \in Alive \ {l} PROVE Order(m)' = Order(m) /\ Entries(m)' = Entries(m)
  <2>1. obj'[m] = obj[m]
    BY DEF LinkedOut, Alive
  <2>2. \A i \in 1 .. obj[m].size : Order(m)[i] \in DOMAIN heap /\ ow[Order(m)[i]] = m
    BY <1>1, EntriesOf
  <2>3. \A n \in DOMAIN heap' : n # heap[d].prev => heap'[n].next = heap[n].next
    BY DEF LinkedOut
  <2>4. \A n \in DOMAIN heap : ow[n] = m => n # d /\ n # heap[d].prev
    <3>1. Null \notin DOMAIN heap
      BY DEF LinkedOut
    <3>2. p > 1 => ow[g[p - 1]] = l
      BY <1>1, <1>2
    <3> HIDE DEF g, k, hd, p
    <3> QED BY <1>2, <1>4, <3>1, <3>2
  <2>5. \A i \in 1 .. obj[m].size : /\ Order(m)[i] \in DOMAIN heap'
                                    /\ heap'[Order(m)[i]].next = heap[Order(m)[i]].next
    BY <1>2, <2>2, <2>3, <2>4
  <2> QED BY <1>1, <2>1, <2>5, EntriesStay
<1> QED BY <1>2, <1>8, <1>9, <1>10

-----------------------------------------------------------------------------
(* What the primitives do to the entries. *)

\* An entry comes in as the p-th of list l; one goes; one gets another value.
Puts(l, p, key, val) ==
    /\ l \in Alive /\ p \in 1 .. obj[l].size + 1
    /\ obj'[l].size = obj[l].size + 1 /\ DOMAIN obj' = DOMAIN obj
    /\ Entries(l)' = PutAt(Entries(l), obj[l].size, p, [key |-> key, val |-> val])
    /\ \A m \in Alive \ {l} : obj'[m] = obj[m] /\ Order(m)' = Order(m) /\ Entries(m)' = Entries(m)

Drops(l, p) ==
    /\ l \in Alive /\ p \in 1 .. obj[l].size
    /\ obj'[l].size = obj[l].size - 1 /\ DOMAIN obj' = DOMAIN obj
    /\ Entries(l)' = DropAt(Entries(l), obj[l].size, p)
    /\ \A m \in Alive \ {l} : obj'[m] = obj[m] /\ Order(m)' = Order(m) /\ Entries(m)' = Entries(m)

Alters(l, p, val) ==
    /\ l \in Alive /\ p \in 1 .. obj[l].size /\ obj' = obj
    /\ Entries(l)' = [Entries(l) EXCEPT ![p] = [key |-> Entries(l)[p].key, val |-> val]]
    /\ \A m \in Alive \ {l} : Order(m)' = Order(m) /\ Entries(m)' = Entries(m)

\* The new node holds what is pushed, the others what they held.
LEMMA PushedData ==
    ASSUME HeapOK(heap), Fresh \notin DOMAIN heap, NEW at, NEW key, NEW val,
           \/ heap' = PushAlone(key, val)
           \/ heap' = PushBefore(at, key, val)
           \/ heap' = PushAfter(at, key, val)
    PROVE  SameData(heap, heap') /\ heap'[Fresh].key = key /\ heap'[Fresh].val = val
<1>1. \A n \in DOMAIN heap : IsNode(heap[n]) /\ n # Fresh
  BY DEF HeapOK
<1>2. CASE heap' = PushAlone(key, val)
  BY <1>1, <1>2 DEF PushAlone, SameData
<1>3. CASE heap' = PushBefore(at, key, val)
  <2>1. \A n \in DOMAIN heap :
           heap'[n] \in {heap[n], [heap[n] EXCEPT !.prev = Fresh], [heap[n] EXCEPT !.next = Fresh]}
    BY <1>1, <1>3 DEF PushBefore
  <2>2. heap'[Fresh].key = key /\ heap'[Fresh].val = val
    BY <1>3 DEF PushBefore
  <2> QED BY <1>1, <2>1, <2>2 DEF SameData, IsNode
<1>4. CASE heap' = PushAfter(at, key, val)
  <2>1. \A n \in DOMAIN heap :
           heap'[n] \in {heap[n], [heap[n] EXCEPT !.prev = Fresh], [heap[n] EXCEPT !.next = Fresh]}
    BY <1>1, <1>4 DEF PushAfter
  <2>2. heap'[Fresh].key = key /\ heap'[Fresh].val = val
    BY <1>4 DEF PushAfter
  <2> QED BY <1>1, <2>1, <2>2 DEF SameData, IsNode
<1> QED BY <1>2, <1>3, <1>4

LEMMA LinkedPuts ==
    ASSUME NEW ow, NEW ps, HeapOK(heap), ObjOK(obj), Links(heap, obj, Alive, ow, ps), HeapOK(heap'),
           NEW f, NEW l, NEW p, NEW a, NEW b,
           LinkedIn(heap, obj, Alive, ow, ps, heap', obj', f, l, p, a, b),
           SameData(heap, heap'),
           NEW key, NEW val, heap'[f].key = key, heap'[f].val = val
    PROVE  Puts(l, p, key, val)
<1>1. DOMAIN obj' = DOMAIN obj /\ \A m \in Alive \ {l} : obj'[m] = obj[m]
  BY DEF LinkedIn, Alive
<1> QED BY <1>1, EntriesPushed DEF Puts

LEMMA PushBkPuts ==
    ASSUME NEW ow, NEW ps, HeapOK(heap), ObjOK(obj), Links(heap, obj, Alive, ow, ps),
           NEW l \in Alive, NEW key, NEW val, \E n \in Nodes : n \notin DOMAIN heap,
           PushBk(l, key, val)
    PROVE  Puts(l, obj[l].size + 1, key, val)
<1>1. Alive = AliveOf(obj, call)
  BY DEF Alive, AliveOf
<1>2. /\ LinkedIn(heap, obj, Alive, ow, ps, heap', obj', Fresh, l, obj[l].size + 1, obj[l].tail, Null)
      /\ HeapOK(heap') /\ Fresh \notin DOMAIN heap
  BY <1>1, PushBkLinks
<1>3. SameData(heap, heap') /\ heap'[Fresh].key = key /\ heap'[Fresh].val = val
  <2>1. heap' = PushAlone(key, val) \/ heap' = PushAfter(obj[l].tail, key, val)
    BY DEF PushBk
  <2> QED BY <1>2, <2>1, PushedData
<1> QED BY <1>2, <1>3, LinkedPuts

LEMMA PushFtPuts ==
    ASSUME NEW ow, NEW ps, HeapOK(heap), ObjOK(obj), Links(heap, obj, Alive, ow, ps),
           NEW l \in Alive, NEW key, NEW val, \E n \in Nodes : n \notin DOMAIN heap,
           PushFt(l, key, val)
    PROVE  Puts(l, 1, key, val)
<1>1. Alive = AliveOf(obj, call)
  BY DEF Alive, AliveOf
<1>2. /\ \E a, b : LinkedIn(heap, obj, Alive, ow, ps, heap', obj', Fresh, l, 1, a, b)
      /\ HeapOK(heap') /\ Fresh \notin DOMAIN heap
  BY <1>1, PushFtLinks
<1>3. SameData(heap, heap') /\ heap'[Fresh].key = key /\ heap'[Fresh].val = val
  <2>1. heap' = PushAlone(key, val) \/ heap' = PushBefore(obj[l].head, key, val)
    BY DEF PushFt
  <2> QED BY <1>2, <2>1, PushedData
<1>4. PICK a, b : LinkedIn(heap, obj, Alive, ow, ps, heap', obj', Fresh, l, 1, a, b)
  BY <1>2
<1> QED BY <1>2, <1>3, <1>4, LinkedPuts

LEMMA LinkBeforePuts ==
    ASSUME NEW ow, NEW ps, HeapOK(heap), ObjOK(obj), Links(heap, obj, Alive, ow, ps),
           NEW l \in Alive, NEW key, NEW i \in 1 .. obj[l].size, \E n \in Nodes : n \notin DOMAIN heap,
           NEW val, LinkBefore(l, Order(l)[i], key, val)
    PROVE  Puts(l, i, key, val)
<1> DEFINE at == Order(l)[i]
<1>1. Alive = AliveOf(obj, call)
  BY DEF Alive, AliveOf
<1>2. at \in DOMAIN heap /\ ow[at] = l /\ ps[at] = i
  BY ListsInOrder, EntriesOf
<1>3. /\ heap' = PushBefore(at, key, val)
      /\ obj' = [obj EXCEPT ![l] = Grown(obj[l], IF at = obj[l].head THEN Fresh ELSE obj[l].head,
                                         obj[l].tail)]
  BY DEF LinkBefore
<1> HIDE DEF at
<1>4. /\ LinkedIn(heap, obj, Alive, ow, ps, heap', obj', Fresh, l, ps[at], heap[at].prev, at)
      /\ HeapOK(heap') /\ Fresh \notin DOMAIN heap
  BY <1>1, <1>2, <1>3, PushBeforeLinks
<1>5. SameData(heap, heap') /\ heap'[Fresh].key = key /\ heap'[Fresh].val = val
  BY <1>3, <1>4, PushedData
<1>6. Puts(l, ps[at], key, val)
  BY <1>4, <1>5, LinkedPuts
<1> QED BY <1>2, <1>6

LEMMA DeleteDrops ==
    ASSUME NEW ow, NEW ps, HeapOK(heap), ObjOK(obj), Links(heap, obj, Alive, ow, ps),
           NEW l \in Alive, NEW i \in 1 .. obj[l].size, DeleteNode(l, Order(l)[i])
    PROVE  Drops(l, i)
<1> DEFINE d == Order(l)[i]
<1>1. Alive = AliveOf(obj, call)
  BY DEF Alive, AliveOf
<1>2. d \in DOMAIN heap /\ ow[d] = l /\ ps[d] = i
  BY ListsInOrder, EntriesOf
<1>3. DeleteNode(l, d)
  OBVIOUS
<1> HIDE DEF d
<1>4. /\ LinkedOut(heap, obj, Alive, ow, heap', obj', d, l)
      /\ HeapOK(heap') /\ ObjOK(obj')
  BY <1>1, <1>2, <1>3, DeleteLinks
<1>5. SameData(heap, heap')
  BY <1>3 DEF DeleteNode, Unlinked, SameData
<1>6. DOMAIN obj' = DOMAIN obj /\ \A m \in Alive \ {l} : obj'[m] = obj[m]
  BY <1>4 DEF LinkedOut, Alive
<1>7. Drops(l, ps[d])
  BY <1>4, <1>5, <1>6, EntriesDropped DEF Drops
<1> QED BY <1>2, <1>7

LEMMA ChangeAlters ==
    ASSUME NEW ow, NEW ps, HeapOK(heap), ObjOK(obj), Links(heap, obj, Alive, ow, ps),
           NEW l \in Alive, NEW i \in 1 .. obj[l].size, call.cur = Order(l)[i],
           NEW val, Changed(val)
    PROVE  Alters(l, i, val)
<1> DEFINE c == call.cur
<1>1. Ordered /\ c \in DOMAIN heap
  BY ListsInOrder, EntriesOf
<1>2. heap' = [heap EXCEPT ![c] = [heap[c] EXCEPT !.val = val]] /\ obj' = obj
  BY DEF Changed
<1>3. IsNode(heap[c]) /\ heap = [n \in DOMAIN heap |-> heap[n]] /\ DOMAIN heap \subseteq Nodes
  BY <1>1 DEF HeapOK
<1>4. /\ DOMAIN heap' = DOMAIN heap
      /\ heap'[c] = [heap[c] EXCEPT !.val = val]
      /\ \A n \in DOMAIN heap : n # c => heap'[n] = heap[n]
      /\ heap' = [n \in DOMAIN heap' |-> heap'[n]]
  <2> HIDE DEF c
  <2> QED BY <1>1, <1>2, Updated
<1>5. heap'[c] = [key |-> heap[c].key, val |-> val, prev |-> heap[c].prev, next |-> heap[c].next]
  BY <1>3, <1>4 DEF IsNode
<1>6. \A n \in DOMAIN heap : heap'[n].next = heap[n].next /\ heap'[n].key = heap[n].key
  BY <1>4, <1>5
<1>7. HeapOK(heap')
  <2>1. \A n \in DOMAIN heap : IsNode(heap'[n])
    BY <1>4, <1>5 DEF HeapOK, IsNode
  <2> QED BY <1>3, <1>4, <2>1 DEF HeapOK
<1>8. ASSUME NEW m \in Alive
      PROVE  Order(m)' = Order(m) /\ \A j \in 1 .. obj[m].size : Order(m)[j] \in DOMAIN heap
  <2>1. \A j \in 1 .. obj[m].size : Order(m)[j] \in DOMAIN heap
    BY <1>1, EntriesOf
  <2>2. \A j \in 1 .. obj[m].size : /\ Order(m)[j] \in DOMAIN heap'
                                    /\ heap'[Order(m)[j]].next = heap[Order(m)[j]].next
    BY <1>4, <1>6, <2>1
  <2>3. obj'[m] = obj[m]
    BY <1>2
  <2> QED BY <1>1, <1>7, <2>1, <2>2, <2>3, OrderStays
<1> DEFINE N(n) == [key |-> heap'[n].key, val |-> heap'[n].val]
<1>9. \A m \in Alive : Entries(m)' = [j \in 1 .. obj[m].size |-> N(Order(m)[j])]
  BY <1>2, <1>8 DEF Entries, EntryOf
<1>10. /\ \A n \in DOMAIN heap : n # c => N(n) = EntryOf(n)
       /\ N(c) = [key |-> EntryOf(c).key, val |-> val]
  BY <1>4, <1>5 DEF EntryOf
<1>11. ASSUME NEW m \in Alive \ {l} PROVE Order(m)' = Order(m) /\ Entries(m)' = Entries(m)
  <2>1. \A j \in 1 .. obj[m].size : Order(m)[j] # c
    BY <1>1 DEF Ordered
  <2>2. \A j \in 1 .. obj[m].size : N(Order(m)[j]) = EntryOf(Order(m)[j])
    BY <1>8, <1>10, <2>1
  <2> HIDE DEF N
  <2> QED BY <1>8, <1>9, <2>2 DEF Entries
<1>12. Entries(l)' = [Entries(l) EXCEPT ![i] = [key |-> Entries(l)[i].key, val |-> val]]
  <2>1. \A j \in 1 .. obj[l].size : j # i => Order(l)[j] # c
    BY <1>1 DEF Ordered
  <2>2. \A j \in 1 .. obj[l].size :
           N(Order(l)[j]) = IF j = i THEN [key |-> EntryOf(c).key, val |-> val] ELSE EntryOf(Order(l)[j])
    BY <1>8, <1>10, <2>1
  <2>3. Entries(l)[i] = EntryOf(c)
    BY <1>1, EntriesOf
  <2> HIDE DEF N
  <2> QED BY <1>9, <2>2, <2>3 DEF Entries
<1> QED BY <1>2, <1>11, <1>12 DEF Alters

-----------------------------------------------------------------------------
(* The same in the words of ListContents. *)

IsRow(s, k) == k \in Nat /\ s = [i \in 1 .. k |-> s[i]]

LEMMA RowIsSeq ==
    ASSUME NEW k, NEW s, IsRow(s, k), NEW S, \A i \in 1 .. k : s[i] \in S
    PROVE  s \in Seq(S) /\ Len(s) = k /\ DOMAIN s = 1 .. k
<1>1. s \in [1 .. k -> S] /\ k \in Nat
  BY DEF IsRow
<1> QED BY <1>1, FunctionIsSeq

LEMMA RowLen == ASSUME NEW k, NEW s, IsRow(s, k) PROVE Len(s) = k /\ DOMAIN s = 1 .. k
<1> DEFINE S == {s[i] : i \in 1 .. k}
<1>1. \A i \in 1 .. k : s[i] \in S
  OBVIOUS
<1> HIDE DEF S
<1> QED BY <1>1, RowIsSeq

LEMMA SeqIsRow ==
    ASSUME NEW S, NEW t \in Seq(S), NEW k \in Nat, Len(t) = k,
           NEW u, IsRow(u, k), \A i \in 1 .. k : t[i] = u[i]
    PROVE  t = u
<1>1. t \in [1 .. k -> S]
  BY LenProperties
<1> QED BY <1>1 DEF IsRow

LEMMA PutIsRow ==
    ASSUME NEW k, NEW s, IsRow(s, k), NEW p, NEW e PROVE IsRow(PutAt(s, k, p, e), k + 1)
<1>1. k + 1 \in Nat
  BY DEF IsRow
<1> QED BY <1>1 DEF IsRow, PutAt

LEMMA DropIsRow ==
    ASSUME NEW k, NEW s, IsRow(s, k), NEW p \in 1 .. k PROVE IsRow(DropAt(s, k, p), k - 1)
<1>1. k - 1 \in Nat
  BY DEF IsRow
<1> QED BY <1>1 DEF IsRow, DropAt

LEMMA PutIs ==
    ASSUME NEW k, NEW s, IsRow(s, k), NEW p \in 1 .. k + 1, NEW e
    PROVE  Contents!Put(s, p, e) = PutAt(s, k, p, e)
<1> DEFINE S == {s[i] : i \in 1 .. k} \cup {e}
           a == SubSeq(s, 1, p - 1)
           b == SubSeq(s, p, k)
           m == <<e>>
           u == PutAt(s, k, p, e)
<1>1. k \in Nat /\ p \in Int /\ 1 <= p /\ p <= k + 1 /\ (\A i \in 1 .. k : s[i] \in S) /\ e \in S
  BY DEF IsRow
<1>2. Contents!Put(s, p, e) = (a \o m) \o b
  BY <1>1, RowLen DEF Contents!Put
<1>3. m \in Seq(S) /\ Len(m) = 1 /\ m[1] = e
  OBVIOUS
<1> HIDE DEF S, m
<1>4. a \in Seq(S) /\ Len(a) = p - 1 /\ \A i \in 1 .. p - 1 : a[i] = s[i]
  <2>1. 1 \in Int /\ p - 1 \in Int /\ \A i \in 1 .. p - 1 : s[i] \in S
    BY <1>1
  <2>2. /\ a \in Seq(S) /\ Len(a) = IF 1 <= p - 1 THEN (p - 1) - 1 + 1 ELSE 0
        /\ \A i \in 1 .. (p - 1) - 1 + 1 : a[i] = s[1 + i - 1]
    BY <2>1, SubSeqProperties
  <2> QED BY <1>1, <2>2
<1>5. b \in Seq(S) /\ Len(b) = k - p + 1 /\ \A i \in 1 .. k - p + 1 : b[i] = s[p + i - 1]
  <2>1. p \in Int /\ k \in Int /\ \A i \in p .. k : s[i] \in S
    BY <1>1
  <2>2. /\ b \in Seq(S) /\ Len(b) = IF p <= k THEN k - p + 1 ELSE 0
        /\ \A i \in 1 .. k - p + 1 : b[i] = s[p + i - 1]
    BY <2>1, SubSeqProperties
  <2> QED BY <1>1, <2>2
<1> HIDE DEF a, b
<1>6. /\ a \o m \in Seq(S) /\ Len(a \o m) = p
      /\ \A i \in 1 .. p : (a \o m)[i] = IF i < p THEN s[i] ELSE e
  <2>1. /\ a \o m \in Seq(S) /\ Len(a \o m) = Len(a) + Len(m)
        /\ \A i \in 1 .. Len(a) + Len(m) : (a \o m)[i] = IF i <= Len(a) THEN a[i] ELSE m[i - Len(a)]
    BY <1>3, <1>4, ConcatProperties
  <2> QED BY <1>1, <1>3, <1>4, <2>1
<1> DEFINE c == a \o m
<1>7. c \in Seq(S) /\ Len(c) = p /\ \A i \in 1 .. p : c[i] = IF i < p THEN s[i] ELSE e
  BY <1>6
<1> HIDE DEF c
<1>8. /\ c \o b \in Seq(S) /\ Len(c \o b) = k + 1
      /\ \A i \in 1 .. k + 1 : (c \o b)[i] = IF i <= p THEN c[i] ELSE b[i - p]
  <2>1. /\ c \o b \in Seq(S) /\ Len(c \o b) = Len(c) + Len(b)
        /\ \A i \in 1 .. Len(c) + Len(b) : (c \o b)[i] = IF i <= Len(c) THEN c[i] ELSE b[i - Len(c)]
    BY <1>5, <1>7, ConcatProperties
  <2> QED BY <1>1, <1>5, <1>7, <2>1
<1>9. \A i \in 1 .. k + 1 : (c \o b)[i] = u[i]
  BY <1>1, <1>5, <1>7, <1>8 DEF PutAt
<1> HIDE DEF u
<1>10. IsRow(u, k + 1) /\ k + 1 \in Nat
  BY <1>1, PutIsRow DEF u
<1> DEFINE d == c \o b
<1>11. d \in Seq(S) /\ Len(d) = k + 1 /\ \A i \in 1 .. k + 1 : d[i] = u[i]
  BY <1>8, <1>9
<1>12. Contents!Put(s, p, e) = d
  BY <1>2 DEF c
<1> HIDE DEF d
<1>13. d = u
  BY <1>10, <1>11, SeqIsRow
<1> QED BY <1>12, <1>13 DEF u

LEMMA WithoutIs ==
    ASSUME NEW k, NEW s, IsRow(s, k), NEW p \in 1 .. k
    PROVE  Contents!Without(s, p) = DropAt(s, k, p)
<1> DEFINE S == {s[i] : i \in 1 .. k}
           a == SubSeq(s, 1, p - 1)
           b == SubSeq(s, p + 1, k)
           u == DropAt(s, k, p)
<1>1. k \in Nat /\ p \in Int /\ 1 <= p /\ p <= k /\ (\A i \in 1 .. k : s[i] \in S)
  BY DEF IsRow
<1>2. Contents!Without(s, p) = a \o b
  BY <1>1, RowLen DEF Contents!Without
<1> HIDE DEF S
<1>4. a \in Seq(S) /\ Len(a) = p - 1 /\ \A i \in 1 .. p - 1 : a[i] = s[i]
  <2>1. 1 \in Int /\ p - 1 \in Int /\ \A i \in 1 .. p - 1 : s[i] \in S
    BY <1>1
  <2>2. /\ a \in Seq(S) /\ Len(a) = IF 1 <= p - 1 THEN (p - 1) - 1 + 1 ELSE 0
        /\ \A i \in 1 .. (p - 1) - 1 + 1 : a[i] = s[1 + i - 1]
    BY <2>1, SubSeqProperties
  <2> QED BY <1>1, <2>2
<1>5. b \in Seq(S) /\ Len(b) = k - p /\ \A i \in 1 .. k - p : b[i] = s[p + i]
  <2>1. p + 1 \in Int /\ k \in Int /\ \A i \in p + 1 .. k : s[i] \in S
    BY <1>1
  <2>2. /\ b \in Seq(S) /\ Len(b) = IF p + 1 <= k THEN k - (p + 1) + 1 ELSE 0
        /\ \A i \in 1 .. k - (p + 1) + 1 : b[i] = s[(p + 1) + i - 1]
    BY <2>1, SubSeqProperties
  <2>3. \A i \in Int : (p + 1) + i - 1 = p + i
    BY <1>1
  <2> QED BY <1>1, <2>2, <2>3
<1> HIDE DEF a, b
<1>8. /\ a \o b \in Seq(S) /\ Len(a \o b) = k - 1
      /\ \A i \in 1 .. k - 1 : (a \o b)[i] = IF i <= p - 1 THEN a[i] ELSE b[i - (p - 1)]
  <2>1. /\ a \o b \in Seq(S) /\ Len(a \o b) = Len(a) + Len(b)
        /\ \A i \in 1 .. Len(a) + Len(b) : (a \o b)[i] = IF i <= Len(a) THEN a[i] ELSE b[i - Len(a)]
    BY <1>4, <1>5, ConcatProperties
  <2> QED BY <1>1, <1>4, <1>5, <2>1
<1>9. \A i \in 1 .. k - 1 : (a \o b)[i] = u[i]
  BY <1>1, <1>4, <1>5, <1>8 DEF DropAt
<1> HIDE DEF u
<1>10. IsRow(u, k - 1) /\ k - 1 \in Nat
  BY <1>1, DropIsRow DEF u
<1>11. a \o b = u
  BY <1>8, <1>9, <1>10, SeqIsRow
<1> QED BY <1>2, <1>11 DEF u

\* Behind the last entry, in front of the first, and the last one taken.
LEMMA EndsAre ==
    ASSUME NEW k, NEW s, IsRow(s, k), NEW e
    PROVE  /\ Append(s, e) = PutAt(s, k, k + 1, e)
           /\ <<e>> \o s = PutAt(s, k, 1, e)
           /\ k > 0 => SubSeq(s, 1, Len(s) - 1) = DropAt(s, k, k)
<1> DEFINE S == {s[i] : i \in 1 .. k} \cup {e}
           m == <<e>>
           u == PutAt(s, k, k + 1, e)
           v == PutAt(s, k, 1, e)
           a == SubSeq(s, 1, k - 1)
           w == DropAt(s, k, k)
<1>1. k \in Nat /\ k + 1 \in Nat /\ (\A i \in 1 .. k : s[i] \in S) /\ e \in S
  BY DEF IsRow
<1>2. m \in Seq(S) /\ Len(m) = 1 /\ m[1] = e
  OBVIOUS
<1> HIDE DEF S, m
<1>3. s \in Seq(S) /\ Len(s) = k
  BY <1>1, RowIsSeq
<1>4. Append(s, e) = u
  <2>1. /\ Append(s, e) \in Seq(S) /\ Len(Append(s, e)) = k + 1
        /\ \A i \in 1 .. k : Append(s, e)[i] = s[i]
        /\ Append(s, e)[k + 1] = e
    BY <1>1, <1>3, AppendProperties
  <2>2. \A i \in 1 .. k + 1 : Append(s, e)[i] = u[i]
    BY <1>1, <2>1 DEF PutAt
  <2>3. IsRow(u, k + 1)
    BY PutIsRow
  <2> DEFINE t == Append(s, e)
  <2>4. t \in Seq(S) /\ Len(t) = k + 1 /\ \A i \in 1 .. k + 1 : t[i] = u[i]
    BY <2>1, <2>2
  <2> HIDE DEF u, t
  <2>5. t = u
    BY <1>1, <2>3, <2>4, SeqIsRow
  <2> QED BY <2>5 DEF t
<1>5. m \o s = v
  <2>1. /\ m \o s \in Seq(S) /\ Len(m \o s) = k + 1
        /\ \A i \in 1 .. k + 1 : (m \o s)[i] = IF i <= 1 THEN m[i] ELSE s[i - 1]
    <3>1. /\ m \o s \in Seq(S) /\ Len(m \o s) = Len(m) + Len(s)
          /\ \A i \in 1 .. Len(m) + Len(s) : (m \o s)[i] = IF i <= Len(m) THEN m[i] ELSE s[i - Len(m)]
      BY <1>2, <1>3, ConcatProperties
    <3>2. Len(m) + Len(s) = k + 1
      BY <1>1, <1>2, <1>3
    <3> QED BY <1>2, <3>1, <3>2
  <2>2. \A i \in 1 .. k + 1 : (m \o s)[i] = v[i]
    BY <1>1, <1>2, <2>1 DEF PutAt
  <2>3. IsRow(v, k + 1)
    BY PutIsRow
  <2> HIDE DEF v
  <2> QED BY <1>1, <2>1, <2>2, <2>3, SeqIsRow
<1>6. k > 0 => a = w
  <2> SUFFICES ASSUME k > 0 PROVE a = w
    OBVIOUS
  <2>1. 1 \in Int /\ k - 1 \in Int /\ \A i \in 1 .. k - 1 : s[i] \in S
    BY <1>1
  <2>2. /\ a \in Seq(S) /\ Len(a) = IF 1 <= k - 1 THEN (k - 1) - 1 + 1 ELSE 0
        /\ \A i \in 1 .. (k - 1) - 1 + 1 : a[i] = s[1 + i - 1]
    BY <2>1, SubSeqProperties
  <2> HIDE DEF a
  <2>3. Len(a) = k - 1 /\ \A i \in 1 .. k - 1 : a[i] = w[i]
    BY <1>1, <2>2 DEF DropAt
  <2>4. IsRow(w, k - 1) /\ k - 1 \in Nat
    BY <1>1, DropIsRow
  <2> HIDE DEF w
  <2> QED BY <2>2, <2>3, <2>4, SeqIsRow
<1> QED BY <1>3, <1>4, <1>5, <1>6 DEF m

LEMMA JoinIs ==
    ASSUME NEW k, NEW s, IsRow(s, k), NEW j, NEW t, IsRow(t, j),
           NEW u, IsRow(u, k + j), \A i \in 1 .. k : u[i] = s[i], \A i \in 1 .. j : u[k + i] = t[i]
    PROVE  s \o t = u
<1> DEFINE S == {s[i] : i \in 1 .. k} \cup {t[i] : i \in 1 .. j}
<1>1. k \in Nat /\ j \in Nat /\ (\A i \in 1 .. k : s[i] \in S) /\ (\A i \in 1 .. j : t[i] \in S)
  BY DEF IsRow
<1> HIDE DEF S
<1>2. s \in Seq(S) /\ Len(s) = k /\ t \in Seq(S) /\ Len(t) = j
  BY <1>1, RowIsSeq
<1>3. /\ s \o t \in Seq(S) /\ Len(s \o t) = k + j
      /\ \A i \in 1 .. k + j : (s \o t)[i] = IF i <= k THEN s[i] ELSE t[i - k]
  BY <1>2, ConcatProperties
<1> DEFINE d == s \o t
<1>6. d \in Seq(S) /\ Len(d) = k + j /\ \A i \in 1 .. k + j : d[i] = IF i <= k THEN s[i] ELSE t[i - k]
  BY <1>3
<1> HIDE DEF d
<1>4. \A i \in 1 .. k + j : d[i] = u[i]
  <2> SUFFICES ASSUME NEW i \in 1 .. k + j PROVE d[i] = u[i]
    OBVIOUS
  <2>1. CASE i <= k
    BY <1>1, <1>6, <2>1
  <2>2. CASE i > k
    <3>1. i - k \in 1 .. j
      BY <1>1, <2>2
    <3>2. PICK x \in 1 .. j : x = i - k
      BY <3>1
    <3>3. i = k + x /\ i - k = x /\ i \in 1 .. k + j /\ ~ (i <= k)
      BY <1>1, <2>2, <3>2
    <3>4. d[i] = t[x]
      BY <1>6, <3>3
    <3>5. u[i] = t[x]
      BY <3>3
    <3> QED BY <3>4, <3>5
  <2>3. i <= k \/ i > k
    BY <1>1
  <2> QED BY <2>1, <2>2, <2>3
<1>5. k + j \in Nat
  BY <1>1
<1>7. d = u
  BY <1>4, <1>5, <1>6, SeqIsRow
<1> QED BY <1>7 DEF d

\* The first entry of a key, where there is one.
LEMMA AtIs ==
    ASSUME NEW k, NEW s, IsRow(s, k), NEW key, NEW i \in 1 .. k, s[i].key = key,
           \A j \in 1 .. i - 1 : s[j].key # key
    PROVE  Contents!Has(s, key) /\ Contents!At(s, key) = i
<1> DEFINE Q(x) == s[x].key = key /\ \A j \in 1 .. x - 1 : s[j].key # key
<1>1. DOMAIN s = 1 .. k /\ k \in Nat
  BY RowLen DEF IsRow
<1>2. Contents!At(s, key) = CHOOSE x \in 1 .. k : Q(x)
  BY <1>1 DEF Contents!At
<1>3. Q(i)
  OBVIOUS
<1>4. \A x \in 1 .. k : Q(x) => x = i
  <2> SUFFICES ASSUME NEW x \in 1 .. k, Q(x) PROVE x = i
    OBVIOUS
  <2>1. ~ x < i
    BY <1>1
  <2>2. ~ i < x
    BY <1>1
  <2> QED BY <1>1, <2>1, <2>2
<1>5. Contents!Has(s, key)
  BY <1>1 DEF Contents!Has
<1> HIDE DEF Q
<1> QED BY <1>2, <1>3, <1>4, <1>5

LEMMA HasNot ==
    ASSUME NEW k, NEW s, IsRow(s, k), NEW key, \A j \in 1 .. k : s[j].key # key
    PROVE  ~ Contents!Has(s, key)
BY RowLen DEF Contents!Has

LEMMA PlaceIs ==
    ASSUME NEW k, NEW s, IsRow(s, k), NEW key, NEW ord, NEW i \in 1 .. k + 1,
           i <= k => GoesBefore(key, ord, s[i]),
           \A j \in 1 .. i - 1 : ~ GoesBefore(key, ord, s[j])
    PROVE  Contents!Place(s, key, ord) = i
<1> DEFINE B(x) == IF ord = "Asc" THEN s[x].key > key ELSE s[x].key < key
           Q(x) == (x \in 1 .. k => B(x)) /\ \A j \in 1 .. x - 1 : ~ B(j)
<1>1. DOMAIN s = 1 .. k /\ k \in Nat /\ Len(s) = k
  BY RowLen DEF IsRow
<1>2. Contents!Place(s, key, ord) = CHOOSE x \in 1 .. k + 1 : Q(x)
  BY <1>1 DEF Contents!Place
<1>3. /\ i <= k => B(i)
      /\ \A j \in 1 .. i - 1 : ~ B(j)
  BY DEF GoesBefore
<1> HIDE DEF B
<1>4. Q(i)
  BY <1>1, <1>3
<1>5. \A x \in 1 .. k + 1 : Q(x) => x = i
  <2> SUFFICES ASSUME NEW x \in 1 .. k + 1, Q(x) PROVE x = i
    OBVIOUS
  <2>1. ~ x < i
    BY <1>1, <1>3
  <2>2. ~ i < x
    BY <1>1, <1>3
  <2> QED BY <1>1, <2>1, <2>2
<1> HIDE DEF Q
<1> QED BY <1>2, <1>4, <1>5

-----------------------------------------------------------------------------
(* A loop keeps the count of the nodes it has passed. *)

LEMMA InvGives ==
    ASSUME NEW ow, NEW ps, Inv(heap, obj, call, ow, ps)
    PROVE  /\ HeapOK(heap) /\ ObjOK(obj) /\ Links(heap, obj, Alive, ow, ps) /\ Ordered /\ IsCall(call)
           /\ Null \notin DOMAIN heap /\ Alive \subseteq DOMAIN obj
           /\ call.op # "destroy" => Alive = DOMAIN obj
           /\ call.op \in LookOps =>
                /\ call.op # "destroy" /\ call.op # "copy" /\ call.on \in Alive /\ Alive = DOMAIN obj
           /\ call.op = "equal" => call.from \in Alive /\ obj[call.on].size = obj[call.from].size
           /\ call.op = "copy" => /\ call.on \in Alive /\ call.from \in Alive /\ call.on # call.from
                                  /\ Alive = DOMAIN obj /\ call.op \notin LookOps
<1>1. HeapOK(heap) /\ ObjOK(obj) /\ IsCall(call) /\ Null \notin DOMAIN heap
  BY NullIsNoNode DEF Inv, Shape
<1>2. Links(heap, obj, Alive, ow, ps)
  BY DEF Inv, Alive, AliveOf
<1>3. Ordered
  BY <1>1, <1>2, ListsInOrder
<1>4. Alive \subseteq DOMAIN obj /\ (call.op # "destroy" => Alive = DOMAIN obj)
  BY DEF Alive
<1>5. call.op \in LookOps =>
         call.op # "destroy" /\ call.op # "copy" /\ call.on \in Alive /\ Alive = DOMAIN obj
  BY <1>4, LoopFacts
<1>6. call.op = "equal" => call.from \in Alive /\ obj[call.on].size = obj[call.from].size
  BY <1>4 DEF Inv, CallOK, EqualOK
<1>7. call.op = "copy" => /\ call.on \in Alive /\ call.from \in Alive /\ call.on # call.from
                          /\ Alive = DOMAIN obj /\ call.op \notin LookOps
  BY <1>4, Ops DEF Inv, CallOK, CopyOK
<1> QED BY <1>1, <1>2, <1>3, <1>4, <1>5, <1>6, <1>7

LEMMA SameEntries ==
    ASSUME heap' = heap, NEW l, obj'[l] = obj[l]
    PROVE  Order(l)' = Order(l) /\ Entries(l)' = Entries(l)
<1>1. Order(l)' = Order(l)
  BY DEF Order, From
<1>2. Entries(l)' = [i \in 1 .. obj'[l].size |-> [key |-> heap'[Order(l)'[i]].key, val |-> heap'[Order(l)'[i]].val]]
  BY DEF Entries, EntryOf
<1> QED BY <1>1, <1>2 DEF Entries, EntryOf

LEMMA OrderFacts ==
    ASSUME Ordered, NEW l \in Alive
    PROVE  /\ obj[l].size \in Nat /\ Order(l)[1] = obj[l].head /\ Order(l)[obj[l].size + 1] = Null
           /\ obj[l].size > 0 => Order(l)[obj[l].size] = obj[l].tail
           /\ \A i \in 1 .. obj[l].size : /\ Order(l)[i] \in DOMAIN heap
                                          /\ heap[Order(l)[i]].next = Order(l)[i + 1]
           /\ IsRow(Entries(l), obj[l].size)
<1>1. IsOrder(heap, obj, l, Order(l)) /\ Limit \in Nat
  BY LimitIsNat DEF Ordered
<1>2. obj[l].size \in Nat /\ obj[l].size <= Limit
  BY <1>1 DEF IsOrder
<1>3. Order(l)[obj[l].size + 1] = Null
  BY <1>1, <1>2 DEF IsOrder
<1>4. IsRow(Entries(l), obj[l].size)
  BY <1>2 DEF IsRow, Entries
<1> QED BY <1>1, <1>2, <1>3, <1>4 DEF IsOrder

\* A call that is none of the loops has nothing to keep.
LEMMA NoLoop == ASSUME call'.op \in {"none", "destroy"} PROVE LoopInv'
BY Ops DEF LoopInv, SoughtOK, CopiedOK

LEMMA NoCallNoLoop == ASSUME call' = NoCall PROVE LoopInv'
BY NoLoop DEF NoCall

LEMMA LookBegins ==
    ASSUME NEW ow, NEW ps, Inv(heap, obj, call, ow, ps), heap' = heap, obj' = obj,
           NEW l \in Alive, call'.on = l, call'.cur = obj[l].head, call'.op # "copy",
           call'.op = "get_at" => call'.val \in Nat /\ call'.other = call'.val,
           call'.op = "equal" => call'.from \in Alive /\ call'.other = obj[call'.from].head
    PROVE  LoopInv'
<1>1. /\ Order(l)' = Order(l) /\ Order(l)[1] = obj[l].head /\ obj[l].size \in Nat
  BY InvGives, SameEntries, OrderFacts
<1>2. \A m \in Alive : Order(m)' = Order(m) /\ Order(m)[1] = obj[m].head
  BY InvGives, SameEntries, OrderFacts
<1>3. SoughtBehind(1)'
  <2>1. call.cur' = Order(call.on)'[1]
    <3>1. Order(call.on)' = Order(l)'
      BY DEF Order
    <3> QED BY <1>1, <3>1
  <2>2. call'.op = "equal" => call.other' = Order(call.from)'[1]
    <3> SUFFICES ASSUME call'.op = "equal" PROVE call.other' = Order(call.from)'[1]
      OBVIOUS
    <3>1. PICK m \in Alive : m = call'.from
      OBVIOUS
    <3>2. Order(call.from)' = Order(m)'
      BY <3>1 DEF Order
    <3> QED BY <1>2, <3>1, <3>2
  <2>3. \A j : j \notin 1 .. 1 - 1
    OBVIOUS
  <2>4. call'.op = "get_at" => call'.val \in Nat /\ call'.other \in Nat /\ call'.other = call'.val - (1 - 1)
    OBVIOUS
  <2> QED BY <2>1, <2>2, <2>3, <2>4 DEF SoughtBehind
<1>4. 1 \in 1 .. obj'[call'.on].size + 1
  BY <1>1
<1>5. SoughtOK'
  BY <1>3, <1>4 DEF SoughtOK
<1>6. CopiedOK'
  BY DEF CopiedOK
<1> QED BY <1>5, <1>6 DEF LoopInv

\* The loop of a call goes one node on.
LEMMA WalkGoesOn ==
    ASSUME NEW ow, NEW ps, Inv(heap, obj, call, ow, ps), LoopInv, Walk, crashed' = crashed
    PROVE  LoopInv'
<1>0. PICK l : l = call.on
  OBVIOUS
<1> DEFINE k == obj[l].size
           s == Entries(l)
           o1 == CASE call.op = "equal"  -> heap[call.other].next
                   [] call.op = "get_at" -> call.other - 1
                   [] OTHER              -> call.other
<1>1. call.op \in LookOps /\ call.cur # Null
  BY DEF Walk, Looking, Doing
<1>2. l \in Alive /\ Ordered /\ IsCall(call) /\ call.op # "copy"
  BY <1>0, <1>1, InvGives
<1>3. /\ ~ Sought /\ call' = [call EXCEPT !.cur = heap[call.cur].next, !.other = o1]
      /\ heap' = heap /\ obj' = obj
  <2>1. Follows \subseteq DOMAIN heap
    BY <1>1, LoopFacts
  <2> QED BY <2>1 DEF Walk
<1>4. /\ call'.op = call.op /\ call'.on = l /\ call'.from = call.from /\ call'.key = call.key
      /\ call'.val = call.val /\ call'.cur = heap[call.cur].next /\ call'.other = o1
  <2> HIDE DEF o1
  <2> QED BY <1>0, <1>2, <1>3 DEF IsCall
<1>5. PICK i \in 1 .. k + 1 : SoughtBehind(i)
  BY <1>0, <1>1 DEF LoopInv, SoughtOK
<1>6. /\ k \in Nat /\ Order(l)[k + 1] = Null /\ call.cur = Order(l)[i]
      /\ \A j \in 1 .. k : /\ Order(l)[j] \in DOMAIN heap
                           /\ heap[Order(l)[j]].next = Order(l)[j + 1]
                           /\ s[j] = EntryOf(Order(l)[j])
  BY <1>0, <1>2, <1>5, OrderFacts, EntriesOf DEF SoughtBehind
<1>7. i \in 1 .. k
  BY <1>1, <1>6
<1>8. /\ call'.cur = Order(l)[i + 1] /\ heap[call.cur].key = s[i].key /\ heap[call.cur].val = s[i].val
      /\ i + 1 \in 1 .. k + 1 /\ (i + 1) - 1 = i
      /\ \A j \in 1 .. i : j \in 1 .. i - 1 \/ j = i
  <2> HIDE DEF k, s, o1
  <2>0. heap[Order(l)[i]].next = Order(l)[i + 1] /\ s[i] = EntryOf(Order(l)[i])
    BY <1>6, <1>7
  <2>1. heap[call.cur].key = s[i].key /\ heap[call.cur].val = s[i].val
    BY <1>6, <2>0 DEF EntryOf
  <2>2. call'.cur = Order(l)[i + 1]
    BY <1>4, <1>6, <2>0
  <2> QED BY <1>6, <1>7, <2>1, <2>2
<1>9. Order(call.on)' = Order(l) /\ Entries(call.on)' = s
  <2>1. Order(call.on)' = Order(l)' /\ Entries(call.on)' = Entries(l)'
    BY <1>4 DEF Order, Entries
  <2> QED BY <1>3, <2>1, SameEntries
<1>10. SoughtBehind(i + 1)'
  <2>1. CASE call.op = "push_ord"
    <3>1. \A j \in 1 .. i - 1 : ~ GoesBefore(call.key, call.val[1], s[j])
      BY <1>0, <1>5, <2>1 DEF SoughtBehind
    <3>2. ~ GoesBefore(call.key, call.val[1], s[i])
      BY <1>3, <1>8, <2>1 DEF Sought, GoesBefore
    <3>3. \A j \in 1 .. i : ~ GoesBefore(call.key, call.val[1], s[j])
      BY <1>8, <3>1, <3>2
    <3> HIDE DEF k, s
    <3> QED BY <1>4, <1>8, <1>9, <2>1, <3>3 DEF SoughtBehind
  <2>2. CASE call.op = "get_at"
    <3>1. call.val \in Nat /\ call.other \in Nat /\ call.other = call.val - (i - 1) /\ call.other # 0
      BY <1>3, <1>5, <2>2 DEF SoughtBehind, Sought
    <3>2. o1 = call.other - 1
      BY <2>2
    <3>3. call'.val \in Nat /\ call'.other \in Nat /\ call'.other = call'.val - ((i + 1) - 1)
      BY <1>4, <1>7, <3>1, <3>2
    <3> HIDE DEF k, s, o1
    <3> QED BY <1>4, <1>8, <1>9, <2>2, <3>3 DEF SoughtBehind
  <2>3. CASE call.op = "equal"
    <3>0. PICK m : m = call.from
      OBVIOUS
    <3>1. m \in Alive /\ obj[m].size = k
      BY <1>0, <1>2, <2>3, <3>0, InvGives
    <3>2. call.other = Order(m)[i] /\ \A j \in 1 .. i - 1 : s[j] = Entries(m)[j]
      BY <1>0, <1>5, <2>3, <3>0 DEF SoughtBehind
    <3>3. Order(m)[i] \in DOMAIN heap /\ heap[Order(m)[i]].next = Order(m)[i + 1] /\ Entries(m)[i] = EntryOf(Order(m)[i])
      BY <1>2, <1>7, <3>1, OrderFacts, EntriesOf
    <3>4. o1 = Order(m)[i + 1]
      BY <2>3, <3>2, <3>3
    <3>5. heap[call.cur].key = heap[call.other].key /\ heap[call.cur].val = heap[call.other].val
      BY <1>3, <2>3 DEF Sought
    <3>6. s[i] = Entries(m)[i]
      BY <1>6, <1>7, <3>2, <3>3, <3>5 DEF EntryOf
    <3>7. \A j \in 1 .. i : s[j] = Entries(m)[j]
      BY <1>8, <3>2, <3>6
    <3>8. Order(call.from)' = Order(m) /\ Entries(call.from)' = Entries(m)
      <4>1. Order(call.from)' = Order(m)' /\ Entries(call.from)' = Entries(m)'
        BY <1>4, <3>0 DEF Order, Entries
      <4> QED BY <1>3, <4>1, SameEntries
    <3> HIDE DEF k, s, o1
    <3> QED BY <1>4, <1>8, <1>9, <2>3, <3>4, <3>7, <3>8 DEF SoughtBehind
  <2>4. CASE call.op \notin {"push_ord", "get_at", "equal"}
    <3>1. \A j \in 1 .. i - 1 : s[j].key # call.key
      BY <1>0, <1>5, <2>4 DEF SoughtBehind
    <3>2. s[i].key # call.key
      BY <1>3, <1>8, <2>4 DEF Sought
    <3>3. \A j \in 1 .. i : s[j].key # call.key
      BY <1>8, <3>1, <3>2
    <3> HIDE DEF k, s
    <3> QED BY <1>4, <1>8, <1>9, <2>4, <3>3 DEF SoughtBehind
  <2> QED BY <2>1, <2>2, <2>3, <2>4
<1>11. SoughtOK'
  BY <1>0, <1>3, <1>4, <1>8, <1>10 DEF SoughtOK
<1>12. CopiedOK'
  BY <1>2, <1>4 DEF CopiedOK
<1> QED BY <1>11, <1>12 DEF LoopInv

LEMMA CopyStarts ==
    ASSUME NEW ow, NEW ps, Inv(heap, obj, call, ow, ps), heap' = heap,
           NEW from \in Alive, obj'[from] = obj[from],
           call'.op = "copy", call'.from = from, call'.cur = obj[from].head,
           call'.val \in Nat, obj'[call'.on].size = call'.val
    PROVE  LoopInv'
<1>1. /\ Order(from)' = Order(from) /\ Order(from)[1] = obj[from].head /\ obj[from].size \in Nat
  BY InvGives, SameEntries, OrderFacts
<1>2. Order(call.from)' = Order(from)'
  BY DEF Order
<1>3. CopiedUpTo(1)'
  BY <1>1, <1>2 DEF CopiedUpTo
<1>4. 1 \in 1 .. obj'[call'.from].size + 1
  BY <1>1
<1>5. CopiedOK'
  BY <1>3, <1>4 DEF CopiedOK
<1>6. SoughtOK'
  BY Ops DEF SoughtOK
<1> QED BY <1>5, <1>6 DEF LoopInv

LEMMA RoomToCopy ==
    ASSUME NEW ow, NEW ps, Inv(heap, obj, call, ow, ps), CopyNode
    PROVE  /\ \E n \in Nodes : n \notin DOMAIN heap
           /\ call.op = "copy" /\ call.cur # Null /\ call.cur \in DOMAIN heap /\ MayPushBk(call.on)
<1> DEFINE c == call.cur
           from == call.from
           room == Cardinality(Nodes \ DOMAIN heap)
<1>1. /\ call.op = "copy" /\ c # Null /\ from \in DOMAIN obj /\ call.on \in DOMAIN obj
      /\ c \in DOMAIN heap /\ ow[c] = from /\ room >= obj[from].size - ps[c] + 1
  BY DEF CopyNode, Doing, Inv, CallOK, CopyOK
<1>2. AliveOf(obj, call) = DOMAIN obj
  BY <1>1 DEF AliveOf
<1>3. MayPushBk(call.on)
  BY <1>1, <1>2, ListEnds DEF Inv, Shape
<1>4. ps[c] \in Int /\ 1 <= ps[c] /\ ps[c] <= obj[from].size /\ obj[from].size \in Nat
  BY <1>1, <1>2 DEF Inv, Links, InRange, Shape, ObjOK, IsList
<1>5. CASE Nodes \ DOMAIN heap = {}
  <2>1. room = 0
    BY <1>5, FS_EmptySet
  <2> QED BY <1>1, <1>4, <2>1
<1> QED BY <1>1, <1>3, <1>5

LEMMA CopyGoesOn ==
    ASSUME NEW ow, NEW ps, Inv(heap, obj, call, ow, ps), LoopInv, CopyNode,
           NEW l, l = call.on, NEW m, m = call.from
    PROVE  /\ LoopInv'
           /\ l \in Alive /\ m \in Alive /\ l # m
           /\ \E key, val : Puts(l, obj[l].size + 1, key, val)
           /\ call'.op = "copy" /\ call'.on = l /\ call'.from = m
           /\ call'.key = call.key /\ call'.val = call.val /\ answer' = answer
<1> DEFINE c == call.cur
           k == obj[l].size
           s == Entries(l)
           key == heap[c].key
           val == heap[c].val
<1>1. /\ \E n \in Nodes : n \notin DOMAIN heap
      /\ call.op = "copy" /\ c # Null /\ c \in DOMAIN heap /\ MayPushBk(l)
  BY RoomToCopy
<1>2. /\ HeapOK(heap) /\ ObjOK(obj) /\ Links(heap, obj, Alive, ow, ps) /\ Ordered /\ IsCall(call)
      /\ l \in Alive /\ m \in Alive /\ l # m
  BY <1>1, InvGives
<1>3. PushBk(l, key, val) /\ call' = [call EXCEPT !.cur = heap[c].next] /\ answer' = answer
  BY <1>1 DEF CopyNode
<1>4. /\ call'.op = "copy" /\ call'.on = l /\ call'.from = m /\ call'.key = call.key
      /\ call'.val = call.val /\ call'.cur = heap[c].next
  BY <1>1, <1>2, <1>3 DEF IsCall
<1>5. Puts(l, k + 1, key, val)
  <2> HIDE DEF key, val
  <2>1. Puts(l, obj[l].size + 1, key, val)
    BY <1>1, <1>2, <1>3, PushBkPuts
  <2> QED BY <2>1
<1>6. PICK i \in 1 .. obj[m].size + 1 : CopiedUpTo(i)
  BY <1>1 DEF LoopInv, CopiedOK
<1>7. /\ c = Order(m)[i] /\ call.val \in Nat /\ k = call.val + (i - 1) /\ k \in Nat
      /\ \A j \in 1 .. i - 1 : s[call.val + j] = Entries(m)[j]
      /\ obj[m].size \in Nat /\ Order(m)[obj[m].size + 1] = Null
  BY <1>2, <1>6, OrderFacts DEF CopiedUpTo
<1>8. i \in 1 .. obj[m].size
  BY <1>1, <1>7
<1>9. heap[c].next = Order(m)[i + 1] /\ Entries(m)[i] = [key |-> key, val |-> val]
  BY <1>2, <1>7, <1>8, OrderFacts, EntriesOf DEF EntryOf
<1>10. /\ obj'[l].size = k + 1 /\ obj'[m] = obj[m]
       /\ Entries(l)' = PutAt(s, k, k + 1, [key |-> key, val |-> val])
       /\ Order(m)' = Order(m) /\ Entries(m)' = Entries(m)
  BY <1>2, <1>5 DEF Puts
<1>11. /\ Order(call.from)' = Order(m) /\ Entries(call.from)' = Entries(m)
       /\ Entries(call.on)' = Entries(l)'
  <2>1. /\ Order(call.from)' = Order(m)' /\ Entries(call.from)' = Entries(m)'
        /\ Entries(call.on)' = Entries(l)'
    BY <1>4 DEF Order, Entries
  <2> QED BY <1>10, <2>1
<1>12. \A j \in 1 .. i : Entries(l)'[call.val + j] = Entries(m)[j]
  <2> DEFINE t == Entries(l)'
             e == [key |-> key, val |-> val]
  <2>0. t = PutAt(s, k, k + 1, e)
    BY <1>10
  <2> HIDE DEF t, s, k, e
  <2>1. ASSUME NEW j \in 1 .. i PROVE t[call.val + j] = Entries(m)[j]
    <3>1. CASE j = i
      <4>1. call.val + j = k + 1 /\ k + 1 \in 1 .. k + 1
        BY <1>7, <1>8, <3>1
      <4>2. t[k + 1] = e
        BY <1>7, <2>0, <4>1 DEF PutAt
      <4> QED BY <1>9, <3>1, <4>1, <4>2 DEF e
    <3>2. CASE j # i
      <4>1. call.val + j \in 1 .. k /\ j \in 1 .. i - 1
        BY <1>7, <1>8, <3>2
      <4>2. \A x \in 1 .. k : t[x] = s[x]
        BY <1>7, <2>0 DEF PutAt
      <4> QED BY <1>7, <4>1, <4>2
    <3> QED BY <3>1, <3>2
  <2> QED BY <2>1 DEF t
<1>13. CopiedUpTo(i + 1)'
  <2>1. (i + 1) - 1 = i /\ k + 1 = call.val + i
    BY <1>7, <1>8
  <2> HIDE DEF k, s, c, key, val
  <2> QED BY <1>4, <1>7, <1>9, <1>10, <1>11, <1>12, <2>1 DEF CopiedUpTo
<1>14. CopiedOK'
  <2>1. i + 1 \in 1 .. obj'[call'.from].size + 1
    BY <1>4, <1>7, <1>8, <1>10
  <2> QED BY <1>13, <2>1 DEF CopiedOK
<1>15. SoughtOK'
  BY <1>4, Ops DEF SoughtOK
<1> QED BY <1>2, <1>3, <1>4, <1>5, <1>14, <1>15 DEF LoopInv

LEMMA SameLoop == ASSUME LoopInv, heap' = heap, obj' = obj, call' = call PROVE LoopInv'
<1>1. PICK l, m : l = call.on /\ m = call.from
  OBVIOUS
<1>2. /\ Order(l)' = Order(l) /\ Entries(l)' = Entries(l)
      /\ Order(m)' = Order(m) /\ Entries(m)' = Entries(m)
  BY SameEntries
<1>3. /\ Order(call.on)' = Order(l) /\ Entries(call.on)' = Entries(l)
      /\ Order(call.from)' = Order(m) /\ Entries(call.from)' = Entries(m)
  <2>1. /\ Order(call.on)' = Order(l)' /\ Entries(call.on)' = Entries(l)'
        /\ Order(call.from)' = Order(m)' /\ Entries(call.from)' = Entries(m)'
    BY <1>1 DEF Order, Entries
  <2> QED BY <1>2, <2>1
<1>4. \A i : SoughtBehind(i) => SoughtBehind(i)'
  BY <1>1, <1>3 DEF SoughtBehind
<1>5. \A i : CopiedUpTo(i) => CopiedUpTo(i)'
  BY <1>1, <1>3 DEF CopiedUpTo
<1>6. SoughtOK'
  BY <1>4 DEF LoopInv, SoughtOK
<1>7. CopiedOK'
  BY <1>5 DEF LoopInv, CopiedOK
<1> QED BY <1>6, <1>7 DEF LoopInv

LEMMA CallEnds ==
    ASSUME \/ Insert \/ InsertUpdate \/ Update \/ Get \/ DeleteKey \/ FrePush \/ FrePop
           \/ CortinaAppend \/ OrdPushed \/ AtIndex \/ Compared \/ Copied \/ Destroyed
    PROVE  call' = NoCall \/ (heap' = heap /\ obj' = obj /\ call' = call)
<1>1. \A val, result : Push(val, result) =>
         call' = NoCall \/ (heap' = heap /\ obj' = obj /\ call' = call)
  BY DEF Push, Return, Fault
<1>2. \A result : Drop(result) => call' = NoCall \/ (heap' = heap /\ obj' = obj /\ call' = call)
  BY DEF Drop, Return, Fault
<1>3. \A result : Return(result) => call' = NoCall
  BY DEF Return
<1>4. CASE Insert \/ InsertUpdate \/ Update \/ Get \/ DeleteKey
  BY <1>1, <1>2, <1>3, <1>4 DEF Insert, InsertUpdate, Update, Get, DeleteKey
<1>5. CASE FrePush \/ FrePop \/ CortinaAppend
  BY <1>1, <1>2, <1>3, <1>5 DEF FrePush, FrePop, CortinaAppend
<1>6. CASE OrdPushed \/ AtIndex \/ Compared
  BY <1>1, <1>2, <1>3, <1>6 DEF OrdPushed, AtIndex, Compared, Fault
<1>7. CASE Copied \/ Destroyed
  BY <1>7 DEF Copied, Destroyed
<1> QED BY <1>4, <1>5, <1>6, <1>7

LEMMA StepLoop == ASSUME IInv, LoopInv, Step PROVE LoopInv'
<1>1. PICK ow, ps : Inv(heap, obj, call, ow, ps)
  BY DEF IInv
<1>2. CASE Walk
  BY <1>1, <1>2, StepOK, WalkGoesOn
<1>3. CASE \/ Insert \/ InsertUpdate \/ Update \/ Get \/ DeleteKey \/ FrePush \/ FrePop
           \/ CortinaAppend \/ OrdPushed \/ AtIndex \/ Compared \/ Copied \/ Destroyed
  BY <1>3, CallEnds, NoCallNoLoop, SameLoop
<1>4. CASE CopyNode
  <2>1. PICK l, m : l = call.on /\ m = call.from
    OBVIOUS
  <2> QED BY <1>1, <1>4, <2>1, CopyGoesOn
<1>5. CASE FreeNode
  <2>1. CASE heap' = heap /\ obj' = obj /\ call' = call
    BY <2>1, SameLoop
  <2>2. CASE call' = [call EXCEPT !.cur = heap[@].next]
    <3>1. IsCall(call) /\ call.op = "destroy"
      BY <1>1, <1>5, InvGives DEF FreeNode, Doing
    <3>2. call'.op = "destroy"
      BY <2>2, <3>1 DEF IsCall
    <3> QED BY <3>2, NoLoop
  <2> QED BY <1>5, <2>1, <2>2 DEF FreeNode, Fault
<1> QED BY <1>2, <1>3, <1>4, <1>5 DEF Step

LEMMA IdleInv ==
    ASSUME NEW ow, NEW ps, Inv(heap, obj, call, ow, ps), Idle
    PROVE  call.op = "none" /\ Alive = DOMAIN obj /\ Ordered
BY IdleFacts, InvGives DEF Alive

LEMMA QuietLoop ==
    ASSUME IInv, LoopInv, NEW l, NEW from, NEW key, NEW val,
           \/ Construct(l) \/ Pop(l) \/ MoveConstruct(l, from) \/ MoveAssign(l, from)
           \/ PushFront(l, key) \/ PushBack(l, key, val)
    PROVE  LoopInv'
<1>1. call' = NoCall
  BY DEF Construct, Pop, MoveConstruct, MoveAssign, PushFront, PushBack, Idle, Done, Fault
<1> QED BY <1>1, NoCallNoLoop

LEMMA SearchLoop ==
    ASSUME IInv, LoopInv, NEW l, NEW op \in Searches[kind], NEW key, NEW val, Search(op, l, key, val)
    PROVE  LoopInv'
<1>1. PICK ow, ps : Inv(heap, obj, call, ow, ps)
  BY DEF IInv
<1>2. /\ call' = [op |-> op, on |-> l, key |-> key, val |-> val, from |-> Null,
                  cur |-> obj[l].head, other |-> Null]
      /\ heap' = heap /\ obj' = obj
  BY DEF Search, Begin
<1>3. l \in Alive
  BY <1>1, IdleInv DEF Search
<1>4. op \in LookOps \ {"push_ord", "get_at", "equal"} /\ op \notin {"copy", "equal", "get_at"}
  BY Ops DEF IInv
<1>5. call'.op = op /\ call'.on = l /\ call'.cur = obj[l].head
  BY <1>2
<1> QED BY <1>1, <1>2, <1>3, <1>4, <1>5, LookBegins

LEMMA OtherLoops ==
    ASSUME IInv, LoopInv, NEW l, NEW from, NEW key, NEW ord, NEW val, NEW index \in Nat,
           \/ PushOrd(l, key, ord, val) \/ GetAt(l, index) \/ Equal(l, from) \/ Destroy(l)
    PROVE  LoopInv'
<1>1. PICK ow, ps : Inv(heap, obj, call, ow, ps)
  BY DEF IInv
<1>2. l \in Alive /\ heap' = heap /\ obj' = obj /\ call = NoCall
  BY <1>1, IdleInv DEF PushOrd, GetAt, Equal, Destroy, Idle
<1>3. CASE PushOrd(l, key, ord, val)
  <2>1. call' = [op |-> "push_ord", on |-> l, key |-> key, val |-> <<ord, val>>, from |-> Null,
                 cur |-> obj[l].head, other |-> Null]
    BY <1>3 DEF PushOrd, Begin
  <2>2. call'.op = "push_ord" /\ call'.on = l /\ call'.cur = obj[l].head
    BY <2>1
  <2> QED BY <1>1, <1>2, <2>2, LookBegins
<1>4. CASE GetAt(l, index)
  <2>1. CASE call' = call
    BY <1>2, <2>1, NoCallNoLoop
  <2>2. CASE call' = [op |-> "get_at", on |-> l, key |-> Null, val |-> index, from |-> Null,
                      cur |-> obj[l].head, other |-> index]
    <3>1. /\ call'.op = "get_at" /\ call'.on = l /\ call'.cur = obj[l].head
          /\ call'.val = index /\ call'.other = index
      BY <2>2
    <3> QED BY <1>1, <1>2, <3>1, LookBegins
  <2> QED BY <1>4, <2>1, <2>2 DEF GetAt, Begin
<1>5. CASE Equal(l, from)
  <2>1. CASE call' = call
    BY <1>2, <2>1, NoCallNoLoop
  <2>2. CASE call' = [op |-> "equal", on |-> l, key |-> Null, val |-> Null, from |-> from,
                      cur |-> obj[l].head, other |-> obj[from].head]
    <3>1. /\ call'.op = "equal" /\ call'.on = l /\ call'.cur = obj[l].head
          /\ call'.from = from /\ call'.other = obj[from].head
      BY <2>2
    <3>2. from \in Alive
      BY <1>1, <1>5, IdleInv DEF Equal
    <3> QED BY <1>1, <1>2, <3>1, <3>2, LookBegins
  <2> QED BY <1>5, <2>1, <2>2 DEF Equal, Begin
<1>6. CASE Destroy(l)
  <2>1. call' = [op |-> "destroy", on |-> l, key |-> Null, val |-> Null, from |-> Null,
                 cur |-> IF obj[l].size > 0 THEN obj[l].head ELSE Null, other |-> Null]
    BY <1>6 DEF Destroy, Begin
  <2>2. call'.op = "destroy"
    BY <2>1
  <2> QED BY <2>2, NoLoop
<1> QED BY <1>3, <1>4, <1>5, <1>6

LEMMA CopyLoops ==
    ASSUME IInv, LoopInv, NEW l, NEW from, CopyConstruct(l, from) \/ CopyAssign(l, from)
    PROVE  LoopInv'
<1>1. PICK ow, ps : Inv(heap, obj, call, ow, ps)
  BY DEF IInv
<1>2. from \in Alive /\ heap' = heap /\ from \in DOMAIN obj
  BY <1>1, IdleInv DEF CopyConstruct, CopyAssign
<1>3. CASE CopyConstruct(l, from)
  <2>1. /\ call' = [op |-> "copy", on |-> l, key |-> Null, val |-> 0, from |-> from,
                    cur |-> obj[from].head, other |-> Null]
        /\ obj' = With(l, Empty) /\ l # from
    BY <1>3 DEF CopyConstruct, Begin
  <2>2. call'.op = "copy" /\ call'.on = l /\ call'.from = from /\ call'.cur = obj[from].head /\ call'.val = 0
    BY <2>1
  <2>3. obj'[from] = obj[from] /\ obj'[l].size = 0
    BY <1>2, <2>1 DEF With, Empty
  <2> QED BY <1>1, <1>2, <2>2, <2>3, CopyStarts
<1>4. CASE CopyAssign(l, from)
  <2>1. /\ call' = [op |-> "copy", on |-> l, key |-> Null, val |-> obj[l].size, from |-> from,
                    cur |-> obj[from].head, other |-> Null]
        /\ obj' = obj /\ l # from /\ l \in Alive
    BY <1>1, <1>4, IdleInv DEF CopyAssign, Begin
  <2>2. /\ call'.op = "copy" /\ call'.on = l /\ call'.from = from /\ call'.cur = obj[from].head
        /\ call'.val = obj[l].size
    BY <2>1
  <2>3. obj[l].size \in Nat
    BY <1>1, <2>1, InvGives, OrderFacts
  <2> QED BY <1>1, <1>2, <2>1, <2>2, <2>3, CopyStarts
<1> QED BY <1>3, <1>4

LEMMA LoopKept == ASSUME IInv, LoopInv, [Next]_vars PROVE LoopInv'
<1>1. CASE Step
  BY <1>1, StepLoop
<1>2. CASE UNCHANGED vars
  BY <1>2, SameLoop DEF vars
<1>3. ASSUME NEW l \in Objects,
             \/ Construct(l) \/ Destroy(l) \/ Pop(l)
             \/ \E from \in Objects :
                   \/ CopyConstruct(l, from) \/ CopyAssign(l, from)
                   \/ MoveConstruct(l, from) \/ MoveAssign(l, from) \/ Equal(l, from)
      PROVE  LoopInv'
  <2>1. CASE Construct(l) \/ Pop(l)
    BY <2>1, QuietLoop
  <2>2. CASE Destroy(l)
    BY <2>2, OtherLoops
  <2>3. ASSUME NEW from \in Objects,
               \/ CopyConstruct(l, from) \/ CopyAssign(l, from)
               \/ MoveConstruct(l, from) \/ MoveAssign(l, from) \/ Equal(l, from)
        PROVE  LoopInv'
    <3>1. CASE CopyConstruct(l, from) \/ CopyAssign(l, from)
      BY <3>1, CopyLoops
    <3>2. CASE MoveConstruct(l, from) \/ MoveAssign(l, from)
      BY <3>2, QuietLoop
    <3>3. CASE Equal(l, from)
      BY <3>3, OtherLoops
    <3> QED BY <2>3, <3>1, <3>2, <3>3
  <2> QED BY <1>3, <2>1, <2>2, <2>3
<1>4. ASSUME NEW l \in Objects, NEW key \in Keys, NEW val, PushFront(l, key) \/ PushBack(l, key, val)
      PROVE  LoopInv'
  BY <1>4, QuietLoop
<1>5. ASSUME NEW l \in Objects, NEW key \in Keys, NEW ord, NEW val, PushOrd(l, key, ord, val)
      PROVE  LoopInv'
  BY <1>5, OtherLoops
<1>6. ASSUME NEW l \in Objects, NEW key \in Keys, NEW op \in Searches[kind], NEW val,
             Search(op, l, key, val)
      PROVE  LoopInv'
  BY <1>6, SearchLoop
<1>7. ASSUME NEW l \in Objects, NEW index \in 0 .. Cardinality(Nodes), GetAt(l, index)
      PROVE  LoopInv'
  <2>1. index \in Nat
    OBVIOUS
  <2> QED BY <1>7, <2>1, OtherLoops
<1> QED BY <1>1, <1>2, <1>3, <1>4, <1>5, <1>6, <1>7 DEF Next

LEMMA LoopInvariance == Spec => []LoopInv
<1>1. Init => LoopInv
  <2> SUFFICES ASSUME Init PROVE LoopInv
    OBVIOUS
  <2>1. call.op = "none"
    BY DEF Init, NoCall
  <2> QED BY <2>1, Ops DEF LoopInv, SoughtOK, CopiedOK
<1>2. IInv /\ LoopInv /\ [Next]_vars => LoopInv'
  BY LoopKept
<1> QED BY <1>1, <1>2, Invariance, PTL DEF Spec

-----------------------------------------------------------------------------
(* The refinement: the content of a list is its entries, those a copy has  *)
(* not yet completed excepted.                                             *)

Copying(l) == call.op = "copy" /\ call.on = l

ContentIs ==
    /\ Content = [l \in Alive |-> Content[l]]
    /\ \A l \in Alive : obj[l].size \in Nat /\ IsRow(Entries(l), obj[l].size)
    /\ \A l \in Alive : ~ Copying(l) => Content[l] = Entries(l)
    /\ \A l \in Alive : Copying(l) => /\ IsRow(Content[l], call.val)
                                      /\ \A i \in 1 .. call.val : Content[l][i] = Entries(l)[i]

\* Where a finished copy stands.
CopyIsWhole ==
    call.op = "copy" /\ call.cur = Null =>
        /\ call.on \in Alive /\ call.from \in Alive /\ call.on # call.from
        /\ call.val \in Nat /\ obj[call.on].size = call.val + obj[call.from].size
        /\ \A j \in 1 .. obj[call.from].size : Entries(call.on)[call.val + j] = Entries(call.from)[j]

LEMMA CopyHasSize ==
    ASSUME NEW ow, NEW ps, Inv(heap, obj, call, ow, ps), LoopInv, call.op = "copy"
    PROVE  /\ call.on \in Alive /\ call.from \in Alive /\ call.on # call.from
           /\ call.val \in Nat /\ call.val <= obj[call.on].size
<1>1. call.on \in Alive /\ call.from \in Alive /\ call.on # call.from
  BY InvGives
<1>2. PICK i \in 1 .. obj[call.from].size + 1 : CopiedUpTo(i)
  BY DEF LoopInv, CopiedOK
<1>3. call.val \in Nat /\ obj[call.on].size = call.val + (i - 1)
  BY <1>2 DEF CopiedUpTo
<1> QED BY <1>1, <1>3

LEMMA EntriesShow ==
    ASSUME Ordered, NEW l \in Alive
    PROVE  /\ ~ Copying(l) => Shown(l) = Entries(l)
           /\ Copying(l) /\ call.val \in Nat /\ call.val <= obj[l].size =>
                /\ IsRow(Shown(l), call.val)
                /\ \A i \in 1 .. call.val : Shown(l)[i] = Entries(l)[i]
<1> DEFINE order == From(obj[l].head)
<1>1. /\ order = Order(l) /\ obj[l].size \in Nat
      /\ Entries(l) = [i \in 1 .. obj[l].size |-> Entries(l)[i]]
      /\ \A i \in 1 .. obj[l].size : Order(l)[i] \in DOMAIN heap /\ Entries(l)[i] = EntryOf(Order(l)[i])
  BY EntriesOf DEF Order
<1>2. Shown(l) = [i \in 1 .. (IF Copying(l) THEN call.val ELSE obj[l].size) |->
                     IF order[i] \in DOMAIN heap
                     THEN [key |-> heap[order[i]].key, val |-> heap[order[i]].val] ELSE Null]
  BY DEF Shown, Copying
<1> HIDE DEF order
<1>3. CASE ~ Copying(l)
  <2>1. Shown(l) = [i \in 1 .. obj[l].size |->
                     IF order[i] \in DOMAIN heap
                     THEN [key |-> heap[order[i]].key, val |-> heap[order[i]].val] ELSE Null]
    BY <1>2, <1>3
  <2>2. \A i \in 1 .. obj[l].size : Shown(l)[i] = Entries(l)[i]
    BY <1>1, <2>1 DEF EntryOf
  <2> QED BY <1>1, <1>3, <2>1, <2>2
<1>4. CASE Copying(l) /\ call.val \in Nat /\ call.val <= obj[l].size
  <2>1. Shown(l) = [i \in 1 .. call.val |->
                     IF order[i] \in DOMAIN heap
                     THEN [key |-> heap[order[i]].key, val |-> heap[order[i]].val] ELSE Null]
    BY <1>2, <1>4
  <2>2. \A i \in 1 .. call.val : i \in 1 .. obj[l].size
    BY <1>1, <1>4
  <2>3. \A i \in 1 .. call.val : Shown(l)[i] = Entries(l)[i]
    BY <1>1, <2>1, <2>2 DEF EntryOf
  <2>4. IsRow(Shown(l), call.val)
    BY <1>4, <2>1 DEF IsRow
  <2> QED BY <1>4, <2>3, <2>4
<1> QED BY <1>3, <1>4

LEMMA ContentsAre == IInv /\ LoopInv => ContentIs /\ CopyIsWhole
<1> SUFFICES ASSUME IInv, LoopInv PROVE ContentIs /\ CopyIsWhole
  OBVIOUS
<1>1. PICK ow, ps : Inv(heap, obj, call, ow, ps)
  BY DEF IInv
<1>2. Ordered
  BY <1>1, InvGives
<1>3. Content = [l \in Alive |-> Shown(l)]
  BY DEF Content
<1>4. Content = [l \in Alive |-> Content[l]] /\ \A l \in Alive : Content[l] = Shown(l)
  BY <1>3
<1>5. \A l \in Alive : Copying(l) => call.val \in Nat /\ call.val <= obj[l].size
  BY <1>1, CopyHasSize DEF Copying
<1>6. ContentIs
  BY <1>2, <1>4, <1>5, EntriesShow, OrderFacts DEF ContentIs
<1>7. CopyIsWhole
  <2> SUFFICES ASSUME call.op = "copy", call.cur = Null
               PROVE  /\ call.val \in Nat /\ obj[call.on].size = call.val + obj[call.from].size
                      /\ \A j \in 1 .. obj[call.from].size :
                            Entries(call.on)[call.val + j] = Entries(call.from)[j]
    BY <1>1, CopyHasSize DEF CopyIsWhole
  <2>1. PICK i \in 1 .. obj[call.from].size + 1 : CopiedUpTo(i)
    BY DEF LoopInv, CopiedOK
  <2>2. /\ call.from \in Alive /\ obj[call.from].size \in Nat
        /\ \A j \in 1 .. obj[call.from].size : Order(call.from)[j] \in DOMAIN heap
        /\ Null \notin DOMAIN heap
    BY <1>1, <1>2, InvGives, OrderFacts
  <2>3. i = obj[call.from].size + 1
    BY <2>1, <2>2 DEF CopiedUpTo
  <2>4. i - 1 = obj[call.from].size
    BY <2>2, <2>3
  <2> QED BY <2>1, <2>4 DEF CopiedUpTo
<1> QED BY <1>6, <1>7

LEMMA ContentsAre2 == IInv' /\ LoopInv' => ContentIs' /\ CopyIsWhole'
BY ContentsAre, PTL

-----------------------------------------------------------------------------
(* Two states compared. *)

\* The content of one list changes.
LEMMA OneChanges ==
    ASSUME ContentIs, ContentIs', Alive' = Alive, NEW l \in Alive, NEW s, Content'[l] = s,
           \A m \in Alive \ {l} : Content'[m] = Content[m]
    PROVE  Content' = [Content EXCEPT ![l] = s]
<1>1. Content = [m \in Alive |-> Content[m]] /\ Content' = [m \in Alive |-> Content'[m]]
  BY DEF ContentIs
<1> QED BY <1>1

LEMMA NoneChanges ==
    ASSUME ContentIs, ContentIs', Alive' = Alive, \A m \in Alive : Content'[m] = Content[m]
    PROVE  Content' = Content
<1>1. Content = [m \in Alive |-> Content[m]] /\ Content' = [m \in Alive |-> Content'[m]]
  BY DEF ContentIs
<1> QED BY <1>1

\* Before and after a step that copies nothing, the contents are the entries.
LEMMA PlainContents ==
    ASSUME ContentIs, ContentIs', call.op # "copy", call'.op # "copy", Alive' = Alive
    PROVE  \A l \in Alive : Content[l] = Entries(l) /\ Content'[l] = Entries(l)'
BY DEF ContentIs, Copying

LEMMA PutContent ==
    ASSUME ContentIs, ContentIs', call.op # "copy", call'.op # "copy", Alive' = Alive,
           NEW l, NEW p, NEW key, NEW val, Puts(l, p, key, val)
    PROVE  Content' = [Content EXCEPT ![l] = PutAt(Entries(l), obj[l].size, p, [key |-> key, val |-> val])]
<1> DEFINE s == PutAt(Entries(l), obj[l].size, p, [key |-> key, val |-> val])
<1>1. l \in Alive /\ Entries(l)' = s /\ \A m \in Alive \ {l} : Entries(m)' = Entries(m)
  BY DEF Puts
<1> HIDE DEF s
<1>2. Content'[l] = s /\ \A m \in Alive \ {l} : Content'[m] = Content[m]
  BY <1>1, PlainContents
<1>3. Content' = [Content EXCEPT ![l] = s]
  BY <1>1, <1>2, OneChanges
<1> QED BY <1>3 DEF s

LEMMA DropContent ==
    ASSUME ContentIs, ContentIs', call.op # "copy", call'.op # "copy", Alive' = Alive,
           NEW l, NEW p, Drops(l, p)
    PROVE  Content' = [Content EXCEPT ![l] = DropAt(Entries(l), obj[l].size, p)]
<1> DEFINE s == DropAt(Entries(l), obj[l].size, p)
<1>1. l \in Alive /\ Entries(l)' = s /\ \A m \in Alive \ {l} : Entries(m)' = Entries(m)
  BY DEF Drops
<1> HIDE DEF s
<1>2. Content'[l] = s /\ \A m \in Alive \ {l} : Content'[m] = Content[m]
  BY <1>1, PlainContents
<1>3. Content' = [Content EXCEPT ![l] = s]
  BY <1>1, <1>2, OneChanges
<1> QED BY <1>3 DEF s

LEMMA AlterContent ==
    ASSUME ContentIs, ContentIs', call.op # "copy", call'.op # "copy", Alive' = Alive,
           NEW l, NEW p, NEW val, Alters(l, p, val)
    PROVE  Content' = [Content EXCEPT ![l] =
                          [Entries(l) EXCEPT ![p] = [key |-> Entries(l)[p].key, val |-> val]]]
<1> DEFINE s == [Entries(l) EXCEPT ![p] = [key |-> Entries(l)[p].key, val |-> val]]
<1>1. l \in Alive /\ Entries(l)' = s /\ \A m \in Alive \ {l} : Entries(m)' = Entries(m)
  BY DEF Alters
<1> HIDE DEF s
<1>2. Content'[l] = s /\ \A m \in Alive \ {l} : Content'[m] = Content[m]
  BY <1>1, PlainContents
<1>3. Content' = [Content EXCEPT ![l] = s]
  BY <1>1, <1>2, OneChanges
<1> QED BY <1>3 DEF s

LEMMA SameAlive ==
    ASSUME call.op # "destroy", call'.op # "destroy", DOMAIN obj' = DOMAIN obj
    PROVE  Alive' = Alive
BY DEF Alive

LEMMA StillContent ==
    ASSUME ContentIs, ContentIs', call.op \notin {"copy", "destroy"}, call'.op \notin {"copy", "destroy"},
           heap' = heap, obj' = obj
    PROVE  Content' = Content /\ Alive' = Alive
<1>1. Alive' = Alive
  BY SameAlive
<1>2. \A m \in Alive : Content'[m] = Content[m]
  BY <1>1, PlainContents, SameEntries
<1> QED BY <1>1, <1>2, NoneChanges

-----------------------------------------------------------------------------
(* The calls that look for a key. *)

KeyOps == {"insert", "insert_update", "update", "get", "delete_key", "push", "pop", "append"}

LEMMA KeyOpsAre == KeyOps = LookOps \ {"push_ord", "get_at", "equal"}
BY Ops DEF KeyOps

LEMMA FoundPlace ==
    ASSUME NEW ow, NEW ps, Inv(heap, obj, call, ow, ps), LoopInv, NEW op \in LookOps, Found(op),
           NEW l, l = call.on
    PROVE  /\ l \in Alive /\ obj[l].size \in Nat /\ IsRow(Entries(l), obj[l].size) /\ Sought
           /\ \E i \in 1 .. obj[l].size :
                 /\ call.cur = Order(l)[i] /\ SoughtBehind(i) /\ call.cur \in DOMAIN heap
                 /\ Entries(l)[i] = EntryOf(call.cur)
<1>1. call.op = op /\ call.cur \in DOMAIN heap /\ Sought
  BY DEF Found, Doing, Follows
<1>2. l \in Alive /\ Ordered /\ Null \notin DOMAIN heap
  BY <1>1, InvGives
<1>3. PICK i \in 1 .. obj[l].size + 1 : SoughtBehind(i)
  BY <1>1 DEF LoopInv, SoughtOK
<1>4. call.cur = Order(l)[i]
  BY <1>3 DEF SoughtBehind
<1>5. obj[l].size \in Nat /\ Order(l)[obj[l].size + 1] = Null /\ IsRow(Entries(l), obj[l].size)
  BY <1>2, OrderFacts
<1>6. i \in 1 .. obj[l].size
  BY <1>1, <1>2, <1>4, <1>5
<1>7. Entries(l)[i] = EntryOf(Order(l)[i])
  BY <1>2, <1>6, EntriesOf
<1> QED BY <1>1, <1>2, <1>3, <1>4, <1>5, <1>6, <1>7

LEMMA MissedPlace ==
    ASSUME NEW ow, NEW ps, Inv(heap, obj, call, ow, ps), LoopInv, NEW op \in LookOps, Missed(op),
           NEW l, l = call.on
    PROVE  /\ l \in Alive /\ obj[l].size \in Nat /\ IsRow(Entries(l), obj[l].size)
           /\ SoughtBehind(obj[l].size + 1)
<1>1. call.op = op /\ call.cur = Null
  BY DEF Missed, Doing
<1>2. l \in Alive /\ Ordered /\ Null \notin DOMAIN heap
  BY <1>1, InvGives
<1>3. PICK i \in 1 .. obj[l].size + 1 : SoughtBehind(i)
  BY <1>1 DEF LoopInv, SoughtOK
<1>4. Null = Order(l)[i]
  BY <1>1, <1>3 DEF SoughtBehind
<1>5. /\ obj[l].size \in Nat /\ IsRow(Entries(l), obj[l].size)
      /\ \A j \in 1 .. obj[l].size : Order(l)[j] \in DOMAIN heap
  BY <1>2, OrderFacts
<1>6. i = obj[l].size + 1
  BY <1>2, <1>4, <1>5
<1> QED BY <1>2, <1>3, <1>5, <1>6

\* An entry has the key, or none has.
KeyAt(l, i) ==
    /\ i \in 1 .. obj[l].size /\ Entries(l)[i].key = call.key
    /\ \A j \in 1 .. i - 1 : Entries(l)[j].key # call.key

KeyFree(l) == \A j \in 1 .. obj[l].size : Entries(l)[j].key # call.key

LEMMA KeyFound ==
    ASSUME NEW ow, NEW ps, Inv(heap, obj, call, ow, ps), LoopInv, NEW op \in KeyOps, Found(op),
           NEW l, l = call.on
    PROVE  /\ l \in Alive /\ obj[l].size \in Nat /\ IsRow(Entries(l), obj[l].size) /\ call.op = op
           /\ call.cur \in DOMAIN heap
           /\ \E i \in 1 .. obj[l].size : /\ KeyAt(l, i) /\ call.cur = Order(l)[i]
                                          /\ heap[call.cur].val = Entries(l)[i].val
                                          /\ Entries(l)[i] = [key |-> call.key, val |-> Entries(l)[i].val]
<1>1. op \in LookOps /\ op \notin {"push_ord", "get_at", "equal"} /\ call.op = op
  BY KeyOpsAre DEF Found, Doing
<1>2. /\ l \in Alive /\ obj[l].size \in Nat /\ IsRow(Entries(l), obj[l].size) /\ Sought
  BY <1>1, FoundPlace
<1>3. PICK i \in 1 .. obj[l].size : /\ call.cur = Order(l)[i] /\ SoughtBehind(i) /\ call.cur \in DOMAIN heap
                                    /\ Entries(l)[i] = EntryOf(call.cur)
  BY <1>1, FoundPlace
<1>4. heap[call.cur].key = call.key
  BY <1>1, <1>2 DEF Sought
<1>5. \A j \in 1 .. i - 1 : Entries(l)[j].key # call.key
  BY <1>1, <1>3 DEF SoughtBehind
<1>6. Entries(l)[i].key = call.key /\ Entries(l)[i].val = heap[call.cur].val
      /\ Entries(l)[i] = [key |-> call.key, val |-> Entries(l)[i].val]
  BY <1>3, <1>4 DEF EntryOf
<1>7. KeyAt(l, i)
  BY <1>5, <1>6 DEF KeyAt
<1> QED BY <1>1, <1>2, <1>3, <1>6, <1>7

LEMMA KeyMissed ==
    ASSUME NEW ow, NEW ps, Inv(heap, obj, call, ow, ps), LoopInv, NEW op \in KeyOps, Missed(op),
           NEW l, l = call.on
    PROVE  /\ l \in Alive /\ obj[l].size \in Nat /\ IsRow(Entries(l), obj[l].size) /\ call.op = op
           /\ KeyFree(l)
<1>1. op \in LookOps /\ op \notin {"push_ord", "get_at", "equal"} /\ call.op = op
  BY KeyOpsAre DEF Missed, Doing
<1>2. /\ l \in Alive /\ obj[l].size \in Nat /\ IsRow(Entries(l), obj[l].size)
      /\ SoughtBehind(obj[l].size + 1)
  BY <1>1, MissedPlace
<1>3. (obj[l].size + 1) - 1 = obj[l].size
  BY <1>2
<1>4. \A j \in 1 .. (obj[l].size + 1) - 1 : Entries(l)[j].key # call.key
  BY <1>1, <1>2 DEF SoughtBehind
<1> QED BY <1>1, <1>2, <1>3, <1>4 DEF KeyFree

\* The call as the abstract specification sees it, as it ends.
LEMMA RunningIs ==
    /\ Running.op = call.op /\ Running.on = call.on /\ Running.key = call.key
    /\ Running.val = call.val /\ Running.from = call.from
    /\ call' = NoCall => Running' = Contents!Free
    /\ call = NoCall => Running = Contents!Free
BY DEF Running, NoCall, Contents!Free

LEMMA FoundFinishes ==
    ASSUME NEW l, l = call.on, Content[l] = Entries(l), call.op \in KeyOps, call' = NoCall,
           obj[l].size \in Nat, IsRow(Entries(l), obj[l].size), NEW i, KeyAt(l, i),
           Contents!OnFound(Entries(l), i)
    PROVE  Contents!Finish
<1>1. Contents!Has(Entries(l), call.key) /\ Contents!At(Entries(l), call.key) = i
  BY AtIs DEF KeyAt
<1>2. call.op \notin {"none", "destroy", "copy", "push_ord", "get_at", "equal"}
  BY DEF KeyOps
<1>3. IF Contents!Has(Entries(l), call.key)
      THEN Contents!OnFound(Entries(l), Contents!At(Entries(l), call.key))
      ELSE Contents!OnMissing(Entries(l))
  BY <1>1
<1> QED BY <1>2, <1>3, RunningIs DEF Contents!Finish

LEMMA MissFinishes ==
    ASSUME NEW l, l = call.on, Content[l] = Entries(l), call.op \in KeyOps, call' = NoCall,
           obj[l].size \in Nat, IsRow(Entries(l), obj[l].size), KeyFree(l),
           Contents!OnMissing(Entries(l))
    PROVE  Contents!Finish
<1>1. ~ Contents!Has(Entries(l), call.key)
  BY HasNot DEF KeyFree
<1>2. call.op \notin {"none", "destroy", "copy", "push_ord", "get_at", "equal"}
  BY DEF KeyOps
<1>3. IF Contents!Has(Entries(l), call.key)
      THEN Contents!OnFound(Entries(l), Contents!At(Entries(l), call.key))
      ELSE Contents!OnMissing(Entries(l))
  BY <1>1
<1> QED BY <1>2, <1>3, RunningIs DEF Contents!Finish

-----------------------------------------------------------------------------
(* What the steps that end such a call do to the content. *)

\* The invariant before and after the step.
Both(ow, ps) ==
    /\ Inv(heap, obj, call, ow, ps) /\ LoopInv /\ ContentIs /\ CopyIsWhole
    /\ ContentIs' /\ CopyIsWhole' /\ crashed' = crashed

LEMMA NoCallOp == ASSUME call' = NoCall PROVE call'.op = "none" /\ call'.op \notin {"copy", "destroy"}
BY DEF NoCall

LEMMA TellsIt ==
    ASSUME NEW ow, NEW ps, Both(ow, ps), call.op \in LookOps, Same, NEW result, Return(result)
    PROVE  call' = NoCall /\ Contents!Tells(result)
<1>1. call' = NoCall /\ answer' = result /\ heap' = heap /\ obj' = obj
  BY DEF Return, Same
<1>2. call.op \notin {"copy", "destroy"}
  BY Ops
<1>3. Content' = Content
  BY <1>1, <1>2, NoCallOp, StillContent DEF Both
<1> QED BY <1>1, <1>3 DEF Contents!Tells

LEMMA PushedIt ==
    ASSUME NEW ow, NEW ps, Both(ow, ps), NEW op \in LookOps \ {"get_at", "equal"}, Missed(op),
           NEW l, l = call.on, NEW val, NEW result, Push(val, result)
    PROVE  /\ call' = NoCall
           /\ Contents!Becomes(PutAt(Entries(l), obj[l].size, obj[l].size + 1,
                                     [key |-> call.key, val |-> val]), result)
<1>0. PICK key : key = call.key
  OBVIOUS
<1>1. /\ call.op = op /\ call.op \notin {"copy", "destroy"} /\ l \in Alive
      /\ l \in AliveOf(obj, call) /\ l \in DOMAIN obj
  BY LoopFacts, InvGives, Ops DEF Missed, Doing, Both
<1>2. \E n \in Nodes : n \notin DOMAIN heap
  BY <1>1 DEF Both, Inv, CallOK, RoomOK
<1>3. MayPushBk(l)
  BY <1>1, ListEnds DEF Both, Inv, Shape
<1>4. PushBk(l, key, val) /\ call' = NoCall /\ answer' = result
  BY <1>0, <1>3 DEF Push, Return
<1>5. Puts(l, obj[l].size + 1, key, val)
  BY <1>1, <1>2, <1>4, InvGives, PushBkPuts DEF Both
<1>6. Alive' = Alive
  BY <1>1, <1>4, <1>5, NoCallOp, SameAlive DEF Puts
<1>7. Content' = [Content EXCEPT ![l] = PutAt(Entries(l), obj[l].size, obj[l].size + 1, [key |-> key, val |-> val])]
  BY <1>1, <1>4, <1>5, <1>6, NoCallOp, PutContent DEF Both
<1> QED BY <1>0, <1>4, <1>7, RunningIs DEF Contents!Becomes

LEMMA ChangedIt ==
    ASSUME NEW ow, NEW ps, Both(ow, ps), call.op \in LookOps, NEW l, l = call.on,
           NEW i \in 1 .. obj[l].size, call.cur = Order(l)[i],
           NEW val, Changed(val), NEW result, Return(result)
    PROVE  /\ call' = NoCall
           /\ Contents!Becomes([Entries(l) EXCEPT ![i] = [key |-> Entries(l)[i].key, val |-> val]], result)
<1>1. l \in Alive /\ call.op \notin {"copy", "destroy"}
  BY InvGives, Ops DEF Both
<1>2. call' = NoCall /\ answer' = result
  BY DEF Return
<1>3. Alters(l, i, val)
  BY <1>1, InvGives, ChangeAlters DEF Both
<1>4. Alive' = Alive
  BY <1>1, <1>2, <1>3, NoCallOp, SameAlive DEF Alters
<1>5. Content' = [Content EXCEPT ![l] = [Entries(l) EXCEPT ![i] = [key |-> Entries(l)[i].key, val |-> val]]]
  BY <1>1, <1>2, <1>3, <1>4, NoCallOp, AlterContent DEF Both
<1> QED BY <1>2, <1>5, RunningIs DEF Contents!Becomes

LEMMA DroppedIt ==
    ASSUME NEW ow, NEW ps, Both(ow, ps), NEW op \in LookOps, Found(op), NEW l, l = call.on,
           NEW i \in 1 .. obj[l].size, call.cur = Order(l)[i], NEW result, Drop(result)
    PROVE  call' = NoCall /\ Contents!Becomes(DropAt(Entries(l), obj[l].size, i), result)
<1>1. l \in Alive /\ call.op \notin {"copy", "destroy"} /\ MayLink(call.cur)
  BY InvGives, Ops, FoundFacts DEF Both, Found, Doing
<1>2. DeleteNode(l, Order(l)[i]) /\ call' = NoCall /\ answer' = result
  BY <1>1 DEF Drop, Return
<1>3. Drops(l, i)
  BY <1>1, <1>2, InvGives, DeleteDrops DEF Both
<1>4. Alive' = Alive
  BY <1>1, <1>2, <1>3, NoCallOp, SameAlive DEF Drops
<1>5. Content' = [Content EXCEPT ![l] = DropAt(Entries(l), obj[l].size, i)]
  BY <1>1, <1>2, <1>3, <1>4, NoCallOp, DropContent DEF Both
<1> QED BY <1>2, <1>5, RunningIs DEF Contents!Becomes

-----------------------------------------------------------------------------
(* Every call that looks for a key ends as its name promises. *)

\* A missed key: nothing to tell but the result, or a new last entry.
LEMMA MissTells ==
    ASSUME NEW ow, NEW ps, Both(ow, ps), NEW op \in KeyOps, Missed(op), Same,
           NEW result, Return(result), Contents!Tells(result) => Contents!OnMissing(Entries(call.on))
    PROVE  Contents!Finish
<1>1. PICK l : l = call.on
  OBVIOUS
<1>2. /\ l \in Alive /\ obj[l].size \in Nat /\ IsRow(Entries(l), obj[l].size) /\ call.op = op /\ KeyFree(l)
  BY <1>1, KeyMissed DEF Both
<1>3. call.op \in LookOps /\ call.op # "copy"
  BY <1>2, KeyOpsAre, Ops
<1>4. call' = NoCall /\ Contents!Tells(result)
  BY <1>3, TellsIt
<1>5. Content[l] = Entries(l)
  BY <1>2, <1>3 DEF Both, ContentIs, Copying
<1> QED BY <1>1, <1>2, <1>4, <1>5, MissFinishes

LEMMA MissPushes ==
    ASSUME NEW ow, NEW ps, Both(ow, ps), NEW op \in KeyOps, Missed(op),
           NEW val, NEW result, Push(val, result),
           Contents!Becomes(Append(Entries(call.on), [key |-> call.key, val |-> val]), result)
             => Contents!OnMissing(Entries(call.on))
    PROVE  Contents!Finish
<1>1. PICK l : l = call.on
  OBVIOUS
<1>2. /\ l \in Alive /\ obj[l].size \in Nat /\ IsRow(Entries(l), obj[l].size) /\ call.op = op /\ KeyFree(l)
  BY <1>1, KeyMissed DEF Both
<1>3. op \in LookOps \ {"get_at", "equal"} /\ call.op # "copy"
  BY <1>2, KeyOpsAre, Ops
<1>4. /\ call' = NoCall
      /\ Contents!Becomes(PutAt(Entries(l), obj[l].size, obj[l].size + 1,
                                [key |-> call.key, val |-> val]), result)
  BY <1>1, <1>3, PushedIt
<1>5. Content[l] = Entries(l)
  BY <1>2, <1>3 DEF Both, ContentIs, Copying
<1>6. PutAt(Entries(l), obj[l].size, obj[l].size + 1, [key |-> call.key, val |-> val])
        = Append(Entries(l), [key |-> call.key, val |-> val])
  BY <1>2, EndsAre
<1>7. Contents!Becomes(Append(Entries(l), [key |-> call.key, val |-> val]), result)
  BY <1>4, <1>6
<1>8. Contents!OnMissing(Entries(l))
  BY <1>1, <1>7
<1> QED BY <1>1, <1>2, <1>4, <1>5, <1>8, MissFinishes

\* A found key: the same three ways.
LEMMA FoundTells ==
    ASSUME NEW ow, NEW ps, Both(ow, ps), NEW op \in KeyOps, Found(op), Same,
           NEW result, Return(result),
           \A i \in 1 .. obj[call.on].size :
              Entries(call.on)[i].val = heap[call.cur].val /\ Contents!Tells(result)
                => Contents!OnFound(Entries(call.on), i)
    PROVE  Contents!Finish
<1>1. PICK l : l = call.on
  OBVIOUS
<1>2. /\ l \in Alive /\ obj[l].size \in Nat /\ IsRow(Entries(l), obj[l].size) /\ call.op = op
  BY <1>1, KeyFound DEF Both
<1>3. PICK i \in 1 .. obj[l].size : KeyAt(l, i) /\ heap[call.cur].val = Entries(l)[i].val
  BY <1>1, KeyFound DEF Both
<1>4. call.op \in LookOps /\ call.op # "copy"
  BY <1>2, KeyOpsAre, Ops
<1>5. call' = NoCall /\ Contents!Tells(result)
  BY <1>4, TellsIt
<1>6. Content[l] = Entries(l)
  BY <1>2, <1>4 DEF Both, ContentIs, Copying
<1>7. Contents!OnFound(Entries(l), i)
  BY <1>1, <1>3, <1>5
<1> QED BY <1>1, <1>2, <1>3, <1>5, <1>6, <1>7, FoundFinishes

LEMMA FoundChanges ==
    ASSUME NEW ow, NEW ps, Both(ow, ps), NEW op \in KeyOps, Found(op),
           NEW val, Changed(val), NEW result, Return(result),
           \A i \in 1 .. obj[call.on].size :
              Entries(call.on)[i] = [key |-> call.key, val |-> heap[call.cur].val] =>
                 (Contents!Becomes([Entries(call.on) EXCEPT ![i] = [key |-> call.key, val |-> val]], result) => Contents!OnFound(Entries(call.on), i))
    PROVE  Contents!Finish
<1>1. PICK l : l = call.on
  OBVIOUS
<1>2. /\ l \in Alive /\ obj[l].size \in Nat /\ IsRow(Entries(l), obj[l].size) /\ call.op = op
  BY <1>1, KeyFound DEF Both
<1>3. PICK i \in 1 .. obj[l].size : /\ KeyAt(l, i) /\ call.cur = Order(l)[i]
                                    /\ heap[call.cur].val = Entries(l)[i].val
                                    /\ Entries(l)[i] = [key |-> call.key, val |-> Entries(l)[i].val]
  BY <1>1, KeyFound DEF Both
<1>4. call.op \in LookOps /\ call.op # "copy"
  BY <1>2, KeyOpsAre, Ops
<1>5. /\ call' = NoCall
      /\ Contents!Becomes([Entries(l) EXCEPT ![i] = [key |-> Entries(l)[i].key, val |-> val]], result)
  BY <1>1, <1>3, <1>4, ChangedIt
<1>6. Content[l] = Entries(l)
  BY <1>2, <1>4 DEF Both, ContentIs, Copying
<1>7. Entries(l)[i].key = call.key
  BY <1>3 DEF KeyAt
<1>8. /\ Entries(l)[i] = [key |-> call.key, val |-> heap[call.cur].val]
      /\ Contents!Becomes([Entries(l) EXCEPT ![i] = [key |-> call.key, val |-> val]], result)
  BY <1>3, <1>5, <1>7
<1>9. Contents!OnFound(Entries(l), i)
  BY <1>1, <1>3, <1>8
<1> QED BY <1>1, <1>2, <1>3, <1>5, <1>6, <1>9, FoundFinishes

LEMMA FoundDrops ==
    ASSUME NEW ow, NEW ps, Both(ow, ps), NEW op \in KeyOps, Found(op), NEW result, Drop(result),
           \A i \in 1 .. obj[call.on].size :
              Entries(call.on)[i].val = heap[call.cur].val =>
                 (Contents!Becomes(Contents!Without(Entries(call.on), i), result) => Contents!OnFound(Entries(call.on), i))
    PROVE  Contents!Finish
<1>1. PICK l : l = call.on
  OBVIOUS
<1>2. /\ l \in Alive /\ obj[l].size \in Nat /\ IsRow(Entries(l), obj[l].size) /\ call.op = op
  BY <1>1, KeyFound DEF Both
<1>3. PICK i \in 1 .. obj[l].size : /\ KeyAt(l, i) /\ call.cur = Order(l)[i]
                                    /\ heap[call.cur].val = Entries(l)[i].val
  BY <1>1, KeyFound DEF Both
<1>4. op \in LookOps /\ call.op # "copy"
  BY <1>2, KeyOpsAre, Ops
<1>5. call' = NoCall /\ Contents!Becomes(DropAt(Entries(l), obj[l].size, i), result)
  BY <1>1, <1>3, <1>4, DroppedIt
<1>6. Content[l] = Entries(l)
  BY <1>2, <1>4 DEF Both, ContentIs, Copying
<1>7. Contents!Without(Entries(l), i) = DropAt(Entries(l), obj[l].size, i)
  BY <1>2, WithoutIs
<1>8. Contents!Becomes(Contents!Without(Entries(l), i), result)
  BY <1>5, <1>7
<1>9. Contents!OnFound(Entries(l), i)
  BY <1>1, <1>3, <1>8
<1> QED BY <1>1, <1>2, <1>3, <1>5, <1>6, <1>9, FoundFinishes

\* To change the value of an entry is to put another entry in its place.
WithVal(s, i, val) == [s EXCEPT ![i].val = val]

LEMMA MissingIs ==
    ASSUME NEW s
    PROVE  /\ call.op \in {"insert", "insert_update"} =>
                (Contents!Becomes(Append(s, [key |-> call.key, val |-> call.val]), Yes) => Contents!OnMissing(s))
           /\ call.op \in {"update", "delete_key"} => (Contents!Tells(No) => Contents!OnMissing(s))
           /\ call.op \in {"get", "pop"} => (Contents!Tells(Nothing) => Contents!OnMissing(s))
           /\ call.op = "push" =>
                (Contents!Becomes(Append(s, [key |-> call.key, val |-> 1]), Nothing) => Contents!OnMissing(s))
           /\ call.op = "append" =>
                (Contents!Becomes(Append(s, [key |-> call.key, val |-> <<call.val>>]), Nothing)
                   => Contents!OnMissing(s))
BY RunningIs DEF Contents!OnMissing, Contents!Entry, Yes, No, Nothing

LEMMA FoundIs ==
    ASSUME NEW s, NEW i
    PROVE  /\ call.op = "insert" => (Contents!Tells(No) => Contents!OnFound(s, i))
           /\ call.op = "insert_update" =>
                (Contents!Becomes(WithVal(s, i, Contents!Assigned(s[i].val, call.val)), No)
                   => Contents!OnFound(s, i))
           /\ call.op = "update" =>
                (Contents!Becomes(WithVal(s, i, Contents!Assigned(s[i].val, call.val)), Yes)
                   => Contents!OnFound(s, i))
           /\ call.op = "get" => (Contents!Tells(Value(s[i].val)) => Contents!OnFound(s, i))
           /\ call.op = "delete_key" =>
                (Contents!Becomes(Contents!Without(s, i), Yes) => Contents!OnFound(s, i))
           /\ call.op = "push" =>
                (Contents!Becomes(WithVal(s, i, s[i].val + 1), Nothing) => Contents!OnFound(s, i))
           /\ call.op = "pop" /\ s[i].val > 1 =>
                (Contents!Becomes(WithVal(s, i, s[i].val - 1), Nothing) => Contents!OnFound(s, i))
           /\ call.op = "pop" /\ ~ s[i].val > 1 =>
                (Contents!Becomes(Contents!Without(s, i), Nothing) => Contents!OnFound(s, i))
           /\ call.op = "append" =>
                (Contents!Becomes(WithVal(s, i, Append(s[i].val, call.val)), Nothing)
                   => Contents!OnFound(s, i))
BY RunningIs DEF Contents!OnFound, Yes, No, Nothing, Value, WithVal

LEMMA ValueChanged ==
    ASSUME NEW k, NEW s, IsRow(s, k), NEW i \in 1 .. k, NEW key, NEW old, s[i] = [key |-> key, val |-> old],
           NEW val
    PROVE  WithVal(s, i, val) = [s EXCEPT ![i] = [key |-> key, val |-> val]]
<1>1. [[key |-> key, val |-> old] EXCEPT !.val = val] = [key |-> key, val |-> val]
  OBVIOUS
<1>2. [s[i] EXCEPT !.val = val] = [key |-> key, val |-> val]
  BY <1>1
<1> QED BY <1>2 DEF WithVal

LEMMA MissedOp == \A op : (Missed(op) => call.op = op) /\ (Found(op) => call.op = op)
BY DEF Missed, Found, Doing

LEMMA InsertEnds == ASSUME NEW ow, NEW ps, Both(ow, ps), Insert PROVE Contents!Finish
<1>1. CASE Missed("insert") /\ Push(call.val, Yes)
  <2>1. Contents!Becomes(Append(Entries(call.on), [key |-> call.key, val |-> call.val]), Yes)
          => Contents!OnMissing(Entries(call.on))
    BY <1>1, MissedOp, MissingIs
  <2>2. "insert" \in KeyOps
    BY DEF KeyOps
  <2> QED BY <1>1, <2>1, <2>2, MissPushes
<1>2. CASE Found("insert") /\ Same /\ Return(No)
  <2>1. \A i \in 1 .. obj[call.on].size :
           Entries(call.on)[i].val = heap[call.cur].val /\ Contents!Tells(No)
             => Contents!OnFound(Entries(call.on), i)
    BY <1>2, MissedOp, FoundIs
  <2>2. "insert" \in KeyOps
    BY DEF KeyOps
  <2> QED BY <1>2, <2>1, <2>2, FoundTells
<1> QED BY <1>1, <1>2 DEF Insert

LEMMA AlteredFits ==
    ASSUME NEW ow, NEW ps, Both(ow, ps), NEW op \in KeyOps, Found(op), NEW val, NEW result,
           \A i : Entries(call.on)[i].val = heap[call.cur].val =>
                  (Contents!Becomes(WithVal(Entries(call.on), i, val), result)
                     => Contents!OnFound(Entries(call.on), i))
    PROVE  \A i \in 1 .. obj[call.on].size :
              Entries(call.on)[i] = [key |-> call.key, val |-> heap[call.cur].val] =>
                 (Contents!Becomes([Entries(call.on) EXCEPT ![i] = [key |-> call.key, val |-> val]], result) => Contents!OnFound(Entries(call.on), i))
<1>1. PICK l : l = call.on
  OBVIOUS
<1>2. obj[l].size \in Nat /\ IsRow(Entries(l), obj[l].size)
  BY <1>1, KeyFound DEF Both
<1>3. ASSUME NEW i \in 1 .. obj[l].size, NEW old, Entries(l)[i] = [key |-> call.key, val |-> old]
      PROVE  WithVal(Entries(l), i, val) = [Entries(l) EXCEPT ![i] = [key |-> call.key, val |-> val]]
  BY <1>2, <1>3, ValueChanged
<1>4. ASSUME NEW i \in 1 .. obj[l].size, Entries(l)[i] = [key |-> call.key, val |-> heap[call.cur].val]
      PROVE  Contents!Becomes([Entries(l) EXCEPT ![i] = [key |-> call.key, val |-> val]], result)
               => Contents!OnFound(Entries(l), i)
  <2>1. Entries(l)[i].val = heap[call.cur].val
    BY <1>4
  <2>2. Contents!Becomes(WithVal(Entries(l), i, val), result) => Contents!OnFound(Entries(l), i)
    BY <1>1, <2>1
  <2>3. WithVal(Entries(l), i, val) = [Entries(l) EXCEPT ![i] = [key |-> call.key, val |-> val]]
    BY <1>3, <1>4
  <2> QED BY <2>2, <2>3
<1> QED BY <1>1, <1>4

LEMMA InsertUpdateEnds == ASSUME NEW ow, NEW ps, Both(ow, ps), InsertUpdate PROVE Contents!Finish
<1>1. CASE Missed("insert_update") /\ Push(call.val, Yes)
  <2>1. Contents!Becomes(Append(Entries(call.on), [key |-> call.key, val |-> call.val]), Yes)
          => Contents!OnMissing(Entries(call.on))
    BY <1>1, MissedOp, MissingIs
  <2>2. "insert_update" \in KeyOps
    BY DEF KeyOps
  <2> QED BY <1>1, <2>1, <2>2, MissPushes
<1>2. CASE Found("insert_update") /\ Changed(Assigned(heap[call.cur].val, call.val)) /\ Return(No)
  <2> DEFINE v == Assigned(heap[call.cur].val, call.val)
  <2>1. \A i : Entries(call.on)[i].val = heap[call.cur].val =>
               (Contents!Becomes(WithVal(Entries(call.on), i, v), No)
                  => Contents!OnFound(Entries(call.on), i))
    <3> SUFFICES ASSUME NEW i, Entries(call.on)[i].val = heap[call.cur].val
                 PROVE  Contents!Becomes(WithVal(Entries(call.on), i, v), No) => Contents!OnFound(Entries(call.on), i)
      OBVIOUS
    <3>1. call.op = "insert_update" /\ v = Contents!Assigned(Entries(call.on)[i].val, call.val)
      BY <1>2, MissedOp DEF Assigned, Contents!Assigned
    <3> HIDE DEF v
    <3> QED BY <3>1, FoundIs
  <2>2. Changed(v)
    BY <1>2
  <2>3. "insert_update" \in KeyOps
    BY DEF KeyOps
  <2> HIDE DEF v
  <2> QED BY <1>2, <2>1, <2>2, <2>3, AlteredFits, FoundChanges
<1> QED BY <1>1, <1>2 DEF InsertUpdate

LEMMA UpdateEnds == ASSUME NEW ow, NEW ps, Both(ow, ps), Update PROVE Contents!Finish
<1>1. CASE Missed("update") /\ Same /\ Return(No)
  <2>1. Contents!Tells(No) => Contents!OnMissing(Entries(call.on))
    BY <1>1, MissedOp, MissingIs
  <2>2. "update" \in KeyOps
    BY DEF KeyOps
  <2> QED BY <1>1, <2>1, <2>2, MissTells
<1>2. CASE Found("update") /\ Changed(Assigned(heap[call.cur].val, call.val)) /\ Return(Yes)
  <2> DEFINE v == Assigned(heap[call.cur].val, call.val)
  <2>1. \A i : Entries(call.on)[i].val = heap[call.cur].val =>
               (Contents!Becomes(WithVal(Entries(call.on), i, v), Yes)
                  => Contents!OnFound(Entries(call.on), i))
    <3> SUFFICES ASSUME NEW i, Entries(call.on)[i].val = heap[call.cur].val
                 PROVE  Contents!Becomes(WithVal(Entries(call.on), i, v), Yes) => Contents!OnFound(Entries(call.on), i)
      OBVIOUS
    <3>1. call.op = "update" /\ v = Contents!Assigned(Entries(call.on)[i].val, call.val)
      BY <1>2, MissedOp DEF Assigned, Contents!Assigned
    <3> HIDE DEF v
    <3> QED BY <3>1, FoundIs
  <2>2. Changed(v)
    BY <1>2
  <2>3. "update" \in KeyOps
    BY DEF KeyOps
  <2> HIDE DEF v
  <2> QED BY <1>2, <2>1, <2>2, <2>3, AlteredFits, FoundChanges
<1> QED BY <1>1, <1>2 DEF Update

LEMMA GetEnds == ASSUME NEW ow, NEW ps, Both(ow, ps), Get PROVE Contents!Finish
<1>1. CASE Missed("get") /\ Same /\ Return(Nothing)
  <2>1. Contents!Tells(Nothing) => Contents!OnMissing(Entries(call.on))
    BY <1>1, MissedOp, MissingIs
  <2>2. "get" \in KeyOps
    BY DEF KeyOps
  <2> QED BY <1>1, <2>1, <2>2, MissTells
<1>2. CASE Found("get") /\ Same /\ Return(Value(heap[call.cur].val))
  <2>1. \A i \in 1 .. obj[call.on].size :
           Entries(call.on)[i].val = heap[call.cur].val /\ Contents!Tells(Value(heap[call.cur].val))
             => Contents!OnFound(Entries(call.on), i)
    BY <1>2, MissedOp, FoundIs
  <2>2. "get" \in KeyOps
    BY DEF KeyOps
  <2> QED BY <1>2, <2>1, <2>2, FoundTells
<1> QED BY <1>1, <1>2 DEF Get

LEMMA DeleteKeyEnds == ASSUME NEW ow, NEW ps, Both(ow, ps), DeleteKey PROVE Contents!Finish
<1>1. CASE Missed("delete_key") /\ Same /\ Return(No)
  <2>1. Contents!Tells(No) => Contents!OnMissing(Entries(call.on))
    BY <1>1, MissedOp, MissingIs
  <2>2. "delete_key" \in KeyOps
    BY DEF KeyOps
  <2> QED BY <1>1, <2>1, <2>2, MissTells
<1>2. CASE Found("delete_key") /\ Drop(Yes)
  <2>1. \A i \in 1 .. obj[call.on].size :
           Entries(call.on)[i].val = heap[call.cur].val =>
              (Contents!Becomes(Contents!Without(Entries(call.on), i), Yes) => Contents!OnFound(Entries(call.on), i))
    BY <1>2, MissedOp, FoundIs
  <2>2. "delete_key" \in KeyOps
    BY DEF KeyOps
  <2> QED BY <1>2, <2>1, <2>2, FoundDrops
<1> QED BY <1>1, <1>2 DEF DeleteKey

LEMMA FrePushEnds == ASSUME NEW ow, NEW ps, Both(ow, ps), FrePush PROVE Contents!Finish
<1>0. "push" \in KeyOps
  BY DEF KeyOps
<1>1. CASE Missed("push") /\ Push(1, Nothing)
  <2>1. Contents!Becomes(Append(Entries(call.on), [key |-> call.key, val |-> 1]), Nothing)
          => Contents!OnMissing(Entries(call.on))
    BY <1>1, MissedOp, MissingIs
  <2> QED BY <1>0, <1>1, <2>1, MissPushes
<1>2. CASE Found("push") /\ Changed(heap[call.cur].val + 1) /\ Return(Nothing)
  <2> DEFINE v == heap[call.cur].val + 1
  <2>1. \A i : Entries(call.on)[i].val = heap[call.cur].val =>
               (Contents!Becomes(WithVal(Entries(call.on), i, v), Nothing)
                  => Contents!OnFound(Entries(call.on), i))
    BY <1>2, MissedOp, FoundIs
  <2>2. Changed(v)
    BY <1>2
  <2> HIDE DEF v
  <2> QED BY <1>0, <1>2, <2>1, <2>2, AlteredFits, FoundChanges
<1> QED BY <1>1, <1>2 DEF FrePush

LEMMA FrePopEnds == ASSUME NEW ow, NEW ps, Both(ow, ps), FrePop PROVE Contents!Finish
<1>0. "pop" \in KeyOps
  BY DEF KeyOps
<1>1. CASE Missed("pop") /\ Same /\ Return(Nothing)
  <2>1. Contents!Tells(Nothing) => Contents!OnMissing(Entries(call.on))
    BY <1>1, MissedOp, MissingIs
  <2> QED BY <1>0, <1>1, <2>1, MissTells
<1>2. CASE Found("pop") /\ heap[call.cur].val > 1 /\ Changed(heap[call.cur].val - 1) /\ Return(Nothing)
  <2> DEFINE v == heap[call.cur].val - 1
  <2>1. \A i : Entries(call.on)[i].val = heap[call.cur].val =>
               (Contents!Becomes(WithVal(Entries(call.on), i, v), Nothing)
                  => Contents!OnFound(Entries(call.on), i))
    <3> SUFFICES ASSUME NEW i, Entries(call.on)[i].val = heap[call.cur].val
                 PROVE  Contents!Becomes(WithVal(Entries(call.on), i, v), Nothing) => Contents!OnFound(Entries(call.on), i)
      OBVIOUS
    <3>1. call.op = "pop" /\ Entries(call.on)[i].val > 1 /\ v = Entries(call.on)[i].val - 1
      BY <1>2, MissedOp
    <3> HIDE DEF v
    <3> QED BY <3>1, FoundIs
  <2>2. Changed(v)
    BY <1>2
  <2> HIDE DEF v
  <2> QED BY <1>0, <1>2, <2>1, <2>2, AlteredFits, FoundChanges
<1>3. CASE Found("pop") /\ ~ heap[call.cur].val > 1 /\ Drop(Nothing)
  <2>1. ASSUME NEW i \in 1 .. obj[call.on].size, Entries(call.on)[i].val = heap[call.cur].val
        PROVE  Contents!Becomes(Contents!Without(Entries(call.on), i), Nothing)
                 => Contents!OnFound(Entries(call.on), i)
    <3>1. call.op = "pop" /\ ~ Entries(call.on)[i].val > 1
      BY <1>3, <2>1, MissedOp
    <3> QED BY <3>1, FoundIs
  <2> QED BY <1>0, <1>3, <2>1, FoundDrops
<1> QED BY <1>1, <1>2, <1>3 DEF FrePop

LEMMA CortinaAppendEnds == ASSUME NEW ow, NEW ps, Both(ow, ps), CortinaAppend PROVE Contents!Finish
<1>0. "append" \in KeyOps
  BY DEF KeyOps
<1>1. CASE Missed("append") /\ Push(<<call.val>>, Nothing)
  <2>1. Contents!Becomes(Append(Entries(call.on), [key |-> call.key, val |-> <<call.val>>]), Nothing)
          => Contents!OnMissing(Entries(call.on))
    BY <1>1, MissedOp, MissingIs
  <2> QED BY <1>0, <1>1, <2>1, MissPushes
<1>2. CASE Found("append") /\ Changed(Append(heap[call.cur].val, call.val)) /\ Return(Nothing)
  <2> DEFINE v == Append(heap[call.cur].val, call.val)
  <2>1. \A i : Entries(call.on)[i].val = heap[call.cur].val =>
               (Contents!Becomes(WithVal(Entries(call.on), i, v), Nothing)
                  => Contents!OnFound(Entries(call.on), i))
    <3> SUFFICES ASSUME NEW i, Entries(call.on)[i].val = heap[call.cur].val
                 PROVE  Contents!Becomes(WithVal(Entries(call.on), i, v), Nothing) => Contents!OnFound(Entries(call.on), i)
      OBVIOUS
    <3>1. call.op = "append" /\ v = Append(Entries(call.on)[i].val, call.val)
      BY <1>2, MissedOp
    <3> HIDE DEF v
    <3> QED BY <3>1, FoundIs
  <2>2. Changed(v)
    BY <1>2
  <2> HIDE DEF v
  <2> QED BY <1>0, <1>2, <2>1, <2>2, AlteredFits, FoundChanges
<1> QED BY <1>1, <1>2 DEF CortinaAppend

LEMMA OrdEnds == ASSUME NEW ow, NEW ps, Both(ow, ps), OrdPushed PROVE Contents!Finish
<1>0. PICK l, key, ord, val : l = call.on /\ key = call.key /\ ord = call.val[1] /\ val = call.val[2]
  OBVIOUS
<1> DEFINE s == Entries(l)
           k == obj[l].size
           e == [key |-> key, val |-> val]
<1>1. ASSUME call.op = "push_ord", call' = NoCall, l \in Alive, k \in Nat, IsRow(s, k),
             NEW i \in 1 .. k + 1, i <= k => GoesBefore(key, ord, s[i]),
             \A j \in 1 .. i - 1 : ~ GoesBefore(key, ord, s[j]),
             Contents!Becomes(PutAt(s, k, i, e), Nothing)
      PROVE  Contents!Finish
  <2> HIDE DEF s, k, e
  <2>1. Contents!Place(s, key, ord) = i
    BY <1>1, PlaceIs
  <2>2. Contents!Put(s, i, e) = PutAt(s, k, i, e)
    BY <1>1, PutIs
  <2>3. Content[l] = s
    BY <1>1 DEF Both, ContentIs, Copying, s
  <2>4. e = Contents!Entry(key, val)
    BY DEF e, Contents!Entry
  <2>5. Contents!Becomes(Contents!Put(s, Contents!Place(s, key, ord), Contents!Entry(key, val)), Nothing)
    BY <1>1, <2>1, <2>2, <2>4
  <2> QED BY <1>0, <1>1, <2>3, <2>5, RunningIs DEF Contents!Finish, Nothing
<1>2. CASE Missed("push_ord") /\ Push(call.val[2], Nothing)
  <2>1. call.op = "push_ord" /\ "push_ord" \in LookOps \ {"get_at", "equal"}
    BY <1>2, MissedOp, Ops
  <2>2. l \in Alive /\ k \in Nat /\ IsRow(s, k) /\ SoughtBehind(k + 1)
    BY <1>0, <1>2, <2>1, MissedPlace DEF Both
  <2>3. call' = NoCall /\ Contents!Becomes(PutAt(s, k, k + 1, e), Nothing)
    BY <1>0, <1>2, <2>1, PushedIt
  <2>4. \A j \in 1 .. (k + 1) - 1 : ~ GoesBefore(key, ord, s[j])
    BY <1>0, <2>1, <2>2 DEF SoughtBehind
  <2>5. k + 1 \in 1 .. k + 1 /\ ~ (k + 1 <= k)
    BY <2>2
  <2> HIDE DEF s, k, e
  <2> QED BY <1>1, <2>1, <2>2, <2>3, <2>4, <2>5
<1>3. CASE Found("push_ord")
  <2>1. call.op = "push_ord" /\ "push_ord" \in LookOps /\ "push_ord" \in LookOps \ {"get_at", "equal"}
    BY <1>3, MissedOp, Ops
  <2>2. l \in Alive /\ k \in Nat /\ IsRow(s, k) /\ Sought
    BY <1>0, <1>3, <2>1, FoundPlace DEF Both
  <2>3. PICK i \in 1 .. k : /\ call.cur = Order(l)[i] /\ SoughtBehind(i) /\ call.cur \in DOMAIN heap
                            /\ s[i] = EntryOf(call.cur)
    BY <1>0, <1>3, <2>1, FoundPlace DEF Both
  <2>4. MayLink(call.cur) /\ call.cur # Null /\ \E n \in Nodes : n \notin DOMAIN heap
    BY <1>3, <2>1, <2>3, FoundFacts, NullIsNoNode DEF Both, Inv, Shape, CallOK, RoomOK
  <2>5. LinkBefore(l, Order(l)[i], key, val) /\ call' = NoCall /\ answer' = Nothing
    BY <1>0, <2>3, <2>4 DEF OrdPushed, Missed, Return
  <2>6. Puts(l, i, key, val)
    BY <2>2, <2>4, <2>5, InvGives, LinkBeforePuts DEF Both
  <2>7. Alive' = Alive
    BY <2>1, <2>5, <2>6, NoCallOp, SameAlive DEF Puts
  <2>8. Content' = [Content EXCEPT ![l] = PutAt(s, k, i, e)]
    <3>1. call.op # "copy"
      BY <2>1
    <3> QED BY <3>1, <2>5, <2>6, <2>7, NoCallOp, PutContent DEF Both
  <2>9. Contents!Becomes(PutAt(s, k, i, e), Nothing)
    BY <1>0, <2>5, <2>8, RunningIs DEF Contents!Becomes
  <2>10. GoesBefore(key, ord, s[i])
    BY <1>0, <2>1, <2>2, <2>3 DEF Sought, GoesBefore, EntryOf
  <2>11. \A j \in 1 .. i - 1 : ~ GoesBefore(key, ord, s[j])
    BY <1>0, <2>1, <2>3 DEF SoughtBehind
  <2>12. i \in 1 .. k + 1
    BY <2>2
  <2> HIDE DEF s, k, e
  <2> QED BY <1>1, <2>1, <2>2, <2>5, <2>9, <2>10, <2>11, <2>12
<1> QED BY <1>2, <1>3 DEF OrdPushed

LEMMA AtEnds == ASSUME NEW ow, NEW ps, Both(ow, ps), AtIndex PROVE Contents!Finish
<1>0. PICK l : l = call.on
  OBVIOUS
<1> DEFINE s == Entries(l)
           k == obj[l].size
<1>1. ASSUME call.op = "get_at", call' = NoCall, l \in Alive,
             Contents!Tells(IF call.val < Len(s) THEN <<"value", s[call.val + 1].key>> ELSE <<"nothing">>)
      PROVE  Contents!Finish
  <2>1. Content[l] = s
    BY <1>1 DEF Both, ContentIs, Copying
  <2> HIDE DEF s, k
  <2> QED BY <1>0, <1>1, <2>1, RunningIs DEF Contents!Finish
<1>2. "get_at" \in LookOps
  BY Ops
<1>3. CASE Missed("get_at") /\ Same /\ Return(Nothing)
  <2>1. call.op = "get_at"
    BY <1>3, MissedOp
  <2>2. l \in Alive /\ k \in Nat /\ IsRow(s, k) /\ SoughtBehind(k + 1)
    BY <1>0, <1>2, <1>3, MissedPlace DEF Both
  <2>3. call' = NoCall /\ Contents!Tells(Nothing)
    BY <1>2, <1>3, <2>1, TellsIt
  <2>4. call.val \in Nat /\ call.other \in Nat /\ call.other = call.val - ((k + 1) - 1)
    BY <2>1, <2>2 DEF SoughtBehind
  <2>5. Len(s) = k
    BY <2>2, RowLen
  <2> HIDE DEF s, k
  <2>6. ~ (call.val < Len(s))
    BY <2>2, <2>4, <2>5
  <2>7. (IF call.val < Len(s) THEN <<"value", s[call.val + 1].key>> ELSE <<"nothing">>) = Nothing
    BY <2>6 DEF Nothing
  <2>8. Contents!Tells(IF call.val < Len(s) THEN <<"value", s[call.val + 1].key>> ELSE <<"nothing">>)
    BY <2>3, <2>7
  <2> QED BY <1>1, <2>1, <2>2, <2>3, <2>8
<1>4. CASE Found("get_at") /\ Same /\ Return(Value(heap[call.cur].key))
  <2>1. call.op = "get_at"
    BY <1>4, MissedOp
  <2>2. l \in Alive /\ k \in Nat /\ IsRow(s, k) /\ Sought
    BY <1>0, <1>2, <1>4, FoundPlace DEF Both
  <2>3. PICK i \in 1 .. k : /\ SoughtBehind(i) /\ s[i] = EntryOf(call.cur)
    BY <1>0, <1>2, <1>4, FoundPlace DEF Both
  <2>4. call' = NoCall /\ Contents!Tells(Value(heap[call.cur].key))
    BY <1>2, <1>4, <2>1, TellsIt
  <2>5. call.val \in Nat /\ call.other = call.val - (i - 1) /\ call.other = 0
    BY <2>1, <2>2, <2>3 DEF SoughtBehind, Sought
  <2>6. Len(s) = k
    BY <2>2, RowLen
  <2>7. s[i].key = heap[call.cur].key
    BY <2>3 DEF EntryOf
  <2> HIDE DEF s, k
  <2>8. call.val + 1 = i /\ call.val < Len(s)
    BY <2>2, <2>3, <2>5, <2>6
  <2>9. (IF call.val < Len(s) THEN <<"value", s[call.val + 1].key>> ELSE <<"nothing">>)
           = Value(heap[call.cur].key)
    BY <2>7, <2>8 DEF Value
  <2>10. Contents!Tells(IF call.val < Len(s) THEN <<"value", s[call.val + 1].key>> ELSE <<"nothing">>)
    BY <2>4, <2>9
  <2> QED BY <1>1, <2>1, <2>2, <2>4, <2>10
<1> QED BY <1>3, <1>4 DEF AtIndex

LEMMA EqualEnds == ASSUME NEW ow, NEW ps, Both(ow, ps), Compared PROVE Contents!Finish
<1>0. PICK l, m : l = call.on /\ m = call.from
  OBVIOUS
<1> DEFINE s == Entries(l)
           t == Entries(m)
           k == obj[l].size
<1>1. call.op = "equal" /\ "equal" \in LookOps /\ call.op # "copy"
  BY MissedOp, Ops DEF Compared
<1>2. /\ l \in Alive /\ m \in Alive /\ obj[m].size = k /\ Ordered
  BY <1>0, <1>1, InvGives DEF Both
<1>3. k \in Nat /\ IsRow(s, k) /\ IsRow(t, k)
  BY <1>2, OrderFacts
<1>4. Content[l] = s /\ Content[m] = t
  BY <1>1, <1>2 DEF Both, ContentIs, Copying
<1>5. ASSUME call' = NoCall, Contents!Tells(IF s = t THEN <<"yes">> ELSE <<"no">>)
      PROVE  Contents!Finish
  <2> HIDE DEF s, t, k
  <2> QED BY <1>0, <1>1, <1>4, <1>5, RunningIs DEF Contents!Finish
<1>6. CASE Missed("equal") /\ Same /\ Return(Yes)
  <2>1. SoughtBehind(k + 1)
    BY <1>0, <1>1, <1>6, MissedPlace DEF Both
  <2>2. \A j \in 1 .. (k + 1) - 1 : s[j] = t[j]
    BY <1>0, <1>1, <2>1 DEF SoughtBehind
  <2>3. call' = NoCall /\ Contents!Tells(Yes)
    BY <1>1, <1>6, TellsIt
  <2> HIDE DEF s, t, k
  <2>4. \A j \in 1 .. k : s[j] = t[j]
    BY <1>3, <2>2
  <2>5. s = t
    BY <1>3, <2>4 DEF IsRow
  <2>6. (IF s = t THEN <<"yes">> ELSE <<"no">>) = Yes
    BY <2>5 DEF Yes
  <2>7. Contents!Tells(IF s = t THEN <<"yes">> ELSE <<"no">>)
    BY <2>3, <2>6
  <2> QED BY <1>5, <2>3, <2>7
<1>7. CASE Found("equal") /\ Same /\ Return(No)
  <2>1. PICK i \in 1 .. k : /\ SoughtBehind(i) /\ s[i] = EntryOf(call.cur)
    BY <1>0, <1>1, <1>7, FoundPlace DEF Both
  <2>2. Sought
    BY <1>7 DEF Found
  <2>3. call.other = Order(m)[i]
    BY <1>0, <1>1, <2>1 DEF SoughtBehind
  <2>4. t[i] = EntryOf(call.other)
    BY <1>2, <2>3, EntriesOf
  <2>5. heap[call.cur].key # heap[call.other].key \/ heap[call.cur].val # heap[call.other].val
    BY <1>1, <2>2 DEF Sought
  <2>6. s[i] # t[i]
    BY <2>1, <2>4, <2>5 DEF EntryOf
  <2>7. call' = NoCall /\ Contents!Tells(No)
    BY <1>1, <1>7, TellsIt
  <2> HIDE DEF s, t, k
  <2>8. (IF s = t THEN <<"yes">> ELSE <<"no">>) = No
    BY <2>6 DEF No
  <2>9. Contents!Tells(IF s = t THEN <<"yes">> ELSE <<"no">>)
    BY <2>7, <2>8
  <2> QED BY <1>5, <2>7, <2>9
<1> QED BY <1>6, <1>7 DEF Compared

\* A step that shows nothing.
Hidden == Content' = Content /\ Running' = Running /\ answer' = answer

LEMMA EmptyRow == ASSUME NEW s, IsRow(s, 0) PROVE s = <<>>
<1> DEFINE t == <<>>
<1>1. t \in Seq({}) /\ Len(t) = 0 /\ 0 \in Nat /\ \A i : i \notin 1 .. 0
  OBVIOUS
<1> HIDE DEF t
<1>2. \A i \in 1 .. 0 : t[i] = s[i]
  BY <1>1
<1>3. t = s
  BY <1>1, <1>2, SeqIsRow
<1> QED BY <1>3 DEF t

\* The content of two states in which the same lists live.
LEMMA SameRunning ==
    ASSUME call'.op = call.op, call'.on = call.on, call'.key = call.key, call'.val = call.val,
           call'.from = call.from
    PROVE  Running' = Running
BY DEF Running

LEMMA WalkHidden == ASSUME NEW ow, NEW ps, Both(ow, ps), Walk PROVE Hidden
<1>1. call.op \in LookOps /\ call.cur # Null
  BY DEF Walk, Looking, Doing
<1>2. IsCall(call) /\ call.op \notin {"copy", "destroy"} /\ Follows \subseteq DOMAIN heap
  BY <1>1, InvGives, LoopFacts, Ops DEF Both
<1>3. \E o : call' = [call EXCEPT !.cur = heap[call.cur].next, !.other = o]
  BY <1>2 DEF Walk
<1>4. heap' = heap /\ obj' = obj /\ answer' = answer
  BY <1>2 DEF Walk
<1>5. /\ call'.op = call.op /\ call'.on = call.on /\ call'.key = call.key /\ call'.val = call.val
      /\ call'.from = call.from
  BY <1>2, <1>3 DEF IsCall
<1>6. Content' = Content
  BY <1>2, <1>4, <1>5, StillContent DEF Both
<1> QED BY <1>4, <1>5, <1>6, SameRunning DEF Hidden

LEMMA CopyHidden == ASSUME NEW ow, NEW ps, Both(ow, ps), CopyNode PROVE Hidden
<1>0. PICK l, m : l = call.on /\ m = call.from
  OBVIOUS
<1> DEFINE k == obj[l].size
           v == call.val
<1>1. /\ l \in Alive /\ call.op = "copy"
      /\ call'.op = "copy" /\ call'.on = l /\ call'.from = m
      /\ call'.key = call.key /\ call'.val = v /\ answer' = answer
  BY <1>0, CopyGoesOn DEF Both, CopyNode, Doing
<1>2. PICK key, val : Puts(l, k + 1, key, val)
  BY <1>0, CopyGoesOn DEF Both
<1>3. Alive' = Alive
  BY <1>1, <1>2, SameAlive DEF Puts
<1>4. v \in Nat /\ v <= k /\ k \in Nat
  BY <1>0, <1>1, CopyHasSize DEF Both, ContentIs
<1>5. Copying(l) /\ Copying(l)' /\ \A o \in Alive : o # l => ~ Copying(o) /\ ~ Copying(o)'
  BY <1>0, <1>1 DEF Copying
<1>6. /\ IsRow(Content[l], v) /\ \A i \in 1 .. v : Content[l][i] = Entries(l)[i]
      /\ IsRow(Content'[l], v) /\ \A i \in 1 .. v : Content'[l][i] = Entries(l)'[i]
  BY <1>1, <1>3, <1>5 DEF Both, ContentIs
<1>7. \A i \in 1 .. v : Entries(l)'[i] = Entries(l)[i]
  <2> DEFINE s == Entries(l)
             t == Entries(l)'
             e == [key |-> key, val |-> val]
  <2>1. t = PutAt(s, k, k + 1, e)
    BY <1>2 DEF Puts
  <2> HIDE DEF s, t, e, k, v
  <2>2. \A i \in 1 .. v : t[i] = s[i]
    BY <1>4, <2>1 DEF PutAt
  <2> QED BY <2>2 DEF s, t
<1>8. Content'[l] = Content[l]
  <2> DEFINE c == Content[l]
             d == Content'[l]
  <2>1. IsRow(c, v) /\ IsRow(d, v) /\ \A i \in 1 .. v : d[i] = c[i]
    BY <1>6, <1>7
  <2> HIDE DEF c, d, v
  <2>2. c = d
    BY <2>1 DEF IsRow
  <2> QED BY <2>2 DEF c, d
<1>9. \A o \in Alive \ {l} : Content'[o] = Content[o]
  BY <1>2, <1>3, <1>5 DEF Both, ContentIs, Puts
<1>10. Content' = Content
  BY <1>3, <1>8, <1>9, NoneChanges DEF Both
<1> QED BY <1>0, <1>1, <1>10, SameRunning DEF Hidden

LEMMA FreeHidden == ASSUME NEW ow, NEW ps, Both(ow, ps), HeapOK(heap'), FreeNode PROVE Hidden
<1>0. PICK c, l : c = call.cur /\ l = call.on
  OBVIOUS
<1>1. call.op = "destroy" /\ IsCall(call) /\ c # Null
  BY <1>0, InvGives DEF Both, FreeNode, Doing
<1>2. c \in DOMAIN heap /\ ow[c] = l
  BY <1>0, <1>1 DEF Both, Inv, CallOK, DestroyOK
<1>3. /\ heap' = [n \in DOMAIN heap \ {c} |-> heap[n]] /\ call' = [call EXCEPT !.cur = heap[c].next]
      /\ obj' = obj /\ answer' = answer
  BY <1>0, <1>2 DEF FreeNode
<1>4. /\ call'.op = call.op /\ call'.on = call.on /\ call'.key = call.key /\ call'.val = call.val
      /\ call'.from = call.from
  BY <1>1, <1>3 DEF IsCall
<1>5. Alive' = Alive /\ l \notin Alive
  BY <1>0, <1>1, <1>3, <1>4 DEF Alive
<1>6. SameData(heap, heap')
  BY <1>3 DEF SameData
<1>7. ASSUME NEW o \in Alive PROVE Entries(o)' = Entries(o)
  <2>1. \A i \in 1 .. obj[o].size : Order(o)[i] \in DOMAIN heap /\ ow[Order(o)[i]] = o
    BY InvGives, ListsInOrder, OrderFacts DEF Both
  <2>2. \A i \in 1 .. obj[o].size : /\ Order(o)[i] \in DOMAIN heap'
                                    /\ heap'[Order(o)[i]].next = heap[Order(o)[i]].next
    BY <1>2, <1>3, <1>5, <2>1
  <2> QED BY <1>3, <1>6, <2>2, InvGives, EntriesStay DEF Both
<1>8. Content' = Content
  <2>1. \A o \in Alive : Content'[o] = Content[o]
    BY <1>1, <1>4, <1>5, <1>7, PlainContents DEF Both
  <2> QED BY <1>5, <2>1, NoneChanges DEF Both
<1> QED BY <1>3, <1>4, <1>8, SameRunning DEF Hidden

LEMMA CopyEnds == ASSUME NEW ow, NEW ps, Both(ow, ps), Copied PROVE Contents!Finish
<1>0. PICK l, m : l = call.on /\ m = call.from
  OBVIOUS
<1>1. call.op = "copy" /\ call.cur = Null /\ call' = NoCall /\ heap' = heap /\ obj' = obj /\ answer' = answer
  BY DEF Copied, Doing
<1>2. /\ l \in Alive /\ m \in Alive /\ l # m
      /\ call.val \in Nat /\ obj[l].size = call.val + obj[m].size
      /\ \A j \in 1 .. obj[m].size : Entries(l)[call.val + j] = Entries(m)[j]
  BY <1>0, <1>1 DEF Both, CopyIsWhole
<1>3. Alive' = Alive
  BY <1>1, NoCallOp, SameAlive
<1>4. Copying(l) /\ \A o \in Alive : ~ Copying(o)' /\ (o # l => ~ Copying(o))
  BY <1>0, <1>1, NoCallOp DEF Copying
<1>5. /\ IsRow(Content[l], call.val) /\ \A i \in 1 .. call.val : Content[l][i] = Entries(l)[i]
      /\ IsRow(Entries(l), obj[l].size) /\ IsRow(Entries(m), obj[m].size)
      /\ Content[m] = Entries(m)
  BY <1>2, <1>4 DEF Both, ContentIs
<1>6. Content[l] \o Content[m] = Entries(l)
  <2> DEFINE c == Content[l]
             s == Entries(l)
             t == Entries(m)
             v == call.val
             k == obj[m].size
  <2>1. IsRow(c, v) /\ IsRow(t, k) /\ IsRow(s, v + k)
    BY <1>2, <1>5
  <2>2. (\A i \in 1 .. v : s[i] = c[i]) /\ (\A j \in 1 .. k : s[v + j] = t[j])
    BY <1>2, <1>5
  <2> HIDE DEF c, s, t, v, k
  <2>3. c \o t = s
    BY <2>1, <2>2, JoinIs
  <2> QED BY <1>5, <2>3 DEF c, s, t
<1>7. \A o \in Alive : Content'[o] = Entries(o) /\ (o # l => Content[o] = Entries(o))
  BY <1>1, <1>3, <1>4, SameEntries DEF Both, ContentIs
<1>8. Content' = [Content EXCEPT ![l] = Content[l] \o Content[m]]
  <2> DEFINE s == Content[l] \o Content[m]
  <2>1. Content'[l] = s /\ \A o \in Alive \ {l} : Content'[o] = Content[o]
    BY <1>2, <1>6, <1>7
  <2> HIDE DEF s
  <2>2. Content' = [Content EXCEPT ![l] = s]
    BY <1>2, <1>3, <2>1, OneChanges DEF Both
  <2> QED BY <2>2 DEF s
<1> QED BY <1>0, <1>1, <1>8, RunningIs DEF Contents!Finish

LEMMA DestroyEnds == ASSUME NEW ow, NEW ps, Both(ow, ps), Destroyed PROVE Contents!Finish
<1>1. /\ call.op = "destroy" /\ call' = NoCall /\ heap' = heap /\ answer' = answer
      /\ obj' = [o \in DOMAIN obj \ {call.on} |-> obj[o]]
  BY DEF Destroyed, Doing
<1>2. Alive' = Alive /\ \A o \in Alive : obj'[o] = obj[o]
  BY <1>1, NoCallOp DEF Alive
<1>3. \A o \in Alive : Content'[o] = Content[o]
  BY <1>1, <1>2, NoCallOp, PlainContents, SameEntries DEF Both
<1>4. Content' = Content
  BY <1>2, <1>3, NoneChanges DEF Both
<1> QED BY <1>1, <1>4, RunningIs DEF Contents!Finish

-----------------------------------------------------------------------------
(* The steps between two calls. *)

LEMMA IdleContents ==
    ASSUME NEW ow, NEW ps, Inv(heap, obj, call, ow, ps), ContentIs, Idle
    PROVE  /\ Alive = DOMAIN obj /\ DOMAIN Content = DOMAIN obj /\ Running = Contents!Free
           /\ call = NoCall /\ call.op = "none" /\ ~ crashed
           /\ \A l \in Alive : /\ Content[l] = Entries(l) /\ IsRow(Entries(l), obj[l].size)
                               /\ obj[l].size \in Nat
<1>1. Alive = DOMAIN obj /\ call.op = "none" /\ call = NoCall /\ ~ crashed
  BY IdleInv DEF Idle
<1>2. Content = [l \in Alive |-> Content[l]]
  BY DEF ContentIs
<1> QED BY <1>1, <1>2, RunningIs DEF ContentIs, Copying

\* A list that has just been made is empty.
LEMMA NewIsEmpty ==
    ASSUME ContentIs', NEW l \in Alive', obj'[l] = Empty, call'.op = "copy" => ~ Copying(l)' \/ call'.val = 0
    PROVE  Content'[l] = <<>>
<1>1. IsRow(Entries(l)', 0)
  <2>1. obj'[l].size = 0 /\ IsRow(Entries(l)', obj'[l].size)
    BY DEF ContentIs, Empty
  <2> QED BY <2>1
<1>2. CASE Copying(l)'
  BY <1>2, EmptyRow DEF ContentIs, Copying
<1>3. CASE ~ Copying(l)'
  BY <1>1, <1>3, EmptyRow DEF ContentIs
<1> QED BY <1>2, <1>3

LEMMA NewIs ==
    ASSUME ContentIs, ContentIs', NEW l, l \notin Alive, Alive' = Alive \cup {l}, NEW s, Content'[l] = s,
           \A o \in Alive : Content'[o] = Content[o]
    PROVE  Content' = Contents!New(l, s)
<1>1. Content = [o \in Alive |-> Content[o]] /\ Content' = [o \in Alive' |-> Content'[o]]
  BY DEF ContentIs
<1>2. DOMAIN Content = Alive
  BY <1>1
<1>3. Contents!New(l, s) = [o \in Alive \cup {l} |-> IF o = l THEN s ELSE Content[o]]
  BY <1>2 DEF Contents!New
<1> QED BY <1>1, <1>3

LEMMA ConstructShows ==
    ASSUME NEW ow, NEW ps, Both(ow, ps), NEW l \in Objects, Construct(l)
    PROVE  Contents!Construct
<1>1. /\ Idle /\ l \notin DOMAIN obj /\ obj' = With(l, Empty) /\ answer' = Nothing
      /\ heap' = heap /\ call' = call
  BY DEF Construct
<1>2. /\ Alive = DOMAIN obj /\ DOMAIN Content = DOMAIN obj /\ Running = Contents!Free
      /\ call = NoCall /\ call.op = "none"
  BY <1>1, IdleContents DEF Both
<1>3. /\ Alive' = Alive \cup {l} /\ obj'[l] = Empty
      /\ \A o \in Alive : obj'[o] = obj[o]
  BY <1>1, <1>2, NoCallOp DEF Alive, With
<1>4. Content'[l] = <<>>
  BY <1>1, <1>2, <1>3, NewIsEmpty DEF Both
<1>5. \A o \in Alive : Content'[o] = Content[o]
  BY <1>1, <1>2, <1>3, SameEntries DEF Both, ContentIs, Copying
<1>6. Content' = Contents!New(l, <<>>)
  BY <1>1, <1>2, <1>3, <1>4, <1>5, NewIs DEF Both
<1>7. Running' = Running
  BY <1>1, <1>2, RunningIs
<1>8. l \in Objects \ DOMAIN Content
  BY <1>1, <1>2
<1> QED BY <1>1, <1>2, <1>6, <1>7, <1>8 DEF Contents!Construct, Nothing

LEMMA MoveShows ==
    ASSUME NEW ow, NEW ps, Both(ow, ps), NEW l \in Objects, NEW from \in Objects,
           MoveConstruct(l, from) \/ MoveAssign(l, from)
    PROVE  Contents!Move
<1>1. /\ Idle /\ from \in DOMAIN obj /\ l # from /\ obj' = Moved(l, from) /\ answer' = Nothing
      /\ heap' = heap /\ call' = call
  BY DEF MoveConstruct, MoveAssign
<1>2. /\ Alive = DOMAIN obj /\ DOMAIN Content = DOMAIN obj /\ Running = Contents!Free
      /\ call = NoCall /\ call.op = "none" /\ \A o \in Alive : Content[o] = Entries(o)
  BY <1>1, IdleContents DEF Both
<1>3. /\ Alive' = Alive \cup {l} /\ obj'[l] = obj[from] /\ obj'[from] = Empty
      /\ \A o \in Alive : o # l /\ o # from => obj'[o] = obj[o]
  BY <1>1, <1>2, NoCallOp DEF Alive, Moved
<1>4. Content'[from] = <<>>
  BY <1>1, <1>2, <1>3, NewIsEmpty DEF Both
<1>5. \A o \in Alive' : Content'[o] = Entries(o)'
  BY <1>1, <1>2 DEF Both, ContentIs, Copying
<1>6. \A o \in Alive : o # l /\ o # from => Content'[o] = Content[o]
  BY <1>1, <1>2, <1>3, <1>5, SameEntries
<1>7. Content'[l] = Content[from]
  <2>1. Order(l)' = Order(from)
    BY <1>1, <1>3 DEF Order, From
  <2>2. Entries(l)' = [i \in 1 .. obj'[l].size |-> [key |-> heap'[Order(l)'[i]].key, val |-> heap'[Order(l)'[i]].val]]
    BY DEF Entries, EntryOf
  <2>3. Entries(l)' = Entries(from)
    BY <1>1, <1>3, <2>1, <2>2 DEF Entries, EntryOf
  <2> QED BY <1>1, <1>2, <1>3, <1>5, <2>3
<1>8. Content' = [Contents!New(l, Content[from]) EXCEPT ![from] = <<>>]
  <2> DEFINE s == Content[from]
  <2>1. Contents!New(l, s) = [o \in Alive \cup {l} |-> IF o = l THEN s ELSE Content[o]]
    BY <1>2 DEF Contents!New
  <2>2. Content' = [o \in Alive' |-> Content'[o]]
    BY DEF Both, ContentIs
  <2>3. Content'[l] = s
    BY <1>7
  <2> HIDE DEF s
  <2>4. \A o \in Alive' : Content'[o] = [Contents!New(l, s) EXCEPT ![from] = <<>>][o]
    BY <1>1, <1>2, <1>3, <1>4, <1>6, <2>1, <2>3
  <2>5. Content' = [Contents!New(l, s) EXCEPT ![from] = <<>>]
    BY <1>3, <2>1, <2>2, <2>4
  <2> QED BY <2>5 DEF s
<1>9. Running' = Running
  BY <1>1, <1>2, RunningIs
<1>10. l \in Objects /\ from \in DOMAIN Content \ {l}
  BY <1>1, <1>2
<1> QED BY <1>1, <1>2, <1>8, <1>9, <1>10 DEF Contents!Move, Nothing

LEMMA PushFrontShows ==
    ASSUME NEW ow, NEW ps, Both(ow, ps), NEW l, NEW key \in Keys, PushFront(l, key)
    PROVE  Contents!PushFront
<1> DEFINE e == [key |-> key, val |-> Null]
           s == Entries(l)
           k == obj[l].size
<1>1. Idle /\ l \in DOMAIN obj /\ Room(1)
  BY DEF PushFront
<1>2. /\ Alive = DOMAIN obj /\ DOMAIN Content = DOMAIN obj /\ Running = Contents!Free
      /\ call = NoCall /\ call.op = "none" /\ Content[l] = s /\ IsRow(s, k) /\ k \in Nat
  BY <1>1, IdleContents DEF Both
<1>3. obj[l].head = Null \/ MayLink(obj[l].head)
  <2>1. l \in AliveOf(obj, call)
    BY <1>1, IdleFacts
  <2> QED BY <2>1, ListEnds DEF Both, Inv, Shape
<1>4. \E n \in Nodes : n \notin DOMAIN heap
  BY <1>1, RoomForOne
<1>5. PushFt(l, key, Null) /\ call' = call /\ answer' = Made("push_front")
  BY <1>3 DEF PushFront, Done
<1>6. Puts(l, 1, key, Null)
  BY <1>1, <1>2, <1>4, <1>5, InvGives, PushFtPuts DEF Both
<1>7. Alive' = Alive
  BY <1>2, <1>5, <1>6, SameAlive DEF Puts
<1>8. Content' = [Content EXCEPT ![l] = PutAt(s, k, 1, e)]
  BY <1>2, <1>5, <1>6, <1>7, PutContent DEF Both
<1>9. <<e>> \o s = PutAt(s, k, 1, e)
  BY <1>2, EndsAre
<1> HIDE DEF e, s, k
<1>10. Content' = [Content EXCEPT ![l] = <<e>> \o Content[l]]
  BY <1>2, <1>8, <1>9
<1>11. e = Contents!Entry(key, Null)
  BY DEF e, Contents!Entry
<1>12. Running' = Running
  BY <1>2, <1>5, RunningIs
<1>13. \E o \in DOMAIN Content : \E j \in Keys :
          Content' = [Content EXCEPT ![o] = <<Contents!Entry(j, Null)>> \o Content[o]]
  BY <1>1, <1>2, <1>10, <1>11
<1>14. Contents!Makes("push_front")
  BY <1>2, <1>5, <1>12 DEF Contents!Makes, Made
<1> QED BY <1>13, <1>14 DEF Contents!PushFront

LEMMA PushBackShows ==
    ASSUME NEW ow, NEW ps, Both(ow, ps), NEW l, NEW key \in Keys, NEW val, PushBack(l, key, val)
    PROVE  Contents!PushBack
<1> DEFINE e == [key |-> key, val |-> val]
           s == Entries(l)
           k == obj[l].size
<1>1. Idle /\ l \in DOMAIN obj /\ Room(1)
  BY DEF PushBack
<1>2. /\ Alive = DOMAIN obj /\ DOMAIN Content = DOMAIN obj /\ Running = Contents!Free
      /\ call = NoCall /\ call.op = "none" /\ Content[l] = s /\ IsRow(s, k) /\ k \in Nat
  BY <1>1, IdleContents DEF Both
<1>3. MayPushBk(l)
  <2>1. l \in AliveOf(obj, call)
    BY <1>1, IdleFacts
  <2> QED BY <2>1, ListEnds DEF Both, Inv, Shape
<1>4. \E n \in Nodes : n \notin DOMAIN heap
  BY <1>1, RoomForOne
<1>5. PushBk(l, key, val) /\ call' = call /\ answer' = Made("push_back")
  BY <1>3 DEF PushBack, Done
<1>6. Puts(l, k + 1, key, val)
  BY <1>1, <1>2, <1>4, <1>5, InvGives, PushBkPuts DEF Both
<1>7. Alive' = Alive
  BY <1>2, <1>5, <1>6, SameAlive DEF Puts
<1> DEFINE t == PutAt(s, k, k + 1, e)
<1>8. Content' = [Content EXCEPT ![l] = t]
  BY <1>2, <1>5, <1>6, <1>7, PutContent DEF Both
<1>9. Append(s, e) = t /\ IsRow(t, k + 1)
  BY <1>2, EndsAre, PutIsRow
<1>10. t[k + 1] = e
  <2>1. k + 1 \in 1 .. k + 1 /\ ~ (k + 1 < k + 1)
    BY <1>2
  <2> HIDE DEF e, s, k
  <2> QED BY <2>1 DEF PutAt
<1> HIDE DEF e, s, k, t
<1>11. Len(t) = k + 1 /\ t # <<>>
  <2>1. Len(t) = k + 1
    BY <1>9, RowLen
  <2> QED BY <1>2, <2>1
<1>12. l \in DOMAIN Content /\ Content'[l] = t /\ DOMAIN Content' = DOMAIN Content
  BY <1>1, <1>2, <1>8
<1>13. Content' = [Content EXCEPT ![l] = Append(Content[l], t[Len(t)])]
  BY <1>2, <1>8, <1>9, <1>10, <1>11
<1>14. \E o \in DOMAIN Content' :
          LET c == Content'[o]
          IN  c # <<>> /\ Content' = [Content EXCEPT ![o] = Append(Content[o], c[Len(c)])]
  BY <1>11, <1>12, <1>13
<1>15. Running' = Running
  BY <1>2, <1>5, RunningIs
<1>16. Contents!Makes("push_back")
  BY <1>2, <1>5, <1>15 DEF Contents!Makes, Made
<1> QED BY <1>14, <1>16 DEF Contents!PushBack

LEMMA PopShows ==
    ASSUME NEW ow, NEW ps, Inv(heap, obj, call, ow, ps), ContentIs, ContentIs', NEW l, Pop(l)
    PROVE  Contents!Pop \/ Hidden
<1> DEFINE s == Entries(l)
           k == obj[l].size
<1>1. Idle /\ l \in DOMAIN obj
  BY DEF Pop
<1>2. /\ Alive = DOMAIN obj /\ DOMAIN Content = DOMAIN obj /\ Running = Contents!Free
      /\ call = NoCall /\ call.op = "none" /\ Content[l] = s /\ IsRow(s, k) /\ k \in Nat
  BY <1>1, IdleContents
<1>3. CASE ~ MayLink(obj[l].tail)
  <2>1. heap' = heap /\ obj' = obj /\ call' = call /\ answer' = answer
    BY <1>3 DEF Pop, Fault
  <2>2. Content' = Content
    BY <1>2, <2>1, StillContent
  <2>3. Running' = Running
    BY <1>2, <2>1, RunningIs
  <2> QED BY <2>1, <2>2, <2>3 DEF Hidden
<1>4. CASE MayLink(obj[l].tail)
  <2>1. /\ DeleteNode(l, obj[l].tail) /\ call' = call
        /\ answer' = Made("pop_front") \/ answer' = Made("pop_back")
    BY <1>4 DEF Pop, Done
  <2>2. k # 0
    <3>1. l \in AliveOf(obj, call) /\ obj[l].tail \in DOMAIN heap
      BY <1>1, <1>4, IdleFacts DEF MayLink
    <3> QED BY <3>1, ListEnds, NullIsNoNode DEF Inv, Shape
  <2>3. k > 0 /\ k \in 1 .. k /\ Order(l)[k] = obj[l].tail
    BY <1>1, <1>2, <2>2, InvGives, OrderFacts
  <2>4. Drops(l, k)
    BY <1>1, <1>2, <2>1, <2>3, InvGives, DeleteDrops
  <2>5. Alive' = Alive
    BY <1>2, <2>1, <2>4, SameAlive DEF Drops
  <2>6. Content' = [Content EXCEPT ![l] = DropAt(s, k, k)]
    BY <1>2, <2>1, <2>4, <2>5, DropContent
  <2>7. SubSeq(s, 1, Len(s) - 1) = DropAt(s, k, k)
    BY <1>2, <2>3, EndsAre
  <2>8. Len(s) = k
    BY <1>2, RowLen
  <2> HIDE DEF s, k
  <2>9. Content' = [Content EXCEPT ![l] = SubSeq(Content[l], 1, Len(Content[l]) - 1)]
    BY <1>2, <2>6, <2>7
  <2>10. Content[l] # <<>>
    BY <1>2, <2>2, <2>8
  <2>11. Running' = Running
    BY <1>2, <2>1, RunningIs
  <2>12. \E o \in DOMAIN Content :
            Content[o] # <<>> /\ Content' = [Content EXCEPT ![o] = SubSeq(Content[o], 1, Len(Content[o]) - 1)]
    BY <1>1, <1>2, <2>9, <2>10
  <2>13. Contents!Makes("pop_back") \/ Contents!Makes("pop_front")
    BY <1>2, <2>1, <2>11 DEF Contents!Makes, Made
  <2> QED BY <2>12, <2>13 DEF Contents!Pop
<1> QED BY <1>3, <1>4

\* A call has begun that changes no list yet.
LEMMA LoopShows ==
    ASSUME NEW ow, NEW ps, Both(ow, ps), Idle, heap' = heap, obj' = obj,
           call'.op \notin {"none", "copy", "destroy"}, answer' = Nothing
    PROVE  Contents!Start
<1>1. Running = Contents!Free /\ call.op = "none"
  BY IdleContents DEF Both
<1>2. Content' = Content
  BY <1>1, StillContent DEF Both
<1>3. Running'.op = call'.op
  BY DEF Running
<1> QED BY <1>1, <1>2, <1>3 DEF Contents!Start, Nothing

LEMMA SearchShows ==
    ASSUME NEW ow, NEW ps, Both(ow, ps), kind \in Kinds,
           NEW l, NEW op \in Searches[kind], NEW key, NEW val, Search(op, l, key, val)
    PROVE  Contents!Start
<1>1. /\ call' = [op |-> op, on |-> l, key |-> key, val |-> val, from |-> Null,
                  cur |-> obj[l].head, other |-> Null]
      /\ heap' = heap /\ obj' = obj /\ Idle /\ answer' = Nothing
  BY DEF Search, Begin
<1>2. op \notin {"none", "copy", "destroy"}
  BY Ops
<1>3. call'.op = op
  BY <1>1
<1> QED BY <1>1, <1>2, <1>3, LoopShows

LEMMA PushOrdShows ==
    ASSUME NEW ow, NEW ps, Both(ow, ps), NEW l, NEW key, NEW ord, NEW val, PushOrd(l, key, ord, val)
    PROVE  Contents!Start
<1>1. /\ call' = [op |-> "push_ord", on |-> l, key |-> key, val |-> <<ord, val>>, from |-> Null,
                  cur |-> obj[l].head, other |-> Null]
      /\ heap' = heap /\ obj' = obj /\ Idle /\ answer' = Nothing
  BY DEF PushOrd, Begin
<1>2. call'.op = "push_ord"
  BY <1>1
<1> QED BY <1>1, <1>2, LoopShows

LEMMA GetAtShows ==
    ASSUME NEW ow, NEW ps, Both(ow, ps), NEW l, NEW index, GetAt(l, index)
    PROVE  Contents!Start \/ Contents!BySize
<1>1. heap' = heap /\ obj' = obj /\ Idle /\ answer' = Nothing
  BY DEF GetAt, Begin
<1>2. CASE call' = call
  <2>1. Running = Contents!Free /\ call.op = "none" /\ call = NoCall
    BY <1>1, IdleContents DEF Both
  <2>2. Content' = Content /\ Running' = Running
    BY <1>1, <1>2, <2>1, StillContent, RunningIs DEF Both
  <2> QED BY <1>1, <2>1, <2>2 DEF Contents!BySize, Nothing
<1>3. CASE call' = [op |-> "get_at", on |-> l, key |-> Null, val |-> index, from |-> Null,
                    cur |-> obj[l].head, other |-> index]
  <2>1. call'.op = "get_at"
    BY <1>3
  <2> QED BY <1>1, <2>1, LoopShows
<1> QED BY <1>2, <1>3 DEF GetAt, Begin

LEMMA EqualShows ==
    ASSUME NEW ow, NEW ps, Both(ow, ps), NEW l, NEW from, Equal(l, from)
    PROVE  Contents!Start \/ Contents!BySize
<1>1. heap' = heap /\ obj' = obj /\ Idle /\ {l, from} \subseteq DOMAIN obj
  BY DEF Equal
<1>2. CASE call' = call /\ answer' = No /\ obj[l].size # obj[from].size
  <2>1. /\ Running = Contents!Free /\ call.op = "none" /\ call = NoCall
        /\ l \in DOMAIN Content /\ from \in DOMAIN Content
        /\ Content[l] = Entries(l) /\ IsRow(Entries(l), obj[l].size)
        /\ Content[from] = Entries(from) /\ IsRow(Entries(from), obj[from].size)
    BY <1>1, IdleContents DEF Both
  <2>2. Content' = Content /\ Running' = Running
    BY <1>1, <1>2, <2>1, StillContent, RunningIs DEF Both
  <2>3. Len(Content[l]) # Len(Content[from])
    BY <1>2, <2>1, RowLen
  <2> QED BY <1>2, <2>1, <2>2, <2>3 DEF Contents!BySize, No
<1>3. CASE /\ answer' = Nothing
           /\ call' = [op |-> "equal", on |-> l, key |-> Null, val |-> Null, from |-> from,
                       cur |-> obj[l].head, other |-> obj[from].head]
  <2>1. call'.op = "equal"
    BY <1>3
  <2> QED BY <1>1, <1>3, <2>1, LoopShows
<1> QED BY <1>2, <1>3 DEF Equal, Begin

LEMMA DestroyShows ==
    ASSUME NEW ow, NEW ps, Both(ow, ps), NEW l, Destroy(l)
    PROVE  Contents!Start
<1>1. /\ call' = [op |-> "destroy", on |-> l, key |-> Null, val |-> Null, from |-> Null,
                  cur |-> IF obj[l].size > 0 THEN obj[l].head ELSE Null, other |-> Null]
      /\ heap' = heap /\ obj' = obj /\ Idle /\ answer' = Nothing
  BY DEF Destroy, Begin
<1>2. call'.op = "destroy" /\ call'.on = l
  BY <1>1
<1>3. /\ Alive = DOMAIN obj /\ DOMAIN Content = DOMAIN obj /\ Running = Contents!Free
      /\ \A o \in Alive : Content[o] = Entries(o)
  BY <1>1, IdleContents DEF Both
<1>4. Alive' = DOMAIN obj \ {l}
  BY <1>1, <1>2 DEF Alive
<1>5. \A o \in Alive' : Content'[o] = Content[o]
  BY <1>1, <1>2, <1>3, <1>4, SameEntries DEF Both, ContentIs, Copying
<1>6. Content' = [o \in DOMAIN Content \ {l} |-> Content[o]]
  <2>1. Content' = [o \in Alive' |-> Content'[o]]
    BY DEF Both, ContentIs
  <2> QED BY <1>3, <1>4, <1>5, <2>1
<1>7. Running'.op = "destroy" /\ Running'.on = l
  BY <1>2 DEF Running
<1> QED BY <1>1, <1>3, <1>6, <1>7 DEF Contents!Start, Nothing

LEMMA CopyConstructShows ==
    ASSUME NEW ow, NEW ps, Both(ow, ps), NEW l, NEW from, CopyConstruct(l, from)
    PROVE  Contents!Start
<1>1. /\ call' = [op |-> "copy", on |-> l, key |-> Null, val |-> 0, from |-> from,
                  cur |-> obj[from].head, other |-> Null]
      /\ heap' = heap /\ obj' = With(l, Empty) /\ Idle /\ answer' = Nothing /\ l \notin DOMAIN obj
  BY DEF CopyConstruct, Begin
<1>2. call'.op = "copy" /\ call'.on = l /\ call'.val = 0
  BY <1>1
<1>3. /\ Alive = DOMAIN obj /\ DOMAIN Content = DOMAIN obj /\ Running = Contents!Free
      /\ \A o \in Alive : Content[o] = Entries(o)
  BY <1>1, IdleContents DEF Both
<1>4. /\ Alive' = Alive \cup {l} /\ obj'[l] = Empty
      /\ \A o \in Alive : obj'[o] = obj[o]
  BY <1>1, <1>2, <1>3 DEF Alive, With
<1>5. Content'[l] = <<>>
  BY <1>2, <1>4, NewIsEmpty DEF Both
<1>6. \A o \in Alive : Content'[o] = Content[o]
  BY <1>1, <1>2, <1>3, <1>4, SameEntries DEF Both, ContentIs, Copying
<1>7. Content' = Contents!New(l, <<>>)
  BY <1>1, <1>3, <1>4, <1>5, <1>6, NewIs DEF Both
<1>8. Running'.op = "copy" /\ Running'.on = l
  BY <1>2 DEF Running
<1> QED BY <1>1, <1>3, <1>7, <1>8 DEF Contents!Start, Nothing

LEMMA CopyAssignShows ==
    ASSUME NEW ow, NEW ps, Both(ow, ps), NEW l, NEW from, CopyAssign(l, from)
    PROVE  Contents!Start
<1>1. /\ call' = [op |-> "copy", on |-> l, key |-> Null, val |-> obj[l].size, from |-> from,
                  cur |-> obj[from].head, other |-> Null]
      /\ heap' = heap /\ obj' = obj /\ Idle /\ answer' = Nothing /\ l \in DOMAIN obj
  BY DEF CopyAssign, Begin
<1>2. call'.op = "copy" /\ call'.on = l /\ call'.val = obj[l].size
  BY <1>1
<1>3. /\ Alive = DOMAIN obj /\ DOMAIN Content = DOMAIN obj /\ Running = Contents!Free
      /\ call.op = "none"
      /\ \A o \in Alive : Content[o] = Entries(o) /\ IsRow(Entries(o), obj[o].size)
  BY <1>1, IdleContents DEF Both
<1>4. Alive' = Alive
  BY <1>1, <1>2, <1>3, SameAlive
<1>5. Content'[l] = Content[l]
  <2>1. /\ IsRow(Content'[l], obj[l].size)
        /\ \A i \in 1 .. obj[l].size : Content'[l][i] = Entries(l)'[i]
    BY <1>1, <1>2, <1>3, <1>4 DEF Both, ContentIs, Copying
  <2>2. Entries(l)' = Entries(l)
    BY <1>1, SameEntries
  <2>3. \A i \in 1 .. obj[l].size : Content'[l][i] = Content[l][i]
    BY <1>1, <1>3, <2>1, <2>2
  <2>4. IsRow(Content[l], obj[l].size)
    BY <1>1, <1>3
  <2> DEFINE c == Content[l]
             d == Content'[l]
  <2>5. IsRow(c, obj[l].size) /\ IsRow(d, obj[l].size) /\ \A i \in 1 .. obj[l].size : d[i] = c[i]
    BY <2>1, <2>3, <2>4
  <2> HIDE DEF c, d
  <2>6. d = c
    BY <2>5 DEF IsRow
  <2> QED BY <2>6 DEF c, d
<1>6. \A o \in Alive : Content'[o] = Content[o]
  <2>1. \A o \in Alive : o # l => Content'[o] = Entries(o)'
    BY <1>2, <1>4 DEF Both, ContentIs, Copying
  <2> QED BY <1>1, <1>3, <1>5, <2>1, SameEntries
<1>7. Content' = Content
  BY <1>4, <1>6, NoneChanges DEF Both
<1>8. Running'.op = "copy" /\ Running'.on = l
  BY <1>2 DEF Running
<1> QED BY <1>1, <1>3, <1>7, <1>8 DEF Contents!Start, Nothing

-----------------------------------------------------------------------------
LEMMA StepShows ==
    ASSUME NEW ow, NEW ps, Both(ow, ps), HeapOK(heap'), Step
    PROVE  Contents!Finish \/ Hidden
<1>1. CASE Insert \/ InsertUpdate \/ Update \/ Get \/ DeleteKey
  BY <1>1, InsertEnds, InsertUpdateEnds, UpdateEnds, GetEnds, DeleteKeyEnds
<1>2. CASE FrePush \/ FrePop \/ CortinaAppend
  BY <1>2, FrePushEnds, FrePopEnds, CortinaAppendEnds
<1>3. CASE OrdPushed \/ AtIndex \/ Compared
  BY <1>3, OrdEnds, AtEnds, EqualEnds
<1>4. CASE Copied \/ Destroyed
  BY <1>4, CopyEnds, DestroyEnds
<1>5. CASE Walk \/ CopyNode \/ FreeNode
  BY <1>5, WalkHidden, CopyHidden, FreeHidden
<1> QED BY <1>1, <1>2, <1>3, <1>4, <1>5 DEF Step

\* A step of the abstract specification, before the class is looked at.
Shows ==
    \/ Contents!Construct \/ Contents!Move \/ Contents!PushFront \/ Contents!PushBack
    \/ Contents!Pop \/ Contents!Start \/ Contents!BySize \/ Contents!Finish

LEMMA StepShowsOne ==
    ASSUME IInv, LoopInv, ContentIs, CopyIsWhole, IInv', ContentIs', CopyIsWhole', [Next]_vars
    PROVE  Shows \/ Hidden
<1>1. PICK ow, ps : Inv(heap, obj, call, ow, ps)
  BY DEF IInv
<1>2. HeapOK(heap')
  BY DEF IInv, Inv, Shape
<1>3. CASE UNCHANGED vars
  <2>1. Content' = Content
    BY <1>3 DEF vars, Content, Shown, Alive, From
  <2>2. Running' = Running /\ answer' = answer
    BY <1>3 DEF vars, Running
  <2> QED BY <2>1, <2>2 DEF Hidden
<1>4. CASE crashed' = crashed /\ Next
  <2>1. Both(ow, ps)
    BY <1>1, <1>4 DEF Both
  <2>2. CASE Step
    BY <1>2, <2>1, <2>2, StepShows DEF Shows
  <2>3. ASSUME NEW l \in Objects, Construct(l) \/ Destroy(l) \/ Pop(l)
        PROVE  Shows \/ Hidden
    BY <1>1, <2>1, <2>3, ConstructShows, DestroyShows, PopShows DEF Shows
  <2>4. ASSUME NEW l \in Objects, NEW from \in Objects,
               \/ CopyConstruct(l, from) \/ CopyAssign(l, from)
               \/ MoveConstruct(l, from) \/ MoveAssign(l, from) \/ Equal(l, from)
        PROVE  Shows
    BY <2>1, <2>4, CopyConstructShows, CopyAssignShows, MoveShows, EqualShows DEF Shows
  <2>5. ASSUME NEW l \in Objects, NEW key \in Keys,
               \/ PushFront(l, key)
               \/ \E val \in Given :
                     \/ PushBack(l, key, val)
                     \/ \E ord \in {"Asc", "Des"} : PushOrd(l, key, ord, val)
        PROVE  Shows
    BY <2>1, <2>5, PushFrontShows, PushBackShows, PushOrdShows DEF Shows
  <2>6. ASSUME NEW l \in Objects, NEW key \in Keys, NEW op \in Searches[kind], NEW val,
               Search(op, l, key, val)
        PROVE  Shows
    BY <2>1, <2>6, SearchShows DEF Shows, IInv
  <2>7. ASSUME NEW l \in Objects, NEW index, GetAt(l, index)
        PROVE  Shows
    BY <2>1, <2>7, GetAtShows DEF Shows
  <2> QED BY <1>4, <2>2, <2>3, <2>4, <2>5, <2>6, <2>7 DEF Next
<1>5. CASE crashed' # crashed
  <2>1. PICK l \in DOMAIN obj : Pop(l)
    BY <1>5, IInvKept
  <2> QED BY <1>1, <2>1, PopShows DEF Shows
<1> QED BY <1>3, <1>4, <1>5

\* The class of the lists never changes.
LEMMA KindStays == [Next]_vars => kind' = kind
<1>1. Step => kind' = kind
  BY DEF Step, Walk, Insert, InsertUpdate, Update, Get, DeleteKey, FrePush, FrePop, CortinaAppend, OrdPushed,
     AtIndex, Compared, CopyNode, Copied, FreeNode, Destroyed, Fault, Push, Drop, Return
<1>2. \A l, from : CopyConstruct(l, from) \/ CopyAssign(l, from) \/ MoveConstruct(l, from)
                  \/ MoveAssign(l, from) \/ Equal(l, from) => kind' = kind
  BY DEF CopyConstruct, CopyAssign, MoveConstruct, MoveAssign, Equal
<1>3. \A l : Construct(l) \/ Destroy(l) \/ Pop(l) => kind' = kind
  BY DEF Construct, Destroy, Pop, Fault, Done
<1>4. \A l, key : PushFront(l, key) => kind' = kind
  BY DEF PushFront, Fault, Done
<1>5. \A l, key, val : PushBack(l, key, val) => kind' = kind
  BY DEF PushBack, Fault, Done
<1>6. \A l, key, ord, val : PushOrd(l, key, ord, val) => kind' = kind
  BY DEF PushOrd
<1>7. \A op, l, key, val : Search(op, l, key, val) => kind' = kind
  BY DEF Search
<1>8. \A l, index : GetAt(l, index) => kind' = kind
  BY DEF GetAt
<1>9. Next => kind' = kind
  BY <1>1, <1>2, <1>3, <1>4, <1>5, <1>6, <1>7, <1>8 DEF Next
<1> QED BY <1>9 DEF vars

LEMMA NextShows ==
    ASSUME IInv, LoopInv, ContentIs, CopyIsWhole, IInv', ContentIs', CopyIsWhole', [Next]_vars
    PROVE  Contents!Next \/ UNCHANGED Contents!vars
<1>1. Shows \/ Hidden
  BY StepShowsOne
<1>2. kind' = kind
  BY KindStays
<1> QED BY <1>1, <1>2 DEF Shows, Hidden, Contents!Next, Contents!vars

LEMMA InitShows == Init => Contents!Init
<1> SUFFICES ASSUME Init PROVE Contents!Init
  OBVIOUS
<1>1. Alive = {} /\ call = NoCall /\ answer = Nothing
  BY IdleCall DEF Init, Alive
<1>2. Content = [l \in {} |-> <<>>]
  BY <1>1 DEF Content
<1>3. kind \in {"map", "fre", "cortina", "list"}
  BY DEF Init, Kinds
<1> QED BY <1>1, <1>2, <1>3, RunningIs DEF Contents!Init, Nothing

(* The lists implement plain sequences: every call but pop_front does to   *)
(* the sequence of entries, and answers, what its name says, in the step   *)
(* that returns; pop_front takes the last entry.                           *)
THEOREM ContentsStay == Spec => ContentsAreKept
<1>1. Init => Contents!Init
  BY InitShows
<1>2. /\ IInv /\ LoopInv /\ ContentIs /\ CopyIsWhole
      /\ IInv' /\ LoopInv' /\ ContentIs' /\ CopyIsWhole' /\ [Next]_vars
      => [Contents!Next]_Contents!vars
  BY NextShows
<1>3. IInv /\ LoopInv => ContentIs /\ CopyIsWhole
  BY ContentsAre
<1> QED BY <1>1, <1>2, <1>3, Invariance, LoopInvariance, PTL DEF Spec, ContentsAreKept, Contents!Spec

-----------------------------------------------------------------------------
(* The nodes that nothing leads to. *)

\* What is left of a list under destruction is what its destructor still reaches.
LEMMA RestIs ==
    ASSUME NEW ow, NEW ps, HeapOK(heap), ObjOK(obj), call.op = "destroy",
           DestroyOK(heap, obj, call, ow, ps)
    PROVE  NodesFrom(call.cur) = NodesOwned(heap, ow, call.on)
<1> DEFINE l == call.on
           c == call.cur
           size == obj[l].size
           q == IF c = Null THEN size ELSE ps[c] - 1
           k == size - q
           g == [i \in 1 .. k |-> NodeAt(heap, ow, ps, l, q + i)]
           W == [i \in 1 .. Limit + 1 |-> IF i <= k THEN g[i] ELSE Null]
<1>1. /\ size \in Nat /\ Limit \in Nat /\ IsFiniteSet(Nodes)
      /\ Null \notin DOMAIN heap /\ DOMAIN heap \subseteq Nodes
  BY LimitIsNat, NullIsNoNode, ListAssumption DEF DestroyOK, ObjOK, IsList, HeapOK
<1>2. /\ \A n \in DOMAIN heap : ow[n] = l => ps[n] \in Int /\ 1 <= ps[n] /\ ps[n] <= size
      /\ \A n \in DOMAIN heap : ow[n] = l =>
            IF ps[n] = size THEN heap[n].next = Null ELSE Stands(heap, ow, ps, heap[n].next, l, ps[n] + 1)
      /\ \A n, m \in DOMAIN heap : ow[n] = l /\ ow[m] = l /\ ps[n] = ps[m] => n = m
      /\ IF c = Null THEN \A n \in DOMAIN heap : ow[n] # l
         ELSE /\ c \in DOMAIN heap /\ ow[c] = l
              /\ \A n \in DOMAIN heap : ow[n] = l => ps[n] >= ps[c]
  BY DEF DestroyOK, InRange, Forward, OneEach
<1> HIDE DEF l, c, size
<1>3. /\ q \in Nat /\ k \in Nat
      /\ IF c = Null THEN k = 0 ELSE k # 0 /\ Stands(heap, ow, ps, c, l, q + 1)
      /\ \A n \in DOMAIN heap : ow[n] = l => ps[n] - q \in 1 .. k /\ ps[n] = q + (ps[n] - q)
  <2>1. CASE c = Null
    BY <1>1, <1>2, <2>1
  <2>2. CASE c # Null
    <3>1. ps[c] \in Int /\ 1 <= ps[c] /\ ps[c] <= size /\ ow[c] = l /\ c \in DOMAIN heap
      BY <1>2, <2>2
    <3>2. \A n \in DOMAIN heap : ow[n] = l =>
             ps[n] \in Int /\ ps[n] >= ps[c] /\ ps[n] <= size
      BY <1>2, <2>2
    <3> QED BY <1>1, <2>2, <3>1, <3>2 DEF Stands
  <2> QED BY <2>1, <2>2
<1>4. size = q + k
  BY <1>1, <1>3
<1> HIDE DEF q, k
<1>5. \A i \in 1 .. k : \E n \in DOMAIN heap : ow[n] = l /\ ps[n] = q + i
  <2> DEFINE S == {i \in Nat : i + 1 <= k => \E n \in DOMAIN heap : ow[n] = l /\ ps[n] = q + (i + 1)}
  <2>1. 0 \in S
    BY <1>3 DEF Stands
  <2>2. ASSUME NEW i \in Nat, i \in S PROVE i + 1 \in S
    <3> SUFFICES ASSUME (i + 1) + 1 <= k
                 PROVE  \E n \in DOMAIN heap : ow[n] = l /\ ps[n] = q + ((i + 1) + 1)
      OBVIOUS
    <3>1. i + 1 <= k
      BY <1>3
    <3>2. PICK n \in DOMAIN heap : ow[n] = l /\ ps[n] = q + (i + 1)
      BY <2>2, <3>1
    <3>3. ps[n] # size /\ ps[n] + 1 = q + ((i + 1) + 1)
      BY <1>3, <1>4, <3>2
    <3>4. Stands(heap, ow, ps, heap[n].next, l, ps[n] + 1)
      BY <1>2, <3>2, <3>3
    <3> QED BY <3>3, <3>4 DEF Stands
  <2>3. Nat \subseteq S
    <3> HIDE DEF S
    <3> QED BY <2>1, <2>2, EveryNumber
  <2> SUFFICES ASSUME NEW i \in 1 .. k PROVE \E n \in DOMAIN heap : ow[n] = l /\ ps[n] = q + i
    OBVIOUS
  <2>4. i - 1 \in Nat /\ (i - 1) + 1 = i /\ i <= k
    BY <1>3
  <2>5. i - 1 \in S
    BY <2>3, <2>4
  <2> QED BY <2>4, <2>5
<1>6. \A i \in 1 .. k : g[i] \in DOMAIN heap /\ ow[g[i]] = l /\ ps[g[i]] = q + i
  <2> SUFFICES ASSUME NEW i \in 1 .. k
               PROVE  g[i] \in DOMAIN heap /\ ow[g[i]] = l /\ ps[g[i]] = q + i
    OBVIOUS
  <2>1. g[i] = CHOOSE n \in DOMAIN heap : ow[n] = l /\ ps[n] = q + i
    BY DEF NodeAt
  <2>2. \E n \in DOMAIN heap : ow[n] = l /\ ps[n] = q + i
    BY <1>5
  <2> HIDE DEF g
  <2> QED BY <2>1, <2>2
<1>7. \A n \in DOMAIN heap : ow[n] = l => ps[n] - q \in 1 .. k /\ g[ps[n] - q] = n
  <2> HIDE DEF g
  <2> SUFFICES ASSUME NEW n \in DOMAIN heap, ow[n] = l PROVE ps[n] - q \in 1 .. k /\ g[ps[n] - q] = n
    OBVIOUS
  <2>1. PICK i \in 1 .. k : i = ps[n] - q /\ ps[n] = q + i
    BY <1>3
  <2>2. g[i] = n
    BY <1>2, <1>6, <2>1
  <2> QED BY <2>1, <2>2
<1>8. k <= Limit
  <2>1. IsFiniteSet(1 .. k) /\ Cardinality(1 .. k) = k
    <3>1. k \in Int /\ 1 \in Int /\ (IF 1 > k THEN 0 ELSE k - 1 + 1) = k
      BY <1>3
    <3> QED BY <3>1, FS_Interval
  <2>2. g \in [1 .. k -> Nodes]
    <3>1. g = [i \in 1 .. k |-> g[i]]
      OBVIOUS
    <3> HIDE DEF g
    <3> QED BY <1>1, <1>6, <3>1
  <2> HIDE DEF g, W
  <2>3. ~ (Limit < k)
    <3> SUFFICES ASSUME Limit < k PROVE FALSE
      OBVIOUS
    <3>3. \E x, y \in 1 .. k : x # y /\ g[x] = g[y]
      <4>1. IsFiniteSet(Nodes) /\ Cardinality(Nodes) < Cardinality(1 .. k)
        BY <1>1, <2>1 DEF Limit
      <4>2. \A S, T : \A f \in [S -> T] :
               IsFiniteSet(S) /\ IsFiniteSet(T) /\ Cardinality(T) < Cardinality(S)
                 => \E x, y \in S : x # y /\ f[x] = f[y]
        BY FS_PigeonHole
      <4>3. PICK f, K : f = g /\ K = 1 .. k
        OBVIOUS
      <4>4. f \in [K -> Nodes] /\ IsFiniteSet(K) /\ Cardinality(Nodes) < Cardinality(K)
        BY <2>1, <2>2, <4>1, <4>3
      <4>5. \E x, y \in K : x # y /\ f[x] = f[y]
        BY <4>1, <4>2, <4>4
      <4> QED BY <4>3, <4>5
    <3>1. PICK x, y \in 1 .. k : x # y /\ g[x] = g[y]
      BY <3>3
    <3>2. q + x = q + y
      BY <1>6, <3>1
    <3> QED BY <1>3, <3>1, <3>2
  <2> QED BY <1>1, <1>3, <2>3
<1>9. LeadsThrough(heap, c, k, g)
  <2>1. c = IF k = 0 THEN Null ELSE g[1]
    <3>1. CASE c = Null
      BY <1>3, <3>1
    <3>2. CASE c # Null
      <4>1. ps[c] - q = 1 /\ c \in DOMAIN heap /\ ow[c] = l /\ k # 0
        BY <1>3, <3>2 DEF Stands
      <4> HIDE DEF g
      <4> QED BY <1>7, <4>1
    <3> QED BY <3>1, <3>2
  <2>2. ASSUME NEW i \in 1 .. k
        PROVE  g[i] \in DOMAIN heap /\ heap[g[i]].next = IF i = k THEN Null ELSE g[i + 1]
    <3>1. g[i] \in DOMAIN heap /\ ow[g[i]] = l /\ ps[g[i]] = q + i
      BY <1>6
    <3> HIDE DEF g
    <3>2. CASE i = k
      BY <1>2, <1>4, <3>1, <3>2
    <3>3. CASE i # k
      <4>1. ps[g[i]] # size
        BY <1>3, <1>4, <3>1, <3>3
      <4>2. Stands(heap, ow, ps, heap[g[i]].next, l, ps[g[i]] + 1)
        BY <1>2, <3>1, <4>1
      <4>3. (ps[g[i]] + 1) - q = i + 1
        BY <1>3, <3>1
      <4> QED BY <1>7, <3>1, <3>3, <4>2, <4>3 DEF Stands
    <3> QED BY <3>2, <3>3
  <2> HIDE DEF g
  <2> QED BY <2>1, <2>2 DEF LeadsThrough
<1>10. From(c) = W
  <2> HIDE DEF g
  <2>1. FromIn(heap, c) = W
    BY <1>1, <1>3, <1>9, FromIs
  <2> QED BY <2>1, FromHeap
<1>11. NodesFrom(c) = {W[i] : i \in 1 .. Limit} \cap DOMAIN heap
  BY <1>10 DEF NodesFrom, Limit
<1>12. ASSUME NEW n \in DOMAIN heap PROVE n \in {W[i] : i \in 1 .. Limit} <=> ow[n] = l
  <2>1. ASSUME NEW i \in 1 .. Limit, W[i] = n PROVE ow[n] = l
    <3>1. i <= k /\ W[i] = g[i] /\ i \in 1 .. k
      BY <1>1, <1>3, <2>1
    <3> HIDE DEF g, W
    <3> QED BY <1>6, <2>1, <3>1
  <2>2. ASSUME ow[n] = l PROVE \E i \in 1 .. Limit : W[i] = n
    <3>1. PICK i \in 1 .. k : g[i] = n
      <4> HIDE DEF g
      <4> QED BY <1>7, <2>2
    <3>2. i \in 1 .. Limit /\ W[i] = g[i]
      BY <1>1, <1>3, <1>8
    <3> HIDE DEF W, g
    <3> QED BY <3>1, <3>2
  <2> HIDE DEF W
  <2> QED BY <2>1, <2>2
<1> HIDE DEF W
<1> QED BY <1>11, <1>12 DEF NodesOwned, c, l

Unowned(h, ow) == {n \in DOMAIN h : ow[n] = Null}

\* Nothing leads to the nodes without an owner, and to no others.
LEMMA LeakedIs ==
    \A ow, ps : Inv(heap, obj, call, ow, ps) => Leaked = Unowned(heap, ow)
<1> SUFFICES ASSUME NEW ow, NEW ps, Inv(heap, obj, call, ow, ps) PROVE Leaked = Unowned(heap, ow)
  OBVIOUS
<1>1. HeapOK(heap) /\ ObjOK(obj) /\ Links(heap, obj, Alive, ow, ps) /\ Alive = AliveOf(obj, call)
  BY DEF Inv, Shape, Alive, AliveOf
<1>2. \A l \in Alive : NodesOf(l) = NodesOwned(heap, ow, l)
  BY <1>1, OrderFrom
<1>3. Null \notin DOMAIN obj /\ \A n \in DOMAIN heap : ow[n] \in DOMAIN obj \cup {Null}
  BY <1>1, ListAssumption DEF ObjOK, Inv, Shape, OwnersOK
<1>4. \A n \in DOMAIN heap : n \in HeldByLists <=> ow[n] \in Alive
  BY <1>2 DEF NodesOwned, HeldByLists
<1>5. CASE call.op # "destroy"
  <2>1. Alive = DOMAIN obj /\ HeldByDestructor = {}
    BY <1>5 DEF Alive, HeldByDestructor
  <2> QED BY <1>3, <1>4, <2>1 DEF Unowned, Leaked
<1>6. CASE call.op = "destroy"
  <2>1. NodesFrom(call.cur) = NodesOwned(heap, ow, call.on) /\ call.on \in DOMAIN obj
    BY <1>1, <1>6, RestIs DEF Inv, CallOK, DestroyOK
  <2>2. HeldByDestructor = NodesFrom(call.cur)
    BY <1>6 DEF HeldByDestructor
  <2>3. Alive = DOMAIN obj \ {call.on}
    BY <1>6 DEF Alive
  <2>4. \A n \in DOMAIN heap : n \in HeldByDestructor <=> ow[n] = call.on
    BY <2>1, <2>2 DEF NodesOwned
  <2>5. \A n \in DOMAIN heap : ow[n] = Null <=> ow[n] \notin Alive /\ ow[n] # call.on
    BY <1>3, <2>1, <2>3
  <2> QED BY <1>4, <2>4, <2>5 DEF Unowned, Leaked
<1> QED BY <1>5, <1>6

LEMMA LeakedNext ==
    \A ow, ps : Inv(heap', obj', call', ow, ps) => Leaked' = Unowned(heap', ow)
<1>1. (\A ow, ps : Inv(heap, obj, call, ow, ps) => Leaked = Unowned(heap, ow))'
  BY LeakedIs, PTL
<1> QED BY <1>1

(* Every node is deleted in the end: the only call that loses nodes is the *)
(* move assignment of KeyValueList to a list that is not empty             *)
(* (linkedList.hpp 477-486).                                               *)
THEOREM MoveAssignLeaksAlone == Spec => OnlyMoveAssignLeaks
<1>1. ASSUME IInv, [Next]_vars PROVE Leaked' \subseteq Leaked \/ LosesList
  <2>1. PICK ow, ps : Inv(heap, obj, call, ow, ps)
    BY <1>1 DEF IInv
  <2>2. Kept(ow)
    BY <1>1, <2>1, NextOK DEF IInv
  <2>3. PICK w, q : Inv(heap', obj', call', w, q) /\ (NoneLost(ow, w) \/ LosesList)
    BY <2>2 DEF Kept
  <2>4. Leaked = Unowned(heap, ow) /\ Leaked' = Unowned(heap', w)
    BY <2>1, <2>3, LeakedIs, LeakedNext
  <2>5. NoneLost(ow, w) => Unowned(heap', w) \subseteq Unowned(heap, ow)
    BY DEF NoneLost, Unowned
  <2> QED BY <2>3, <2>4, <2>5
<1>2. IInv /\ [Next]_vars
        => [Leaked' \subseteq Leaked \/ \E l, from \in DOMAIN obj : MoveAssign(l, from) /\ obj[l].size > 0]_vars
  BY <1>1 DEF LosesList
<1>3. Spec => [][Leaked' \subseteq Leaked \/ \E l, from \in DOMAIN obj : MoveAssign(l, from) /\ obj[l].size > 0]_vars
  BY <1>2, Invariance, PTL DEF Spec
<1> QED BY <1>3 DEF OnlyMoveAssignLeaks

-----------------------------------------------------------------------------
(* Keys.  What no call but a copy does to the keys of a list shows in the  *)
(* abstract steps; a copy into an empty list is a part of its source.      *)

Unique(s) == \A i, j \in DOMAIN s : s[i].key = s[j].key => i = j

AllUnique(c) == \A l \in DOMAIN c : Unique(c[l])

\* A row of entries.
IsKeyed(s, k) == IsRow(s, k) /\ \A i \in 1 .. k : \E key, val : s[i] = [key |-> key, val |-> val]

LEMMA UniqueRow ==
    ASSUME NEW k, NEW s, IsRow(s, k)
    PROVE  Unique(s) <=> \A i, j \in 1 .. k : s[i].key = s[j].key => i = j
BY RowLen DEF Unique

LEMMA AppendKeeps ==
    ASSUME NEW k, NEW s, IsRow(s, k), Unique(s), NEW key, ~ Contents!Has(s, key), NEW val
    PROVE  Unique(Append(s, Contents!Entry(key, val)))
<1> DEFINE e == Contents!Entry(key, val)
           t == PutAt(s, k, k + 1, e)
<1>1. k \in Nat /\ e.key = key /\ Append(s, e) = t /\ IsRow(t, k + 1)
  <2>1. e.key = key
    BY DEF Contents!Entry
  <2>2. k \in Nat
    BY DEF IsRow
  <2> HIDE DEF e
  <2>3. Append(s, e) = t /\ IsRow(t, k + 1)
    BY EndsAre, PutIsRow
  <2> QED BY <2>1, <2>2, <2>3
<1>2. /\ \A i, j \in 1 .. k : s[i].key = s[j].key => i = j
      /\ \A i \in 1 .. k : s[i].key # key
  BY UniqueRow, RowLen DEF Contents!Has
<1>3. \A i \in 1 .. k + 1 : t[i] = IF i = k + 1 THEN e ELSE s[i]
  BY <1>1 DEF PutAt
<1> HIDE DEF t, e
<1>4. \A i, j \in 1 .. k + 1 : t[i].key = t[j].key => i = j
  BY <1>1, <1>2, <1>3
<1>5. Unique(t)
  BY <1>1, <1>4, UniqueRow
<1> QED BY <1>1, <1>5 DEF e

LEMMA WithoutKeeps ==
    ASSUME NEW k, NEW s, IsRow(s, k), Unique(s), NEW p \in 1 .. k
    PROVE  Unique(Contents!Without(s, p))
<1> DEFINE t == DropAt(s, k, p)
<1>1. k \in Nat /\ Contents!Without(s, p) = t
  BY WithoutIs DEF IsRow
<1>2. \A i, j \in 1 .. k : s[i].key = s[j].key => i = j
  BY UniqueRow
<1>3. DOMAIN t = 1 .. k - 1 /\ \A i \in 1 .. k - 1 : t[i] = IF i < p THEN s[i] ELSE s[i + 1]
  BY DEF DropAt
<1> HIDE DEF t
<1>4. \A i, j \in 1 .. k - 1 : t[i].key = t[j].key => i = j
  BY <1>1, <1>2, <1>3
<1>5. Unique(t)
  BY <1>3, <1>4 DEF Unique
<1> QED BY <1>1, <1>5

LEMMA ValueKeeps ==
    ASSUME NEW k, NEW s, IsKeyed(s, k), Unique(s), NEW p \in 1 .. k, NEW val
    PROVE  Unique(WithVal(s, p, val))
<1>1. IsRow(s, k)
  BY DEF IsKeyed
<1>2. PICK key, old : s[p] = [key |-> key, val |-> old]
  BY DEF IsKeyed
<1> DEFINE t == [s EXCEPT ![p] = [key |-> key, val |-> val]]
<1>3. WithVal(s, p, val) = t
  BY <1>1, <1>2, ValueChanged
<1>4. DOMAIN t = DOMAIN s /\ \A i \in DOMAIN s : t[i].key = s[i].key
  BY <1>2
<1> HIDE DEF t
<1>5. Unique(t)
  BY <1>4 DEF Unique
<1> QED BY <1>3, <1>5

LEMMA AtFound ==
    ASSUME NEW k, NEW s, IsRow(s, k), NEW key, Contents!Has(s, key)
    PROVE  Contents!At(s, key) \in 1 .. k
<1> DEFINE S == {i \in Nat : i \in 1 .. k => \A j \in 1 .. i : s[j].key # key}
<1>1. DOMAIN s = 1 .. k /\ k \in Nat
  BY RowLen DEF IsRow
<1>2. \E i \in 1 .. k : s[i].key = key /\ \A j \in 1 .. i - 1 : s[j].key # key
  <2> SUFFICES ASSUME \A i \in 1 .. k : s[i].key = key => \E j \in 1 .. i - 1 : s[j].key = key
               PROVE  FALSE
    OBVIOUS
  <2>1. 0 \in S
    OBVIOUS
  <2>2. ASSUME NEW i \in Nat, i \in S PROVE i + 1 \in S
    BY <1>1, <2>2
  <2> HIDE DEF S
  <2>3. Nat \subseteq S
    BY <2>1, <2>2, EveryNumber
  <2>4. PICK i \in 1 .. k : s[i].key = key
    BY <1>1 DEF Contents!Has
  <2>5. i \in S /\ i \in 1 .. i
    BY <1>1, <2>3
  <2> QED BY <2>4, <2>5 DEF S
<1> QED BY <1>1, <1>2 DEF Contents!At

\* One list of a content changes.
LEMMA OneUnique ==
    ASSUME NEW c, AllUnique(c), NEW l, NEW s, Unique(s)
    PROVE  AllUnique([c EXCEPT ![l] = s])
BY DEF AllUnique

LEMMA FoundKeeps ==
    ASSUME NEW k, NEW s, IsKeyed(s, k), Unique(s), AllUnique(Content), NEW i \in 1 .. k,
           call.op \in KeyOps, Contents!OnFound(s, i)
    PROVE  AllUnique(Content')
<1>1. IsRow(s, k)
  BY DEF IsKeyed
<1>2. ASSUME NEW t, Unique(t), NEW r, Contents!Becomes(t, r) PROVE AllUnique(Content')
  <2>1. Content' = [Content EXCEPT ![Running.on] = t]
    BY <1>2 DEF Contents!Becomes
  <2> QED BY <1>2, <2>1, OneUnique
<1>3. Unique(Contents!Without(s, i)) /\ \A val : Unique(WithVal(s, i, val))
  BY <1>1, WithoutKeeps, ValueKeeps
<1>4. \A r : Contents!Tells(r) => AllUnique(Content')
  BY DEF Contents!Tells
<1>5. CASE call.op \in {"insert", "get"}
  BY <1>4, <1>5, RunningIs DEF Contents!OnFound
<1>6. CASE call.op \in {"insert_update", "update"}
  <2>1. \E r : Contents!Becomes([s EXCEPT ![i].val = Contents!Assigned(@, call.val)], r)
    BY <1>6, RunningIs DEF Contents!OnFound
  <2>2. [s EXCEPT ![i].val = Contents!Assigned(@, call.val)]
            = WithVal(s, i, Contents!Assigned(s[i].val, call.val))
    BY DEF WithVal
  <2> QED BY <1>2, <1>3, <2>1, <2>2
<1>7. CASE call.op = "push"
  <2>1. \E r : Contents!Becomes([s EXCEPT ![i].val = @ + 1], r)
    BY <1>7, RunningIs DEF Contents!OnFound
  <2>2. [s EXCEPT ![i].val = @ + 1] = WithVal(s, i, s[i].val + 1)
    BY DEF WithVal
  <2> QED BY <1>2, <1>3, <2>1, <2>2
<1>8. CASE call.op = "append"
  <2>1. \E r : Contents!Becomes([s EXCEPT ![i].val = Append(@, call.val)], r)
    BY <1>8, RunningIs DEF Contents!OnFound
  <2>2. [s EXCEPT ![i].val = Append(@, call.val)] = WithVal(s, i, Append(s[i].val, call.val))
    BY DEF WithVal
  <2> QED BY <1>2, <1>3, <2>1, <2>2
<1>9. CASE call.op = "delete_key"
  <2>1. \E r : Contents!Becomes(Contents!Without(s, i), r)
    BY <1>9, RunningIs DEF Contents!OnFound
  <2> QED BY <1>2, <1>3, <2>1
<1>10. CASE call.op = "pop"
  <2>1. \E r : \/ Contents!Becomes([s EXCEPT ![i].val = @ - 1], r)
               \/ Contents!Becomes(Contents!Without(s, i), r)
    BY <1>10, RunningIs DEF Contents!OnFound
  <2>2. [s EXCEPT ![i].val = @ - 1] = WithVal(s, i, s[i].val - 1)
    BY DEF WithVal
  <2> QED BY <1>2, <1>3, <2>1, <2>2
<1> QED BY <1>5, <1>6, <1>7, <1>8, <1>9, <1>10 DEF KeyOps

LEMMA MissingKeeps ==
    ASSUME NEW k, NEW s, IsRow(s, k), Unique(s), AllUnique(Content), ~ Contents!Has(s, call.key),
           call.op \in KeyOps, Contents!OnMissing(s)
    PROVE  AllUnique(Content')
<1>1. ASSUME NEW val, NEW r, Contents!Becomes(Append(s, Contents!Entry(call.key, val)), r)
      PROVE  AllUnique(Content')
  <2> DEFINE t == Append(s, Contents!Entry(call.key, val))
  <2>1. Unique(t)
    BY AppendKeeps
  <2>2. Content' = [Content EXCEPT ![Running.on] = t]
    BY <1>1 DEF Contents!Becomes
  <2> HIDE DEF t
  <2> QED BY <2>1, <2>2, OneUnique
<1>2. \A r : Contents!Tells(r) => AllUnique(Content')
  BY DEF Contents!Tells
<1>3. CASE call.op \in {"insert", "insert_update"}
  <2>1. \E r : Contents!Becomes(Append(s, Contents!Entry(call.key, call.val)), r)
    BY <1>3, RunningIs DEF Contents!OnMissing
  <2> QED BY <1>1, <2>1
<1>4. CASE call.op \in {"update", "delete_key", "get", "pop"}
  BY <1>2, <1>4, RunningIs DEF Contents!OnMissing
<1>5. CASE call.op \in {"push", "append"}
  <2>1. \E v, r : Contents!Becomes(Append(s, Contents!Entry(call.key, v)), r)
    BY <1>5, RunningIs DEF Contents!OnMissing
  <2> QED BY <1>1, <2>1
<1> QED BY <1>3, <1>4, <1>5 DEF KeyOps

\* The end of a call that is no copy.
LEMMA FinishKeeps ==
    ASSUME Contents!Finish, AllUnique(Content), NEW k, IsKeyed(Content[call.on], k), call.on \in DOMAIN Content,
           call.op \in KeyOps \cup {"get_at", "equal"}
    PROVE  AllUnique(Content')
<1> DEFINE s == Content[call.on]
<1>1. Unique(s) /\ IsRow(s, k)
  BY DEF AllUnique, IsKeyed
<1>2. call.op \notin {"destroy", "copy", "push_ord"}
  BY DEF KeyOps
<1>3. CASE call.op \in {"get_at", "equal"}
  BY <1>3, RunningIs DEF Contents!Finish, Contents!Tells
<1>4. CASE call.op \in KeyOps
  <2>1. call.op \notin {"get_at", "equal"}
    BY <1>4 DEF KeyOps
  <2>2. IF Contents!Has(s, call.key) THEN Contents!OnFound(s, Contents!At(s, call.key))
                                     ELSE Contents!OnMissing(s)
    BY <1>2, <2>1, RunningIs DEF Contents!Finish
  <2>3. IsKeyed(s, k)
    OBVIOUS
  <2> HIDE DEF s
  <2>4. CASE Contents!Has(s, call.key)
    <3>1. PICK i \in 1 .. k : i = Contents!At(s, call.key)
      BY <1>1, <2>4, AtFound
    <3>2. Contents!OnFound(s, i)
      BY <2>2, <2>4, <3>1
    <3> QED BY <1>1, <1>4, <2>3, <3>2, FoundKeeps
  <2>5. CASE ~ Contents!Has(s, call.key)
    BY <1>1, <1>4, <2>2, <2>5, MissingKeeps
  <2> QED BY <2>4, <2>5
<1> QED BY <1>3, <1>4

-----------------------------------------------------------------------------
\* The keys of a list repeat if its entries do.
LEMMA RepeatsIs ==
    \A ow, ps : Inv(heap, obj, call, ow, ps) =>
        \A l \in Alive : /\ ~ Repeats(l) <=> Unique(Entries(l))
                         /\ IsKeyed(Entries(l), obj[l].size)
<1> SUFFICES ASSUME NEW ow, NEW ps, Inv(heap, obj, call, ow, ps), NEW l \in Alive
             PROVE  /\ ~ Repeats(l) <=> Unique(Entries(l))
                    /\ IsKeyed(Entries(l), obj[l].size)
  OBVIOUS
<1> DEFINE k == obj[l].size
           s == Entries(l)
           g == Order(l)
<1>1. HeapOK(heap) /\ ObjOK(obj) /\ Links(heap, obj, Alive, ow, ps) /\ Alive = AliveOf(obj, call)
  BY InvGives DEF Alive, AliveOf
<1>2. Ordered /\ IsRow(s, k)
  BY <1>1, InvGives, OrderFacts
<1>3. \A i \in 1 .. k : g[i] \in DOMAIN heap /\ s[i] = EntryOf(g[i])
  BY <1>2, EntriesOf
<1>4. \A i, j \in 1 .. k : g[i] = g[j] => i = j
  BY <1>2 DEF Ordered
<1>5. \A n : n \in NodesOf(l) <=> \E i \in 1 .. k : g[i] = n
  <2>1. NodesOf(l) = NodesOwned(heap, ow, l)
    BY <1>1, OrderFrom
  <2>2. \A i \in 1 .. k : ow[g[i]] = l
    BY <1>1, ListsInOrder
  <2>3. \A n \in DOMAIN heap : ow[n] = l => ps[n] \in 1 .. k /\ g[ps[n]] = n
    BY <1>1, ListsInOrder
  <2> HIDE DEF g, k
  <2> QED BY <1>3, <2>1, <2>2, <2>3 DEF NodesOwned
<1>6. Unique(s) <=> \A i, j \in 1 .. k : s[i].key = s[j].key => i = j
  BY <1>2, UniqueRow
<1>7. \A i \in 1 .. k : s[i].key = heap[g[i]].key
  <2>1. \A n : EntryOf(n).key = heap[n].key
    BY DEF EntryOf
  <2> HIDE DEF s, g, k
  <2> QED BY <1>3, <2>1
<1>8. IsKeyed(s, k)
  BY <1>2, <1>3 DEF IsKeyed, EntryOf
<1> HIDE DEF s, g, k
<1>9. Unique(s) <=> \A i, j \in 1 .. k : heap[g[i]].key = heap[g[j]].key => g[i] = g[j]
  BY <1>4, <1>6, <1>7
<1>10. Repeats(l) <=> \E i, j \in 1 .. k : g[i] # g[j] /\ heap[g[i]].key = heap[g[j]].key
  BY <1>5 DEF Repeats
<1>11. ~ Repeats(l) <=> Unique(s)
  BY <1>9, <1>10
<1> QED BY <1>8, <1>11 DEF s, k

\* No list that lives has a key twice.
KeysOnce == \A l \in Alive : Unique(Entries(l))

LEMMA KeysOnceIs == IInv => ((\A l \in Alive : ~ Repeats(l)) <=> KeysOnce)
BY RepeatsIs DEF IInv, KeysOnce

LEMMA KeysOnceNext == IInv' => ((\A l \in Alive : ~ Repeats(l))' <=> KeysOnce')
<1>1. (IInv => ((\A l \in Alive : ~ Repeats(l)) <=> KeysOnce))'
  BY KeysOnceIs, PTL
<1> QED BY <1>1

\* What shows is what is there, unless a list is being copied.
LEMMA KeysShow ==
    ASSUME ContentIs, call.op # "copy" PROVE KeysOnce <=> AllUnique(Content)
<1>1. DOMAIN Content = Alive /\ \A l \in Alive : Content[l] = Entries(l)
  BY DEF ContentIs, Copying
<1> QED BY <1>1 DEF KeysOnce, AllUnique

LEMMA KeysShowNext ==
    ASSUME ContentIs', call'.op # "copy" PROVE KeysOnce' <=> AllUnique(Content')
<1>1. DOMAIN Content' = Alive' /\ \A l \in Alive' : Content'[l] = Entries(l)'
  BY DEF ContentIs, Copying
<1> QED BY <1>1 DEF KeysOnce, AllUnique

LEMMA NoneUnique == Unique(<<>>)
BY DEF Unique

\* The steps between two calls: the lists change their owner, or stay.
LEMMA MoveKeepsKeys ==
    ASSUME AllUnique(Content), Contents!Construct \/ Contents!Move \/ Contents!BySize
    PROVE  AllUnique(Content')
<1>1. ASSUME NEW l, NEW s, Unique(s) PROVE AllUnique(Contents!New(l, s))
  BY <1>1 DEF Contents!New, AllUnique
<1>2. CASE Contents!Construct
  BY <1>1, <1>2, NoneUnique DEF Contents!Construct
<1>3. CASE Contents!Move
  <2>1. PICK l, from : /\ from \in DOMAIN Content
                       /\ Content' = [Contents!New(l, Content[from]) EXCEPT ![from] = <<>>]
    BY <1>3 DEF Contents!Move
  <2>2. AllUnique(Contents!New(l, Content[from]))
    BY <1>1, <2>1 DEF AllUnique
  <2> QED BY <2>1, <2>2, NoneUnique, OneUnique
<1>4. CASE Contents!BySize
  BY <1>4 DEF Contents!BySize
<1> QED BY <1>2, <1>3, <1>4

LEMMA StartKeepsKeys ==
    ASSUME AllUnique(Content), Contents!Start PROVE AllUnique(Content')
<1>1. CASE Content' = [o \in DOMAIN Content \ {Running'.on} |-> Content[o]]
  BY <1>1 DEF AllUnique
<1>2. CASE Content' = Contents!New(Running'.on, <<>>)
  BY <1>2, NoneUnique DEF Contents!New, AllUnique
<1>3. CASE Content' = Content
  BY <1>3
<1> QED BY <1>1, <1>2, <1>3 DEF Contents!Start

\* A copy that begins adds no key yet.
LEMMA CopyStartsUnique ==
    ASSUME KeysOnce, Idle, heap' = heap, call'.op = "copy", NEW l,
           obj' = obj \/ (obj' = With(l, Empty) /\ l \notin DOMAIN obj)
    PROVE  KeysOnce'
<1>1. Alive = DOMAIN obj /\ Alive' = DOMAIN obj'
  BY IdleCall DEF Alive, Idle, NoCall
<1>2. ASSUME NEW m \in Alive PROVE Unique(Entries(m)')
  <2>1. obj'[m] = obj[m]
    BY <1>1 DEF With
  <2>2. Entries(m)' = Entries(m)
    BY <2>1, SameEntries
  <2> QED BY <2>2 DEF KeysOnce
<1>3. ASSUME NEW m \in Alive', m \notin Alive PROVE Unique(Entries(m)')
  <2>1. obj'[m].size = 0
    BY <1>1, <1>3 DEF With, Empty
  <2>2. DOMAIN (Entries(m)') = {}
    BY <2>1 DEF Entries
  <2> QED BY <2>2 DEF Unique
<1> QED BY <1>2, <1>3 DEF KeysOnce

\* What has been copied into an empty list is a part of the source.
LEMMA CopyKeepsKeys ==
    ASSUME NEW ow, NEW ps, Inv(heap, obj, call, ow, ps), LoopInv, KeysOnce, CopyNode, call.val = 0
    PROVE  KeysOnce'
<1>0. PICK l, m : l = call.on /\ m = call.from
  OBVIOUS
<1>1. /\ LoopInv' /\ l \in Alive /\ m \in Alive /\ l # m
      /\ call'.op = "copy" /\ call'.on = l /\ call'.from = m /\ call'.val = 0
  BY <1>0, CopyGoesOn
<1>2. PICK key, val : Puts(l, obj[l].size + 1, key, val)
  BY <1>0, CopyGoesOn
<1>3. Alive' = Alive
  BY <1>0, <1>1, <1>2, SameAlive DEF Puts, CopyNode, Doing
<1>4. \A o \in Alive \ {l} : obj'[o] = obj[o] /\ Entries(o)' = Entries(o)
  BY <1>2 DEF Puts
<1>5. PICK i \in 1 .. obj'[call'.from].size + 1 : CopiedUpTo(i)'
  BY <1>1 DEF LoopInv, CopiedOK
<1>6. /\ obj'[l].size = i - 1
      /\ \A j \in 1 .. i - 1 : Entries(l)'[j] = Entries(m)[j]
  <2>1. Entries(call.on)' = Entries(l)' /\ Entries(call.from)' = Entries(m)'
    BY <1>1 DEF Entries, Order
  <2>2. /\ obj'[l].size = 0 + (i - 1)
        /\ \A j \in 1 .. i - 1 : Entries(l)'[0 + j] = Entries(m)'[j]
    BY <1>1, <1>5, <2>1 DEF CopiedUpTo
  <2>3. Entries(m)' = Entries(m) /\ obj'[m] = obj[m] /\ obj[m].size \in Nat
    BY <1>1, <1>4, InvGives, OrderFacts
  <2>4. i \in Nat /\ \A j \in 1 .. i - 1 : 0 + j = j
    BY <1>1, <1>5, <2>3
  <2> QED BY <2>2, <2>3, <2>4
<1>7. i - 1 \in Nat /\ i - 1 <= obj[m].size /\ obj[m].size \in Nat /\ IsRow(Entries(m), obj[m].size)
  <2>1. obj'[m] = obj[m] /\ obj[m].size \in Nat /\ IsRow(Entries(m), obj[m].size)
    BY <1>1, <1>4, InvGives, OrderFacts
  <2> QED BY <1>1, <1>5, <2>1
<1>8. Unique(Entries(l)')
  <2> DEFINE t == Entries(l)'
             s == Entries(m)
             k == obj[m].size
  <2>1. DOMAIN t = 1 .. i - 1
    BY <1>6 DEF Entries
  <2>2. \A x, y \in 1 .. k : s[x].key = s[y].key => x = y
    BY <1>1, <1>7, UniqueRow DEF KeysOnce
  <2>3. \A j \in 1 .. i - 1 : t[j] = s[j]
    BY <1>6
  <2>4. i - 1 \in Nat /\ i - 1 <= k /\ k \in Nat
    BY <1>7
  <2> HIDE DEF t, s, k
  <2>5. \A x, y \in 1 .. i - 1 : t[x].key = t[y].key => x = y
    BY <2>2, <2>3, <2>4
  <2>6. Unique(t)
    BY <2>1, <2>5 DEF Unique
  <2> QED BY <2>6 DEF t
<1> QED BY <1>3, <1>4, <1>8 DEF KeysOnce

-----------------------------------------------------------------------------
\* The steps of a call that looks for a key or changes nothing, and of a list
\* that is not a List.
LEMMA StepKeepsKeys ==
    ASSUME NEW ow, NEW ps, Both(ow, ps), HeapOK(heap'), TInv, kind # "list", Step,
           call.op \notin {"copy", "push_ord"}, call'.op # "copy", KeysOnce
    PROVE  KeysOnce'
<1>1. AllUnique(Content)
  BY KeysShow DEF Both
<1>2. CASE Hidden
  BY <1>1, <1>2, KeysShowNext DEF Hidden, Both
<1>3. CASE Contents!Finish
  <2>1. call.op # "none"
    BY <1>3, RunningIs DEF Contents!Finish
  <2>2. CASE call.op = "destroy"
    <3>1. Content' = Content
      BY <1>3, <2>2, RunningIs DEF Contents!Finish
    <3> QED BY <1>1, <3>1, KeysShowNext DEF Both
  <2>3. CASE call.op # "destroy"
    <3>1. call.op \in KeyOps \cup {"get_at", "equal"}
      BY <2>1, <2>3 DEF TInv, TypedCall, OpOf, Looped, KeyOps
    <3>2. call.op \in LookOps
      BY <3>1, KeyOpsAre, Ops
    <3>3. call.on \in Alive
      BY <3>2, InvGives DEF Both
    <3>4. DOMAIN Content = Alive /\ Content[call.on] = Entries(call.on)
      BY <3>3 DEF Both, ContentIs, Copying
    <3>5. IsKeyed(Entries(call.on), obj[call.on].size)
      BY <3>3, RepeatsIs DEF Both
    <3>6. AllUnique(Content')
      BY <1>1, <1>3, <3>1, <3>3, <3>4, <3>5, FinishKeeps
    <3> QED BY <3>6, KeysShowNext DEF Both
  <2> QED BY <2>2, <2>3
<1> QED BY <1>2, <1>3, StepShows

\* No call turns into a copy.
LEMMA StepIsNoCopy ==
    ASSUME NEW ow, NEW ps, Inv(heap, obj, call, ow, ps), Step, call.op # "copy"
    PROVE  call'.op # "copy"
<1>1. IsCall(call)
  BY InvGives
<1>2. CASE Walk \/ FreeNode \/ CopyNode
  <2>1. call' = call \/ \E c, o : call' = [call EXCEPT !.cur = c, !.other = o]
                     \/ \E d : call' = [call EXCEPT !.cur = d]
    BY <1>2 DEF Walk, FreeNode, CopyNode, Fault
  <2> QED BY <1>1, <2>1 DEF IsCall
<1>3. CASE \/ Insert \/ InsertUpdate \/ Update \/ Get \/ DeleteKey \/ FrePush \/ FrePop
           \/ CortinaAppend \/ OrdPushed \/ AtIndex \/ Compared \/ Copied \/ Destroyed
  BY <1>3, CallEnds, NoCallOp
<1> QED BY <1>2, <1>3 DEF Step

LEMMA NextKeepsKeys ==
    ASSUME IInv, LoopInv, TInv, ContentIs, CopyIsWhole, IInv', ContentIs', CopyIsWhole', [Next]_vars,
           kind # "list", KeysOnce, ~ (call.op = "copy" /\ call.val > 0), call.op # "push_ord",
           ~ \E l \in DOMAIN obj, key \in Keys, val \in Given : PushBack(l, key, val)
    PROVE  KeysOnce'
<1>1. PICK ow, ps : Inv(heap, obj, call, ow, ps)
  BY DEF IInv
<1>2. HeapOK(heap')
  BY DEF IInv, Inv, Shape
<1>3. ASSUME heap' = heap, obj' = obj, Alive' = Alive PROVE KeysOnce'
  BY <1>3, SameEntries DEF KeysOnce
<1>4. CASE UNCHANGED vars
  BY <1>3, <1>4 DEF vars, Alive
<1>5. CASE crashed' # crashed
  <2>1. PICK l : Pop(l)
    BY <1>5, IInvKept
  <2> QED BY <2>1 DEF Pop
<1>6. ASSUME call.op # "copy", call'.op # "copy",
             Contents!Construct \/ Contents!Move \/ Contents!BySize \/ Contents!Start
      PROVE  KeysOnce'
  <2>1. AllUnique(Content)
    BY <1>6, KeysShow
  <2>2. AllUnique(Content')
    BY <1>6, <2>1, MoveKeepsKeys, StartKeepsKeys
  <2> QED BY <1>6, <2>2, KeysShowNext
<1>7. CASE crashed' = crashed /\ Next
  <2>1. Both(ow, ps)
    BY <1>1, <1>7 DEF Both
  <2>2. Idle => call.op = "none" /\ call.op # "copy"
    BY IdleCall DEF Idle
  <2>3. CASE Step /\ call.op = "copy"
    <3>1. CASE CopyNode
      <4>1. call.val = 0
        BY <1>1, <2>3, CopyHasSize
      <4> QED BY <1>1, <3>1, <4>1, CopyKeepsKeys
    <3>2. CASE Copied
      <4>1. heap' = heap /\ obj' = obj /\ call' = NoCall
        BY <3>2 DEF Copied
      <4>2. Alive' = Alive
        BY <2>3, <4>1, NoCallOp, SameAlive
      <4> QED BY <1>3, <4>1, <4>2
    <3> QED BY <2>3, <3>1, <3>2, Ops DEF Step, Walk, Looking, Doing, Insert, InsertUpdate, Update, Get, DeleteKey,
               FrePush, FrePop, CortinaAppend, OrdPushed, AtIndex, Compared, FreeNode, Destroyed, Missed, Found
  <2>4. CASE Step /\ call.op # "copy"
    <3>1. call'.op # "copy"
      BY <1>1, <2>4, StepIsNoCopy
    <3> QED BY <1>2, <2>1, <2>4, <3>1, StepKeepsKeys
  <2>5. ASSUME NEW l \in Objects, Construct(l) \/ Destroy(l) \/ Pop(l)
        PROVE  KeysOnce'
    <3>1. CASE Construct(l)
      <4>1. call.op # "copy" /\ call'.op # "copy"
        BY <2>2, <3>1 DEF Construct
      <4> QED BY <1>6, <2>1, <3>1, <4>1, ConstructShows
    <3>2. CASE Destroy(l)
      <4>1. call.op # "copy" /\ call'.op # "copy"
        BY <2>2, <3>2 DEF Destroy, Begin
      <4> QED BY <1>6, <2>1, <3>2, <4>1, DestroyShows
    <3>3. CASE Pop(l)
      BY <3>3 DEF Pop
    <3> QED BY <2>5, <3>1, <3>2, <3>3
  <2>6. ASSUME NEW l \in Objects, NEW from \in Objects, CopyConstruct(l, from) \/ CopyAssign(l, from)
        PROVE  KeysOnce'
    <3>1. /\ Idle /\ heap' = heap /\ call'.op = "copy"
          /\ obj' = obj \/ (obj' = With(l, Empty) /\ l \notin DOMAIN obj)
      BY <2>6 DEF CopyConstruct, CopyAssign, Begin
    <3> QED BY <3>1, CopyStartsUnique
  <2>7. ASSUME NEW l \in Objects, NEW from \in Objects, MoveConstruct(l, from) \/ MoveAssign(l, from)
        PROVE  KeysOnce'
    <3>1. call.op # "copy" /\ call'.op # "copy"
      BY <2>2, <2>7 DEF MoveConstruct, MoveAssign
    <3> QED BY <1>6, <2>1, <2>7, <3>1, MoveShows
  <2>8. ASSUME NEW l \in Objects,
               \/ \E from \in Objects : Equal(l, from)
               \/ \E key \in Keys :
                     \/ PushFront(l, key)
                     \/ \E val \in Given :
                           \/ PushBack(l, key, val)
                           \/ \E ord \in {"Asc", "Des"} : PushOrd(l, key, ord, val)
                     \/ \E op \in Searches[kind], val \in Vals \cup Given \cup {Null} : Search(op, l, key, val)
               \/ \E index \in 0 .. Cardinality(Nodes) : GetAt(l, index)
        PROVE  KeysOnce'
    <3>1. ~ \E key \in Keys : PushFront(l, key) \/ \E val \in Given : PushBack(l, key, val)
      BY DEF PushFront, PushBack
    <3>2. Idle /\ heap' = heap /\ obj' = obj /\ call'.op # "destroy"
      <4>1. kind \in Kinds
        BY DEF IInv
      <4>2. \A op \in Searches[kind] : op # "destroy"
        BY <4>1, Ops
      <4>3. call.op # "destroy" \/ ~ Idle
        BY <2>2
      <4> QED BY <2>8, <3>1, <4>2, <4>3 DEF Equal, Search, GetAt, PushOrd, Begin
    <3>3. Alive' = Alive
      BY <2>2, <3>2, SameAlive
    <3> QED BY <1>3, <3>2, <3>3
  <2> QED BY <1>7, <2>3, <2>4, <2>5, <2>6, <2>7, <2>8 DEF Next
<1> QED BY <1>4, <1>5, <1>7

\* The calls that may bring a key twice.
MayRepeat ==
    \/ call.op = "copy" /\ call.val > 0
    \/ call.op = "push_ord"
    \/ \E l \in DOMAIN obj, key \in Keys, val \in Given : PushBack(l, key, val)

(* get, update and delete_key act on the first node with a key: no list of *)
(* a class with keys gets a key twice by a call that looks for the key, by *)
(* a deletion, a move or a copy into an empty list.  What is left are the  *)
(* pushes that do not look, push_bk and push_ord, and a copy assignment to *)
(* a list that is not empty (linkedList.hpp 77, 195, 497-503).             *)
THEOREM SearchesRepeatNoKey == Spec => KeysStayUnique
<1>1. /\ IInv /\ LoopInv /\ TInv /\ ContentIs /\ CopyIsWhole
      /\ IInv' /\ ContentIs' /\ CopyIsWhole' /\ [Next]_vars
      => [kind # "list" /\ (\A l \in Alive : ~ Repeats(l)) /\ ~ (\A l \in Alive : ~ Repeats(l))'
            => MayRepeat]_vars
  BY NextKeepsKeys, KeysOnceIs, KeysOnceNext DEF MayRepeat
<1>2. IInv /\ LoopInv => ContentIs /\ CopyIsWhole
  BY ContentsAre
<1>3. Spec => [][kind # "list" /\ (\A l \in Alive : ~ Repeats(l)) /\ ~ (\A l \in Alive : ~ Repeats(l))'
                   => MayRepeat]_vars
  BY <1>1, <1>2, Invariance, LoopInvariance, TypedInvariance, PTL DEF Spec
<1> QED BY <1>3 DEF KeysStayUnique, MayRepeat
=============================================================================
