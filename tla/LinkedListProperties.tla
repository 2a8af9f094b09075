------------------------- MODULE LinkedListProperties -------------------------
(***************************************************************************)
(* What should hold of the lists of linkedList.hpp.                        *)
(***************************************************************************)
EXTENDS LinkedList

(* The variables hold what the C++ declarations allow. *)
TypeOK ==
    LET Pointers == Nodes \cup {Null}
    IN  /\ kind \in Kinds
        /\ DOMAIN obj \subseteq Objects
        /\ \A l \in DOMAIN obj :
              obj[l] \in [head : Pointers, tail : Pointers, size : 0 .. Cardinality(Nodes)]
        /\ DOMAIN heap \subseteq Nodes
        /\ \A n \in DOMAIN heap :
              /\ heap[n].key \in Keys /\ heap[n].val \in Values
              /\ {heap[n].prev, heap[n].next} \subseteq Pointers
        /\ call.cur \in Pointers
        /\ call # NoCall => call.on \in DOMAIN obj

(* A list that is being destroyed is only walked to be freed. *)
Alive == DOMAIN obj \ (IF call.op = "destroy" THEN {call.on} ELSE {})

(* The nodes of every list hang together both ways: there is an order of   *)
(* the nodes of each list, from its head to its tail, as many as its size  *)
(* says, in which next and prev are each other's inverse, and no node is   *)
(* in two lists.  It must survive every push, push_before at the head,     *)
(* deletion at either end or in the middle, copy, move and destructor.     *)
WellLinkedBy(owner, pos) ==
    /\ \A n \in DOMAIN heap : owner[n] \in Alive =>
          LET list == obj[owner[n]]
              isAt(m, p) == m \in DOMAIN heap /\ owner[m] = owner[n] /\ pos[m] = p
          IN  /\ pos[n] \in 1 .. list.size
              /\ IF pos[n] = list.size THEN heap[n].next = Null ELSE isAt(heap[n].next, pos[n] + 1)
              /\ IF pos[n] = 1 THEN heap[n].prev = Null ELSE isAt(heap[n].prev, pos[n] - 1)
    /\ \A n, m \in DOMAIN heap :
          owner[n] = owner[m] /\ owner[n] \in Alive /\ pos[n] = pos[m] => n = m
    /\ \A l \in Alive :
          LET isAt(m, p) == m \in DOMAIN heap /\ owner[m] = l /\ pos[m] = p
          IN  IF obj[l].size = 0 THEN obj[l].head = Null /\ obj[l].tail = Null
              ELSE isAt(obj[l].head, 1) /\ isAt(obj[l].tail, obj[l].size)

\* The nodes in the order the next pointers give, from an address on.
From(address) ==
    LET node[i \in 1 .. Cardinality(Nodes) + 1] ==
            IF i = 1 THEN address
            ELSE IF node[i - 1] \in DOMAIN heap THEN heap[node[i - 1]].next ELSE Null
    IN  node

NodesFrom(address) == {From(address)[i] : i \in 1 .. Cardinality(Nodes)} \cap DOMAIN heap

NodesOf(l) == NodesFrom(obj[l].head)

\* The list that leads to each node, and the place of each node in it.
Owners == [n \in DOMAIN heap |-> IF \E l \in Alive : n \in NodesOf(l)
                                 THEN CHOOSE l \in Alive : n \in NodesOf(l) ELSE Null]

Places(owner) ==
    [n \in DOMAIN heap |->
        IF owner[n] = Null THEN 0
        ELSE LET order == From(obj[owner[n]].head) IN CHOOSE i \in DOMAIN order : order[i] = n]

WellLinked == \E owner \in {Owners} : \E pos \in {Places(owner)} : WellLinkedBy(owner, pos)

(* No call follows a null pointer or a pointer to a deleted node, whatever *)
(* came before it: only the pops of an empty List do, which check nothing. *)
FaultsOnlyOnEmptyPop ==
    [][crashed' # crashed => \E l \in DOMAIN obj : Pop(l) /\ obj[l].size = 0]_vars

\* The allocated nodes that nothing leads to, not even a running destructor.
HeldByLists == UNION {NodesOf(l) : l \in Alive}

HeldByDestructor == IF call.op = "destroy" THEN NodesFrom(call.cur) ELSE {}

Leaked == DOMAIN heap \ (HeldByLists \cup HeldByDestructor)

(* Every node is deleted in the end, by a destructor or a deletion, and    *)
(* none twice: the only call that loses nodes is the move assignment of    *)
(* KeyValueList to a list that is not empty.                               *)
OnlyMoveAssignLeaks ==
    [][Leaked' \subseteq Leaked \/ \E l, from \in DOMAIN obj : MoveAssign(l, from) /\ obj[l].size > 0]_vars

Repeats(l) == \E n, m \in NodesOf(l) : n # m /\ heap[n].key = heap[m].key

(* get, update and delete_key act on the first node with a key, so a map   *)
(* must not hold a key twice.  No call that looks for a key brings a       *)
(* second one, nor does a move, a deletion or a copy into an empty list;   *)
(* what can are the public pushes that do not look, push_bk and push_ord,  *)
(* and a copy assignment to a list that is not empty: it appends instead   *)
(* of replacing.                                                           *)
KeysStayUnique ==
    [][kind # "list" /\ (\A l \in Alive : ~ Repeats(l)) /\ ~ (\A l \in Alive : ~ Repeats(l))'
        => \/ call.op = "copy" /\ call.val > 0
           \/ call.op = "push_ord"
           \/ \E l \in DOMAIN obj, key \in Keys, val \in Given : PushBack(l, key, val)]_vars

-----------------------------------------------------------------------------
(* The nodes are an implementation of plain sequences.  What is copied     *)
(* into a list shows when the copy is complete.                            *)

Shown(l) ==
    LET order == From(obj[l].head)
        length == IF call.op = "copy" /\ call.on = l THEN call.val ELSE obj[l].size
    IN  [i \in 1 .. length |->
            IF order[i] \in DOMAIN heap
            THEN [key |-> heap[order[i]].key, val |-> heap[order[i]].val] ELSE Null]

Content == [l \in Alive |-> Shown(l)]

\* The call as its caller sees it.
Running == [op |-> call.op, on |-> call.on, key |-> call.key, val |-> call.val, from |-> call.from]

Contents == INSTANCE ListContents WITH content <- Content, doing <- Running

(* Every call but one does to the sequence of entries, and answers, what   *)
(* its name says: insert keeps an entry that is there, push_ord puts a     *)
(* value behind those it must not precede, delete_key takes the first      *)
(* entry of its key and leaves the order of the others, get_at counts from *)
(* the head.  pop_front does not: it takes the last entry.                 *)
ContentsAreKept == Contents!Spec
=============================================================================
