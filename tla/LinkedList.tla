------------------------------ MODULE LinkedList ------------------------------
(***************************************************************************)
(* The doubly linked lists of linkedList.hpp: the nodes on the heap, the   *)
(* list objects that point to them, and every public operation of          *)
(* KeyValueList ("map"), ListFre ("fre"), Cortina ("cortina") and List     *)
(* ("list"), push_bk and push_ord of their bases included.                 *)
(*                                                                         *)
(* Calls do not interleave here: one runs at a time.  The lists themselves *)
(* take no lock, and main.cpp does not always hold one over its calls:     *)
(* what follows where it does not is in Catalog.  A loop over the nodes    *)
(* takes one step per node it visits; whatever has no loop is one step.    *)
(* An address leaves DOMAIN heap when it is deleted, and a call that       *)
(* follows a pointer to it, or the null pointer, crashes the program.      *)
(***************************************************************************)
EXTENDS Integers, Sequences, FiniteSets

CONSTANTS
    Objects,    \* the variables and members that are lists of one kind
    Nodes,      \* bound: the addresses of nodes
    Null,       \* the null pointer
    Keys,       \* keys, and the values of a List or a ListFre: compared by <
    Vals,       \* the values of a key
    MaxCount,   \* bound: the count of a ListFre, the values of one Cortina key
    MaxGiven    \* bound: how many of these a call comes with

ASSUME ListAssumption ==
    /\ IsFiniteSet(Nodes)
    /\ Null \notin Nodes \cup Objects
    /\ Keys \subseteq Int
    /\ MaxCount \in Nat \ {0}
    /\ MaxGiven \in 1 .. MaxCount

VARIABLES
    kind,       \* the class of the lists
    obj,        \* list object -> its head, tail and size; only the living ones
    heap,       \* address -> node; only the allocated ones
    call,       \* the call that is running, or NoCall; cur is the node its loop is
                \* at, other the node of the other list or the places still to go
    answer,     \* what the last call returned, if it is over; a push or a pop
                \* without a loop leaves its name
    crashed     \* a null pointer or a freed node was followed

vars == <<kind, obj, heap, call, answer, crashed>>

Kinds == {"map", "fre", "cortina", "list"}

Empty == [head |-> Null, tail |-> Null, size |-> 0]

NoCall == [op |-> "none", on |-> Null, key |-> Null, val |-> Null, from |-> Null,
           cur |-> Null, other |-> Null]

\* What an entry of the class holds besides its key, up to a bound.
UpTo(bound) == CASE kind = "map"     -> Vals
                 [] kind = "fre"     -> 1 .. bound
                 [] kind = "cortina" -> UNION {[1 .. n -> Vals] : n \in 0 .. bound}
                 [] kind = "list"    -> {Null}

Values == UpTo(MaxCount)
Given == UpTo(MaxGiven)

\* The calls that look for a key, and those that come with a value.  Cortina
\* has the i, i_u, u and g of its base besides append.
Searches == [map     |-> {"insert", "insert_update", "update", "get", "delete_key"},
             fre     |-> {"push", "pop"},
             cortina |-> {"append", "delete_key", "insert", "insert_update", "update", "get"},
             list    |-> {}]

\* The calls whose loop looks for a node.
LookOps == (UNION {Searches[k] : k \in Kinds}) \cup {"push_ord", "get_at", "equal"}

\* The calls that come with the value of an entry; append comes with one of many.
TakeValue == {"insert", "insert_update", "update"}

Yes == <<"yes">>
No == <<"no">>
Nothing == <<"nothing">>
Value(v) == <<"value", v>>
Made(name) == <<"made", name>>

Init ==
    /\ kind \in Kinds
    /\ obj = [l \in {} |-> Empty]
    /\ heap = [n \in {} |-> Null]
    /\ call = NoCall
    /\ answer = Nothing
    /\ crashed = FALSE

-----------------------------------------------------------------------------
(* The heap.  A node is allocated as it is linked. *)

Fresh == CHOOSE n \in Nodes : n \notin DOMAIN heap

\* The node and its neighbours may be read and written.
MayLink(node) ==
    /\ node \in DOMAIN heap
    /\ {heap[node].prev, heap[node].next} \ {Null} \subseteq DOMAIN heap

MayPushBk(l) == obj[l].head = Null \/ MayLink(obj[l].tail)

Fault == crashed' = TRUE /\ UNCHANGED <<kind, obj, heap, call, answer>>

\* No node but the new one.
PushAlone(key, val) ==
    [n \in DOMAIN heap \cup {Fresh} |->
        IF n = Fresh THEN [key |-> key, val |-> val, prev |-> Null, next |-> Null]
                     ELSE heap[n]]

PushBefore(at, key, val) ==
    [n \in DOMAIN heap \cup {Fresh} |->
        IF n = Fresh THEN [key |-> key, val |-> val, prev |-> heap[at].prev, next |-> at]
        ELSE IF n = at THEN [heap[n] EXCEPT !.prev = Fresh]
        ELSE IF n = heap[at].prev THEN [heap[n] EXCEPT !.next = Fresh]
        ELSE heap[n]]

PushAfter(at, key, val) ==
    [n \in DOMAIN heap \cup {Fresh} |->
        IF n = Fresh THEN [key |-> key, val |-> val, prev |-> at, next |-> heap[at].next]
        ELSE IF n = at THEN [heap[n] EXCEPT !.next = Fresh]
        ELSE IF n = heap[at].next THEN [heap[n] EXCEPT !.prev = Fresh]
        ELSE heap[n]]

Unlinked_OneWay(node) ==
    [n \in DOMAIN heap \ {node} |->
        [key |-> heap[n].key, val |-> heap[n].val, prev |-> heap[n].prev,
         next |-> IF n = heap[node].prev THEN heap[node].next ELSE heap[n].next]]

Unlinked(node) ==
    [n \in DOMAIN heap \ {node} |->
        [key |-> heap[n].key, val |-> heap[n].val,
         prev |-> IF n = heap[node].next THEN heap[node].prev ELSE heap[n].prev,
         next |-> IF n = heap[node].prev THEN heap[node].next ELSE heap[n].next]]

\* The list object once node is gone.
Shrunk_SameSize(list, node) ==
    [head |-> IF node = list.head THEN heap[node].next ELSE list.head,
     tail |-> IF node = list.tail THEN heap[node].prev ELSE list.tail,
     size |-> list.size]

Shrunk_KeepsTail(list, node) ==
    [head |-> IF node = list.head THEN heap[node].next ELSE list.head,
     tail |-> list.tail,
     size |-> list.size - 1]

Shrunk(list, node) ==
    [head |-> IF node = list.head THEN heap[node].next ELSE list.head,
     tail |-> IF node = list.tail THEN heap[node].prev ELSE list.tail,
     size |-> list.size - 1]

Grown(list, head, tail) == [head |-> head, tail |-> tail, size |-> list.size + 1]

PushFt(l, key, val) ==
    LET list == obj[l]
        tail == IF list.head = Null THEN Fresh ELSE list.tail
    IN  /\ heap' = IF list.head = Null THEN PushAlone(key, val) ELSE PushBefore(list.head, key, val)
        /\ obj' = [obj EXCEPT ![l] = Grown(list, Fresh, tail)]

PushBk(l, key, val) ==
    LET list == obj[l]
        head == IF list.head = Null THEN Fresh ELSE list.head
    IN  /\ heap' = IF list.head = Null THEN PushAlone(key, val) ELSE PushAfter(list.tail, key, val)
        /\ obj' = [obj EXCEPT ![l] = Grown(list, head, Fresh)]

DeleteNode(l, node) ==
    /\ heap' = Unlinked(node)
    /\ obj' = [obj EXCEPT ![l] = Shrunk(obj[l], node)]

-----------------------------------------------------------------------------
(* Objects.  Room bounds the nodes: every call finds those it allocates. *)

Idle == call = NoCall /\ ~ crashed

Room(n) == Cardinality(Nodes \ DOMAIN heap) >= n

Begin(op, l, key, val, from, cur, other) ==
    /\ call' = [op |-> op, on |-> l, key |-> key, val |-> val, from |-> from,
                cur |-> cur, other |-> other]
    /\ answer' = Nothing

With(l, list) == [o \in DOMAIN obj \cup {l} |-> IF o = l THEN list ELSE obj[o]]

Done(name) == answer' = Made(name) /\ UNCHANGED <<kind, call, crashed>>

Construct(l) ==
    /\ Idle /\ l \notin DOMAIN obj
    /\ obj' = With(l, Empty)
    /\ answer' = Nothing
    /\ UNCHANGED <<kind, heap, call, crashed>>

\* The source is copied node by node onto the end of the target; val is the
\* size that had before.
CopyConstruct(l, from) ==
    /\ Idle /\ l \notin DOMAIN obj /\ from \in DOMAIN obj /\ Room(obj[from].size)
    /\ obj' = With(l, Empty)
    /\ Begin("copy", l, Null, 0, from, obj[from].head, Null)
    /\ UNCHANGED <<kind, heap, crashed>>

\* What the target held before is kept.  A list is not assigned to itself.
CopyAssign(l, from) ==
    /\ Idle /\ kind \in {"map", "list"} /\ {l, from} \subseteq DOMAIN obj /\ l # from
    /\ Room(obj[from].size)
    /\ Begin("copy", l, Null, obj[l].size, from, obj[from].head, Null)
    /\ UNCHANGED <<kind, obj, heap, crashed>>

Moved(l, from) ==
    [o \in DOMAIN obj \cup {l} |->
        IF o = l THEN obj[from] ELSE IF o = from THEN Empty ELSE obj[o]]

\* List declares a copy constructor only: it is never moved.
MoveConstruct(l, from) ==
    /\ Idle /\ kind # "list" /\ l \notin DOMAIN obj /\ from \in DOMAIN obj
    /\ obj' = Moved(l, from)
    /\ answer' = Nothing
    /\ UNCHANGED <<kind, heap, call, crashed>>

\* The nodes of the target are not deleted.
MoveAssign(l, from) ==
    /\ Idle /\ kind = "map" /\ {l, from} \subseteq DOMAIN obj /\ l # from
    /\ obj' = Moved(l, from)
    /\ answer' = Nothing
    /\ UNCHANGED <<kind, heap, call, crashed>>

Destroy(l) ==
    /\ Idle /\ l \in DOMAIN obj
    /\ Begin("destroy", l, Null, Null, Null, IF obj[l].size > 0 THEN obj[l].head ELSE Null, Null)
    /\ UNCHANGED <<kind, obj, heap, crashed>>

-----------------------------------------------------------------------------
(* Calls without a loop. *)

PushFront(l, key) ==
    /\ Idle /\ kind = "list" /\ l \in DOMAIN obj /\ Room(1)
    /\ IF obj[l].head = Null \/ MayLink(obj[l].head)
       THEN PushFt(l, key, Null) /\ Done("push_front")
       ELSE Fault

\* push_back of a List, push_bk of KeyValueList and Cortina.
PushBack(l, key, val) ==
    /\ Idle /\ kind # "fre" /\ l \in DOMAIN obj /\ Room(1) /\ val \in Given
    /\ IF MayPushBk(l)
       THEN PushBk(l, key, val) /\ Done("push_back")
       ELSE Fault

\* pop_front deletes the tail, as pop_back does.
Pop(l) ==
    /\ Idle /\ kind = "list" /\ l \in DOMAIN obj
    /\ IF MayLink(obj[l].tail)
       THEN DeleteNode(l, obj[l].tail) /\ \E name \in {"pop_front", "pop_back"} : Done(name)
       ELSE Fault

-----------------------------------------------------------------------------
(* Calls with a loop over the nodes. *)

\* The values an update leaves: List's operator= appends to the list there.
Assigned(old, new) == IF kind = "cortina" THEN old \o new ELSE new

\* Bound: the count, or the values of a Cortina key, that the call may leave.
MayGrow(op, key, val) ==
    \A n \in DOMAIN heap : heap[n].key = key =>
        /\ op = "push" => heap[n].val < MaxCount
        /\ op = "append" => Len(heap[n].val) < MaxCount
        /\ op \in {"insert_update", "update"} => Assigned(heap[n].val, val) \in Values

Search(op, l, key, val) ==
    /\ Idle /\ l \in DOMAIN obj /\ Room(1)
    /\ val \in (CASE op = "append"    -> Vals
                  [] op \in TakeValue -> Given
                  [] OTHER            -> {Null})
    /\ MayGrow(op, key, val)
    /\ Begin(op, l, key, val, Null, obj[l].head, Null)
    /\ UNCHANGED <<kind, obj, heap, crashed>>

\* The value that is compared is the key.
PushOrd(l, key, ord, val) ==
    /\ Idle /\ l \in DOMAIN obj /\ Room(1) /\ val \in Given
    /\ Begin("push_ord", l, key, <<ord, val>>, Null, obj[l].head, Null)
    /\ UNCHANGED <<kind, obj, heap, crashed>>

\* List and ListFre compare the index with the size first.
GetAt(l, index) ==
    /\ Idle /\ l \in DOMAIN obj
    /\ IF kind \in {"list", "fre"} /\ index >= obj[l].size
       THEN answer' = Nothing /\ UNCHANGED call
       ELSE Begin("get_at", l, Null, index, Null, obj[l].head, index)
    /\ UNCHANGED <<kind, obj, heap, crashed>>

Equal(l, from) ==
    /\ Idle /\ kind = "map" /\ {l, from} \subseteq DOMAIN obj
    /\ IF obj[l].size # obj[from].size
       THEN answer' = No /\ UNCHANGED call
       ELSE Begin("equal", l, Null, Null, from, obj[l].head, obj[from].head)
    /\ UNCHANGED <<kind, obj, heap, crashed>>

-----------------------------------------------------------------------------
(* The loops, and what follows them. *)

Doing(ops) == call.op \in ops /\ ~ crashed

Sought_BeforeEqual ==
    LET node == heap[call.cur]
    IN  CASE call.op = "push_ord" -> IF call.val[1] = "Asc" THEN node.key >= call.key
                                                            ELSE node.key <= call.key
          [] call.op = "get_at"   -> call.other = 0
          [] call.op = "equal"    -> \/ node.key # heap[call.other].key
                                     \/ node.val # heap[call.other].val
          [] OTHER                -> node.key = call.key

\* The node the loop is at is the one it looks for.
Sought ==
    LET node == heap[call.cur]
    IN  CASE call.op = "push_ord" -> IF call.val[1] = "Asc" THEN node.key > call.key
                                                            ELSE node.key < call.key
          [] call.op = "get_at"   -> call.other = 0
          [] call.op = "equal"    -> \/ node.key # heap[call.other].key
                                     \/ node.val # heap[call.other].val
          [] OTHER                -> node.key = call.key

Looking == Doing(LookOps)

Follows == {call.cur} \cup (IF call.op = "equal" THEN {call.other} ELSE {})

Walk ==
    /\ Looking /\ call.cur # Null
    /\ IF ~ (Follows \subseteq DOMAIN heap) THEN Fault
       ELSE /\ ~ Sought
            /\ call' = [call EXCEPT !.cur = heap[call.cur].next,
                                    !.other = CASE call.op = "equal"  -> heap[@].next
                                                [] call.op = "get_at" -> @ - 1
                                                [] OTHER              -> @]
            /\ UNCHANGED <<kind, obj, heap, answer, crashed>>

Missed(op) == Doing({op}) /\ call.cur = Null

Found(op) ==
    /\ Doing({op}) /\ Follows \subseteq DOMAIN heap
    /\ Sought

Return(result) == call' = NoCall /\ answer' = result /\ UNCHANGED <<kind, crashed>>

Same == UNCHANGED <<obj, heap>>

Changed(val) == heap' = [heap EXCEPT ![call.cur].val = val] /\ UNCHANGED obj

\* The value is linked behind the last node.
Push(val, result) ==
    IF MayPushBk(call.on)
    THEN PushBk(call.on, call.key, val) /\ Return(result)
    ELSE Fault

Insert ==
    \/ Missed("insert") /\ Push(call.val, Yes)
    \/ Found("insert") /\ Same /\ Return(No)

InsertUpdate_Appends ==
    \/ Missed("insert_update") /\ Push(call.val, Yes)
    \/ Found("insert_update") /\ Push(call.val, No)

InsertUpdate ==
    \/ Missed("insert_update") /\ Push(call.val, Yes)
    \/ Found("insert_update") /\ Changed(Assigned(heap[call.cur].val, call.val)) /\ Return(No)

Update ==
    \/ Missed("update") /\ Same /\ Return(No)
    \/ Found("update") /\ Changed(Assigned(heap[call.cur].val, call.val)) /\ Return(Yes)

Get ==
    \/ Missed("get") /\ Same /\ Return(Nothing)
    \/ Found("get") /\ Same /\ Return(Value(heap[call.cur].val))

Drop(result) ==
    IF MayLink(call.cur) THEN DeleteNode(call.on, call.cur) /\ Return(result)
    ELSE Fault

DeleteKey ==
    \/ Missed("delete_key") /\ Same /\ Return(No)
    \/ Found("delete_key") /\ Drop(Yes)

\* ListFre: a value and how often it was pushed.
FrePush ==
    \/ Missed("push") /\ Push(1, Nothing)
    \/ Found("push") /\ Changed(heap[call.cur].val + 1) /\ Return(Nothing)

FrePop ==
    \/ Missed("pop") /\ Same /\ Return(Nothing)
    \/ /\ Found("pop")
       /\ IF heap[call.cur].val > 1 THEN Changed(heap[call.cur].val - 1) /\ Return(Nothing)
          ELSE Drop(Nothing)

\* Cortina: append, insert and insert_append are the same code.
CortinaAppend ==
    \/ Missed("append") /\ Push(<<call.val>>, Nothing)
    \/ Found("append") /\ Changed(Append(heap[call.cur].val, call.val)) /\ Return(Nothing)

LinkBefore_HeadStays(l, node, key, val) ==
    /\ heap' = PushBefore(node, key, val)
    /\ obj' = [obj EXCEPT ![l] = Grown(obj[l], obj[l].head, obj[l].tail)]

\* push_before leaves the head to push_ord.
LinkBefore(l, node, key, val) ==
    LET head == IF node = obj[l].head THEN Fresh ELSE obj[l].head
    IN  /\ heap' = PushBefore(node, key, val)
        /\ obj' = [obj EXCEPT ![l] = Grown(obj[l], head, obj[l].tail)]

OrdPushed ==
    \/ Missed("push_ord") /\ Push(call.val[2], Nothing)
    \/ /\ Found("push_ord")
       /\ IF MayLink(call.cur)
          THEN LinkBefore(call.on, call.cur, call.key, call.val[2]) /\ Return(Nothing)
          ELSE Fault

AtIndex ==
    \/ Missed("get_at") /\ Same /\ Return(Nothing)
    \/ Found("get_at") /\ Same /\ Return(Value(heap[call.cur].key))

Compared ==
    \/ Missed("equal") /\ Same /\ Return(Yes)
    \/ Found("equal") /\ Same /\ Return(No)

CopyNode ==
    /\ Doing({"copy"}) /\ call.cur # Null
    /\ IF call.cur \in DOMAIN heap /\ MayPushBk(call.on)
       THEN /\ PushBk(call.on, heap[call.cur].key, heap[call.cur].val)
            /\ call' = [call EXCEPT !.cur = heap[@].next]
            /\ UNCHANGED <<kind, answer, crashed>>
       ELSE Fault

Copied ==
    /\ Doing({"copy"}) /\ call.cur = Null
    /\ call' = NoCall
    /\ UNCHANGED <<kind, obj, heap, answer, crashed>>

FreeNode ==
    /\ Doing({"destroy"}) /\ call.cur # Null
    /\ IF call.cur \in DOMAIN heap
       THEN /\ heap' = [n \in DOMAIN heap \ {call.cur} |-> heap[n]]
            /\ call' = [call EXCEPT !.cur = heap[@].next]
            /\ UNCHANGED <<kind, obj, answer, crashed>>
       ELSE Fault

Destroyed ==
    /\ Doing({"destroy"}) /\ call.cur = Null
    /\ obj' = [o \in DOMAIN obj \ {call.on} |-> obj[o]]
    /\ call' = NoCall
    /\ UNCHANGED <<kind, heap, answer, crashed>>

-----------------------------------------------------------------------------
Step ==
    \/ Walk \/ Insert \/ InsertUpdate \/ Update \/ Get \/ DeleteKey \/ FrePush \/ FrePop
    \/ CortinaAppend \/ OrdPushed \/ AtIndex \/ Compared \/ CopyNode \/ Copied
    \/ FreeNode \/ Destroyed

Next ==
    \/ Step
    \/ \E l \in Objects :
        \/ Construct(l) \/ Destroy(l) \/ Pop(l)
        \/ \E from \in Objects :
              \/ CopyConstruct(l, from) \/ CopyAssign(l, from)
              \/ MoveConstruct(l, from) \/ MoveAssign(l, from) \/ Equal(l, from)
        \/ \E key \in Keys :
              \/ PushFront(l, key)
              \/ \E val \in Given :
                    \/ PushBack(l, key, val)
                    \/ \E ord \in {"Asc", "Des"} : PushOrd(l, key, ord, val)
              \/ \E op \in Searches[kind], val \in Vals \cup Given \cup {Null} :
                    Search(op, l, key, val)
        \/ \E index \in 0 .. Cardinality(Nodes) : GetAt(l, index)

Spec == Init /\ [][Next]_vars
=============================================================================
