----------------------------- MODULE ListContents -----------------------------
(***************************************************************************)
(* What the lists of linkedList.hpp promise: each is a sequence of keys    *)
(* with their values, and a call takes effect in one step, the one that    *)
(* returns its answer.  Two of them do not do what their names say, here   *)
(* as in the code: pop_front, and the assignments of lists, which append.  *)
(***************************************************************************)
EXTENDS Integers, Sequences

CONSTANTS Objects, Null, Keys

VARIABLES
    kind,       \* the class of the lists
    content,    \* list object -> its entries in order; only the living ones
    doing,      \* the call that has begun, or Free
    answer

vars == <<kind, content, doing, answer>>

Free == [op |-> "none", on |-> Null, key |-> Null, val |-> Null, from |-> Null]

Init ==
    /\ kind \in {"map", "fre", "cortina", "list"}
    /\ content = [l \in {} |-> <<>>]
    /\ doing = Free
    /\ answer = <<"nothing">>

Entry(key, val) == [key |-> key, val |-> val]

Has(s, key) == \E i \in DOMAIN s : s[i].key = key

\* The first entry with the key: the one the calls are about.
At(s, key) == CHOOSE i \in DOMAIN s : s[i].key = key /\ \A j \in 1 .. i - 1 : s[j].key # key

Without(s, i) == SubSeq(s, 1, i - 1) \o SubSeq(s, i + 1, Len(s))

Put(s, i, e) == SubSeq(s, 1, i - 1) \o <<e>> \o SubSeq(s, i, Len(s))

\* The place of key among keys in order: behind those equal to it.
Place(s, key, ord) ==
    LET goesBefore(i) == IF ord = "Asc" THEN s[i].key > key ELSE s[i].key < key
    IN  CHOOSE i \in 1 .. Len(s) + 1 :
            /\ i \in DOMAIN s => goesBefore(i)
            /\ \A j \in 1 .. i - 1 : ~ goesBefore(j)

-----------------------------------------------------------------------------
New(l, s) == [o \in DOMAIN content \cup {l} |-> IF o = l THEN s ELSE content[o]]

Construct ==
    /\ doing = Free
    /\ \E l \in Objects \ DOMAIN content : content' = New(l, <<>>)
    /\ answer' = <<"nothing">>
    /\ UNCHANGED doing

\* The entries change their owner; the entries of the target are forgotten.
Move ==
    /\ doing = Free
    /\ \E l \in Objects : \E from \in DOMAIN content \ {l} :
          content' = [New(l, content[from]) EXCEPT ![from] = <<>>]
    /\ answer' = <<"nothing">>
    /\ UNCHANGED doing

Makes(name) == doing = Free /\ answer' = <<"made", name>> /\ UNCHANGED doing

PushFront ==
    /\ Makes("push_front")
    /\ \E l \in DOMAIN content, key \in Keys :
          content' = [content EXCEPT ![l] = <<Entry(key, Null)>> \o @]

PushBack ==
    /\ Makes("push_back")
    /\ \E l \in DOMAIN content' :
          LET s == content'[l]
          IN  s # <<>> /\ content' = [content EXCEPT ![l] = Append(@, s[Len(s)])]

\* pop_front does not do what its name says: it takes the last entry too.
Pop ==
    /\ Makes("pop_back") \/ Makes("pop_front")
    /\ \E l \in DOMAIN content :
          content[l] # <<>> /\ content' = [content EXCEPT ![l] = SubSeq(@, 1, Len(@) - 1)]

Start ==
    /\ doing = Free
    /\ doing'.op # "none"
    /\ CASE doing'.op = "destroy" ->
              content' = [o \in DOMAIN content \ {doing'.on} |-> content[o]]
         [] doing'.op = "copy" /\ doing'.on \notin DOMAIN content ->
              content' = New(doing'.on, <<>>)
         [] OTHER -> UNCHANGED content
    /\ answer' = <<"nothing">>

\* A question that the sizes answer is answered at once.
BySize ==
    /\ doing = Free
    /\ \/ /\ answer' = <<"no">>
          /\ \E l, from \in DOMAIN content : Len(content[l]) # Len(content[from])
       \/ answer' = <<"nothing">>
    /\ UNCHANGED <<content, doing>>

-----------------------------------------------------------------------------
Tells(result) == answer' = result /\ UNCHANGED content

\* The value of a Cortina is a List, to which an assignment appends.
Assigned(old, new) == IF kind = "cortina" THEN old \o new ELSE new

Becomes(s, result) == content' = [content EXCEPT ![doing.on] = s] /\ answer' = result

\* The calls that look for a key, where it is and where it is not.
OnFound(s, i) ==
    CASE doing.op = "insert"        -> Tells(<<"no">>)
      [] doing.op = "insert_update" -> Becomes([s EXCEPT ![i].val = Assigned(@, doing.val)], <<"no">>)
      [] doing.op = "update"        -> Becomes([s EXCEPT ![i].val = Assigned(@, doing.val)], <<"yes">>)
      [] doing.op = "get"           -> Tells(<<"value", s[i].val>>)
      [] doing.op = "delete_key"    -> Becomes(Without(s, i), <<"yes">>)
      [] doing.op = "push"   -> Becomes([s EXCEPT ![i].val = @ + 1], <<"nothing">>)
      [] doing.op = "pop"    -> Becomes(IF s[i].val > 1 THEN [s EXCEPT ![i].val = @ - 1]
                                                        ELSE Without(s, i), <<"nothing">>)
      [] doing.op = "append" -> Becomes([s EXCEPT ![i].val = Append(@, doing.val)], <<"nothing">>)

OnMissing(s) ==
    LET with(val, result) == Becomes(Append(s, Entry(doing.key, val)), result)
    IN  CASE doing.op \in {"insert", "insert_update"} -> with(doing.val, <<"yes">>)
          [] doing.op \in {"update", "delete_key"}    -> Tells(<<"no">>)
          [] doing.op \in {"get", "pop"}              -> Tells(<<"nothing">>)
          [] doing.op = "push"                        -> with(1, <<"nothing">>)
          [] doing.op = "append"                      -> with(<<doing.val>>, <<"nothing">>)

\* What was in the target of a copy stays in front.
Finish ==
    /\ doing.op # "none"
    /\ doing' = Free
    /\ IF doing.op = "destroy" THEN UNCHANGED <<content, answer>>
       ELSE LET s == content[doing.on]
            IN  CASE doing.op = "copy" ->
                        content' = [content EXCEPT ![doing.on] = s \o content[doing.from]]
                        /\ UNCHANGED answer
                  [] doing.op = "push_ord" ->
                        Becomes(Put(s, Place(s, doing.key, doing.val[1]),
                                    Entry(doing.key, doing.val[2])), <<"nothing">>)
                  [] doing.op = "get_at" ->
                        Tells(IF doing.val < Len(s) THEN <<"value", s[doing.val + 1].key>>
                                                    ELSE <<"nothing">>)
                  [] doing.op = "equal" ->
                        Tells(IF s = content[doing.from] THEN <<"yes">> ELSE <<"no">>)
                  [] OTHER -> IF Has(s, doing.key) THEN OnFound(s, At(s, doing.key))
                                                   ELSE OnMissing(s)

Next ==
    /\ Construct \/ Move \/ PushFront \/ PushBack \/ Pop \/ Start \/ BySize \/ Finish
    /\ UNCHANGED kind

Spec == Init /\ [][Next]_vars
=============================================================================
